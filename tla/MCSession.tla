----------------------------- MODULE MCSession -----------------------------
(***************************************************************************)
(* Two calls, of one end or of both.  What one end queues is over its      *)
(* limit with any frame that has a value in it, which an empty queue still *)
(* takes; the other end's queue takes one such frame and two short ones.   *)
(***************************************************************************)
EXTENDS Session

CONSTANTS host, far

Sizes == [op \in {"call", "return", "cancel", "release"} |->
            IF op \in {"call", "return"} THEN 3 ELSE 1]
Limits == [s \in {host, far} |-> IF s = host THEN 2 ELSE 5]
=============================================================================
