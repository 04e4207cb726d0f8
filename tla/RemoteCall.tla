---------------------------- MODULE RemoteCall ----------------------------
(***************************************************************************)
(* What a session promises of its calls: the far end serves a call that   *)
(* was made, and serves it once; the caller learns a result only when the  *)
(* far end has come to one; and a call that is over stays over.            *)
(***************************************************************************)
CONSTANT Call

VARIABLES
  asked,    \* what the caller knows: "no", "waiting", "replied", "failed" or "cancelled"
  served    \* what the far end did: "no", "serving", "answered" or "dropped"

vars == <<asked, served>>

Init ==
  /\ asked = [c \in Call |-> "no"]
  /\ served = [c \in Call |-> "no"]

Ask(c) ==
  /\ asked[c] = "no"
  /\ asked' = [asked EXCEPT ![c] = "waiting"]
  /\ UNCHANGED served

(* also of a call its caller has given up, which nothing tells the far end *)
Serve(c) ==
  /\ asked[c] # "no"
  /\ served[c] = "no"
  /\ served' = [served EXCEPT ![c] = "serving"]
  /\ UNCHANGED asked

Answer(c) ==
  /\ served[c] = "serving"
  /\ served' = [served EXCEPT ![c] = "answered"]
  /\ UNCHANGED asked

Learn(c) ==
  /\ asked[c] = "waiting"
  /\ served[c] = "answered"
  /\ asked' = [asked EXCEPT ![c] = "replied"]
  /\ UNCHANGED served

Cancel(c) ==
  /\ asked[c] = "waiting"
  /\ asked' = [asked EXCEPT ![c] = "cancelled"]
  /\ UNCHANGED served

(* The end of a session fails the calls that wait on it and drops those it  *)
(* serves, some of them or all.                                            *)
End ==
  \E lost \in SUBSET {c \in Call : asked[c] = "waiting"},
     dropped \in SUBSET {c \in Call : asked[c] # "no" /\ served[c] \in {"no", "serving"}} :
    /\ asked' = [c \in Call |-> IF c \in lost THEN "failed" ELSE asked[c]]
    /\ served' = [c \in Call |-> IF c \in dropped THEN "dropped" ELSE served[c]]

Next ==
  \/ \E c \in Call : Ask(c) \/ Serve(c) \/ Answer(c) \/ Learn(c) \/ Cancel(c)
  \/ End

Spec == Init /\ [][Next]_vars
=============================================================================
