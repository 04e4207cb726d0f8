---------------------------- MODULE MCSyncWaits ----------------------------
(***************************************************************************)
(* SyncWaits with runtimes that are not reentrant (n1, n2), one that is    *)
(* (p), and one with a thread for each call (g).                           *)
(***************************************************************************)
EXTENDS SyncWaits

CONSTANTS n1, n2, p, g

None == [k \in Kinds |-> 0]
Calls(wakes, n) == [None EXCEPT !.wake = wakes, !.sync = n]
Case(rs, may) == [there |-> rs, may |-> may]

(* Calls that wait, between two sessions or three, with a call of the     *)
(* host's own or one back home; calls that nobody waits for, and one given *)
(* up; and sessions that end                                               *)
Mixed ==
  {Case({n1, n2, p}, Calls(3, 3)),
   Case({n1, n2, g}, Calls(2, 3)),
   Case({n1, p}, [Calls(1, 3) EXCEPT !.host = 1]),
   Case({n1, p}, [Calls(2, 2) EXCEPT !.hostAsync = 1]),
   Case({n1, p}, [Calls(2, 3) EXCEPT !.home = 1]),
   Case({n1, n2, p}, [Calls(1, 2) EXCEPT !.async = 1]),
   Case({n1, p}, [Calls(1, 2) EXCEPT !.hostAsync = 1, !.drop = 1]),
   Case({n1, n2, p}, [Calls(2, 2) EXCEPT !.end = 1])}

(* A call that nobody waits for, handed to a thread that waits *)
Pumped == {Case({n1, p}, [Calls(1, 3) EXCEPT !.async = 1])}
=============================================================================
