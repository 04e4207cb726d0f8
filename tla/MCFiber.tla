------------------------------ MODULE MCFiber ------------------------------
(***************************************************************************)
(* Fiber on small instances: two bindings, and three calls at most.        *)
(***************************************************************************)
EXTENDS Fiber

CONSTANTS c1, c2, c3, q1, q2

(* the service is there from the start *)
Bound == [quad |-> q1, by |-> NoTask, removing |-> FALSE]

Job(x, y, z) == [c \in {c1, c2, c3} |-> CASE c = c1 -> x [] c = c2 -> y [] OTHER -> z]

(* mounted by a parent that may have stopped *)
Orphans == {Job("restart", "settle", "withdraw"), Job("restart", "settle", "settle")}

(* stops of all kinds racing with restarts and with a settle *)
Stops ==
  {Job("dispose", "restart", "settle"), Job("dispose", "restart", "restart"),
   Job("dispose", "dispose", "restart"), Job("shutdown", "restart", "settle"),
   Job("shutdown", "dispose", "restart"), Job("shutdown", "shutdown", "dispose")}

(* the dependency withdrawn, and provided again, around them *)
Changes ==
  {Job("withdraw", "provide", "dispose"), Job("withdraw", "provide", "restart"),
   Job("withdraw", "provide", "shutdown"), Job("withdraw", "provide", "withdraw")}
    \cup Orphans

(* a withdrawal waiting for a fiber that stops, restarts or never starts *)
Waits ==
  {Job("withdraw", "restart", "settle"), Job("withdraw", "shutdown", "settle"),
   Job("withdraw", "dispose", "restart")}

StopsAndWaits == Stops \cup Waits

(* one way each into what the documentation promises and the code does not keep *)
OrphanDispose == {Job("dispose", "settle", "settle")}

Overtaken == {Job("dispose", "restart", "settle")}

Reprovided == {Job("withdraw", "provide", "settle")}

Closing == {Job("withdraw", "shutdown", "settle")}

NoWork == {}
=============================================================================
