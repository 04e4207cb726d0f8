----------------------------- MODULE MCSubtree -----------------------------
EXTENDS Subtree, TLC

CONSTANTS root, a, b

Tree == {root, a, b}
ParentOf == (a :> root) @@ (b :> a)

Do(op, n) == [op |-> op, at |-> n]

(* Two or three calls that meet: a stop above, a stop below, a restart. *)
Meetings ==
  {<<Do("shutdown", a), Do(o, b)>> : o \in {"dispose", "shutdown"}}
  \cup {<<Do("shutdown", root), Do("dispose", root), Do("restart", root)>>}
  \cup {<<Do("shutdown", root), Do("shutdown", a)>>}
  \cup {<<Do("dispose", a), Do(o, b)>> : o \in {"shutdown", "restart"}}
  \cup {<<Do("restart", a), Do("shutdown", a)>>}
=============================================================================
