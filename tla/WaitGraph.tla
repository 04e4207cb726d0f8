----------------------------- MODULE WaitGraph -----------------------------
(***************************************************************************)
(* The host's table of the calls it forwarded between sessions, and the    *)
(* check for the cycle of synchronous waits that one more would close.     *)
(*                                                                         *)
(* A call is <<session, side, number>>: on which session it travels, which *)
(* side of it made it ("host" or "runtime") and its number there.  On the  *)
(* wire a chain writes a call of its own session with the tag Native.      *)
(***************************************************************************)
EXTENDS Naturals, Sequences, FiniteSets

CONSTANTS
  Runtimes,    \* the sessions, each with the runtime at its far end
  Stacked,     \* those that declared sync-stack: one thread, one stack
  Reentrant    \* those that declared reentrant-sync

Native == "native"

ASSUME RuntimesAssumption ==
  /\ Stacked \subseteq Runtimes /\ Reentrant \subseteq Runtimes
  /\ Native \notin Runtimes

Tag(call) == call[1]
Number(call) == call[3]
Tagged(t, call) == <<t, call[2], call[3]>>

RebaseVerbatim(path, from, to) == path   \* mutant of Rebase

(* A chain of session from, for a frame on session to. *)
Rebase(path, from, to) ==
  [i \in DOMAIN path |->
     IF Tag(path[i]) = to THEN Tagged(Native, path[i])
     ELSE IF Tag(path[i]) = Native THEN Tagged(from, path[i]) ELSE path[i]]

(* The calls a chain names that is sent on session dst. *)
Decode(path, dst) ==
  [i \in DOMAIN path |-> IF Tag(path[i]) = Native THEN Tagged(dst, path[i]) ELSE path[i]]

-----------------------------------------------------------------------------
(* The graph over the hops and entries in progress, all.  A hop has the    *)
(* call id, the session src its caller is on with the caller's id sid,     *)
(* the chain that ends with id, and entry: nobody waits for it.            *)

NoSession == "none"
NoCall == <<NoSession, "none", 0>>

Entries(all) == {h \in all : h.entry}
Hops(all) == all \ Entries(all)
OutOf(all, y) == {h \in Hops(all) : h.src = y}

(* A call out of the session it went to names it: it has started there. *)
Started(all, h) ==
  \E o \in Hops(all) : \E i \in DOMAIN o.chain : o.chain[i] = h.id /\ o.src = Tag(h.id)

(* c waits for a hop made under it, unless an entry lies between them. *)
Chained(all, c, d) ==
  /\ ~d.entry
  /\ \E i \in 1 .. Len(d.chain) - 1 :
       /\ d.chain[i] = c.id
       /\ \A j \in i + 1 .. Len(d.chain) - 1 : \A e \in Entries(all) : e.id # d.chain[j]

(* Put aside by a runtime that is not reentrant, c waits for its calls. *)
PutAside(all, c, d) ==
  LET y == Tag(c.id)
      outs == OutOf(all, y)
  IN /\ y \in Stacked \ Reentrant
     /\ d \in outs \ {c}
     /\ ~c.entry /\ ~Started(all, c)
     /\ \A i \in DOMAIN c.chain : \A o \in outs : c.chain[i] # o.sid

(* c waits for what started above it on its runtime's stack. *)
Above(all, c, d) ==
  /\ Tag(c.id) = Tag(d.id) /\ Tag(c.id) \in Stacked
  /\ Number(c.id) < Number(d.id)
  /\ Started(all, d)

WaitsUnstacked(all, c, d) ==   \* mutant of Waits
  Chained(all, c, d) \/ PutAside(all, c, d)

WaitsForAny(all, c, d) ==   \* mutant of Waits
  \/ Chained(all, c, d) \/ Above(all, c, d)
  \/ Tag(c.id) \in Stacked \ Reentrant /\ d \in OutOf(all, Tag(c.id)) \ {c}

Waits(all, c, d) == Chained(all, c, d) \/ PutAside(all, c, d) \/ Above(all, c, d)

(* What x leads to along the edges E of a finite graph. *)
Beyond(E, x) ==
  LET step(from) == {e[2] : e \in {e \in E : e[1] \in from}}
      reach[from \in SUBSET {e[2] : e \in E}] ==
        IF step(from) \subseteq from THEN from ELSE reach[from \cup step(from)]
  IN reach[step({x})]

NeverCloses(hops, new) == FALSE   \* mutant of ClosesCycle

ClosesCycle(hops, new) ==
  LET all == hops \cup {new}
  IN new \in Beyond({e \in all \X all : Waits(all, e[1], e[2])}, new)
=============================================================================
