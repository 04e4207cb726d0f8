--------------------------- MODULE WaitGraphProofs ---------------------------
(***************************************************************************)
(* What a chain says when it goes from one session to another: rebase in   *)
(* rpc.rs writes it, decode in waits.rs and a runtime's own matching of    *)
(* chains with waits read it.                                              *)
(***************************************************************************)
EXTENDS WaitGraph, TLAPS

(* Calls as they stand in a chain on the wire. *)
Written == (Runtimes \cup {Native}) \X {"host", "runtime"} \X Nat

LEMMA WrittenCall ==
  ASSUME NEW c \in Written, NEW t
  PROVE  /\ c = <<c[1], c[2], c[3]>> /\ Tag(c) \in Runtimes \cup {Native}
         /\ Tag(Tagged(t, c)) = t
         /\ Tagged(t, Tagged(Native, c)) = Tagged(t, c)
         /\ Tagged(Tag(c), c) = c
  BY DEF Written, Tag, Tagged

(* A chain handed on to another session names the same calls there, in the *)
(* same order: what the host matches and records (waits.rs decode) is the  *)
(* caller's chain, whatever the sessions it went through.                  *)
THEOREM RebaseNamesTheSameCalls ==
  ASSUME NEW from \in Runtimes, NEW to \in Runtimes, NEW path \in Seq(Written)
  PROVE  Decode(Rebase(path, from, to), to) = Decode(path, from)
<1> DEFINE R == Rebase(path, from, to)
<1>1. /\ DOMAIN Decode(R, to) = DOMAIN path
      /\ DOMAIN Decode(path, from) = DOMAIN path
  BY DEF Decode, Rebase
<1>2. ASSUME NEW i \in DOMAIN path
      PROVE  Decode(R, to)[i] = Decode(path, from)[i]
  <2> DEFINE c == path[i]
  <2>1. c \in Written
    BY <1>2
  <2>2. Native # to /\ Native # from
    BY RuntimesAssumption
  <2>3. CASE Tag(c) = to
    <3>1. R[i] = Tagged(Native, c)
      BY <2>3 DEF Rebase
    <3>2. Decode(R, to)[i] = Tagged(to, Tagged(Native, c))
      BY <3>1, <2>1, WrittenCall DEF Decode, Rebase
    <3>3. Decode(path, from)[i] = c
      BY <2>2, <2>3 DEF Decode
    <3> QED  BY <2>1, <2>3, <3>2, <3>3, WrittenCall
  <2>4. CASE Tag(c) = Native
    <3>1. R[i] = Tagged(from, c)
      BY <2>2, <2>4 DEF Rebase
    <3>2. Decode(R, to)[i] = Tagged(from, c)
      BY <2>1, <2>2, <3>1, WrittenCall DEF Decode, Rebase
    <3> QED  BY <2>4, <3>2 DEF Decode
  <2>5. CASE Tag(c) \notin {to, Native}
    <3>1. R[i] = c
      BY <2>5 DEF Rebase
    <3> QED  BY <2>5, <3>1 DEF Decode, Rebase
  <2> QED  BY <2>3, <2>4, <2>5
<1>3. /\ Decode(R, to) = [i \in DOMAIN path |-> Decode(R, to)[i]]
      /\ Decode(path, from) = [i \in DOMAIN path |-> Decode(path, from)[i]]
  BY DEF Decode, Rebase
<1> QED  BY <1>2, <1>3

(* On the session it was handed to, exactly the calls of that session are  *)
(* written as its own: a runtime never takes another session's call for    *)
(* one of its own waits because they have the same number.                 *)
THEOREM OwnCallsAreItsOwn ==
  ASSUME NEW from \in Runtimes, NEW to \in Runtimes \ {from}, NEW path \in Seq(Written),
         NEW i \in DOMAIN path
  PROVE  Tag(Rebase(path, from, to)[i]) = Native <=> Tag(Decode(path, from)[i]) = to
<1> DEFINE c == path[i]
<1>1. c \in Written /\ Native # to /\ Native # from
  BY RuntimesAssumption
<1>2. CASE Tag(c) = to
  <2>1. Rebase(path, from, to)[i] = Tagged(Native, c) /\ Decode(path, from)[i] = c
    BY <1>1, <1>2 DEF Rebase, Decode
  <2> QED  BY <1>1, <1>2, <2>1, WrittenCall
<1>3. CASE Tag(c) = Native
  <2>1. /\ Rebase(path, from, to)[i] = Tagged(from, c)
        /\ Decode(path, from)[i] = Tagged(from, c)
    BY <1>1, <1>3 DEF Rebase, Decode
  <2> QED  BY <1>1, <1>3, <2>1, WrittenCall
<1>4. CASE Tag(c) \notin {to, Native}
  <2>1. Rebase(path, from, to)[i] = c /\ Decode(path, from)[i] = c
    BY <1>4 DEF Rebase, Decode
  <2> QED  BY <1>4, <2>1
<1> QED  BY <1>2, <1>3, <1>4
=============================================================================
