---------------------------- MODULE EffectsProofs ----------------------------
(***************************************************************************)
(* Effects, for any records, disposers and number of generations: a        *)
(* registration the unload overtook is cleaned up before the fiber rests,  *)
(* every record is cleaned up once, every error reported once, and the     *)
(* last registered record is cleaned up first.                             *)
(*                                                                         *)
(* The inductive invariant says where each record of the generation is:    *)
(* still listed, taken by the unload, joined by it, or past, its error     *)
(* then kept or collected and nowhere else. The parts are the leases that  *)
(* are counted (Counted), what the unload has emptied by when (Driven),    *)
(* how far a record and its task are (Tasked), what a drainer has seen     *)
(* (Joins), the places (Placed), and the order of the two lists (Ordered). *)
(***************************************************************************)
EXTENDS Effects, SequenceTheorems, FiniteSetTheorems, TLAPS

USE DEF fiber, record, drain, unload, history

-----------------------------------------------------------------------------
(* The invariant *)

InFlight == {r \in Records : reg[r] \in {"factory", "refused"}}

Counted == IsFiniteSet(InFlight) /\ flights = Cardinality(InFlight)

Emptied == state = "Pending" \/ upc \in {"next", "join", "publish"}

Driven ==
  /\ upc = "idle" <=> state # "Unloading"
  /\ upc \notin {"next", "join"} => taken = <<>>
  /\ Emptied => effects = <<>>
  /\ state = "Pending" \/ upc = "publish" => drained = <<>>
  /\ dpc[Unload] = "idle" <=> upc # "join"
  /\ on[Unload] = NoRecord <=> upc # "join"
  /\ (state = "Pending" \/ upc \in {"take", "next", "join", "publish"}) /\ ~ late
       => InFlight = {}

Tasked ==
  \A r \in Records :
    /\ st[r] \in {"none", "live"} <=> task[r] = "off"
    /\ st[r] = "draining" <=> task[r] \in {"clean", "finish"}
    /\ cleaned[r] = IF task[r] \in {"off", "clean"} THEN 0 ELSE 1
    /\ failed[r] => task[r] \notin {"off", "clean"}
    /\ reg[r] \in {"idle", "factory"} <=> st[r] = "none"
    /\ st[r] = "live" => reg[r] = "registered"
    /\ reg[r] = "over" => st[r] = "done"
    /\ from[r] <= gen

Joins ==
  \A p \in Drainers :
    /\ dpc[p] # "idle" => on[p] \in Records
    /\ dpc[p] = "done" => st[on[p]] = "done"

Ours == {r \in Records : reg[r] = "registered" /\ from[r] = gen}

InHand == IF upc = "join" THEN {on[Unload]} ELSE {}

Held == Elements(effects) \cup Elements(taken) \cup InHand

Kept == Elements(drained) \cup Elements(errors)

Distinct(s) == \A i, j \in 1 .. Len(s) : s[i] = s[j] => i = j

Placed ==
  /\ Held \cup Kept \subseteq Ours
  /\ Elements(effects) \cap Elements(taken) = {}
  /\ InHand \cap (Elements(effects) \cup Elements(taken)) = {}
  /\ Held \cap Kept = {}
  /\ Elements(drained) \cap Elements(errors) = {}
  /\ Distinct(drained) /\ Distinct(errors)
  /\ \A r \in Kept : failed[r] /\ st[r] = "done"
  /\ \A r \in Records : reg[r] = "registered" /\ r \notin Held => st[r] = "done"
  /\ \A r \in Ours : r \notin Held /\ failed[r] => r \in Kept

Before(o, a, b) == \E i, j \in 1 .. Len(o) : i < j /\ o[i] = a /\ o[j] = b

InOrder(s, o) == \A i, j \in 1 .. Len(s) : i < j => Before(o, s[i], s[j])

Ordered ==
  /\ Distinct(order)
  /\ Elements(order) = {r \in Records : reg[r] = "registered"}
  /\ InOrder(effects, order) /\ InOrder(taken, order)

IInv == TypeOK /\ Counted /\ Driven /\ Tasked /\ Joins /\ Placed /\ Ordered

-----------------------------------------------------------------------------
(* Facts on lists *)

(* A list of records is a function on 1 .. Len, its elements records. *)
LEMMA ListTyped ==
  ASSUME NEW S, NEW s \in Seq(S)
  PROVE  /\ Len(s) \in Nat /\ Elements(s) \subseteq S
         /\ \A i \in 1 .. Len(s) : s[i] \in S /\ s[i] \in Elements(s)
  BY DEF Elements

(* The empty list. *)
LEMMA EmptyList ==
  /\ \A S : <<>> \in Seq(S)
  /\ Elements(<<>>) = {} /\ Distinct(<<>>) /\ \A o : InOrder(<<>>, o)
  BY DEF Elements, Distinct, InOrder

(* Putting a record that is not listed at the end. *)
LEMMA Appended ==
  ASSUME NEW S, NEW s \in Seq(S), NEW e \in S
  PROVE  /\ Append(s, e) \in Seq(S)
         /\ Elements(Append(s, e)) = Elements(s) \cup {e}
         /\ Distinct(s) /\ e \notin Elements(s) => Distinct(Append(s, e))
  <1> DEFINE t == Append(s, e)
  <1>1. /\ t \in Seq(S) /\ Len(t) = Len(s) + 1 /\ Len(s) \in Nat
        /\ \A i \in 1 .. Len(s) : t[i] = s[i]
        /\ t[Len(s) + 1] = e
    BY AppendProperties, LenProperties
  <1> HIDE DEF t
  <1>2. Elements(t) = Elements(s) \cup {e}
    <2>1. ASSUME NEW i \in 1 .. Len(t) PROVE t[i] \in Elements(s) \cup {e}
      BY <1>1 DEF Elements
    <2>2. ASSUME NEW i \in 1 .. Len(s) PROVE s[i] \in Elements(t)
      <3>1. i \in 1 .. Len(t) /\ t[i] = s[i] BY <1>1
      <3> QED BY <3>1 DEF Elements
    <2>3. e \in Elements(t)
      <3>1. Len(s) + 1 \in 1 .. Len(t) BY <1>1
      <3> QED BY <1>1, <3>1 DEF Elements
    <2> QED BY <2>1, <2>2, <2>3 DEF Elements
  <1>3. Distinct(s) /\ e \notin Elements(s) => Distinct(t)
    <2> SUFFICES ASSUME Distinct(s), e \notin Elements(s),
                        NEW i \in 1 .. Len(t), NEW j \in 1 .. Len(t), t[i] = t[j]
                 PROVE  i = j
      BY DEF Distinct
    <2>1. \A k \in 1 .. Len(s) : t[k] # e BY <1>1 DEF Elements
    <2>2. CASE i = Len(s) + 1 \/ j = Len(s) + 1 BY <1>1, <2>1, <2>2
    <2>3. CASE i \in 1 .. Len(s) /\ j \in 1 .. Len(s) BY <1>1, <2>3 DEF Distinct
    <2> QED BY <1>1, <2>2, <2>3
  <1> QED BY <1>1, <1>2, <1>3 DEF t

(* Putting one list after another. *)
LEMMA Concatenated ==
  ASSUME NEW S, NEW s \in Seq(S), NEW t \in Seq(S)
  PROVE  /\ s \o t \in Seq(S)
         /\ Elements(s \o t) = Elements(s) \cup Elements(t)
         /\ Distinct(s) /\ Distinct(t) /\ Elements(s) \cap Elements(t) = {}
              => Distinct(s \o t)
  <1> DEFINE u == s \o t
  <1>1. /\ u \in Seq(S) /\ Len(u) = Len(s) + Len(t)
        /\ Len(s) \in Nat /\ Len(t) \in Nat
        /\ \A i \in 1 .. Len(s) + Len(t) :
             u[i] = IF i <= Len(s) THEN s[i] ELSE t[i - Len(s)]
    BY ConcatProperties, LenProperties
  <1> HIDE DEF u
  <1>2. Elements(u) = Elements(s) \cup Elements(t)
    <2>1. ASSUME NEW i \in 1 .. Len(u) PROVE u[i] \in Elements(s) \cup Elements(t)
      <3>1. CASE i <= Len(s) BY <1>1, <3>1 DEF Elements
      <3>2. CASE ~ i <= Len(s)
        <4>1. i - Len(s) \in 1 .. Len(t) /\ u[i] = t[i - Len(s)] BY <1>1, <3>2
        <4> QED BY <4>1 DEF Elements
      <3> QED BY <3>1, <3>2
    <2>2. ASSUME NEW i \in 1 .. Len(s) PROVE s[i] \in Elements(u)
      <3>1. i \in 1 .. Len(u) /\ u[i] = s[i] BY <1>1
      <3> QED BY <3>1 DEF Elements
    <2>3. ASSUME NEW i \in 1 .. Len(t) PROVE t[i] \in Elements(u)
      <3>1. Len(s) + i \in 1 .. Len(u) /\ u[Len(s) + i] = t[i] BY <1>1
      <3> QED BY <3>1 DEF Elements
    <2> QED BY <2>1, <2>2, <2>3 DEF Elements
  <1>3. ASSUME Distinct(s), Distinct(t), Elements(s) \cap Elements(t) = {}
        PROVE  Distinct(u)
    <2> SUFFICES ASSUME NEW i \in 1 .. Len(u), NEW j \in 1 .. Len(u), u[i] = u[j]
                 PROVE  i = j
      BY DEF Distinct
    <2>1. \A k \in 1 .. Len(u) :
            /\ k <= Len(s) => k \in 1 .. Len(s) /\ u[k] = s[k] /\ u[k] \in Elements(s)
            /\ ~ k <= Len(s) => /\ k - Len(s) \in 1 .. Len(t) /\ u[k] = t[k - Len(s)]
                               /\ u[k] \in Elements(t)
      BY <1>1 DEF Elements
    <2>2. CASE i <= Len(s) /\ j <= Len(s) BY <1>3, <2>1, <2>2 DEF Distinct
    <2>3. CASE ~ i <= Len(s) /\ ~ j <= Len(s)
      <3>1. i - Len(s) = j - Len(s) BY <1>3, <2>1, <2>3 DEF Distinct
      <3> QED BY <1>1, <3>1
    <2> QED BY <1>3, <2>1, <2>2, <2>3
  <1> QED BY <1>1, <1>2, <1>3 DEF u

(* Taking a record off: it is gone, the others stay, in their order. *)
LEMMA Removed ==
  ASSUME NEW S, NEW s \in Seq(S), NEW r, NEW o, Distinct(s)
  PROVE  /\ Without(s, r) \in Seq(S)
         /\ Elements(Without(s, r)) = Elements(s) \ {r}
         /\ InOrder(s, o) => InOrder(Without(s, r), o)
  <1>1. CASE r \notin Elements(s) BY <1>1 DEF Without
  <1>2. CASE r \in Elements(s)
    <2> DEFINE at == CHOOSE i \in 1 .. Len(s) : s[i] = r
               a == SubSeq(s, 1, at - 1)
               b == SubSeq(s, at + 1, Len(s))
               u == a \o b
    <2>1. at \in 1 .. Len(s) /\ s[at] = r BY <1>2 DEF Elements
    <2>2. Without(s, r) = u BY <1>2 DEF Without
    <2> HIDE DEF at
    <2>3. Len(s) \in Nat /\ \A i \in 1 .. Len(s) : s[i] \in S BY LenProperties
    <2>4. /\ a \in Seq(S) /\ Len(a) = at - 1
          /\ \A i \in 1 .. at - 1 : a[i] = s[i]
      <3>1. \A i \in 1 .. at - 1 : s[i] \in S BY <2>1, <2>3
      <3>2. /\ Len(a) = IF 1 <= at - 1 THEN at - 1 - 1 + 1 ELSE 0
            /\ a \in Seq(S)
            /\ \A i \in 1 .. at - 1 - 1 + 1 : a[i] = s[1 + i - 1]
        BY <2>1, <2>3, <3>1, SubSeqProperties
      <3> QED BY <2>1, <2>3, <3>2
    <2>5. /\ b \in Seq(S) /\ Len(b) = Len(s) - at
          /\ \A i \in 1 .. Len(s) - at : b[i] = s[at + i]
      <3>1. \A i \in at + 1 .. Len(s) : s[i] \in S BY <2>1, <2>3
      <3>2. /\ Len(b) = IF at + 1 <= Len(s) THEN Len(s) - (at + 1) + 1 ELSE 0
            /\ b \in Seq(S)
            /\ \A i \in 1 .. Len(s) - (at + 1) + 1 : b[i] = s[at + 1 + i - 1]
        BY <2>1, <2>3, <3>1, SubSeqProperties
      <3> QED BY <2>1, <2>3, <3>2
    <2> HIDE DEF a, b
    <2>6. /\ u \in Seq(S) /\ Len(u) = Len(s) - 1
          /\ \A i \in 1 .. Len(s) - 1 : u[i] = IF i < at THEN s[i] ELSE s[i + 1]
      <3>1. /\ u \in Seq(S) /\ Len(u) = Len(a) + Len(b)
            /\ \A i \in 1 .. Len(a) + Len(b) :
                 u[i] = IF i <= Len(a) THEN a[i] ELSE b[i - Len(a)]
        BY <2>4, <2>5, ConcatProperties
      <3>2. ASSUME NEW i \in 1 .. Len(s) - 1
            PROVE  u[i] = IF i < at THEN s[i] ELSE s[i + 1]
        <4>1. CASE i < at BY <2>1, <2>3, <2>4, <2>5, <3>1, <4>1
        <4>2. CASE ~ i < at
          <5>1. i - Len(a) \in 1 .. Len(s) - at /\ at + (i - Len(a)) = i + 1
            BY <2>1, <2>3, <2>4, <4>2
          <5>2. i \in 1 .. Len(a) + Len(b) /\ ~ i <= Len(a) BY <2>1, <2>3, <2>4, <2>5, <4>2
          <5> QED BY <2>5, <3>1, <4>2, <5>1, <5>2
        <4> QED BY <4>1, <4>2
      <3> QED BY <2>1, <2>3, <2>4, <2>5, <3>1, <3>2
    <2> HIDE DEF u
    <2>7. Elements(u) = Elements(s) \ {r}
      <3>1. ASSUME NEW i \in 1 .. Len(u) PROVE u[i] \in Elements(s) \ {r}
        <4>1. PICK k \in 1 .. Len(s) : k # at /\ u[i] = s[k]
          <5>1. CASE i < at BY <2>1, <2>3, <2>6, <5>1
          <5>2. CASE ~ i < at
            <6>1. i + 1 \in 1 .. Len(s) /\ i + 1 # at BY <2>1, <2>3, <2>6, <5>2
            <6> QED BY <2>6, <5>2, <6>1
          <5> QED BY <5>1, <5>2
        <4> QED BY <2>1, <4>1 DEF Elements, Distinct
      <3>2. ASSUME NEW k \in 1 .. Len(s), s[k] # r PROVE s[k] \in Elements(u)
        <4>1. CASE k < at
          <5>1. k \in 1 .. Len(u) /\ u[k] = s[k] BY <2>1, <2>3, <2>6, <4>1
          <5> QED BY <5>1 DEF Elements
        <4>2. CASE k > at
          <5>1. k - 1 \in 1 .. Len(u) /\ u[k - 1] = s[k] BY <2>1, <2>3, <2>6, <4>2
          <5> QED BY <5>1 DEF Elements
        <4> QED BY <2>1, <2>3, <3>2, <4>1, <4>2
      <3> QED BY <3>1, <3>2 DEF Elements
    <2>8. ASSUME InOrder(s, o) PROVE InOrder(u, o)
      <3> SUFFICES ASSUME NEW i \in 1 .. Len(u), NEW j \in 1 .. Len(u), i < j
                   PROVE  Before(o, u[i], u[j])
        BY DEF InOrder
      <3> DEFINE p == IF i < at THEN i ELSE i + 1
                 q == IF j < at THEN j ELSE j + 1
      <3>1. /\ p \in 1 .. Len(s) /\ q \in 1 .. Len(s) /\ p < q
            /\ u[i] = s[p] /\ u[j] = s[q]
        BY <2>1, <2>3, <2>6
      <3> QED BY <2>8, <3>1 DEF InOrder
    <2> QED BY <2>2, <2>6, <2>7, <2>8
  <1> QED BY <1>1, <1>2

(* A list in the order of registration has no record twice, as no record is *)
(* registered twice.                                                        *)
LEMMA InOrderDistinct ==
  ASSUME NEW S, NEW o \in Seq(S), Distinct(o), NEW s \in Seq(S), InOrder(s, o)
  PROVE  Distinct(s)
  <1>1. Len(s) \in Nat /\ Len(o) \in Nat BY ListTyped
  <1>2. \A a : ~ Before(o, a, a) BY <1>1 DEF Before, Distinct
  <1>3. \A i, j \in 1 .. Len(s) : i < j => s[i] # s[j] BY <1>2 DEF InOrder
  <1> QED BY <1>1, <1>3 DEF Distinct

(* A record registered last is last in the order, and in the list it joins. *)
LEMMA AppendedInOrder ==
  ASSUME NEW S, NEW o \in Seq(S), NEW s \in Seq(S), NEW e \in S,
         InOrder(s, o), Elements(s) \subseteq Elements(o)
  PROVE  InOrder(s, Append(o, e)) /\ InOrder(Append(s, e), Append(o, e))
  <1> DEFINE t == Append(s, e)
             u == Append(o, e)
  <1>1. /\ Len(s) \in Nat /\ Len(t) = Len(s) + 1
        /\ t[Len(s) + 1] = e /\ \A i \in 1 .. Len(s) : t[i] = s[i]
    BY AppendProperties, LenProperties
  <1>2. /\ Len(o) \in Nat /\ Len(u) = Len(o) + 1
        /\ u[Len(o) + 1] = e /\ \A i \in 1 .. Len(o) : u[i] = o[i]
    BY AppendProperties, LenProperties
  <1> HIDE DEF t, u
  <1>3. ASSUME NEW a, NEW b, Before(o, a, b) PROVE Before(u, a, b)
    <2>1. PICK i, j \in 1 .. Len(o) : i < j /\ o[i] = a /\ o[j] = b BY <1>3 DEF Before
    <2>2. i \in 1 .. Len(u) /\ j \in 1 .. Len(u) /\ u[i] = a /\ u[j] = b
      BY <1>2, <2>1
    <2> QED BY <2>1, <2>2 DEF Before
  <1>4. ASSUME NEW a \in Elements(o) PROVE Before(u, a, e)
    <2>1. PICK i \in 1 .. Len(o) : o[i] = a BY DEF Elements
    <2>2. /\ i \in 1 .. Len(u) /\ Len(o) + 1 \in 1 .. Len(u) /\ i < Len(o) + 1
          /\ u[i] = a
      BY <1>2, <2>1
    <2> QED BY <1>2, <2>2 DEF Before
  <1>5. \A i, j \in 1 .. Len(s) : i < j => Before(u, s[i], s[j]) BY <1>3 DEF InOrder
  <1>6. \A i \in 1 .. Len(s) : Before(u, s[i], e) BY <1>4 DEF Elements
  <1>7. ASSUME NEW i \in 1 .. Len(t), NEW j \in 1 .. Len(t), i < j
        PROVE  Before(u, t[i], t[j])
    <2>1. i \in 1 .. Len(s) /\ t[i] = s[i] BY <1>1, <1>7
    <2>2. (j \in 1 .. Len(s) /\ t[j] = s[j]) \/ t[j] = e BY <1>1
    <2> QED BY <1>5, <1>6, <1>7, <2>1, <2>2
  <1> QED BY <1>5, <1>7 DEF InOrder, t, u

-----------------------------------------------------------------------------
(* The invariant is kept *)

(* The first state. *)
LEMMA InvInit == Init => IInv
  <1> SUFFICES ASSUME Init PROVE IInv OBVIOUS
  <1> USE DEF Init
  <1>1. TypeOK
    <2>1. 0 \in 0 .. MaxGen BY EffectsAssumption
    <2>2. on \in [Drainers -> Records \cup {NoRecord}] OBVIOUS
    <2> QED BY <2>1, <2>2, EmptyList DEF TypeOK
  <1>2. InFlight = {} BY DEF InFlight
  <1>3. Counted BY <1>2, FS_EmptySet DEF Counted
  <1>4. Driven BY <1>2 DEF Driven, Drainers
  <1>5. Tasked /\ Joins BY DEF Tasked, Joins
  <1>6. Placed BY EmptyList DEF Placed, Held, Kept, InHand, Ours
  <1>7. Ordered BY EmptyList DEF Ordered
  <1> QED BY <1>1, <1>3, <1>4, <1>5, <1>6, <1>7 DEF IInv

(* A lease more, a lease less: the count follows. *)
LEMMA LeaseCounted ==
  ASSUME Counted, NEW r \in Records, r \notin InFlight,
         InFlight' = InFlight \cup {r}, flights' = flights + 1
  PROVE  Counted'
  BY FS_AddElement DEF Counted

LEMMA ReleaseCounted ==
  ASSUME Counted, NEW r \in Records, r \in InFlight,
         InFlight' = InFlight \ {r}, flights' = flights - 1
  PROVE  Counted' /\ flights' \in Nat
  <1>1. /\ IsFiniteSet(InFlight \ {r})
        /\ Cardinality(InFlight \ {r}) = Cardinality(InFlight) - 1
    BY FS_RemoveElement DEF Counted
  <1>2. Cardinality(InFlight \ {r}) \in Nat BY <1>1, FS_CardinalityType
  <1> QED BY <1>1, <1>2 DEF Counted

(* No lease taken or ended. *)
LEMMA SameCounted ==
  ASSUME Counted, UNCHANGED <<reg, flights>>
  PROVE  InFlight' = InFlight /\ Counted'
  BY DEF Counted, InFlight

(* No list changes, nothing registered, and what is done stays as it is: *)
(* everything keeps its place and the lists their order.                 *)
LEMMA SamePlaced ==
  ASSUME Placed, UNCHANGED <<effects, taken, drained, errors>>, InHand' = InHand,
         Ours' = Ours,
         \A r \in Records : reg'[r] = "registered" <=> reg[r] = "registered",
         \A r \in Records : reg[r] = "registered" /\ st[r] = "done" =>
                             st'[r] = "done" /\ failed'[r] = failed[r]
  PROVE  Placed'
  <1>1. /\ Elements(effects)' = Elements(effects) /\ Elements(taken)' = Elements(taken)
        /\ Elements(drained)' = Elements(drained) /\ Elements(errors)' = Elements(errors)
    OBVIOUS
  <1>2. Held' = Held /\ Kept' = Kept BY <1>1 DEF Held, Kept
  <1>3. Distinct(drained)' /\ Distinct(errors)' BY DEF Placed
  <1>4. \A r \in Kept : r \in Records /\ reg[r] = "registered" BY DEF Placed, Ours
  <1>5. \A r \in Kept' : failed'[r] /\ st'[r] = "done" BY <1>2, <1>4 DEF Placed
  <1>6. \A r \in Records : reg'[r] = "registered" /\ r \notin Held' => st'[r] = "done"
    BY <1>2 DEF Placed
  <1>7. \A r \in Ours' : r \notin Held' /\ failed'[r] => r \in Kept'
    BY <1>2 DEF Placed, Ours
  <1> QED BY <1>1, <1>2, <1>3, <1>5, <1>6, <1>7 DEF Placed

LEMMA SameOrdered ==
  ASSUME Ordered, UNCHANGED <<order, effects, taken>>,
         \A r \in Records : reg'[r] = "registered" <=> reg[r] = "registered"
  PROVE  Ordered'
  BY DEF Ordered

(* A registration's steps. *)
LEMMA InvRegistering ==
  ASSUME IInv, NEW r \in Records, Lease(r) \/ Registering(r)
  PROVE  IInv'
  <1> USE DEF IInv
  <1>1. CASE Lease(r)
    <2> USE <1>1 DEF Lease
    <2>1. TypeOK' BY DEF TypeOK
    <2>2. r \notin InFlight /\ InFlight' = InFlight \cup {r} BY DEF TypeOK, InFlight
    <2>3. Counted' BY <2>2, LeaseCounted
    <2>4. Driven' BY DEF Driven, Emptied
    <2>5. Tasked' /\ Joins' BY DEF TypeOK, Tasked, Joins
    <2>6. Ours' = Ours /\ \A q \in Records : reg'[q] = "registered" <=> reg[q] = "registered"
      BY DEF TypeOK, Ours
    <2>7. Placed' BY <2>6, SamePlaced DEF InHand
    <2>8. Ordered' BY <2>6, SameOrdered
    <2> QED BY <2>1, <2>3, <2>4, <2>5, <2>7, <2>8
  <1>2. CASE Register(r)
    <2> USE <1>2 DEF Register, Current, Live
    <2>1. r \in InFlight /\ InFlight' = InFlight \ {r} BY DEF TypeOK, InFlight
    <2>2. Counted' /\ flights' \in Nat BY <2>1, ReleaseCounted
    <2>3. TypeOK' BY <2>2, Appended DEF TypeOK
    <2>4. Driven' BY DEF Driven, Emptied
    <2>5. Tasked' /\ Joins' BY DEF TypeOK, Tasked, Joins
    <2>6. /\ Ours' = Ours \cup {r} /\ r \notin Ours
          /\ \A q \in Records : reg'[q] = "registered" <=> q = r \/ reg[q] = "registered"
      BY DEF TypeOK, Ours
    <2>7. /\ Elements(effects') = Elements(effects) \cup {r}
          /\ Elements(order') = Elements(order) \cup {r}
          /\ r \notin Elements(order)
      BY <2>6, Appended DEF TypeOK, Ordered
    <2>8. Placed'
      <3>1. Held' = Held \cup {r} /\ Kept' = Kept /\ InHand' = InHand
        BY <2>7 DEF Held, Kept, InHand, Elements
      <3>2. r \notin Held /\ r \notin Kept BY <2>6 DEF Placed
      <3>3. taken' = taken /\ drained' = drained /\ errors' = errors OBVIOUS
      <3>4. \A q \in Records : q # r => st'[q] = st[q] BY DEF TypeOK
      <3>5. (Held \cup Kept \subseteq Ours)' BY <2>6, <3>1 DEF Placed
      <3>6. (Elements(effects) \cap Elements(taken) = {})'
        BY <2>7, <3>2, <3>3 DEF Placed, Held
      <3>7. (InHand \cap (Elements(effects) \cup Elements(taken)) = {})'
        BY <2>7, <3>1, <3>2, <3>3 DEF Placed, Held
      <3>8. (Held \cap Kept = {})' BY <3>1, <3>2 DEF Placed
      <3>9. \A q \in Kept : q \in Records /\ q # r BY <3>2 DEF Placed, Ours
      <3>10. \A q \in Kept' : failed'[q] /\ st'[q] = "done"
        BY <3>1, <3>4, <3>9 DEF Placed
      <3>11. \A q \in Records : reg'[q] = "registered" /\ q \notin Held' => st'[q] = "done"
        BY <2>6, <3>1, <3>4 DEF Placed
      <3>12. \A q \in Ours' : q \notin Held' /\ failed'[q] => q \in Kept'
        BY <2>6, <3>1 DEF Placed
      <3>13. (Elements(drained) \cap Elements(errors) = {})'
              /\ Distinct(drained)' /\ Distinct(errors)'
        BY <3>3 DEF Placed
      <3> QED BY <3>5, <3>6, <3>7, <3>8, <3>10, <3>11, <3>12, <3>13 DEF Placed
    <2>9. Ordered'
      <3>1. Distinct(order') BY <2>7, Appended DEF TypeOK, Ordered
      <3>2. Elements(order') = {q \in Records : reg'[q] = "registered"}
        BY <2>6, <2>7 DEF Ordered
      <3>3. Elements(effects) \cup Elements(taken) \subseteq Elements(order)
        BY DEF Placed, Held, Ours, Ordered
      <3>4. InOrder(effects', order') /\ InOrder(taken', order')
        BY <3>3, AppendedInOrder DEF Ordered, TypeOK
      <3> QED BY <3>1, <3>2, <3>4 DEF Ordered
    <2> QED BY <2>2, <2>3, <2>4, <2>5, <2>8, <2>9
  <1>3. CASE Refuse(r)
    <2> USE <1>3 DEF Refuse
    <2>1. TypeOK' BY DEF TypeOK
    <2>2. InFlight' = InFlight BY DEF TypeOK, InFlight
    <2>3. Counted' BY <2>2 DEF Counted
    <2>4. Driven' BY <2>2 DEF Driven, Emptied
    <2>5. Tasked' /\ Joins' BY DEF TypeOK, Tasked, Joins
    <2>6. Ours' = Ours /\ \A q \in Records : reg'[q] = "registered" <=> reg[q] = "registered"
      BY DEF TypeOK, Ours
    <2>7. \A q \in Records : st[q] = "done" => st'[q] = "done"
      BY DEF TypeOK, Tasked
    <2>8. Placed' BY <2>6, <2>7, SamePlaced DEF InHand
    <2>9. Ordered' BY <2>6, SameOrdered
    <2> QED BY <2>1, <2>3, <2>4, <2>5, <2>8, <2>9
  <1>4. CASE Refused(r)
    <2> USE <1>4 DEF Refused
    <2>1. r \in InFlight /\ InFlight' = InFlight \ {r} BY DEF TypeOK, InFlight
    <2>2. Counted' /\ flights' \in Nat BY <2>1, ReleaseCounted
    <2>3. TypeOK' BY <2>2 DEF TypeOK
    <2>4. Driven' BY <2>1 DEF Driven, Emptied
    <2>5. Tasked' /\ Joins' BY DEF TypeOK, Tasked, Joins
    <2>6. Ours' = Ours /\ \A q \in Records : reg'[q] = "registered" <=> reg[q] = "registered"
      BY DEF TypeOK, Ours
    <2>7. Placed' BY <2>6, SamePlaced DEF InHand
    <2>8. Ordered' BY <2>6, SameOrdered
    <2> QED BY <2>2, <2>3, <2>4, <2>5, <2>7, <2>8
  <1> QED BY <1>1, <1>2, <1>3, <1>4 DEF Registering

(* A drain claims a live record; what is done stays done. *)
LEMMA DrainStarted ==
  ASSUME TypeOK, Tasked, Joins, NEW p \in Drainers, NEW r \in Records,
         reg[r] = "registered", StartDrain(p, r), UNCHANGED <<reg, from, gen, failed, cleaned>>
  PROVE  /\ Tasked' /\ Joins'
         /\ \A q \in Records : st[q] = "done" => st'[q] = "done"
         /\ st' \in [Records -> {"none", "live", "draining", "done"}]
         /\ task' \in [Records -> {"off", "clean", "finish", "detach", "notify", "gone"}]
         /\ dpc' \in [Drainers -> {"idle", "arm", "check", "wait", "done"}]
         /\ on' \in [Drainers -> Records \cup {NoRecord}]
         /\ dpc'[p] = "arm" /\ on'[p] = r
         /\ \A q \in Drainers : q # p => dpc'[q] = dpc[q] /\ on'[q] = on[q]
  <1> USE DEF StartDrain, Claims, TypeOK
  <1>1. Tasked' BY DEF Tasked
  <1>2. \A q \in Records : st[q] = "done" => st'[q] = "done" BY DEF Tasked
  <1>3. /\ st' \in [Records -> {"none", "live", "draining", "done"}]
        /\ task' \in [Records -> {"off", "clean", "finish", "detach", "notify", "gone"}]
        /\ dpc' \in [Drainers -> {"idle", "arm", "check", "wait", "done"}]
        /\ on' \in [Drainers -> Records \cup {NoRecord}]
    OBVIOUS
  <1>4. /\ dpc'[p] = "arm" /\ on'[p] = r
        /\ \A q \in Drainers : q # p => dpc'[q] = dpc[q] /\ on'[q] = on[q]
    OBVIOUS
  <1>5. Joins' BY <1>2, <1>4 DEF Joins
  <1> QED BY <1>1, <1>2, <1>3, <1>4, <1>5

(* A disposer's drain, and a drainer's wait. *)
LEMMA InvDispose ==
  ASSUME IInv, NEW d \in Disposers, Dispose(d)
  PROVE  IInv'
  <1> USE DEF IInv, Dispose
  <1>1. d \in Drainers /\ Of[d] \in Records /\ d # Unload /\ Unload \in Drainers
    BY EffectsAssumption DEF Drainers
  <1>2. /\ Tasked' /\ Joins'
        /\ \A q \in Records : st[q] = "done" => st'[q] = "done"
        /\ st' \in [Records -> {"none", "live", "draining", "done"}]
        /\ task' \in [Records -> {"off", "clean", "finish", "detach", "notify", "gone"}]
        /\ dpc' \in [Drainers -> {"idle", "arm", "check", "wait", "done"}]
        /\ on' \in [Drainers -> Records \cup {NoRecord}]
        /\ dpc'[Unload] = dpc[Unload] /\ on'[Unload] = on[Unload]
    BY <1>1, DrainStarted
  <1>3. TypeOK' BY <1>2 DEF TypeOK
  <1>4. InFlight' = InFlight /\ Counted' BY SameCounted
  <1>5. Driven' BY <1>2, <1>4 DEF Driven, Emptied
  <1>6. Ours' = Ours BY DEF Ours
  <1>7. Placed' BY <1>2, <1>6, SamePlaced DEF InHand
  <1>8. Ordered' BY SameOrdered
  <1> QED BY <1>2, <1>3, <1>4, <1>5, <1>7, <1>8

LEMMA InvJoining ==
  ASSUME IInv, NEW p \in Drainers, Joining(p)
  PROVE  IInv'
  <1> USE DEF IInv
  <1> SUFFICES ASSUME Arm(p) \/ Check(p) PROVE IInv' BY DEF Joining
  <1>1. /\ UNCHANGED <<fiber, flights, effects, drained, record, task, on, unload, history>>
        /\ dpc[p] \in {"arm", "check"}
        /\ \E l \in {"check", "done", "wait"} :
             dpc' = [dpc EXCEPT ![p] = l] /\ (l = "done" => st[on[p]] = "done")
    BY DEF Arm, Check
  <1>2. TypeOK' BY <1>1 DEF TypeOK
  <1>3. InFlight' = InFlight /\ Counted' BY <1>1, SameCounted
  <1>4. Driven' BY <1>1, <1>3 DEF Driven, Emptied, TypeOK, Drainers
  <1>5. Tasked' BY <1>1 DEF Tasked
  <1>6. Joins' BY <1>1 DEF Joins, TypeOK
  <1>7. Ours' = Ours BY <1>1 DEF Ours
  <1>8. Placed' BY <1>1, <1>7, SamePlaced DEF InHand
  <1>9. Ordered' BY <1>1, SameOrdered
  <1> QED BY <1>2, <1>3, <1>4, <1>5, <1>6, <1>8, <1>9

(* The draining task. *)
LEMMA InvRunning ==
  ASSUME IInv, NEW r \in Records, Running(r)
  PROVE  IInv'
  <1> USE DEF IInv
  <1>1. CASE Clean(r)
    <2> USE <1>1 DEF Clean
    <2>1. TypeOK' BY DEF TypeOK
    <2>2. InFlight' = InFlight /\ Counted' BY SameCounted
    <2>3. Driven' BY <2>2 DEF Driven, Emptied
    <2>4. Tasked' BY DEF Tasked, TypeOK
    <2>5. Joins' BY DEF Joins
    <2>6. Ours' = Ours BY DEF Ours
    <2>7. \A q \in Records : st[q] = "done" => failed'[q] = failed[q]
      BY DEF Tasked, TypeOK
    <2>8. Placed' BY <2>6, <2>7, SamePlaced DEF InHand
    <2>9. Ordered' BY SameOrdered
    <2> QED BY <2>1, <2>2, <2>3, <2>4, <2>5, <2>8, <2>9
  <1>2. CASE Finish(r)
    <2> USE <1>2 DEF Finish
    <2>1. TypeOK' BY DEF TypeOK
    <2>2. InFlight' = InFlight /\ Counted' BY SameCounted
    <2>3. Driven' BY <2>2 DEF Driven, Emptied
    <2>4. Tasked' BY DEF Tasked, TypeOK
    <2>5. \A q \in Records : st[q] = "done" => st'[q] = "done" BY DEF TypeOK
    <2>6. Joins' BY <2>5 DEF Joins, TypeOK
    <2>7. Ours' = Ours BY DEF Ours
    <2>8. Placed' BY <2>5, <2>7, SamePlaced DEF InHand
    <2>9. Ordered' BY SameOrdered
    <2> QED BY <2>1, <2>2, <2>3, <2>4, <2>6, <2>8, <2>9
  <1>3. CASE Detach(r)
    <2> USE <1>3 DEF Detach, KeepsError, Keeps
    <2>1. /\ Distinct(effects)
          /\ Without(effects, r) \in Seq(Records)
          /\ Elements(effects') = Elements(effects) \ {r}
          /\ InOrder(effects, order) => InOrder(Without(effects, r), order)
      BY InOrderDistinct, Removed DEF Ordered, TypeOK
    <2>2. TypeOK' BY <2>1, Appended DEF TypeOK
    <2>3. InFlight' = InFlight /\ Counted' BY SameCounted
    <2>4. r \notin Elements(effects) => effects' = effects /\ drained' = drained
      BY DEF Without
    <2>5. Emptied => r \notin Elements(effects) BY EmptyList DEF Driven
    <2>6. Driven' BY <2>3, <2>4, <2>5 DEF Driven, Emptied
    <2>7. Tasked' BY DEF Tasked, TypeOK
    <2>8. Joins' BY DEF Joins
    <2>9. Ours' = Ours /\ InHand' = InHand /\ taken' = taken /\ errors' = errors
      BY DEF Ours, InHand
    <2>10. Placed'
      <3>1. CASE r \notin Elements(effects)
        BY <2>4, <2>9, <3>1, SamePlaced
      <3>2. CASE r \in Elements(effects)
        <4>1. r \in Held /\ r \notin Elements(taken) /\ r \notin InHand /\ r \notin Kept
          BY <3>2 DEF Placed, Held
        <4>2. Held' = Held \ {r} BY <2>1, <2>9, <4>1 DEF Held
        <4>3. /\ Elements(drained') = Elements(drained) \cup (IF failed[r] THEN {r} ELSE {})
              /\ Distinct(drained')
          <5>1. Distinct(drained) /\ r \notin Elements(drained) BY <4>1 DEF Placed, Kept
          <5>2. CASE failed[r]
            <6>1. drained' = Append(drained, r) BY <3>2, <5>2
            <6> QED BY <5>1, <5>2, <6>1, Appended DEF TypeOK
          <5>3. CASE ~ failed[r]
            <6>1. drained' = drained BY <5>3
            <6> QED BY <5>1, <5>3, <6>1
          <5> QED BY <5>2, <5>3
        <4>4. Kept' = Kept \cup (IF failed[r] THEN {r} ELSE {}) BY <2>9, <4>3 DEF Kept
        <4>5. st[r] = "done" BY DEF Tasked, TypeOK
        <4>6. (Held \cup Kept \subseteq Ours)' BY <2>9, <4>1, <4>2, <4>4 DEF Placed
        <4>7. (Elements(effects) \cap Elements(taken) = {})'
              /\ (InHand \cap (Elements(effects) \cup Elements(taken)) = {})'
          BY <2>1, <2>9 DEF Placed
        <4>8. (Held \cap Kept = {})' BY <4>2, <4>4 DEF Placed
        <4>9. (Elements(drained) \cap Elements(errors) = {})'
          BY <2>9, <4>1, <4>3 DEF Placed, Kept
        <4>10. Distinct(errors)' BY <2>9 DEF Placed
        <4>11. \A q \in Kept' : failed'[q] /\ st'[q] = "done" BY <4>4, <4>5 DEF Placed
        <4>12. \A q \in Records : reg'[q] = "registered" /\ q \notin Held' => st'[q] = "done"
          BY <4>2, <4>5 DEF Placed
        <4>13. \A q \in Ours' : q \notin Held' /\ failed'[q] => q \in Kept'
          BY <2>9, <4>2, <4>4 DEF Placed
        <4> QED BY <4>3, <4>6, <4>7, <4>8, <4>9, <4>10, <4>11, <4>12, <4>13 DEF Placed
      <3> QED BY <3>1, <3>2
    <2>11. Ordered'
      <3>1. InOrder(effects', order) BY <2>1 DEF Ordered
      <3> QED BY <3>1 DEF Ordered
    <2> QED BY <2>2, <2>3, <2>6, <2>7, <2>8, <2>10, <2>11
  <1>4. CASE Notify(r)
    <2> USE <1>4 DEF Notify
    <2>1. TypeOK' BY DEF TypeOK
    <2>2. InFlight' = InFlight /\ Counted' BY SameCounted
    <2>3. Driven' BY <2>2 DEF Driven, Emptied, Drainers
    <2>4. Tasked' BY DEF Tasked, TypeOK
    <2>5. Joins' BY DEF Joins
    <2>6. Ours' = Ours BY DEF Ours
    <2>7. Placed' BY <2>6, SamePlaced DEF InHand
    <2>8. Ordered' BY SameOrdered
    <2> QED BY <2>1, <2>2, <2>3, <2>4, <2>5, <2>7, <2>8
  <1> QED BY <1>1, <1>2, <1>3, <1>4 DEF Running

(* The unload. *)
LEMMA InvUnloading ==
  ASSUME IInv, Unloading
  PROVE  IInv'
  <1> USE DEF IInv
  <1>1. CASE WaitEvents
    <2> USE <1>1 DEF WaitEvents
    <2>1. TypeOK' BY DEF TypeOK
    <2>2. InFlight' = InFlight /\ Counted' BY SameCounted
    <2>3. ~ flights > 0 => InFlight = {} BY FS_EmptySet DEF Counted, TypeOK
    <2>4. Driven' BY <2>2, <2>3 DEF Driven, Emptied
    <2>5. Tasked' /\ Joins' BY DEF Tasked, Joins
    <2>6. Ours' = Ours BY DEF Ours
    <2>7. Placed' BY <2>6, SamePlaced DEF InHand
    <2>8. Ordered' BY SameOrdered
    <2> QED BY <2>1, <2>2, <2>4, <2>5, <2>7, <2>8
  <1>2. CASE Take
    <2> USE <1>2 DEF Take
    <2>1. TypeOK' BY EmptyList DEF TypeOK
    <2>2. InFlight' = InFlight /\ Counted' BY SameCounted
    <2>3. taken = <<>> BY DEF Driven
    <2>4. Driven' BY <2>2 DEF Driven, Emptied
    <2>5. Tasked' /\ Joins' BY DEF Tasked, Joins
    <2>6. /\ Elements(effects') = {} /\ Elements(taken) = {} /\ Elements(taken') = Elements(effects)
          /\ InHand' = {} /\ InHand = {} /\ Ours' = Ours
      BY <2>3, EmptyList DEF InHand, Ours
    <2>7. Held' = Held /\ Kept' = Kept BY <2>6 DEF Held, Kept
    <2>8. Placed' BY <2>6, <2>7 DEF Placed
    <2>9. Ordered' BY EmptyList DEF Ordered
    <2> QED BY <2>1, <2>2, <2>4, <2>5, <2>8, <2>9
  <1>3. CASE DrainNext
    <2> USE <1>3 DEF DrainNext
    <2> DEFINE r == NextOf(taken)
    <2>1. /\ r \in Elements(taken) /\ r \in Records
      <3>1. Len(taken) \in 1 .. Len(taken) BY EmptySeq, LenProperties DEF TypeOK
      <3> QED BY <3>1, ListTyped DEF NextOf, TypeOK
    <2>2. /\ taken' \in Seq(Records)
          /\ Elements(taken') = Elements(taken) \ {r}
          /\ InOrder(taken', order)
      BY InOrderDistinct, Removed DEF Ordered, TypeOK
    <2>3. /\ StartDrain(Unload, r) /\ upc' = "join" /\ upc = "next"
          /\ UNCHANGED <<fiber, flights, effects, drained, reg, from, failed, errors, history>>
      OBVIOUS
    <2> HIDE DEF r, DrainNext
    <2>4. Unload \in Drainers BY DEF Drainers
    <2>5. reg[r] = "registered" BY <2>1 DEF Placed, Held, Ours
    <2>6. /\ Tasked' /\ Joins'
          /\ \A q \in Records : st[q] = "done" => st'[q] = "done"
          /\ st' \in [Records -> {"none", "live", "draining", "done"}]
          /\ task' \in [Records -> {"off", "clean", "finish", "detach", "notify", "gone"}]
          /\ dpc' \in [Drainers -> {"idle", "arm", "check", "wait", "done"}]
          /\ on' \in [Drainers -> Records \cup {NoRecord}]
          /\ dpc'[Unload] = "arm" /\ on'[Unload] = r
      BY <2>1, <2>3, <2>4, <2>5, DrainStarted
    <2>7. TypeOK' BY <2>2, <2>3, <2>6 DEF TypeOK
    <2>8. InFlight' = InFlight /\ Counted' BY <2>3, SameCounted
    <2>9. Driven'
      BY <2>1, <2>3, <2>6, <2>8, EffectsAssumption DEF Driven, Emptied
    <2>10. /\ Ours' = Ours /\ InHand = {} /\ InHand' = {r}
           /\ Elements(effects') = Elements(effects)
           /\ Elements(drained') = Elements(drained) /\ Elements(errors') = Elements(errors)
      BY <2>3, <2>6 DEF Ours, InHand
    <2>11. Held' = Held /\ Kept' = Kept BY <2>1, <2>2, <2>10 DEF Held, Kept
    <2>12. Placed'
      <3>1. (Elements(effects) \cap Elements(taken) = {})'
            /\ (InHand \cap (Elements(effects) \cup Elements(taken)) = {})'
        BY <2>1, <2>2, <2>10 DEF Placed
      <3>2. (Distinct(drained) /\ Distinct(errors))' BY <2>3 DEF Placed
      <3>3. (Elements(drained) \cap Elements(errors) = {})' BY <2>10 DEF Placed
      <3>4. \A q \in Kept' : failed'[q] /\ st'[q] = "done"
        BY <2>3, <2>6, <2>11 DEF Placed, Ours
      <3>5. \A q \in Records : reg'[q] = "registered" /\ q \notin Held' => st'[q] = "done"
        BY <2>3, <2>6, <2>11 DEF Placed
      <3>6. \A q \in Ours' : q \notin Held' /\ failed'[q] => q \in Kept'
        BY <2>3, <2>10, <2>11 DEF Placed
      <3> QED BY <2>10, <2>11, <3>1, <3>2, <3>3, <3>4, <3>5, <3>6 DEF Placed
    <2>13. Ordered' BY <2>2, <2>3 DEF Ordered
    <2> QED BY <2>6, <2>7, <2>8, <2>9, <2>12, <2>13
  <1>4. CASE Joined
    <2> USE <1>4 DEF Joined
    <2> DEFINE r == on[Unload]
    <2>1. Unload \in Drainers BY DEF Drainers
    <2>2. r \in Records /\ st[r] = "done" BY <2>1 DEF Joins
    <2>3. InHand = {r} /\ InHand' = {} BY DEF InHand
    <2>4. r \in Held /\ r \in Ours /\ r \notin Kept
          /\ r \notin Elements(effects) /\ r \notin Elements(taken)
      BY <2>3 DEF Placed, Held
    <2>5. /\ errors' \in Seq(Records)
          /\ Elements(errors') = Elements(errors) \cup (IF failed[r] THEN {r} ELSE {})
          /\ Distinct(errors')
      <3>1. Distinct(errors) /\ r \notin Elements(errors) BY <2>4 DEF Placed, Kept
      <3>2. CASE failed[r]
        <4>1. errors' = Append(errors, r) BY <3>2
        <4> QED BY <2>2, <3>1, <3>2, <4>1, Appended DEF TypeOK
      <3>3. CASE ~ failed[r]
        <4>1. errors' = errors BY <3>3
        <4> QED BY <3>1, <3>3, <4>1 DEF TypeOK
      <3> QED BY <3>2, <3>3
    <2>6. /\ dpc'[Unload] = "idle" /\ on'[Unload] = NoRecord
          /\ \A q \in Drainers : q # Unload => dpc'[q] = dpc[q] /\ on'[q] = on[q]
      BY <2>1 DEF TypeOK
    <2>7. TypeOK' BY <2>5 DEF TypeOK
    <2>8. InFlight' = InFlight /\ Counted' BY SameCounted
    <2>9. Driven' BY <2>6, <2>8 DEF Driven, Emptied
    <2>10. Tasked' BY DEF Tasked
    <2>11. Joins' BY <2>6 DEF Joins
    <2>12. /\ Ours' = Ours /\ Elements(effects') = Elements(effects)
           /\ Elements(taken') = Elements(taken) /\ Elements(drained') = Elements(drained)
      BY DEF Ours
    <2>13. /\ Held' = Held \ {r} BY <2>3, <2>4, <2>12 DEF Held
    <2>14. Kept' = Kept \cup (IF failed[r] THEN {r} ELSE {}) BY <2>5, <2>12 DEF Kept
    <2>15. Placed'
      <3>1. (Held \cup Kept \subseteq Ours)' BY <2>4, <2>12, <2>13, <2>14 DEF Placed
      <3>2. (Elements(effects) \cap Elements(taken) = {})'
            /\ (InHand \cap (Elements(effects) \cup Elements(taken)) = {})'
        BY <2>3, <2>12 DEF Placed
      <3>3. (Held \cap Kept = {})' BY <2>13, <2>14 DEF Placed
      <3>4. (Elements(drained) \cap Elements(errors) = {})'
        BY <2>4, <2>5, <2>12 DEF Placed, Kept
      <3>5. (Distinct(drained) /\ Distinct(errors))' BY <2>5 DEF Placed
      <3>6. \A q \in Kept' : failed'[q] /\ st'[q] = "done" BY <2>2, <2>14 DEF Placed
      <3>7. \A q \in Records : reg'[q] = "registered" /\ q \notin Held' => st'[q] = "done"
        BY <2>2, <2>13 DEF Placed
      <3>8. \A q \in Ours' : q \notin Held' /\ failed'[q] => q \in Kept'
        BY <2>12, <2>13, <2>14 DEF Placed
      <3> QED BY <3>1, <3>2, <3>3, <3>4, <3>5, <3>6, <3>7, <3>8 DEF Placed
    <2>16. Ordered' BY SameOrdered
    <2> QED BY <2>7, <2>8, <2>9, <2>10, <2>11, <2>15, <2>16
  <1>5. CASE Collect
    <2> USE <1>5 DEF Collect
    <2>1. /\ errors' \in Seq(Records)
          /\ Elements(errors') = Kept
          /\ Distinct(errors')
      BY Concatenated DEF TypeOK, Placed, Kept
    <2>2. TypeOK' BY <2>1, EmptyList DEF TypeOK
    <2>3. InFlight' = InFlight /\ Counted' BY SameCounted
    <2>4. Driven' BY <2>3 DEF Driven, Emptied
    <2>5. Tasked' /\ Joins' BY DEF Tasked, Joins
    <2>6. /\ Ours' = Ours /\ Elements(effects') = Elements(effects)
          /\ Elements(taken') = Elements(taken) /\ Elements(drained') = {}
          /\ InHand' = InHand
      BY EmptyList DEF Ours, InHand
    <2>7. Held' = Held /\ Kept' = Kept BY <2>1, <2>6 DEF Held, Kept
    <2>8. Placed' BY <2>1, <2>6, <2>7, EmptyList DEF Placed
    <2>9. Ordered' BY SameOrdered
    <2> QED BY <2>2, <2>3, <2>4, <2>5, <2>8, <2>9
  <1>6. CASE Publish
    <2> USE <1>6 DEF Publish
    <2>1. TypeOK' BY DEF TypeOK
    <2>2. InFlight' = InFlight /\ Counted' BY SameCounted
    <2>3. Driven' BY <2>2 DEF Driven, Emptied
    <2>4. Tasked' /\ Joins' BY DEF Tasked, Joins
    <2>5. Ours' = Ours BY DEF Ours
    <2>6. Placed' BY <2>5, SamePlaced DEF InHand
    <2>7. Ordered' BY SameOrdered
    <2> QED BY <2>1, <2>2, <2>3, <2>4, <2>6, <2>7
  <1> QED BY <1>1, <1>2, <1>3, <1>4, <1>5, <1>6 DEF Unloading

(* The stop and the next load. *)
LEMMA InvStop ==
  ASSUME IInv, Stop
  PROVE  IInv'
  <1> USE DEF IInv, Stop
  <1>1. TypeOK' BY DEF TypeOK
  <1>2. InFlight' = InFlight /\ Counted' BY SameCounted
  <1>3. Driven' BY <1>2 DEF Driven, Emptied
  <1>4. Tasked' /\ Joins' BY DEF Tasked, Joins
  <1>5. Ours' = Ours BY DEF Ours
  <1>6. Placed' BY <1>5, SamePlaced DEF InHand, Driven
  <1>7. Ordered' BY SameOrdered
  <1> QED BY <1>1, <1>2, <1>3, <1>4, <1>6, <1>7

LEMMA InvLoad ==
  ASSUME IInv, Load
  PROVE  IInv'
  <1> USE DEF IInv, Load
  <1>1. TypeOK'
    <2>1. gen' \in 0 .. MaxGen BY EffectsAssumption DEF TypeOK
    <2> QED BY <2>1, EmptyList DEF TypeOK
  <1>2. InFlight' = InFlight /\ Counted' BY SameCounted
  <1>3. Driven' BY <1>2 DEF Driven, Emptied
  <1>4. \A r \in Records : from[r] \in Nat /\ gen \in Nat /\ from[r] <= gen
    BY DEF Tasked, TypeOK
  <1>5. Tasked' BY <1>4 DEF Tasked
  <1>6. Joins' BY DEF Joins
  <1>7. /\ effects = <<>> /\ taken = <<>> /\ drained = <<>> /\ upc = "idle"
        /\ effects' = <<>> /\ taken' = <<>> /\ drained' = <<>> /\ errors' = <<>>
    BY DEF Driven, Emptied
  <1>8. Ours' = {} BY <1>4 DEF Ours
  <1>9. Held = {} /\ Held' = {} /\ Kept' = {} BY <1>7, EmptyList DEF Held, Kept, InHand
  <1>10. Placed' BY <1>7, <1>8, <1>9, EmptyList DEF Placed, InHand
  <1>11. Ordered' BY SameOrdered
  <1> QED BY <1>1, <1>2, <1>3, <1>5, <1>6, <1>10, <1>11

(* The next state, whatever the step. *)
LEMMA InvNext == IInv /\ [Next]_vars => IInv'
  <1> SUFFICES ASSUME IInv, [Next]_vars PROVE IInv' OBVIOUS
  <1>1. CASE UNCHANGED vars
    <2> USE <1>1 DEF vars, IInv
    <2>1. TypeOK' BY DEF TypeOK
    <2>2. InFlight' = InFlight /\ Counted' BY SameCounted
    <2>3. Driven' BY <2>2 DEF Driven, Emptied
    <2>4. Tasked' /\ Joins' BY DEF Tasked, Joins
    <2>5. Ours' = Ours BY DEF Ours
    <2>6. Placed' BY <2>5, SamePlaced DEF InHand
    <2>7. Ordered' BY SameOrdered
    <2> QED BY <2>1, <2>2, <2>3, <2>4, <2>6, <2>7
  <1> QED BY <1>1, InvRegistering, InvDispose, InvJoining, InvRunning, InvUnloading, InvStop,
             InvLoad DEF Next, Rest

(* Effects keeps its inductive invariant. *)
LEMMA Invariant == Spec => []IInv
  BY InvInit, InvNext, PTL DEF Spec

-----------------------------------------------------------------------------
(* What follows from it *)

(* A registration the unload overtook is cleaned up before the fiber is at  *)
(* rest, unless it outlasted the deadline: the unload waits for the leases, *)
(* and a lease outlives the cleanup of what was refused (NoStragglers).     *)
THEOREM StragglersCleaned == Spec => []NoStragglers
  <1>1. IInv => NoStragglers
    <2> SUFFICES ASSUME IInv, state = "Pending", ~ late, NEW r \in Records
                 PROVE  reg[r] # "factory" /\ (reg[r] \in {"refused", "over"} => st[r] = "done")
      BY DEF IInv, NoStragglers
    <2>1. InFlight = {} BY DEF IInv, Driven
    <2>2. reg[r] \notin {"factory", "refused"} BY <2>1 DEF InFlight
    <2> QED BY <2>2 DEF IInv, Tasked
  <1> QED BY <1>1, Invariant, PTL

(* The cleanups of a record run once, whoever drains it, and have run when  *)
(* its fiber is at rest (CleanedExactlyOnce): nothing is listed, taken or   *)
(* joined then, and what is past is done.                                   *)
THEOREM CleanedOnce == Spec => []CleanedExactlyOnce
  <1>1. IInv => CleanedExactlyOnce
    <2> SUFFICES ASSUME IInv PROVE CleanedExactlyOnce OBVIOUS
    <2>1. \A r \in Records : cleaned[r] <= 1 BY DEF IInv, Tasked
    <2>2. ASSUME state = "Pending", NEW r \in Records, reg[r] = "registered"
          PROVE  cleaned[r] = 1
      <3>1. effects = <<>> /\ taken = <<>> /\ upc # "join"
        BY <2>2 DEF IInv, Driven, Emptied
      <3>2. Held = {} BY <3>1, EmptyList DEF Held, InHand
      <3>3. st[r] = "done" BY <2>2, <3>2 DEF IInv, Placed
      <3> QED BY <3>3 DEF IInv, Tasked
    <2> QED BY <2>1, <2>2 DEF CleanedExactlyOnce
  <1> QED BY <1>1, Invariant, PTL

(* An unload reports each failed cleanup of its generation once, and no     *)
(* other: the error is collected with the record or was kept when the       *)
(* record left the list, never both (EachErrorReportedOnce).                *)
THEOREM ErrorsReported == Spec => []EachErrorReportedOnce
  <1>1. IInv => EachErrorReportedOnce
    <2> SUFFICES ASSUME IInv, state = "Pending", NEW r \in Records
                 PROVE  Cardinality({i \in 1 .. Len(errors) : errors[i] = r})
                          = IF reg[r] = "registered" /\ from[r] = gen /\ failed[r]
                            THEN 1 ELSE 0
      BY DEF EachErrorReportedOnce
    <2> DEFINE at == {i \in 1 .. Len(errors) : errors[i] = r}
    <2>1. effects = <<>> /\ taken = <<>> /\ drained = <<>> /\ upc # "join"
      BY DEF IInv, Driven, Emptied
    <2>2. Held = {} /\ Kept = Elements(errors) BY <2>1, EmptyList DEF Held, InHand, Kept
    <2>3. r \in Elements(errors) <=> r \in Ours /\ failed[r]
      BY <2>2 DEF IInv, Placed
    <2>4. CASE r \in Elements(errors)
      <3>1. PICK k \in 1 .. Len(errors) : errors[k] = r BY <2>4 DEF Elements
      <3>2. at = {k} BY <3>1 DEF IInv, Placed, Distinct
      <3>3. Cardinality(at) = 1 BY <3>2, FS_Singleton
      <3> QED BY <2>3, <2>4, <3>3 DEF Ours
    <2>5. CASE r \notin Elements(errors)
      <3>1. at = {} BY <2>5 DEF Elements
      <3>2. Cardinality(at) = 0 BY <3>1, FS_EmptySet
      <3> QED BY <2>3, <2>5, <3>2 DEF Ours
    <2> QED BY <2>4, <2>5
  <1> QED BY <1>1, Invariant, PTL

(* The unload cleans a record up only after every record registered after   *)
(* it (LastRegisteredFirst): what it took is in the order of registration,  *)
(* and what it did not take is past.                                        *)
THEOREM LastFirst == Spec => LastRegisteredFirst
  <1> DEFINE Step == \A i, j \in 1 .. Len(order) :
                       i < j /\ on[Unload] # order[i] /\ on'[Unload] = order[i]
                         => cleaned[order[j]] = 1
  <1>1. IInv /\ [Next]_vars => [Step]_vars
    <2> SUFFICES ASSUME IInv, Next, NEW i \in 1 .. Len(order), NEW j \in 1 .. Len(order),
                        i < j, on[Unload] # order[i], on'[Unload] = order[i]
                 PROVE  cleaned[order[j]] = 1
      OBVIOUS
    <2>1. /\ order[i] \in Records /\ order[j] \in Records
          /\ reg[order[j]] = "registered"
      BY ListTyped DEF IInv, Ordered, TypeOK
    <2>2. DrainNext
      <3> USE EffectsAssumption DEF IInv, TypeOK, Drainers
      <3>1. on'[Unload] # on[Unload] /\ on'[Unload] # NoRecord BY <2>1
      <3>2. \A r \in Records : ~ (Lease(r) \/ Registering(r) \/ Running(r))
        BY <3>1 DEF Lease, Registering, Register, Refuse, Refused, Running, Clean, Finish,
             Detach, Notify
      <3>3. \A d \in Disposers : ~ Dispose(d) BY <3>1 DEF Dispose, StartDrain
      <3>4. \A p \in Drainers : ~ Joining(p) BY <3>1 DEF Joining, Arm, Check
      <3>5. ~ (Stop \/ WaitEvents \/ Take \/ Joined \/ Collect \/ Publish \/ Load \/ Rest)
        BY <3>1 DEF Stop, WaitEvents, Take, Joined, Collect, Publish, Load, Rest, vars
      <3> QED BY <3>2, <3>3, <3>4, <3>5 DEF Next, Unloading
    <2>3. order[i] = taken[Len(taken)] /\ taken # <<>> /\ upc = "next"
      BY <2>2 DEF DrainNext, StartDrain, NextOf, IInv, TypeOK, Drainers
    <2>4. order[j] \notin Elements(taken)
      <3> SUFFICES ASSUME order[j] \in Elements(taken) PROVE FALSE OBVIOUS
      <3>1. PICK k \in 1 .. Len(taken) : taken[k] = order[j] BY DEF Elements
      <3>2. Len(taken) \in Nat /\ Len(order) \in Nat
        BY LenProperties DEF IInv, TypeOK
      <3>3. \A m, n \in 1 .. Len(order) : order[m] = order[n] => m = n
        BY DEF IInv, Ordered, Distinct
      <3>4. k # Len(taken) BY <2>3, <3>1, <3>2, <3>3
      <3>5. Len(taken) \in 1 .. Len(taken) /\ k < Len(taken) BY <3>2, <3>4
      <3>6. Before(order, order[j], order[i])
        BY <2>3, <3>1, <3>5 DEF IInv, Ordered, InOrder
      <3>7. PICK m, n \in 1 .. Len(order) : m < n /\ order[m] = order[j] /\ order[n] = order[i]
        BY <3>6 DEF Before
      <3>8. m = j /\ n = i BY <3>3, <3>7
      <3> QED BY <3>2, <3>7, <3>8
    <2>5. order[j] \notin Held
      <3>1. effects = <<>> /\ InHand = {} BY <2>3 DEF IInv, Driven, Emptied, InHand
      <3> QED BY <2>4, <3>1, EmptyList DEF Held
    <2>6. st[order[j]] = "done" BY <2>1, <2>5 DEF IInv, Placed
    <2> QED BY <2>1, <2>6 DEF IInv, Tasked
  <1> QED BY <1>1, Invariant, PTL DEF Spec, LastRegisteredFirst
=============================================================================
