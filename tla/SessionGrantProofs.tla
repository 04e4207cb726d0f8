------------------------- MODULE SessionGrantProofs -------------------------
(***************************************************************************)
(* The references of a session, for any number of calls: an export holds   *)
(* exactly the grants that are on their way, held or on their way back     *)
(* (GrantsCounted), and no end ever takes a frame of the other for a       *)
(* breach of the protocol (NothingRefused).                                *)
(*                                                                         *)
(* The invariant adds to that of SessionProofs what a grant is owed for    *)
(* (Owes), that a reference sent home is still exported when it arrives,   *)
(* whatever is given back before it (Lasts), where the references in       *)
(* frames and tables come from (Granting, Holding, Named, Imported), and   *)
(* that calls arrive in their order and replies while they are expected    *)
(* (Ordered, Expected).                                                    *)
(***************************************************************************)
EXTENDS SessionProofs, FunctionTheorems, SequenceTheorems

USE DEF transit, calling, serving, exports, importing

-----------------------------------------------------------------------------
(* Totals *)

Pairs(f) == UNION {{i} \X (1 .. f[i]) : i \in DOMAIN f}

(* The list without one of its numbers *)
Off(f, k) == [i \in DOMAIN f \ {k} |-> f[i]]

LEMMA PairsIn ==
  ASSUME NEW f
  PROVE  \A i, j : <<i, j>> \in Pairs(f) <=> i \in DOMAIN f /\ j \in 1 .. f[i]
  BY DEF Pairs

LEMMA PairsShape ==
  ASSUME NEW f, NEW p \in Pairs(f)
  PROVE  \E i \in DOMAIN f : \E j \in 1 .. f[i] : p = <<i, j>>
  BY DEF Pairs

LEMMA PairsFinite ==
  ASSUME NEW D, IsFiniteSet(D), NEW f \in [D -> Nat]
  PROVE  IsFiniteSet(Pairs(f))
  <1> DEFINE T == {{i} \X (1 .. f[i]) : i \in D}
             g == [i \in D |-> {i} \X (1 .. f[i])]
  <1>1. g \in Surjection(D, T) BY DEF Surjection
  <1>2. IsFiniteSet(T) BY <1>1, FS_Surjection
  <1>3. ASSUME NEW i \in D PROVE IsFiniteSet({i} \X (1 .. f[i]))
    <2>1. f[i] \in Int /\ 1 \in Int OBVIOUS
    <2>2. IsFiniteSet(1 .. f[i]) BY <2>1, FS_Interval
    <2>3. IsFiniteSet({i}) BY FS_Singleton
    <2> QED BY <2>2, <2>3, FS_Product
  <1>4. \A S \in T : IsFiniteSet(S) BY <1>3
  <1>5. IsFiniteSet(UNION T) BY <1>2, <1>4, FS_UNION
  <1> QED BY <1>5 DEF Pairs

LEMMA TotalNat ==
  ASSUME NEW D, IsFiniteSet(D), NEW f \in [D -> Nat]
  PROVE  Total(f) \in Nat
  BY PairsFinite, FS_CardinalityType DEF Total, Pairs

LEMMA OffTyped ==
  ASSUME NEW D, IsFiniteSet(D), NEW f \in [D -> Nat], NEW k \in D
  PROVE  IsFiniteSet(D \ {k}) /\ Off(f, k) \in [D \ {k} -> Nat]
  BY FS_RemoveElement DEF Off

(* A total is one number and the total of the others. *)
LEMMA TotalSplit ==
  ASSUME NEW D, IsFiniteSet(D), NEW f \in [D -> Nat], NEW k \in D
  PROVE  Total(f) = f[k] + Total(Off(f, k))
  <1> DEFINE h == Off(f, k)
             K == {k} \X (1 .. f[k])
  <1>1. IsFiniteSet(D \ {k}) /\ h \in [D \ {k} -> Nat] BY OffTyped
  <1>2. IsFiniteSet(Pairs(h)) BY <1>1, PairsFinite
  <1>3. IsFiniteSet(K) /\ Cardinality(K) = f[k]
    <2>1. f[k] \in Nat /\ f[k] \in Int /\ 1 \in Int OBVIOUS
    <2>2. IsFiniteSet(1 .. f[k]) /\ Cardinality(1 .. f[k]) = f[k]
      BY <2>1, FS_Interval
    <2>3. IsFiniteSet({k}) /\ Cardinality({k}) = 1 BY FS_Singleton
    <2>4. IsFiniteSet(K) /\ Cardinality(K) = 1 * f[k] BY <2>2, <2>3, FS_Product, ZenonT(30)
    <2> QED BY <2>1, <2>4
  <1>4. Pairs(f) = K \cup Pairs(h)
    <2>1. ASSUME NEW p \in Pairs(f) PROVE p \in K \cup Pairs(h)
      <3>1. PICK i \in D : \E j \in 1 .. f[i] : p = <<i, j>> BY PairsShape
      <3>2. CASE i = k BY <3>1, <3>2
      <3>3. CASE i # k
        <4>1. i \in DOMAIN h /\ h[i] = f[i] BY <3>3 DEF Off
        <4> QED BY <3>1, <4>1, PairsIn
      <3> QED BY <3>2, <3>3
    <2>2. ASSUME NEW p \in K PROVE p \in Pairs(f)
      <3>1. PICK j \in 1 .. f[k] : p = <<k, j>> OBVIOUS
      <3> QED BY <3>1, PairsIn
    <2>3. ASSUME NEW p \in Pairs(h) PROVE p \in Pairs(f)
      <3>1. PICK i \in D \ {k} : \E j \in 1 .. h[i] : p = <<i, j>> BY PairsShape, <1>1
      <3>2. h[i] = f[i] BY DEF Off
      <3> QED BY <3>1, <3>2, PairsIn
    <2> QED BY <2>1, <2>2, <2>3
  <1>5. K \cap Pairs(h) = {}
    <2>1. ASSUME NEW p \in K, p \in Pairs(h) PROVE FALSE
      <3>1. PICK i \in D \ {k} : \E j \in 1 .. h[i] : p = <<i, j>> BY PairsShape, <1>1, <2>1
      <3>2. p[1] = k OBVIOUS
      <3> QED BY <3>1, <3>2
    <2> QED BY <2>1
  <1>6. Cardinality(Pairs(f)) = f[k] + Cardinality(Pairs(h)) - Cardinality({})
    BY <1>2, <1>3, <1>4, <1>5, FS_Union
  <1>7. Cardinality(Pairs(h)) \in Nat /\ Cardinality({}) = 0
    BY <1>2, FS_CardinalityType, FS_EmptySet
  <1> QED BY <1>6, <1>7 DEF Total, Pairs

(* A number more at the end, *)
LEMMA TotalAppended ==
  ASSUME NEW n \in Nat, NEW f \in [1 .. n -> Nat], NEW g \in [1 .. n + 1 -> Nat],
         \A i \in 1 .. n : g[i] = f[i]
  PROVE  Total(g) = Total(f) + g[n + 1]
  <1>1. IsFiniteSet(1 .. n + 1) /\ IsFiniteSet(1 .. n) BY FS_Interval
  <1>2. (1 .. n + 1) \ {n + 1} = 1 .. n OBVIOUS
  <1>3. Off(g, n + 1) = f BY <1>2 DEF Off
  <1>4. Total(g) = g[n + 1] + Total(f) BY <1>1, <1>3, TotalSplit
  <1>5. Total(f) \in Nat BY <1>1, TotalNat
  <1> QED BY <1>4, <1>5

(* and one less at its head. *)
LEMMA TotalShifted ==
  ASSUME NEW n \in Nat, NEW f \in [1 .. n + 1 -> Nat], NEW g \in [1 .. n -> Nat],
         \A i \in 1 .. n : g[i] = f[i + 1]
  PROVE  Total(f) = f[1] + Total(g)
  <1> DEFINE h == Off(f, 1)
             b == [p \in Pairs(g) |-> <<p[1] + 1, p[2]>>]
  <1>1. IsFiniteSet(1 .. n + 1) /\ IsFiniteSet(1 .. n) BY FS_Interval
  <1>2. (1 .. n + 1) \ {1} = 2 .. n + 1 OBVIOUS
  <1>3. h \in [2 .. n + 1 -> Nat] /\ Total(f) = f[1] + Total(h)
    <2>1. 1 \in 1 .. n + 1 OBVIOUS
    <2>2. h \in [(1 .. n + 1) \ {1} -> Nat] BY <1>1, <2>1, OffTyped
    <2>3. IsFiniteSet((1 .. n + 1) \ {1}) BY <1>1, <2>1, OffTyped
    <2>4. Total(h) \in Nat BY <2>2, <2>3, TotalNat
    <2>5. Total(f) = f[1] + Total(h) BY <1>1, <2>1, <2>4, TotalSplit
    <2> QED BY <1>2, <2>2, <2>5
  <1>4. \A i \in 1 .. n : i + 1 \in 2 .. n + 1 /\ h[i + 1] = g[i] BY DEF Off
  <1>5. b \in Bijection(Pairs(g), Pairs(h))
    <2>1. ASSUME NEW p \in Pairs(g)
          PROVE  p = <<p[1], p[2]>> /\ p[1] \in 1 .. n /\ p[2] \in 1 .. g[p[1]]
      BY PairsShape
    <2>2. \A p \in Pairs(g) : <<p[1] + 1, p[2]>> \in Pairs(h)
      BY <2>1, <1>3, <1>4, PairsIn
    <2>3. b \in Injection(Pairs(g), Pairs(h))
      <3>1. b \in [Pairs(g) -> Pairs(h)] BY <2>2
      <3>2. ASSUME NEW p \in Pairs(g), NEW q \in Pairs(g), b[p] = b[q] PROVE p = q
        <4>1. b[p] = <<p[1] + 1, p[2]>> /\ b[q] = <<q[1] + 1, q[2]>> OBVIOUS
        <4>2. p[1] + 1 = q[1] + 1 /\ p[2] = q[2] BY <3>2, <4>1
        <4>3. p[1] = q[1] BY <4>2, <2>1
        <4> QED BY <4>2, <4>3, <2>1
      <3> QED BY <3>1, <3>2, Fun_IsInj
    <2>4. b \in Surjection(Pairs(g), Pairs(h))
      <3>1. ASSUME NEW p \in Pairs(h) PROVE \E q \in Pairs(g) : b[q] = p
        <4>1. PICK i \in 2 .. n + 1 : \E j \in 1 .. h[i] : p = <<i, j>>
          BY PairsShape, <1>3
        <4>2. PICK j \in 1 .. h[i] : p = <<i, j>> BY <4>1
        <4>3. i - 1 \in 1 .. n /\ (i - 1) + 1 = i OBVIOUS
        <4>4. h[i] = g[i - 1] BY <4>3, <1>4
        <4>5. <<i - 1, j>> \in Pairs(g) BY <4>3, <4>4, PairsIn
        <4>6. b[<<i - 1, j>>] = p BY <4>2, <4>3, <4>5
        <4> QED BY <4>5, <4>6
      <3>2. b \in [Pairs(g) -> Pairs(h)] BY <2>2
      <3> QED BY <3>1, <3>2, Fun_IsSurj
    <2> QED BY <2>3, <2>4 DEF Bijection
  <1>6. IsFiniteSet(Pairs(g)) BY <1>1, PairsFinite
  <1>7. ExistsBijection(Pairs(g), Pairs(h)) BY <1>5 DEF ExistsBijection
  <1>8. Cardinality(Pairs(h)) = Cardinality(Pairs(g)) BY <1>6, <1>7, FS_Bijection
  <1>9. Total(h) = Total(g) BY <1>8 DEF Total, Pairs
  <1> QED BY <1>3, <1>9

(* Fewer numbers have no greater total, ... *)
LEMMA TotalWithin ==
  ASSUME NEW D, IsFiniteSet(D), NEW f \in [D -> Nat], NEW E \in SUBSET D, NEW g \in [E -> Nat],
         \A i \in E : g[i] = f[i]
  PROVE  Total(g) \in Nat /\ Total(f) \in Nat /\ Total(g) <= Total(f)
  <1>1. Pairs(g) \subseteq Pairs(f)
    <2>1. ASSUME NEW p \in Pairs(g) PROVE p \in Pairs(f)
      <3>1. PICK i \in E : \E j \in 1 .. g[i] : p = <<i, j>> BY PairsShape
      <3> QED BY <3>1, PairsIn
    <2> QED BY <2>1
  <1>2. IsFiniteSet(Pairs(f)) BY PairsFinite
  <1>3. Cardinality(Pairs(g)) <= Cardinality(Pairs(f)) BY <1>1, <1>2, FS_Subset
  <1>4. IsFiniteSet(E) BY FS_Subset
  <1> QED BY <1>3, <1>4, TotalNat DEF Total, Pairs

(* ... and none have none. *)
LEMMA TotalNone ==
  ASSUME NEW f, DOMAIN f = {}
  PROVE  Total(f) = 0
  BY FS_EmptySet DEF Total

-----------------------------------------------------------------------------
(* What lists of frames and of Imports amount to, for a reference *)

One(v, r) == IF v = Own(r) THEN 1 ELSE 0
Given(f, r) == IF f.op = "release" /\ f.val.ref = r THEN f.id ELSE 0
Has(m, r) == IF m.ref = r THEN m.n ELSE 0

OnWay(q, r) == Total(OwnIn(q, r))
Back(q, r) == Total(ReleasedIn(q, r))
Kept(m, r) == Total(HeldIn(m, r))

(* What is given back before the frame at i is read. *)
Before(q, i, r) == Total([j \in 1 .. i - 1 |-> Given(q[j], r)])

LEMMA GivenNat ==
  ASSUME NEW f \in Messages, NEW r
  PROVE  Given(f, r) \in Nat /\ One(f.val, r) \in Nat
  BY DEF Given, One, Messages

LEMMA ListNumbers ==
  ASSUME NEW q \in Seq(Messages), NEW r
  PROVE  /\ OwnIn(q, r) \in [1 .. Len(q) -> Nat]
         /\ ReleasedIn(q, r) \in [1 .. Len(q) -> Nat]
         /\ \A i \in 1 .. Len(q) : /\ OwnIn(q, r)[i] = One(q[i].val, r)
                                   /\ ReleasedIn(q, r)[i] = Given(q[i], r)
  <1>1. DOMAIN q = 1 .. Len(q) /\ \A i \in 1 .. Len(q) : q[i] \in Messages OBVIOUS
  <1>2. \A i \in 1 .. Len(q) : q[i].id \in Nat BY <1>1 DEF Messages
  <1> QED BY <1>1, <1>2 DEF OwnIn, ReleasedIn, One, Given

LEMMA HeldNumbers ==
  ASSUME NEW m \in Seq(ImportRecs), NEW r
  PROVE  /\ HeldIn(m, r) \in [1 .. Len(m) -> Nat]
         /\ \A i \in 1 .. Len(m) : HeldIn(m, r)[i] = Has(m[i], r) /\ Has(m[i], r) \in Nat
  <1>1. DOMAIN m = 1 .. Len(m) /\ \A i \in 1 .. Len(m) : m[i] \in ImportRecs OBVIOUS
  <1>2. \A i \in 1 .. Len(m) : m[i].n \in Nat BY <1>1 DEF ImportRecs
  <1> QED BY <1>1, <1>2 DEF HeldIn, Has

LEMMA BeforeNumbers ==
  ASSUME NEW q \in Seq(Messages), NEW r, NEW i \in 1 .. Len(q) + 1
  PROVE  [j \in 1 .. i - 1 |-> Given(q[j], r)] \in [1 .. i - 1 -> Nat]
  <1>1. \A j \in 1 .. i - 1 : q[j] \in Messages OBVIOUS
  <1> QED BY <1>1, GivenNat

LEMMA ListTotals ==
  ASSUME NEW q \in Seq(Messages), NEW r
  PROVE  OnWay(q, r) \in Nat /\ Back(q, r) \in Nat
  <1>1. Len(q) \in Nat /\ 1 \in Int OBVIOUS
  <1>2. IsFiniteSet(1 .. Len(q)) BY <1>1, FS_Interval
  <1> QED BY <1>2, ListNumbers, TotalNat DEF OnWay, Back

LEMMA HeldTotal ==
  ASSUME NEW m \in Seq(ImportRecs), NEW r
  PROVE  Kept(m, r) \in Nat
  <1>1. Len(m) \in Nat /\ 1 \in Int OBVIOUS
  <1>2. IsFiniteSet(1 .. Len(m)) BY <1>1, FS_Interval
  <1> QED BY <1>2, HeldNumbers, TotalNat DEF Kept

LEMMA ListAppended ==
  ASSUME NEW q \in Seq(Messages), NEW f \in Messages, NEW r
  PROVE  /\ OnWay(Append(q, f), r) = OnWay(q, r) + One(f.val, r)
         /\ Back(Append(q, f), r) = Back(q, r) + Given(f, r)
  <1> DEFINE t == Append(q, f)
             n == Len(q)
  <1>1. /\ n \in Nat /\ t \in Seq(Messages) /\ Len(t) = n + 1 /\ t[n + 1] = f
        /\ \A i \in 1 .. n : t[i] = q[i]
    OBVIOUS
  <1> HIDE DEF t, n
  <1>2. /\ OwnIn(q, r) \in [1 .. n -> Nat] /\ ReleasedIn(q, r) \in [1 .. n -> Nat]
        /\ \A i \in 1 .. n : /\ OwnIn(q, r)[i] = One(q[i].val, r)
                             /\ ReleasedIn(q, r)[i] = Given(q[i], r)
    BY ListNumbers DEF n
  <1>3. /\ OwnIn(t, r) \in [1 .. n + 1 -> Nat] /\ ReleasedIn(t, r) \in [1 .. n + 1 -> Nat]
        /\ \A i \in 1 .. n + 1 : /\ OwnIn(t, r)[i] = One(t[i].val, r)
                                 /\ ReleasedIn(t, r)[i] = Given(t[i], r)
    BY <1>1, ListNumbers
  <1>4. ASSUME NEW i \in 1 .. n
        PROVE  OwnIn(t, r)[i] = OwnIn(q, r)[i] /\ ReleasedIn(t, r)[i] = ReleasedIn(q, r)[i]
    <2>1. i \in 1 .. n + 1 /\ t[i] = q[i] BY <1>1
    <2> QED BY <2>1, <1>2, <1>3
  <1>5. n + 1 \in 1 .. n + 1 BY <1>1
  <1>6. OwnIn(t, r)[n + 1] = One(f.val, r) /\ ReleasedIn(t, r)[n + 1] = Given(f, r)
    BY <1>1, <1>3, <1>5
  <1>7. Total(OwnIn(t, r)) = Total(OwnIn(q, r)) + OwnIn(t, r)[n + 1]
    BY <1>1, <1>2, <1>3, <1>4, TotalAppended
  <1>8. Total(ReleasedIn(t, r)) = Total(ReleasedIn(q, r)) + ReleasedIn(t, r)[n + 1]
    BY <1>1, <1>2, <1>3, <1>4, TotalAppended
  <1> QED BY <1>6, <1>7, <1>8 DEF OnWay, Back, t

LEMMA ListTaken ==
  ASSUME NEW q \in Seq(Messages), q # <<>>, NEW r
  PROVE  /\ OnWay(q, r) = One(q[1].val, r) + OnWay(Tail(q), r)
         /\ Back(q, r) = Given(q[1], r) + Back(Tail(q), r)
  <1> DEFINE t == Tail(q)
             n == Len(t)
  <1>1. /\ n \in Nat /\ t \in Seq(Messages) /\ Len(q) = n + 1
        /\ \A i \in 1 .. n : t[i] = q[i + 1]
    OBVIOUS
  <1> HIDE DEF t, n
  <1>2. /\ OwnIn(q, r) \in [1 .. n + 1 -> Nat] /\ ReleasedIn(q, r) \in [1 .. n + 1 -> Nat]
        /\ \A i \in 1 .. n + 1 : /\ OwnIn(q, r)[i] = One(q[i].val, r)
                                 /\ ReleasedIn(q, r)[i] = Given(q[i], r)
    BY <1>1, ListNumbers
  <1>3. /\ OwnIn(t, r) \in [1 .. n -> Nat] /\ ReleasedIn(t, r) \in [1 .. n -> Nat]
        /\ \A i \in 1 .. n : /\ OwnIn(t, r)[i] = One(t[i].val, r)
                             /\ ReleasedIn(t, r)[i] = Given(t[i], r)
    BY <1>1, ListNumbers DEF n
  <1>4. \A i \in 1 .. n : i + 1 \in 1 .. n + 1 BY <1>1
  <1>5. \A i \in 1 .. n : /\ OwnIn(t, r)[i] = OwnIn(q, r)[i + 1]
                          /\ ReleasedIn(t, r)[i] = ReleasedIn(q, r)[i + 1]
    BY <1>1, <1>2, <1>3, <1>4
  <1>6. 1 \in 1 .. n + 1 BY <1>1
  <1>7. OwnIn(q, r)[1] = One(q[1].val, r) /\ ReleasedIn(q, r)[1] = Given(q[1], r)
    BY <1>2, <1>6
  <1>8. Total(OwnIn(q, r)) = OwnIn(q, r)[1] + Total(OwnIn(t, r))
    BY <1>1, <1>2, <1>3, <1>5, TotalShifted
  <1>9. Total(ReleasedIn(q, r)) = ReleasedIn(q, r)[1] + Total(ReleasedIn(t, r))
    BY <1>1, <1>2, <1>3, <1>5, TotalShifted
  <1> QED BY <1>7, <1>8, <1>9 DEF OnWay, Back, t

(* The first frames of a list *)
Prefix(p, q) == Len(p) <= Len(q) /\ \A i \in 1 .. Len(p) : p[i] = q[i]

LEMMA ListCut ==
  ASSUME NEW p \in Seq(Messages), NEW q \in Seq(Messages), Prefix(p, q), NEW r
  PROVE  OnWay(p, r) <= OnWay(q, r) /\ Back(p, r) <= Back(q, r)
  <1>1. Len(p) \in Nat /\ Len(q) \in Nat /\ 1 \in Int OBVIOUS
  <1>2. 1 .. Len(p) \in SUBSET (1 .. Len(q)) BY <1>1 DEF Prefix
  <1>3. IsFiniteSet(1 .. Len(q)) BY <1>1, FS_Interval
  <1>4. ASSUME NEW i \in 1 .. Len(p)
        PROVE  OwnIn(p, r)[i] = OwnIn(q, r)[i] /\ ReleasedIn(p, r)[i] = ReleasedIn(q, r)[i]
    <2>1. i \in 1 .. Len(q) /\ p[i] = q[i] BY <1>2 DEF Prefix
    <2>2. OwnIn(p, r)[i] = One(p[i].val, r) /\ ReleasedIn(p, r)[i] = Given(p[i], r)
      BY ListNumbers
    <2>3. OwnIn(q, r)[i] = One(q[i].val, r) /\ ReleasedIn(q, r)[i] = Given(q[i], r)
      BY <2>1, ListNumbers
    <2> QED BY <2>1, <2>2, <2>3
  <1>5. /\ OwnIn(p, r) \in [1 .. Len(p) -> Nat] /\ ReleasedIn(p, r) \in [1 .. Len(p) -> Nat]
        /\ OwnIn(q, r) \in [1 .. Len(q) -> Nat] /\ ReleasedIn(q, r) \in [1 .. Len(q) -> Nat]
    BY ListNumbers
  <1>6. Total(OwnIn(p, r)) <= Total(OwnIn(q, r)) BY <1>2, <1>3, <1>4, <1>5, TotalWithin
  <1>7. Total(ReleasedIn(p, r)) <= Total(ReleasedIn(q, r))
    BY <1>2, <1>3, <1>4, <1>5, TotalWithin
  <1> QED BY <1>6, <1>7 DEF OnWay, Back

LEMMA BeforeTotal ==
  ASSUME NEW q \in Seq(Messages), NEW r, NEW i \in 1 .. Len(q) + 1
  PROVE  Before(q, i, r) \in Nat /\ Before(q, i, r) <= Back(q, r)
  <1> DEFINE b == [j \in 1 .. i - 1 |-> Given(q[j], r)]
  <1>1. Len(q) \in Nat /\ 1 \in Int OBVIOUS
  <1>2. 1 .. i - 1 \in SUBSET (1 .. Len(q)) BY <1>1
  <1>3. IsFiniteSet(1 .. Len(q)) BY <1>1, FS_Interval
  <1>4. b \in [1 .. i - 1 -> Nat] BY BeforeNumbers
  <1>5. \A j \in 1 .. i - 1 : b[j] = ReleasedIn(q, r)[j] BY <1>2, ListNumbers
  <1>6. ReleasedIn(q, r) \in [1 .. Len(q) -> Nat] BY ListNumbers
  <1> HIDE DEF b
  <1>7. Total(b) \in Nat /\ Total(b) <= Total(ReleasedIn(q, r))
    BY <1>2, <1>3, <1>4, <1>5, <1>6, TotalWithin
  <1> QED BY <1>7 DEF Before, Back, b

(* All that a list gives back comes before what is put at its end, ... *)
LEMMA BeforeEnd ==
  ASSUME NEW q \in Seq(Messages), NEW r
  PROVE  Before(q, Len(q) + 1, r) = Back(q, r)
  <1>1. Len(q) \in Nat /\ (Len(q) + 1) - 1 = Len(q) OBVIOUS
  <1>2. \A j \in 1 .. Len(q) : ReleasedIn(q, r)[j] = Given(q[j], r) BY ListNumbers
  <1>3. ReleasedIn(q, r) \in [1 .. Len(q) -> Nat] BY ListNumbers
  <1>4. [j \in 1 .. Len(q) |-> Given(q[j], r)] = ReleasedIn(q, r) BY <1>2, <1>3
  <1> QED BY <1>1, <1>4 DEF Before, Back

(* ... what comes before a frame does not depend on what comes after, ... *)
LEMMA BeforeSame ==
  ASSUME NEW p, NEW q, NEW r, NEW i \in Nat, \A j \in 1 .. i - 1 : p[j] = q[j]
  PROVE  Before(p, i, r) = Before(q, i, r)
  <1>1. [j \in 1 .. i - 1 |-> Given(p[j], r)] = [j \in 1 .. i - 1 |-> Given(q[j], r)]
    OBVIOUS
  <1> QED BY <1>1 DEF Before

(* ... and it is less once the head was taken. *)
LEMMA BeforeTaken ==
  ASSUME NEW q \in Seq(Messages), q # <<>>, NEW r, NEW i \in 1 .. Len(Tail(q))
  PROVE  Before(q, i + 1, r) = Given(q[1], r) + Before(Tail(q), i, r)
  <1> DEFINE t == Tail(q)
             b == [j \in 1 .. (i + 1) - 1 |-> Given(q[j], r)]
             c == [j \in 1 .. i - 1 |-> Given(t[j], r)]
             n == i - 1
  <1>1. /\ t \in Seq(Messages) /\ Len(t) \in Nat /\ Len(q) = Len(t) + 1
        /\ \A j \in 1 .. Len(t) : t[j] = q[j + 1]
    OBVIOUS
  <1>2. n \in Nat /\ n + 1 = (i + 1) - 1 /\ i + 1 \in 1 .. Len(q) + 1
        /\ i \in 1 .. Len(t) + 1
    BY <1>1
  <1>3. b \in [1 .. n + 1 -> Nat] BY <1>2, BeforeNumbers
  <1>4. c \in [1 .. n -> Nat] BY <1>1, <1>2, BeforeNumbers
  <1>5. \A j \in 1 .. n : j + 1 \in 1 .. (i + 1) - 1 /\ t[j] = q[j + 1] BY <1>1, <1>2
  <1>6. \A j \in 1 .. n : c[j] = b[j + 1] BY <1>5
  <1>7. 1 \in 1 .. (i + 1) - 1 BY <1>2
  <1>8. b[1] = Given(q[1], r) BY <1>7
  <1> HIDE DEF b, c, n
  <1>9. Total(b) = b[1] + Total(c) BY <1>2, <1>3, <1>4, <1>6, TotalShifted
  <1> QED BY <1>8, <1>9 DEF Before, b, c

-----------------------------------------------------------------------------
(* The channel: what is written and what waits to be *)

LEMMA ChanIs ==
  ASSUME Typed, NEW s \in Side
  PROVE  /\ Chan(s) \in Seq(Messages)
         /\ Len(Chan(s)) = Len(wire[s]) + Len(queued[s])
         /\ \A i \in 1 .. Len(wire[s]) : Chan(s)[i] = wire[s][i]
         /\ \A i \in 1 .. Len(queued[s]) : Chan(s)[Len(wire[s]) + i] = queued[s][i]
         /\ \A f : In(Chan(s), f) <=> In(wire[s], f) \/ In(queued[s], f)
  <1> DEFINE p == wire[s]
             q == queued[s]
  <1>1. p \in Seq(Messages) /\ q \in Seq(Messages) BY DEF Typed
  <1>2. Len(p) \in Nat /\ Len(q) \in Nat BY <1>1
  <1>3. /\ p \o q \in Seq(Messages) /\ Len(p \o q) = Len(p) + Len(q)
        /\ \A i \in 1 .. Len(p) + Len(q) :
             (p \o q)[i] = IF i <= Len(p) THEN p[i] ELSE q[i - Len(p)]
    BY <1>1, ConcatProperties
  <1> HIDE DEF p, q
  <1>4. ASSUME NEW i \in 1 .. Len(p) PROVE i \in 1 .. Len(p) + Len(q) /\ (p \o q)[i] = p[i]
    BY <1>2, <1>3
  <1>5. ASSUME NEW i \in 1 .. Len(q)
        PROVE  Len(p) + i \in 1 .. Len(p) + Len(q) /\ (p \o q)[Len(p) + i] = q[i]
    <2>1. Len(p) + i \in 1 .. Len(p) + Len(q) /\ ~ (Len(p) + i <= Len(p))
          /\ (Len(p) + i) - Len(p) = i
      BY <1>2
    <2> QED BY <2>1, <1>3
  <1>6. ASSUME NEW f PROVE In(p \o q, f) <=> In(p, f) \/ In(q, f)
    <2>1. ASSUME NEW i \in 1 .. Len(p \o q), (p \o q)[i] = f PROVE In(p, f) \/ In(q, f)
      <3>1. i \in 1 .. Len(p) + Len(q) BY <1>3
      <3>2. CASE i <= Len(p)
        <4>1. i \in 1 .. Len(p) /\ p[i] = f BY <1>3, <2>1, <3>1, <3>2
        <4> QED BY <4>1 DEF In
      <3>3. CASE ~ (i <= Len(p))
        <4>1. i - Len(p) \in 1 .. Len(q) BY <1>2, <3>1, <3>3
        <4>2. q[i - Len(p)] = f BY <1>3, <2>1, <3>1, <3>3
        <4> QED BY <4>1, <4>2 DEF In
      <3> QED BY <3>2, <3>3
    <2>2. In(p, f) => In(p \o q, f) BY <1>3, <1>4 DEF In
    <2>3. In(q, f) => In(p \o q, f) BY <1>3, <1>5 DEF In
    <2> QED BY <2>1, <2>2, <2>3 DEF In
  <1> QED BY <1>3, <1>4, <1>5, <1>6 DEF Chan, p, q

(* A frame pushed goes to the end, *)
LEMMA ChanPushed ==
  ASSUME Typed, NEW s \in Side, NEW f \in Messages, Push(s, f)
  PROVE  /\ Chan(s)' = IF Accepts(s, f) THEN Append(Chan(s), f) ELSE Chan(s)
         /\ \A t \in Side \ {s} : Chan(t)' = Chan(t)
  <1>1. /\ wire' = wire /\ \A t \in Side \ {s} : queued'[t] = queued[t]
        /\ queued'[s] = IF Accepts(s, f) THEN Append(queued[s], f) ELSE queued[s]
    BY Pushed
  <1>2. wire[s] \in Seq(Messages) /\ queued[s] \in Seq(Messages) BY DEF Typed
  <1>3. Append(queued[s], f) = queued[s] \o <<f>> BY <1>2, AppendIsConcat
  <1>4. wire[s] \o queued[s] \in Seq(Messages) /\ <<f>> \in Seq(Messages)
    BY <1>2, ConcatProperties
  <1>5. Append(wire[s] \o queued[s], f) = (wire[s] \o queued[s]) \o <<f>>
    BY <1>4, AppendIsConcat
  <1>6. (wire[s] \o queued[s]) \o <<f>> = wire[s] \o (queued[s] \o <<f>>)
    <2> DEFINE p == wire[s]
               q == queued[s]
    <2>1. p \in Seq(Messages) /\ q \in Seq(Messages) /\ <<f>> \in Seq(Messages)
      BY <1>2, <1>4
    <2> HIDE DEF p, q
    <2>2. (p \o q) \o <<f>> = p \o (q \o <<f>>) BY <2>1, ConcatAssociative
    <2> QED BY <2>2 DEF p, q
  <1> QED BY <1>1, <1>3, <1>5, <1>6 DEF Chan

(* the writer moves it on, *)
LEMMA ChanWritten ==
  ASSUME Typed, NEW s \in Side, Write(s)
  PROVE  \A t \in Side : Chan(t)' = Chan(t)
  <1> DEFINE p == wire[s]
             q == queued[s]
  <1>1. p \in Seq(Messages) /\ q \in Seq(Messages) /\ q # <<>> BY DEF Typed, Write
  <1>2. wire' = [wire EXCEPT ![s] = Append(p, Head(q))]
        /\ queued' = [queued EXCEPT ![s] = Tail(q)]
    BY DEF Write
  <1>3. wire'[s] = Append(p, Head(q)) /\ queued'[s] = Tail(q)
    BY <1>2 DEF Typed
  <1>4. \A t \in Side \ {s} : wire'[t] = wire[t] /\ queued'[t] = queued[t]
    BY <1>2 DEF Typed
  <1> HIDE DEF p, q
  <1>5. Head(q) \in Messages /\ Tail(q) \in Seq(Messages) /\ <<Head(q)>> \in Seq(Messages)
    BY <1>1, HeadTailProperties
  <1>6. <<Head(q)>> \o Tail(q) = q
    <2>1. Len(q) \in Nat \ {0} /\ q[1] = Head(q) BY <1>1, EmptySeq
    <2>2. Len(<<Head(q)>>) = 1 /\ Len(Tail(q)) = Len(q) - 1
          /\ \A i \in 1 .. Len(Tail(q)) : Tail(q)[i] = q[i + 1]
      BY <1>1, HeadTailProperties
    <2>3. <<Head(q)>> \o Tail(q) \in Seq(Messages)
          /\ Len(<<Head(q)>> \o Tail(q)) = Len(q)
          /\ \A i \in 1 .. Len(q) : (<<Head(q)>> \o Tail(q))[i] =
               IF i <= 1 THEN <<Head(q)>>[i] ELSE Tail(q)[i - 1]
      BY <1>5, <2>1, <2>2, ConcatProperties
    <2>4. ASSUME NEW i \in 1 .. Len(q) PROVE (<<Head(q)>> \o Tail(q))[i] = q[i]
      <3>1. CASE i = 1 BY <2>1, <2>3, <3>1
      <3>2. CASE i # 1
        <4>1. i - 1 \in 1 .. Len(Tail(q)) /\ (i - 1) + 1 = i /\ ~ (i <= 1)
          BY <2>1, <2>2, <3>2
        <4> QED BY <2>2, <2>3, <4>1
      <3> QED BY <3>1, <3>2
    <2> QED BY <1>1, <2>3, <2>4, SeqEqual
  <1>7. Append(p, Head(q)) \o Tail(q) = p \o q
    <2>1. Append(p, Head(q)) = p \o <<Head(q)>> BY <1>1, <1>5, AppendIsConcat
    <2> QED BY <1>1, <1>5, <1>6, <2>1, ConcatAssociative
  <1>8. ASSUME NEW t \in Side PROVE Chan(t)' = Chan(t)
    <2>1. CASE t = s BY <1>3, <1>7, <2>1 DEF Chan, p, q
    <2>2. CASE t # s BY <1>4, <2>2 DEF Chan
    <2> QED BY <2>1, <2>2
  <1> QED BY <1>8

(* and the reader takes the first. *)
LEMMA ChanRead ==
  ASSUME Typed, NEW s \in Side, Receive(s)
  PROVE  /\ Chan(Peer(s)) # <<>> /\ Chan(Peer(s))[1] = Head(wire[Peer(s)])
         /\ Chan(Peer(s))' = Tail(Chan(Peer(s)))
         /\ Chan(s)' = Chan(s)
  <1> DEFINE t == Peer(s)
             p == wire[t]
             q == queued[t]
  <1>1. t \in Side /\ t # s BY Two
  <1>2. p \in Seq(Messages) /\ q \in Seq(Messages) /\ p # <<>>
    BY <1>1 DEF Typed, Receive
  <1>3. wire' = [wire EXCEPT ![t] = Tail(p)] /\ queued' = queued BY DEF Receive
  <1>4. wire'[t] = Tail(p) /\ wire'[s] = wire[s] BY <1>1, <1>3 DEF Typed
  <1> HIDE DEF t, p, q
  <1>5. Len(p) \in Nat /\ Len(q) \in Nat /\ Len(p) # 0 BY <1>2, EmptySeq
  <1>6. /\ p \o q \in Seq(Messages) /\ Len(p \o q) = Len(p) + Len(q)
        /\ \A i \in 1 .. Len(p) + Len(q) :
             (p \o q)[i] = IF i <= Len(p) THEN p[i] ELSE q[i - Len(p)]
    BY <1>2, ConcatProperties
  <1>7. p \o q # <<>>
    <2>1. Len(p \o q) # 0 BY <1>5, <1>6
    <2> QED BY <2>1
  <1>8. (p \o q)[1] = Head(p)
    <2>1. 1 \in 1 .. Len(p) + Len(q) /\ 1 <= Len(p) BY <1>5
    <2>2. (p \o q)[1] = p[1] BY <1>6, <2>1
    <2> QED BY <1>2, <2>2
  <1>9. /\ Tail(p) \in Seq(Messages) /\ Len(Tail(p)) = Len(p) - 1
        /\ \A i \in 1 .. Len(Tail(p)) : Tail(p)[i] = p[i + 1]
        /\ Tail(p \o q) \in Seq(Messages) /\ Len(Tail(p \o q)) = Len(p \o q) - 1
        /\ \A i \in 1 .. Len(Tail(p \o q)) : Tail(p \o q)[i] = (p \o q)[i + 1]
    BY <1>2, <1>6, <1>7, HeadTailProperties
  <1>10. /\ Tail(p) \o q \in Seq(Messages) /\ Len(Tail(p) \o q) = Len(Tail(p)) + Len(q)
         /\ \A i \in 1 .. Len(Tail(p)) + Len(q) :
              (Tail(p) \o q)[i] = IF i <= Len(Tail(p)) THEN Tail(p)[i] ELSE q[i - Len(Tail(p))]
    BY <1>2, <1>9, ConcatProperties
  <1>11. Tail(p) \o q = Tail(p \o q)
    <2>1. Len(Tail(p) \o q) = Len(Tail(p \o q)) BY <1>5, <1>6, <1>9, <1>10
    <2>2. ASSUME NEW i \in 1 .. Len(Tail(p) \o q) PROVE (Tail(p) \o q)[i] = Tail(p \o q)[i]
      <3>1. /\ i \in 1 .. Len(Tail(p \o q)) /\ i + 1 \in 1 .. Len(p) + Len(q)
            /\ i \in 1 .. Len(Tail(p)) + Len(q)
        BY <1>5, <1>6, <1>9, <1>10, <2>1
      <3>2. Tail(p \o q)[i] = (p \o q)[i + 1] BY <1>9, <3>1
      <3>3. CASE i <= Len(Tail(p))
        <4>1. i \in 1 .. Len(Tail(p)) /\ i + 1 <= Len(p) BY <1>5, <1>9, <3>1, <3>3
        <4> QED BY <1>6, <1>9, <1>10, <3>1, <3>2, <3>3, <4>1
      <3>4. CASE ~ (i <= Len(Tail(p)))
        <4>1. ~ (i + 1 <= Len(p)) /\ (i + 1) - Len(p) = i - Len(Tail(p))
          BY <1>5, <1>9, <3>1, <3>4
        <4> QED BY <1>6, <1>10, <3>1, <3>2, <3>4, <4>1
      <3> QED BY <3>3, <3>4
    <2> QED BY <1>9, <1>10, <2>1, <2>2, SeqEqual
  <1>12. Chan(t)' = Tail(Chan(t)) BY <1>3, <1>4, <1>11 DEF Chan, p, q
  <1>13. Chan(s)' = Chan(s) BY <1>3, <1>4 DEF Chan
  <1> QED BY <1>7, <1>8, <1>12, <1>13 DEF Chan, t, p, q

(* What a closing end had not written is lost. *)
LEMMA ChanCut ==
  ASSUME Typed, NEW s \in Side, Teardown(s)
  PROVE  /\ Chan(s)' \in Seq(Messages) /\ Prefix(Chan(s)', Chan(s))
         /\ \A t \in Side \ {s} : Chan(t)' = Chan(t)
  <1>1. wire[s] \in Seq(Messages) /\ queued[s] \in Seq(Messages) BY DEF Typed
  <1>2. /\ wire' = wire /\ queued'[s] = <<>>
        /\ \A t \in Side \ {s} : queued'[t] = queued[t]
    BY DEF Teardown, Typed
  <1>3. wire[s] \o <<>> = wire[s] BY <1>1, ConcatEmptySeq
  <1>4. Chan(s)' = wire[s] BY <1>2, <1>3 DEF Chan
  <1>5. Len(Chan(s)) = Len(wire[s]) + Len(queued[s])
        /\ \A i \in 1 .. Len(wire[s]) : Chan(s)[i] = wire[s][i]
    BY ChanIs
  <1>6. Len(wire[s]) \in Nat /\ Len(queued[s]) \in Nat BY <1>1
  <1>7. Prefix(wire[s], Chan(s))
    <2> DEFINE m == Len(wire[s])
               n == Len(queued[s])
    <2>1. Len(Chan(s)) = m + n /\ m \in Nat /\ n \in Nat BY <1>5, <1>6
    <2> HIDE DEF m, n
    <2>2. m <= Len(Chan(s)) BY <2>1
    <2> QED BY <1>5, <2>2 DEF Prefix, m
  <1>8. \A t \in Side \ {s} : Chan(t)' = Chan(t) BY <1>2 DEF Chan
  <1> QED BY <1>1, <1>4, <1>7, <1>8

(* Every other step leaves it as it is. *)
LEMMA ChanStays ==
  ASSUME UNCHANGED <<queued, wire>>
  PROVE  \A t \in Side : Chan(t)' = Chan(t)
  BY DEF Chan

(* What is in a list, and in what is left of it. *)
LEMMA InCut ==
  ASSUME NEW p \in Seq(Messages), NEW q \in Seq(Messages), Prefix(p, q)
  PROVE  \A f : In(p, f) => In(q, f)
  <1>1. Len(p) \in Nat /\ Len(q) \in Nat OBVIOUS
  <1> QED BY <1>1 DEF In, Prefix

-----------------------------------------------------------------------------
(* The invariant: the order of frames *)

(* Calls come with growing ids, and no call is answered twice. *)
Orderly(q) ==
  \A i, j \in 1 .. Len(q) : i < j =>
    /\ q[i].op = "call" /\ q[j].op = "call" => q[i].id < q[j].id
    /\ q[i].op = "return" /\ q[j].op = "return" => q[i].id # q[j].id

Ordered ==
  \A s \in Side :
    /\ Orderly(Chan(s))
    /\ \A f : In(Chan(s), f) /\ f.op = "call" => f.id > received[Peer(s)]
    /\ draft[s].op = "call" => draft[s].id = next[s]
    /\ received[s] # 0 => received[s] \in Ids /\ handler[s][received[s]] # "none"

(* The far end will answer, or has. *)
Due(s, c) ==
  \/ \E f : In(Chan(s), f) /\ f.op = "call" /\ f.id = c
  \/ handler[Peer(s)][c] \in {"incoming", "starting", "awaiting", "running", "answering"}
  \/ \E f : In(Chan(Peer(s)), f) /\ f.op = "return" /\ f.id = c

(* Who is to be answered has a waiter, or a mark that it gave up. *)
Expected ==
  \A s \in Side :
    /\ cancelled[s] \subseteq Ids
    /\ stage[s] = "open" => \A c \in Ids : Due(s, c) => c \in waiting[s] \cup cancelled[s]

-----------------------------------------------------------------------------
(* How a channel moves on *)

LEMMA OrderlyAppended ==
  ASSUME NEW q \in Seq(Messages), NEW f \in Messages, Orderly(q),
         \A g : In(q, g) /\ g.op = "call" /\ f.op = "call" => g.id < f.id,
         \A g : In(q, g) /\ g.op = "return" /\ f.op = "return" => g.id # f.id
  PROVE  Orderly(Append(q, f))
  <1> DEFINE t == Append(q, f)
             n == Len(q)
  <1>1. /\ n \in Nat /\ Len(t) = n + 1 /\ t[n + 1] = f /\ \A i \in 1 .. n : t[i] = q[i]
    OBVIOUS
  <1>2. \A i \in 1 .. n : In(q, q[i]) BY DEF In
  <1> HIDE DEF t, n
  <1> SUFFICES ASSUME NEW i \in 1 .. n + 1, NEW j \in 1 .. n + 1, i < j
               PROVE  /\ t[i].op = "call" /\ t[j].op = "call" => t[i].id < t[j].id
                      /\ t[i].op = "return" /\ t[j].op = "return" => t[i].id # t[j].id
    BY <1>1 DEF Orderly, t
  <1>3. i \in 1 .. n /\ t[i] = q[i] BY <1>1
  <1>4. CASE j = n + 1 BY <1>1, <1>2, <1>3, <1>4
  <1>5. CASE j # n + 1
    <2>1. j \in 1 .. n /\ t[j] = q[j] BY <1>1, <1>5
    <2> QED BY <1>3, <2>1 DEF Orderly, n
  <1> QED BY <1>4, <1>5

LEMMA OrderlyTaken ==
  ASSUME NEW q \in Seq(Messages), q # <<>>, Orderly(q)
  PROVE  /\ Orderly(Tail(q))
         /\ \A g : In(Tail(q), g) /\ g.op = "call" /\ q[1].op = "call" => g.id > q[1].id
         /\ \A g : In(Tail(q), g) /\ g.op = "return" /\ q[1].op = "return" => g.id # q[1].id
  <1> DEFINE t == Tail(q)
             n == Len(t)
  <1>1. n \in Nat /\ Len(q) = n + 1 /\ \A i \in 1 .. n : t[i] = q[i + 1] OBVIOUS
  <1>2. \A i \in 1 .. n : q[i + 1] \in Messages /\ q[1] \in Messages OBVIOUS
  <1> HIDE DEF t, n
  <1>3. \A i \in 1 .. n : i + 1 \in 1 .. Len(q) /\ 1 \in 1 .. Len(q) /\ 1 < i + 1
    BY <1>1
  <1>4. \A i, j \in 1 .. n : i < j => i + 1 < j + 1 BY <1>1
  <1>5. Orderly(t) BY <1>1, <1>3, <1>4 DEF Orderly, n
  <1>6. ASSUME NEW g, In(t, g)
        PROVE  /\ g.op = "call" /\ q[1].op = "call" => g.id > q[1].id
               /\ g.op = "return" /\ q[1].op = "return" => g.id # q[1].id
    <2>1. PICK i \in 1 .. n : t[i] = g BY <1>6 DEF In, n
    <2>2. g = q[i + 1] BY <1>1, <2>1
    <2>3. g.id \in Nat /\ q[1].id \in Nat BY <1>2, <2>2 DEF Messages
    <2> QED BY <1>3, <2>2, <2>3 DEF Orderly
  <1> QED BY <1>5, <1>6 DEF t

LEMMA OrderlyCut ==
  ASSUME NEW p \in Seq(Messages), NEW q \in Seq(Messages), Prefix(p, q), Orderly(q)
  PROVE  Orderly(p)
  <1>1. \A i \in 1 .. Len(p) : i \in 1 .. Len(q) /\ p[i] = q[i]
    <2>1. Len(p) \in Nat /\ Len(q) \in Nat OBVIOUS
    <2> QED BY <2>1 DEF Prefix
  <1> QED BY <1>1 DEF Orderly

(* What becomes of the frames an end has sent. *)
ChanMoves ==
  \A s \in Side :
    \/ Chan(s)' = Chan(s)
    \/ \E f \in Messages :
         /\ Chan(s)' = Append(Chan(s), f)
         /\ f.op \in {"call", "return"} => f = draft[s]
         /\ f.op = "call" => f.id \in waiting'[s]
    \/ Receive(Peer(s)) /\ Chan(s) # <<>> /\ Chan(s)' = Tail(Chan(s))
    \/ Chan(s)' \in Seq(Messages) /\ Prefix(Chan(s)', Chan(s))

LEMMA PushesOn ==
  ASSUME Typed, NEW s \in Side, NEW f \in Messages, Push(s, f),
         f.op \in {"call", "return"} => f = draft[s],
         f.op = "call" => f.id \in waiting'[s]
  PROVE  ChanMoves
  <1>1. /\ Chan(s)' = IF Accepts(s, f) THEN Append(Chan(s), f) ELSE Chan(s)
        /\ \A t \in Side \ {s} : Chan(t)' = Chan(t)
    BY ChanPushed
  <1>2. ASSUME NEW t \in Side
        PROVE  \/ Chan(t)' = Chan(t)
               \/ \E g \in Messages :
                    /\ Chan(t)' = Append(Chan(t), g)
                    /\ g.op \in {"call", "return"} => g = draft[t]
                    /\ g.op = "call" => g.id \in waiting'[t]
    <2>1. CASE t # s BY <1>1, <2>1
    <2>2. CASE t = s BY <1>1, <2>2
    <2> QED BY <2>1, <2>2
  <1> QED BY <1>2 DEF ChanMoves

LEMMA ChanMovesOn ==
  ASSUME CallInv, [Next]_vars
  PROVE  ChanMoves
  <1>0. Typed BY DEF CallInv
  <1>1. ASSUME UNCHANGED <<queued, wire>> PROVE ChanMoves
    BY <1>1, ChanStays DEF ChanMoves
  <1>2. ASSUME NEW s \in Side, SendEnd(s) PROVE ChanMoves
    <2>1. PICK f \in Messages : f = draft[s] BY <1>0 DEF Typed
    <2>2. Push(s, f) /\ waiting' = [waiting EXCEPT ![s] = @ \cup {f.id}]
      BY <1>2, <2>1 DEF SendEnd
    <2>3. f.id \in waiting'[s] BY <1>0, <2>2 DEF Typed
    <2> QED BY <1>0, <2>1, <2>2, <2>3, PushesOn
  <1>3. ASSUME NEW s \in Side, RespondEnd(s) PROVE ChanMoves
    <2>1. PICK f \in Messages : f = draft[s] BY <1>0 DEF Typed
    <2>2. Push(s, f) /\ f.op = "return" BY <1>3, <2>1 DEF RespondEnd
    <2> QED BY <1>0, <2>1, <2>2, PushesOn
  <1>4. ASSUME NEW s \in Side, NEW c \in Ids, CancelWrite(s, c) PROVE ChanMoves
    <2>1. PICK f \in Messages : f = Frame("cancel", c, Data) BY FramesMade DEF Ids
    <2>2. Push(s, f) /\ f.op = "cancel" BY <1>4, <2>1 DEF CancelWrite, Frame
    <2> QED BY <1>0, <2>2, PushesOn
  <1>5. ASSUME NEW s \in Side, NEW k \in DOMAIN imports[s], Release(s, k) PROVE ChanMoves
    <2>1. imports[s][k] \in ImportRecs BY <1>0 DEF Typed
    <2>2. imports[s][k].n \in Nat /\ imports[s][k].ref \in Nat BY <2>1 DEF ImportRecs
    <2>3. PICK f \in Messages : f = Frame("release", imports[s][k].n, Home(imports[s][k].ref))
      BY <2>2, FramesMade
    <2>4. Push(s, f) /\ f.op = "release" BY <1>5, <2>3 DEF Release, Frame
    <2> QED BY <1>0, <2>4, PushesOn
  <1>6. ASSUME NEW s \in Side, Write(s) PROVE ChanMoves
    BY <1>0, <1>6, ChanWritten DEF ChanMoves
  <1>7. ASSUME NEW s \in Side, Receive(s) PROVE ChanMoves
    <2>1. /\ Chan(Peer(s)) # <<>> /\ Chan(Peer(s))' = Tail(Chan(Peer(s)))
          /\ Chan(s)' = Chan(s)
      BY <1>0, <1>7, ChanRead
    <2>2. ASSUME NEW t \in Side
          PROVE  \/ Chan(t)' = Chan(t)
                 \/ Receive(Peer(t)) /\ Chan(t) # <<>> /\ Chan(t)' = Tail(Chan(t))
      <3>1. Peer(Peer(s)) = s /\ (t = s \/ t = Peer(s)) BY Two
      <3> QED BY <1>7, <2>1, <3>1
    <2> QED BY <2>2 DEF ChanMoves
  <1>8. ASSUME NEW s \in Side, Teardown(s) PROVE ChanMoves
    BY <1>0, <1>8, ChanCut DEF ChanMoves
  <1>9. ASSUME NEW s \in Side, SendBegin(s) \/ SendRefused(s) \/ RespondTooLarge(s) \/ Close(s)
        PROVE  ChanMoves
    BY <1>1, <1>9 DEF SendBegin, SendRefused, RespondTooLarge, Close
  <1>10. ASSUME NEW s \in Side, NEW c \in Ids,
                \/ Consume(s, c) \/ Cancel(s, c)
                \/ Start(s, c) \/ Execute(s, c) \/ Ready(s, c) \/ RespondBegin(s, c)
         PROVE  ChanMoves
    BY <1>1, <1>10 DEF Consume, Cancel, Start, Execute, Ready, RespondBegin
  <1>11. ASSUME NEW s \in Side, NEW k, DropImport(s, k) PROVE ChanMoves
    BY <1>1, <1>11 DEF DropImport
  <1>12. CASE UNCHANGED vars BY <1>1, <1>12 DEF vars
  <1> QED BY <1>2, <1>3, <1>4, <1>5, <1>6, <1>7, <1>8, <1>9, <1>10, <1>11, <1>12,
          SessionAssumption DEF Next, Step, CloseBehind, CloseAtEnd

(* What an end takes in, by reading a call. *)
TakeMoves ==
  \A s \in Side :
    LET f == Head(wire[Peer(s)]) IN
    \/ /\ received'[s] = received[s]
       /\ \A c \in Ids : handler[s][c] = "none" => handler'[s][c] = "none"
    \/ /\ Receive(s) /\ f.op = "call" /\ received'[s] = f.id /\ handler'[s][f.id] # "none"
       /\ \A c \in Ids \ {f.id} : handler'[s][c] = handler[s][c]

LEMMA TakesOn ==
  ASSUME CallInv, [Next]_vars
  PROVE  TakeMoves
  <1>0. Typed BY DEF CallInv
  <1>1. ASSUME received' = received,
               \A s \in Side : \A c \in Ids : handler[s][c] = "none" => handler'[s][c] = "none"
        PROVE  TakeMoves
    BY <1>1 DEF TakeMoves
  <1>2. ASSUME UNCHANGED serving PROVE TakeMoves
    BY <1>1, <1>2
  <1>3. ASSUME NEW s \in Side, NEW c \in Ids,
               Start(s, c) \/ Execute(s, c) \/ Ready(s, c) \/ RespondBegin(s, c)
        PROVE  TakeMoves
    <2>1. PICK to \in {"starting", "running", "awaiting", "dropped", "answering"} :
            /\ handler[s][c] # "none" /\ received' = received
            /\ handler' = [handler EXCEPT ![s][c] = to]
      BY <1>3 DEF Start, Execute, Ready, RespondBegin
    <2>2. \A t \in Side : \A d \in Ids : handler[t][d] = "none" => handler'[t][d] = "none"
      BY <1>0, <2>1 DEF Typed
    <2> QED BY <1>1, <2>1, <2>2
  <1>4. ASSUME NEW s \in Side, RespondEnd(s) PROVE TakeMoves
    <2>1. PICK c \in Ids : c = draft[s].id /\ handler[s][c] = "answering"
      BY <1>4 DEF RespondEnd, CallInv, Drafted
    <2>2. PICK to \in {"answered", "dropped"} :
            handler' = [handler EXCEPT ![s][c] = to] /\ received' = received
      BY <1>4, <2>1 DEF RespondEnd
    <2>3. \A t \in Side : \A d \in Ids : handler[t][d] = "none" => handler'[t][d] = "none"
      BY <1>0, <2>1, <2>2 DEF Typed
    <2> QED BY <1>1, <2>2, <2>3
  <1>5. ASSUME NEW s \in Side, Receive(s) PROVE TakeMoves
    <2> DEFINE f == Head(wire[Peer(s)])
    <2>1. f \in Messages /\ Says(Peer(s), f) BY <1>0, <1>5, HeadSays, Read DEF CallInv
    <2>2. f.id \in Nat BY <2>1 DEF Messages
    <2> HIDE DEF f
    <2>3. CASE f.op = "call" /\ ReceiveCall(s, f) /\ ~ Refuse(s)
      <3>1. f.id \in Ids BY <2>1, <2>3 DEF Says
      <3>2. /\ received' = [received EXCEPT ![s] = f.id]
            /\ handler' = [handler EXCEPT ![s][f.id] = "incoming"]
        BY <2>3 DEF ReceiveCall
      <3>3. /\ received'[s] = f.id /\ handler'[s][f.id] = "incoming"
            /\ \A c \in Ids \ {f.id} : handler'[s][c] = handler[s][c]
            /\ \A t \in Side \ {s} : received'[t] = received[t] /\ handler'[t] = handler[t]
        <4>1. received'[s] = f.id /\ \A t \in Side \ {s} : received'[t] = received[t]
          BY <1>0, <3>2 DEF Typed
        <4>2. /\ handler'[s][f.id] = "incoming"
              /\ \A c \in Ids \ {f.id} : handler'[s][c] = handler[s][c]
          <5>1. PICK d \in Ids : d = f.id BY <3>1
          <5>2. handler' = [handler EXCEPT ![s] = [handler[s] EXCEPT ![d] = "incoming"]]
            BY <3>2, <5>1
          <5>3. DOMAIN handler[s] = Ids /\ s \in DOMAIN handler BY <1>0 DEF Typed
          <5>4. handler'[s] = [handler[s] EXCEPT ![d] = "incoming"] BY <5>2, <5>3
          <5> QED BY <5>1, <5>3, <5>4
        <4>3. \A t \in Side \ {s} : handler'[t] = handler[t]
          BY <1>0, <3>2 DEF Typed
        <4> QED BY <4>1, <4>2, <4>3
      <3>4. ASSUME NEW t \in Side
            PROVE  \/ /\ received'[t] = received[t]
                      /\ \A c \in Ids : handler[t][c] = "none" => handler'[t][c] = "none"
                   \/ /\ Receive(t) /\ Head(wire[Peer(t)]).op = "call"
                      /\ received'[t] = Head(wire[Peer(t)]).id
                      /\ handler'[t][Head(wire[Peer(t)]).id] # "none"
                      /\ \A c \in Ids \ {Head(wire[Peer(t)]).id} : handler'[t][c] = handler[t][c]
        <4>1. CASE t = s BY <1>5, <2>3, <3>3, <4>1 DEF f
        <4>2. CASE t # s BY <3>3, <4>2
        <4> QED BY <4>1, <4>2
      <3> QED BY <3>4 DEF TakeMoves
    <2>4. CASE f.op = "cancel" /\ ReceiveCancel(s, f)
      <3>1. f.id \in Ids BY <2>1, <2>4 DEF Says
      <3>2. PICK d \in Ids : d = f.id BY <3>1
      <3>3. received' = received BY <2>4 DEF ReceiveCancel
      <3>4. CASE handler' = handler BY <1>2, <3>3, <3>4
      <3>5. CASE handler' # handler
        <4>1. /\ handler[s][d] \in {"incoming", "awaiting"}
              /\ handler' = [handler EXCEPT ![s] = [handler[s] EXCEPT ![d] = "dropped"]]
          BY <2>4, <3>2, <3>5 DEF ReceiveCancel
        <4>2. DOMAIN handler = Side /\ \A t \in Side : DOMAIN handler[t] = Ids
          BY <1>0 DEF Typed
        <4>3. /\ handler'[s] = [handler[s] EXCEPT ![d] = "dropped"]
              /\ \A t \in Side \ {s} : handler'[t] = handler[t]
          BY <4>1, <4>2
        <4>4. \A e \in Ids \ {d} : handler'[s][e] = handler[s][e] BY <4>2, <4>3
        <4>5. ASSUME NEW t \in Side, NEW e \in Ids, handler[t][e] = "none"
              PROVE  handler'[t][e] = "none"
          BY <4>1, <4>3, <4>4, <4>5
        <4> QED BY <1>1, <3>3, <4>5
      <3> QED BY <3>4, <3>5
    <2>5. CASE UNCHANGED serving BY <1>2, <2>5
    <2> QED BY <1>0, <1>5, <2>3, <2>4, <2>5, ReadCases
            DEF f, ReceiveReply, ReceiveRelease, Refuse
  <1>6. ASSUME NEW s \in Side, Teardown(s) PROVE TakeMoves
    <2>1. /\ received' = received
          /\ handler' = [handler EXCEPT ![s] = [c \in Ids |->
               IF handler[s][c] \in {"incoming", "awaiting"} THEN "dropped" ELSE handler[s][c]]]
      BY <1>6 DEF Teardown
    <2>2. \A t \in Side : \A d \in Ids : handler[t][d] = "none" => handler'[t][d] = "none"
      BY <1>0, <2>1 DEF Typed
    <2> QED BY <1>1, <2>1, <2>2
  <1>7. ASSUME NEW s \in Side,
               \/ SendBegin(s) \/ SendRefused(s) \/ SendEnd(s) \/ RespondTooLarge(s)
               \/ Write(s) \/ Close(s)
        PROVE  TakeMoves
    BY <1>2, <1>7 DEF SendBegin, SendRefused, SendEnd, RespondTooLarge, Write, Close
  <1>8. ASSUME NEW s \in Side, NEW c \in Ids, Consume(s, c) \/ Cancel(s, c) \/ CancelWrite(s, c)
        PROVE  TakeMoves
    BY <1>2, <1>8 DEF Consume, Cancel, CancelWrite
  <1>9. ASSUME NEW s \in Side, NEW k, DropImport(s, k) \/ Release(s, k) PROVE TakeMoves
    BY <1>2, <1>9 DEF DropImport, Release
  <1>10. CASE UNCHANGED vars BY <1>2, <1>10 DEF vars
  <1> QED BY <1>3, <1>4, <1>5, <1>6, <1>7, <1>8, <1>9, <1>10,
          SessionAssumption DEF Next, Step, CloseBehind, CloseAtEnd

(* A call is drafted with the id given out last, and keeps it. *)
LEMMA DraftedLast ==
  ASSUME CallInv, [Next]_vars, NEW s \in Side, draft'[s].op = "call"
  PROVE  \/ draft'[s].id = next'[s]
         \/ draft'[s] = draft[s] /\ next'[s] = next[s]
  <1>0. Typed BY DEF CallInv
  <1>1. ASSUME NEW t \in Side, SendBegin(t)
        PROVE  draft'[s].id = next'[s] \/ (draft'[s] = draft[s] /\ next'[s] = next[s])
    <2>1. next' = [next EXCEPT ![t] = @ + 1] /\ next[t] + 1 \in Nat
      BY <1>0, <1>1, SMTT(30) DEF SendBegin, Typed
    <2>2. PICK v \in Sendable(t) : Encode(t, "call", next[t] + 1, v) BY <1>1 DEF SendBegin
    <2>3. draft'[t].id = next[t] + 1 /\ \A u \in Side \ {t} : draft'[u] = draft[u]
      BY <1>0, <2>1, <2>2, Encoded
    <2> QED BY <1>0, <2>1, <2>3 DEF Typed
  <1>2. ASSUME UNCHANGED <<next, draft>>
        PROVE  draft'[s].id = next'[s] \/ (draft'[s] = draft[s] /\ next'[s] = next[s])
    BY <1>2
  <1>3. ASSUME NEW t \in Side, SendRefused(t) \/ SendEnd(t) \/ RespondEnd(t)
        PROVE  draft'[s] = draft[s] /\ next'[s] = next[s]
    <2>1. draft' = [draft EXCEPT ![t] = Free] /\ next' = next
      BY <1>3 DEF SendRefused, SendEnd, RespondEnd
    <2>2. Free.op = "none" BY DEF Free, Frame
    <2> QED BY <1>0, <2>1, <2>2 DEF Typed
  <1>4. ASSUME NEW t \in Side, RespondTooLarge(t)
        PROVE  draft'[s] = draft[s] /\ next'[s] = next[s]
    <2>1. /\ draft[t] \in Messages /\ draft[t].op = "return" /\ next' = next
          /\ draft' = [draft EXCEPT ![t] = [draft[t] EXCEPT !.val = Data]]
      BY <1>0, <1>4 DEF RespondTooLarge, Typed
    <2>2. [draft[t] EXCEPT !.val = Data].op = "return" BY <2>1 DEF Messages
    <2> QED BY <1>0, <2>1, <2>2 DEF Typed
  <1>5. ASSUME NEW t \in Side, NEW c \in Ids, RespondBegin(t, c)
        PROVE  draft'[s] = draft[s] /\ next'[s] = next[s]
    <2>1. PICK v \in Sendable(t) : Encode(t, "return", c, v) BY <1>5 DEF RespondBegin
    <2>2. draft'[t].op = "return" /\ \A u \in Side \ {t} : draft'[u] = draft[u]
      BY <1>0, <2>1, Encoded DEF Ids
    <2> QED BY <1>5, <2>2 DEF RespondBegin
  <1>6. ASSUME NEW t \in Side, Write(t) \/ Receive(t) \/ Close(t) \/ Teardown(t)
        PROVE  UNCHANGED <<next, draft>>
    BY <1>0, <1>6, Read DEF Write, Close, Teardown
  <1>7. ASSUME NEW t \in Side, NEW c \in Ids,
               \/ Consume(t, c) \/ Cancel(t, c) \/ CancelWrite(t, c)
               \/ Start(t, c) \/ Execute(t, c) \/ Ready(t, c)
        PROVE  UNCHANGED <<next, draft>>
    BY <1>7 DEF Consume, Cancel, CancelWrite, Start, Execute, Ready
  <1>8. ASSUME NEW t \in Side, NEW k, DropImport(t, k) \/ Release(t, k)
        PROVE  UNCHANGED <<next, draft>>
    BY <1>8 DEF DropImport, Release
  <1>9. CASE UNCHANGED vars BY <1>2, <1>9 DEF vars
  <1> QED BY <1>1, <1>2, <1>3, <1>4, <1>5, <1>6, <1>7, <1>8, <1>9, SessionAssumption
          DEF Next, Step, CloseBehind, CloseAtEnd

(* Who waits at an open end, or gave up there, does so until the reply. *)
WaitKept ==
  \A s \in Side :
    LET f == Head(wire[Peer(s)]) IN
    /\ cancelled'[s] \subseteq cancelled[s] \cup Ids
    /\ stage[s] = "open" =>
         \A c \in waiting[s] \cup cancelled[s] :
           \/ c \in waiting'[s] \cup cancelled'[s]
           \/ Receive(s) /\ f.op = "return" /\ f.id = c

LEMMA WaitsOn ==
  ASSUME CallInv, [Next]_vars
  PROVE  WaitKept
  <1>0. Typed BY DEF CallInv
  <1>1. ASSUME UNCHANGED <<waiting, cancelled>> PROVE WaitKept
    BY <1>1 DEF WaitKept
  <1>2. ASSUME NEW s \in Side, SendEnd(s) PROVE WaitKept
    <2>1. waiting' = [waiting EXCEPT ![s] = @ \cup {draft[s].id}] /\ cancelled' = cancelled
      BY <1>2 DEF SendEnd
    <2>2. \A t \in Side : waiting[t] \subseteq waiting'[t] BY <1>0, <2>1 DEF Typed
    <2> QED BY <2>1, <2>2 DEF WaitKept
  <1>3. ASSUME NEW s \in Side, NEW c \in Ids, Cancel(s, c) PROVE WaitKept
    <2>1. CASE UNCHANGED <<waiting, cancelled>> BY <1>1, <2>1
    <2>2. CASE GiveUp(s, c)
      <3>1. /\ waiting' = [waiting EXCEPT ![s] = waiting[s] \ {c}]
            /\ cancelled' = [cancelled EXCEPT ![s] =
                               IF c \in waiting[s] THEN cancelled[s] \cup {c} ELSE cancelled[s]]
        BY <2>2 DEF GiveUp
      <3>2. /\ waiting'[s] = waiting[s] \ {c}
            /\ cancelled'[s] = IF c \in waiting[s] THEN cancelled[s] \cup {c} ELSE cancelled[s]
            /\ \A t \in Side \ {s} : waiting'[t] = waiting[t] /\ cancelled'[t] = cancelled[t]
        BY <1>0, <3>1 DEF Typed
      <3>3. ASSUME NEW t \in Side
            PROVE  /\ cancelled'[t] \subseteq cancelled[t] \cup Ids
                   /\ \A d \in waiting[t] \cup cancelled[t] :
                        d \in waiting'[t] \cup cancelled'[t]
        <4>1. CASE t = s BY <3>2, <4>1
        <4>2. CASE t # s BY <3>2, <4>2
        <4> QED BY <4>1, <4>2
      <3> QED BY <3>3 DEF WaitKept
    <2> QED BY <1>3, <2>1, <2>2 DEF Cancel
  <1>4. ASSUME NEW s \in Side, Receive(s) PROVE WaitKept
    <2> DEFINE f == Head(wire[Peer(s)])
    <2>1. CASE f.op = "return" /\ ReceiveReply(s, f) /\ ~ UNCHANGED <<waiting, cancelled>>
      <3>1. /\ waiting' = [waiting EXCEPT ![s] = waiting[s] \ {f.id}]
            /\ cancelled' = [cancelled EXCEPT ![s] =
                 IF f.id \in waiting[s] THEN cancelled[s] ELSE cancelled[s] \ {f.id}]
        BY <2>1 DEF ReceiveReply, Refuse
      <3>2. /\ waiting'[s] = waiting[s] \ {f.id}
            /\ cancelled'[s] =
                 IF f.id \in waiting[s] THEN cancelled[s] ELSE cancelled[s] \ {f.id}
            /\ \A t \in Side \ {s} : waiting'[t] = waiting[t] /\ cancelled'[t] = cancelled[t]
        BY <1>0, <3>1 DEF Typed
      <3>3. ASSUME NEW t \in Side
            PROVE  /\ cancelled'[t] \subseteq cancelled[t] \cup Ids
                   /\ \A d \in waiting[t] \cup cancelled[t] :
                        \/ d \in waiting'[t] \cup cancelled'[t]
                        \/ /\ Receive(t) /\ Head(wire[Peer(t)]).op = "return"
                           /\ Head(wire[Peer(t)]).id = d
        <4>1. CASE t = s BY <1>4, <2>1, <3>2, <4>1
        <4>2. CASE t # s BY <3>2, <4>2
        <4> QED BY <4>1, <4>2
      <3> QED BY <3>3 DEF WaitKept
    <2>2. CASE UNCHANGED <<waiting, cancelled>> BY <1>1, <2>2
    <2> QED BY <1>0, <1>4, <2>1, <2>2, ReadCases
            DEF ReceiveCall, ReceiveCancel, ReceiveRelease, Refuse
  <1>5. ASSUME NEW s \in Side, Teardown(s) PROVE WaitKept
    <2>1. /\ waiting' = [waiting EXCEPT ![s] = {}] /\ cancelled' = cancelled
          /\ stage[s] # "open"
      BY <1>5 DEF Teardown
    <2>2. \A t \in Side \ {s} : waiting'[t] = waiting[t] BY <1>0, <2>1 DEF Typed
    <2> QED BY <2>1, <2>2 DEF WaitKept
  <1>6. ASSUME NEW s \in Side,
               \/ SendBegin(s) \/ SendRefused(s) \/ RespondTooLarge(s) \/ RespondEnd(s)
               \/ Write(s) \/ Close(s)
        PROVE  WaitKept
    BY <1>1, <1>6 DEF SendBegin, SendRefused, RespondTooLarge, RespondEnd, Write, Close
  <1>7. ASSUME NEW s \in Side, NEW c \in Ids,
               \/ Consume(s, c) \/ CancelWrite(s, c)
               \/ Start(s, c) \/ Execute(s, c) \/ Ready(s, c) \/ RespondBegin(s, c)
        PROVE  WaitKept
    BY <1>1, <1>7 DEF Consume, CancelWrite, Start, Execute, Ready, RespondBegin
  <1>8. ASSUME NEW s \in Side, NEW k, DropImport(s, k) \/ Release(s, k) PROVE WaitKept
    BY <1>1, <1>8 DEF DropImport, Release
  <1>9. CASE UNCHANGED vars BY <1>1, <1>9 DEF vars
  <1> QED BY <1>2, <1>3, <1>4, <1>5, <1>6, <1>7, <1>8, <1>9, SessionAssumption
          DEF Next, Step, CloseBehind, CloseAtEnd

-----------------------------------------------------------------------------
(* Frames stay in their order, and replies expected *)

(* What is in the channel was there before, or has just been put there. *)
LEMMA ChanHas ==
  ASSUME Typed, ChanMoves, NEW s \in Side, NEW f, In(Chan(s)', f)
  PROVE  \/ In(Chan(s), f)
         \/ /\ f.op \in {"call", "return"} => f = draft[s]
            /\ f.op = "call" => f.id \in waiting'[s]
  <1> DEFINE q == Chan(s)
  <1>0. q \in Seq(Messages) BY ChanIs
  <1> HIDE DEF q
  <1>1. CASE Chan(s)' = Chan(s) BY <1>1
  <1>2. ASSUME NEW g \in Messages, Chan(s)' = Append(q, g),
               g.op \in {"call", "return"} => g = draft[s],
               g.op = "call" => g.id \in waiting'[s]
        PROVE  \/ In(q, f)
               \/ /\ f.op \in {"call", "return"} => f = draft[s]
                  /\ f.op = "call" => f.id \in waiting'[s]
    <2>1. In(Append(q, g), f) BY <1>2
    <2>2. In(q, f) \/ f = g BY <1>0, <2>1, InAppended
    <2> QED BY <1>2, <2>2
  <1>3. ASSUME q # <<>>, Chan(s)' = Tail(q) PROVE In(q, f)
    BY <1>0, <1>3, InTaken
  <1>4. ASSUME Chan(s)' \in Seq(Messages), Prefix(Chan(s)', q) PROVE In(q, f)
    BY <1>0, <1>4, InCut
  <1> QED BY <1>1, <1>2, <1>3, <1>4 DEF ChanMoves, q

LEMMA SaysOfChan ==
  ASSUME CallInv, NEW s \in Side, NEW f, In(Chan(s), f)
  PROVE  f \in Messages /\ Says(s, f)
  <1>1. Typed /\ Sent BY DEF CallInv
  <1>2. Chan(s) \in Seq(Messages) /\ (In(wire[s], f) \/ In(queued[s], f)) BY <1>1, ChanIs
  <1>3. Says(s, f) BY <1>1, <1>2 DEF Sent
  <1>4. f \in Messages BY <1>2 DEF In
  <1> QED BY <1>3, <1>4

(* A call that is being sent is newer than any that was. *)
LEMMA SentBefore ==
  ASSUME CallInv, NEW s \in Side, NEW c \in Ids, caller[s][c] \notin {"idle", "sending"},
         draft[s].op = "call", draft[s].id = next[s]
  PROVE  c < draft[s].id
  <1>1. next[s] \in Nat /\ caller[s][next[s]] = "sending" BY DEF CallInv, Typed, Drafted
  <1>2. ~ (c > next[s]) /\ c # next[s] BY <1>1 DEF CallInv, Numbered
  <1> QED BY <1>1, <1>2 DEF Ids

LEMMA OrderlyOn ==
  ASSUME CallInv, Ordered, ChanMoves, NEW s \in Side
  PROVE  Orderly(Chan(s)')
  <1> DEFINE q == Chan(s)
  <1>0. q \in Seq(Messages) /\ Orderly(q) /\ Typed BY ChanIs DEF CallInv, Ordered
  <1>1. \A g : In(q, g) => g \in Messages /\ Says(s, g) BY SaysOfChan
  <1> HIDE DEF q
  <1>2. CASE Chan(s)' = Chan(s) BY <1>0, <1>2 DEF q
  <1>3. ASSUME NEW f \in Messages, Chan(s)' = Append(q, f),
               f.op \in {"call", "return"} => f = draft[s]
        PROVE  Orderly(Chan(s)')
    <2>1. ASSUME NEW g, In(q, g), g.op = "call", f.op = "call" PROVE g.id < f.id
      <3>1. g.id \in Ids /\ caller[s][g.id] \notin {"idle", "sending"}
        BY <1>1, <2>1 DEF Says, Unsent
      <3>2. draft[s].op = "call" /\ draft[s].id = next[s] BY <1>3, <2>1 DEF Ordered
      <3> QED BY <1>3, <2>1, <3>1, <3>2, SentBefore
    <2>2. ASSUME NEW g, In(q, g), g.op = "return", f.op = "return" PROVE g.id # f.id
      <3>1. handler[s][g.id] = "answered" BY <1>1, <2>2 DEF Says
      <3>2. handler[s][f.id] = "answering" BY <1>3, <2>2 DEF CallInv, Drafted
      <3> QED BY <3>1, <3>2
    <2>3. Orderly(Append(q, f)) BY <1>0, <2>1, <2>2, OrderlyAppended
    <2> QED BY <1>3, <2>3
  <1>4. ASSUME q # <<>>, Chan(s)' = Tail(q) PROVE Orderly(Chan(s)')
    BY <1>0, <1>4, OrderlyTaken
  <1>5. ASSUME Chan(s)' \in Seq(Messages), Prefix(Chan(s)', q) PROVE Orderly(Chan(s)')
    BY <1>0, <1>5, OrderlyCut
  <1> QED BY <1>2, <1>3, <1>4, <1>5 DEF ChanMoves, q

LEMMA OrderedStep ==
  ASSUME CallInv, Ordered, [Next]_vars
  PROVE  Ordered'
  <1>0. Typed /\ ChanMoves /\ TakeMoves /\ HandlerMoves
    BY ChanMovesOn, TakesOn, MovesOn DEF CallInv, Moves
  <1>1. ASSUME NEW s \in Side, NEW f, In(Chan(s)', f), f.op = "call"
        PROVE  f.id > received'[Peer(s)]
    <2> DEFINE p == Peer(s)
    <2>1. p \in Side /\ Peer(p) = s BY Two
    <2>2. CASE received'[p] = received[p]
      <3>1. CASE In(Chan(s), f) BY <1>1, <2>2, <3>1 DEF Ordered
      <3>2. CASE ~ In(Chan(s), f)
        <4>1. f = draft[s] BY <1>0, <1>1, <3>2, ChanHas
        <4>2. draft[s].op = "call" /\ draft[s].id = next[s] /\ draft[s].id \in Ids
          BY <1>1, <4>1 DEF Ordered, CallInv, Drafted
        <4>3. CASE received[p] = 0 BY <2>2, <4>1, <4>2, <4>3 DEF Ids
        <4>4. CASE received[p] # 0
          <5>1. received[p] \in Ids /\ handler[p][received[p]] # "none"
            BY <2>1, <4>4 DEF Ordered
          <5>2. caller[s][received[p]] \notin {"idle", "sending"}
            BY <2>1, <5>1 DEF CallInv, Taken, Unsent
          <5>3. received[p] < draft[s].id BY <4>2, <5>1, <5>2, SentBefore
          <5> QED BY <2>2, <4>1, <4>2, <5>1, <5>3 DEF Ids
        <4> QED BY <4>3, <4>4
      <3> QED BY <3>1, <3>2
    <2>3. CASE /\ Receive(p) /\ Head(wire[s]).op = "call"
               /\ received'[p] = Head(wire[s]).id
      <3>1. /\ Chan(s) # <<>> /\ Chan(s)[1] = Head(wire[s])
            /\ Chan(s)' = Tail(Chan(s))
        BY <1>0, <2>1, <2>3, ChanRead
      <3>2. Chan(s) \in Seq(Messages) /\ Orderly(Chan(s)) BY <1>0, ChanIs DEF Ordered
      <3>3. In(Tail(Chan(s)), f) BY <1>1, <3>1
      <3>4. f.id > Chan(s)[1].id BY <1>1, <2>3, <3>1, <3>2, <3>3, OrderlyTaken
      <3> QED BY <2>3, <3>1, <3>4
    <2> QED BY <1>0, <2>1, <2>2, <2>3 DEF TakeMoves
  <1>2. ASSUME NEW s \in Side, draft'[s].op = "call"
        PROVE  draft'[s].id = next'[s]
    BY <1>2, DraftedLast DEF Ordered
  <1>3. ASSUME NEW s \in Side, received'[s] # 0
        PROVE  received'[s] \in Ids /\ handler'[s][received'[s]] # "none"
    <2>1. CASE received'[s] = received[s]
      BY <1>0, <1>3, <2>1 DEF Ordered, HandlerMoves
    <2>2. CASE /\ Receive(s) /\ Head(wire[Peer(s)]).op = "call"
               /\ received'[s] = Head(wire[Peer(s)]).id
               /\ handler'[s][Head(wire[Peer(s)]).id] # "none"
      <3>1. Says(Peer(s), Head(wire[Peer(s)])) BY <1>0, <2>2, HeadSays DEF CallInv
      <3> QED BY <2>2, <3>1 DEF Says
    <2> QED BY <1>0, <2>1, <2>2 DEF TakeMoves
  <1>4. \A s \in Side : Orderly(Chan(s)') BY <1>0, OrderlyOn
  <1> QED BY <1>1, <1>2, <1>3, <1>4 DEF Ordered

(* What is to be answered was before, or its waiter has just been made. *)
LEMMA DueOn ==
  ASSUME CallInv, Ordered, [Next]_vars, NEW s \in Side, NEW c \in Ids, Due(s, c)'
  PROVE  Due(s, c) \/ c \in waiting'[s]
  <1> DEFINE p == Peer(s)
  <1>0. Typed /\ ChanMoves /\ TakeMoves /\ HandlerMoves
    BY ChanMovesOn, TakesOn, MovesOn DEF CallInv, Moves
  <1>1. p \in Side /\ Peer(p) = s BY Two
  <1>2. ASSUME NEW f, In(Chan(s)', f), f.op = "call", f.id = c
        PROVE  Due(s, c) \/ c \in waiting'[s]
    BY <1>0, <1>2, ChanHas DEF Due
  <1>3. CASE handler'[p][c] \in {"incoming", "starting", "awaiting", "running", "answering"}
    <2>1. CASE handler[p][c] = "none"
      <3>1. Receive(p) /\ Head(wire[s]).op = "call" /\ Head(wire[s]).id = c
        BY <1>0, <1>1, <1>3, <2>1 DEF TakeMoves
      <3>2. In(wire[s], Head(wire[s])) BY <1>0, <1>1, <3>1, Read
      <3>3. In(Chan(s), Head(wire[s])) BY <1>0, <3>2, ChanIs
      <3> QED BY <3>1, <3>3 DEF Due
    <2>2. CASE handler[p][c] # "none"
      <3>1. handler[p][c] \in {"incoming", "starting", "awaiting", "running", "answering"}
        BY <1>0, <1>1, <1>3, <2>2 DEF HandlerMoves
      <3> QED BY <3>1 DEF Due
    <2> QED BY <2>1, <2>2
  <1>4. ASSUME NEW f, In(Chan(p)', f), f.op = "return", f.id = c
        PROVE  Due(s, c)
    <2>1. CASE In(Chan(p), f) BY <1>4, <2>1 DEF Due
    <2>2. CASE ~ In(Chan(p), f)
      <3>1. f = draft[p] BY <1>0, <1>1, <1>4, <2>2, ChanHas
      <3>2. handler[p][c] = "answering" BY <1>1, <1>4, <3>1 DEF CallInv, Drafted
      <3> QED BY <3>2 DEF Due
    <2> QED BY <2>1, <2>2
  <1> QED BY <1>2, <1>3, <1>4 DEF Due

(* A reply that is read was the last thing due for its call. *)
LEMMA DueOnce ==
  ASSUME CallInv, Ordered, [Next]_vars, NEW s \in Side, Receive(s),
         NEW c \in Ids, Head(wire[Peer(s)]).op = "return", Head(wire[Peer(s)]).id = c
  PROVE  ~ Due(s, c)'
  <1> DEFINE p == Peer(s)
  <1>0. Typed /\ HandlerMoves BY MovesOn DEF CallInv, Moves
  <1>1. p \in Side /\ Peer(p) = s BY Two
  <1>2. /\ Chan(p) # <<>> /\ Chan(p)[1] = Head(wire[p])
        /\ Chan(p)' = Tail(Chan(p)) /\ Chan(s)' = Chan(s)
    BY <1>0, ChanRead
  <1>3. handler[p][c] = "answered" BY <1>0, HeadSays DEF CallInv, Says
  <1>4. ASSUME NEW f, In(Chan(s), f), f.op = "call", f.id = c PROVE FALSE
    <2>1. c > received[p] BY <1>4 DEF Ordered
    <2>2. c <= received[p] BY <1>1, <1>3 DEF CallInv, Taken
    <2>3. received[p] \in Nat BY <1>0, <1>1 DEF Typed
    <2> QED BY <2>1, <2>2, <2>3 DEF Ids
  <1>5. handler'[p][c] = "answered" BY <1>0, <1>1, <1>3 DEF HandlerMoves
  <1>6. ASSUME NEW f, In(Tail(Chan(p)), f), f.op = "return" PROVE f.id # c
    <2>1. Chan(p) \in Seq(Messages) /\ Orderly(Chan(p)) BY <1>0, <1>1, ChanIs DEF Ordered
    <2> QED BY <1>2, <1>6, <2>1, OrderlyTaken
  <1> QED BY <1>2, <1>4, <1>5, <1>6 DEF Due

LEMMA ExpectedStep ==
  ASSUME CallInv, Ordered, Expected, [Next]_vars
  PROVE  Expected'
  <1>0. StageMoves /\ WaitKept BY FlowMoves, WaitsOn
  <1>1. ASSUME NEW s \in Side PROVE cancelled'[s] \subseteq Ids
    BY <1>0 DEF WaitKept, Expected
  <1>2. ASSUME NEW s \in Side, stage'[s] = "open", NEW c \in Ids, Due(s, c)'
        PROVE  c \in waiting'[s] \cup cancelled'[s]
    <2>1. CASE c \in waiting'[s] BY <2>1
    <2>2. CASE Due(s, c)
      <3>1. stage[s] = "open" BY <1>0, <1>2 DEF StageMoves
      <3>2. c \in waiting[s] \cup cancelled[s] BY <2>2, <3>1 DEF Expected
      <3> QED BY <1>0, <1>2, <3>1, <3>2, DueOnce DEF WaitKept
    <2> QED BY <1>2, <2>1, <2>2, DueOn
  <1> QED BY <1>1, <1>2 DEF Expected

-----------------------------------------------------------------------------
(* The invariant: the books *)

Pos == Nat \ {0}

Grants(s, r) == IF granted[s].ref = r THEN granted[s].n ELSE 0

(* What is owed for the grants of a reference: see Owed. *)
Debt(s, r) ==
  One(draft[s].val, r) + OnWay(Chan(s), r) + Kept(imports[Peer(s)], r) + Back(Chan(Peer(s)), r)

(* A frame that is refused, or that an end lets go of, leaves grants that   *)
(* nobody owes.                                                            *)
Exact(s) == overrun = {} /\ stage[Peer(s)] = "open"

Owes ==
  \A s \in Side : stage[s] = "open" => \A r \in Pos :
    /\ Debt(s, r) <= Grants(s, r)
    /\ Exact(s) => Debt(s, r) = Grants(s, r)

(* A reference sent home outlasts what is given back before it is read. *)
Lasts ==
  \A s \in Side : stage[s] = "open" =>
    \A i \in 1 .. Len(Chan(Peer(s))), r \in Pos :
      Chan(Peer(s))[i].op # "release" /\ Chan(Peer(s))[i].val = Home(r) =>
        One(draft[s].val, r) + OnWay(Chan(s), r) + Before(Chan(Peer(s)), i, r) < Grants(s, r)

(* An entry has grants, or there is none.  An end makes at most one for each *)
(* call it sends and each it answers.                                        *)
PastAnswer(s) == {c \in Ids : handler[s][c] \in {"answering", "answered", "dropped"}}

Granting ==
  \A s \in Side :
    /\ granted[s].ref \in 0 .. exported[s] /\ granted[s].n \in Nat
    /\ granted[s].ref = 0 <=> granted[s].n = 0
    /\ exported[s] <= next[s] + Cardinality(PastAnswer(s))

(* What a frame that is being made refers to is there until it is sent. *)
Holding ==
  \A s \in Side :
    /\ draft[s].val.kind = "own" => draft[s].val.ref = granted[s].ref /\ granted[s].ref # 0
    /\ draft[s].val.kind = "home" => \E k \in Held(s) : imports[s][k].ref = draft[s].val.ref
    /\ draft[s].val.kind = "data" => draft[s].val = Data

(* The references in frames are ones that were given out. *)
Names(s, f) ==
  /\ f.val.kind = "own" => f.val.ref \in 1 .. exported[s]
  /\ f.val.kind = "home" => f.val.ref \in 1 .. exported[Peer(s)]
  /\ f.val.kind = "data" => f.val = Data
  /\ f.op = "release" => f.val.kind = "home" /\ f.id # 0
  /\ f.op = "cancel" => f.val.kind = "data"

Named == \A s \in Side : \A f : In(Chan(s), f) => Names(s, f)

Imported ==
  \A s \in Side :
    /\ \A k \in DOMAIN imports[s] :
         /\ imports[s][k].ref \in 1 .. exported[Peer(s)]
         /\ imports[s][k].st = "gone" <=> imports[s][k].n = 0
    /\ \A r \in Refs : table[s][r] # 0 =>
         table[s][r] \in DOMAIN imports[s] /\ imports[s][table[s][r]].ref = r

BookInv ==
  /\ CallInv /\ Ordered /\ Expected
  /\ Granting /\ Holding /\ Named /\ Imported
  /\ Owes /\ Lasts

(* The numbers in the books are numbers. *)
LEMMA BookNumbers ==
  ASSUME Typed, NEW s \in Side, NEW r
  PROVE  /\ One(draft[s].val, r) \in Nat
         /\ OnWay(Chan(s), r) \in Nat /\ Back(Chan(s), r) \in Nat
         /\ Kept(imports[s], r) \in Nat /\ Grants(s, r) \in Int
  <1>1. Chan(s) \in Seq(Messages) BY ChanIs
  <1>2. imports[s] \in Seq(ImportRecs) /\ granted[s] \in Counts BY DEF Typed
  <1>3. Grants(s, r) \in Int BY <1>2 DEF Grants, Counts
  <1>4. One(draft[s].val, r) \in Nat BY DEF One
  <1> QED BY <1>1, <1>2, <1>3, <1>4, ListTotals, HeldTotal

(* No end opens again, and a frame lost stays lost. *)
NoneOpens ==
  \A s \in Side : stage'[s] = "open" => stage[s] = "open" /\ (Exact(s)' => Exact(s))

LEMMA OverrunKept ==
  ASSUME Typed, [Next]_vars
  PROVE  overrun \subseteq overrun' \/ \E u \in Side : stage'[u] # "open"
  <1>1. ASSUME UNCHANGED overrun PROVE overrun \subseteq overrun' BY <1>1
  <1>2. ASSUME NEW s, NEW f, Push(s, f) PROVE overrun \subseteq overrun' BY <1>2 DEF Push
  <1>3. ASSUME NEW s \in Side, Close(s) PROVE stage'[s] # "open"
    BY <1>3 DEF Close, Typed
  <1>4. ASSUME NEW s \in Side,
               \/ SendBegin(s) \/ SendRefused(s) \/ RespondTooLarge(s)
               \/ Write(s) \/ Receive(s) \/ Teardown(s)
        PROVE  overrun \subseteq overrun'
    BY <1>1, <1>4 DEF SendBegin, SendRefused, RespondTooLarge, Write, Receive, Teardown
  <1>5. ASSUME NEW s \in Side, SendEnd(s) \/ RespondEnd(s) PROVE overrun \subseteq overrun'
    BY <1>2, <1>5 DEF SendEnd, RespondEnd
  <1>6. ASSUME NEW s \in Side, NEW c \in Ids,
               \/ Consume(s, c) \/ Cancel(s, c)
               \/ Start(s, c) \/ Execute(s, c) \/ Ready(s, c) \/ RespondBegin(s, c)
        PROVE  overrun \subseteq overrun'
    BY <1>1, <1>6 DEF Consume, Cancel, Start, Execute, Ready, RespondBegin
  <1>7. ASSUME NEW s \in Side, NEW c \in Ids, CancelWrite(s, c) PROVE overrun \subseteq overrun'
    BY <1>2, <1>7 DEF CancelWrite
  <1>8. ASSUME NEW s \in Side, NEW k, DropImport(s, k) PROVE overrun \subseteq overrun'
    BY <1>1, <1>8 DEF DropImport
  <1>9. ASSUME NEW s \in Side, NEW k, Release(s, k) PROVE overrun \subseteq overrun'
    BY <1>2, <1>9 DEF Release
  <1>10. CASE UNCHANGED vars BY <1>1, <1>10 DEF vars
  <1> QED BY <1>3, <1>4, <1>5, <1>6, <1>7, <1>8, <1>9, <1>10, SessionAssumption
          DEF Next, Step, CloseBehind, CloseAtEnd

LEMMA NoneOpensOn ==
  ASSUME CallInv, [Next]_vars
  PROVE  NoneOpens
  <1>1. \A s \in Side : stage'[s] = "open" => stage[s] = "open"
    BY FlowMoves DEF StageMoves
  <1>2. ASSUME NEW s \in Side, stage'[s] = "open", Exact(s)' PROVE Exact(s)
    <2>1. Peer(s) \in Side /\ \A u \in Side : u = s \/ u = Peer(s) BY Two
    <2>2. stage'[Peer(s)] = "open" /\ overrun' = {} BY <1>2 DEF Exact
    <2>3. stage[Peer(s)] = "open" BY <1>1, <2>1, <2>2
    <2>4. \A u \in Side : stage'[u] = "open" BY <1>2, <2>1, <2>2
    <2>5. overrun \subseteq overrun' BY <2>4, OverrunKept DEF CallInv
    <2> QED BY <2>2, <2>3, <2>5 DEF Exact
  <1> QED BY <1>1, <1>2 DEF NoneOpens

(* A step that sends nothing and takes nothing. *)
LEMMA BooksRest ==
  ASSUME Typed, Typed', Owes, Lasts, NoneOpens,
         \A s \in Side : Chan(s)' = Chan(s),
         \A s \in Side, r \in Pos :
           /\ Kept(imports'[s], r) = Kept(imports[s], r)
           /\ Grants(s, r)' + One(draft[s].val, r) = Grants(s, r) + One(draft'[s].val, r)
  PROVE  Owes' /\ Lasts'
  <1>1. ASSUME NEW s \in Side, NEW r
        PROVE  /\ One(draft[s].val, r) \in Nat /\ One(draft'[s].val, r) \in Nat
               /\ OnWay(Chan(s), r) \in Nat /\ Back(Chan(s), r) \in Nat
               /\ Kept(imports[s], r) \in Nat
               /\ Grants(s, r) \in Int /\ Grants(s, r)' \in Int
    <2>1. granted'[s] \in Counts BY DEF Typed
    <2>2. Grants(s, r)' \in Int BY <2>1 DEF Grants, Counts
    <2> QED BY <2>2, BookNumbers DEF One
  <1>2. ASSUME NEW s \in Side, stage'[s] = "open", NEW r \in Pos
        PROVE  /\ Debt(s, r)' <= Grants(s, r)'
               /\ Exact(s)' => Debt(s, r)' = Grants(s, r)'
    <2>1. Peer(s) \in Side BY Two
    <2>2. stage[s] = "open" /\ (Exact(s)' => Exact(s))
      BY <1>2 DEF NoneOpens
    <2>3. /\ Debt(s, r) <= Grants(s, r)
          /\ Exact(s)' => Debt(s, r) = Grants(s, r)
      BY <2>2 DEF Owes
    <2>4. Debt(s, r)' = One(draft'[s].val, r) + OnWay(Chan(s), r) + Kept(imports[Peer(s)], r)
                        + Back(Chan(Peer(s)), r)
      BY <2>1 DEF Debt
    <2>5. Grants(s, r)' + One(draft[s].val, r) = Grants(s, r) + One(draft'[s].val, r)
      OBVIOUS
    <2> QED BY <1>1, <2>1, <2>3, <2>4, <2>5 DEF Debt
  <1>3. ASSUME NEW s \in Side, stage'[s] = "open",
               NEW i \in 1 .. Len(Chan(Peer(s))), NEW r \in Pos,
               Chan(Peer(s))[i].op # "release", Chan(Peer(s))[i].val = Home(r)
        PROVE  One(draft'[s].val, r) + OnWay(Chan(s), r) + Before(Chan(Peer(s)), i, r)
                 < Grants(s, r)'
    <2>1. Peer(s) \in Side /\ Chan(Peer(s)) \in Seq(Messages) BY Two, ChanIs
    <2>2. i \in 1 .. Len(Chan(Peer(s))) + 1 BY <2>1
    <2>3. Before(Chan(Peer(s)), i, r) \in Nat BY <2>1, <2>2, BeforeTotal
    <2>4. One(draft[s].val, r) + OnWay(Chan(s), r) + Before(Chan(Peer(s)), i, r) < Grants(s, r)
      BY <1>3 DEF Lasts, NoneOpens
    <2>5. Grants(s, r)' + One(draft[s].val, r) = Grants(s, r) + One(draft'[s].val, r)
      OBVIOUS
    <2> QED BY <1>1, <2>3, <2>4, <2>5
  <1>4. \A s \in Side : Peer(s) \in Side BY Two
  <1> QED BY <1>2, <1>3, <1>4 DEF Owes, Lasts

LEMMA BookNumbersNext ==
  ASSUME Typed', NEW s \in Side, NEW r
  PROVE  /\ One(draft'[s].val, r) \in Nat
         /\ Chan(s)' \in Seq(Messages)
         /\ OnWay(Chan(s)', r) \in Nat /\ Back(Chan(s)', r) \in Nat
         /\ Kept(imports'[s], r) \in Nat /\ Grants(s, r)' \in Int
  <1>1. wire'[s] \in Seq(Messages) /\ queued'[s] \in Seq(Messages) BY DEF Typed
  <1>2. wire'[s] \o queued'[s] \in Seq(Messages) BY <1>1, ConcatProperties
  <1>3. Chan(s)' \in Seq(Messages) BY <1>2 DEF Chan
  <1>4. imports'[s] \in Seq(ImportRecs) /\ granted'[s] \in Counts BY DEF Typed
  <1>5. Grants(s, r)' \in Int BY <1>4 DEF Grants, Counts
  <1>6. One(draft'[s].val, r) \in Nat BY DEF One
  <1> QED BY <1>3, <1>4, <1>5, <1>6, ListTotals, HeldTotal

(* A step that puts a frame in the channel. *)
LEMMA BooksPut ==
  ASSUME Typed, Typed', Owes, Lasts, NoneOpens, NEW u \in Side, NEW f \in Messages,
         Chan(u)' = Append(Chan(u), f), \A s \in Side \ {u} : Chan(s)' = Chan(s),
         granted' = granted,
         \A s \in Side \ {u} : draft'[s] = draft[s] /\ imports'[s] = imports[s],
         \A r \in Pos :
           /\ One(draft'[u].val, r) + One(f.val, r) = One(draft[u].val, r)
           /\ Kept(imports'[u], r) + Given(f, r) = Kept(imports[u], r)
           /\ f.op # "release" /\ f.val = Home(r) => Kept(imports'[u], r) >= 1
  PROVE  Owes' /\ Lasts'
  <1> DEFINE p == Peer(u)
             q == Chan(u)
  <1>1. p \in Side /\ p # u /\ Peer(p) = u /\ \A s \in Side : s = u \/ s = p BY Two
  <1>2. q \in Seq(Messages) /\ Chan(p) \in Seq(Messages) BY <1>1, ChanIs
  <1>3. /\ Len(q) \in Nat /\ Len(Append(q, f)) = Len(q) + 1 /\ Append(q, f)[Len(q) + 1] = f
        /\ \A i \in 1 .. Len(q) : Append(q, f)[i] = q[i]
    BY <1>2
  <1>4. /\ Chan(u)' = Append(q, f) /\ Chan(p)' = Chan(p)
        /\ draft'[p] = draft[p] /\ imports'[p] = imports[p]
    BY <1>1
  <1>5. \A s \in Side : \A r : Grants(s, r)' = Grants(s, r) BY DEF Grants
  <1> HIDE DEF p, q
  <1>6. ASSUME NEW r
        PROVE  /\ OnWay(Append(q, f), r) = OnWay(q, r) + One(f.val, r)
               /\ Back(Append(q, f), r) = Back(q, r) + Given(f, r)
               /\ One(f.val, r) \in Nat /\ Given(f, r) \in Nat
    BY <1>2, ListAppended, GivenNat
  <1>7. ASSUME NEW r
        PROVE  /\ One(draft[u].val, r) \in Nat /\ One(draft'[u].val, r) \in Nat
               /\ One(draft[p].val, r) \in Nat
               /\ OnWay(q, r) \in Nat /\ Back(q, r) \in Nat
               /\ OnWay(Chan(p), r) \in Nat /\ Back(Chan(p), r) \in Nat
               /\ Kept(imports[u], r) \in Nat /\ Kept(imports'[u], r) \in Nat
               /\ Kept(imports[p], r) \in Nat
               /\ Grants(u, r) \in Int /\ Grants(p, r) \in Int
    BY <1>1, BookNumbers, BookNumbersNext DEF q
  <1>8. ASSUME NEW r \in Pos PROVE Debt(u, r)' = Debt(u, r) /\ Debt(p, r)' = Debt(p, r)
    <2>1. Debt(u, r) = One(draft[u].val, r) + OnWay(q, r) + Kept(imports[p], r)
                       + Back(Chan(p), r)
      BY DEF Debt, p, q
    <2>2. Debt(p, r) = One(draft[p].val, r) + OnWay(Chan(p), r) + Kept(imports[u], r)
                       + Back(q, r)
      BY <1>1 DEF Debt, q
    <2>3. Debt(u, r)' = One(draft'[u].val, r) + OnWay(Append(q, f), r) + Kept(imports[p], r)
                        + Back(Chan(p), r)
      BY <1>4 DEF Debt, p
    <2>4. Debt(p, r)' = One(draft[p].val, r) + OnWay(Chan(p), r) + Kept(imports'[u], r)
                        + Back(Append(q, f), r)
      BY <1>1, <1>4 DEF Debt
    <2>5. /\ One(draft'[u].val, r) + One(f.val, r) = One(draft[u].val, r)
          /\ Kept(imports'[u], r) + Given(f, r) = Kept(imports[u], r)
      OBVIOUS
    <2>6. Debt(u, r)' = Debt(u, r) BY <1>6, <1>7, <2>1, <2>3, <2>5
    <2>7. Debt(p, r)' = Debt(p, r) BY <1>6, <1>7, <2>2, <2>4, <2>5, SMTT(30)
    <2> QED BY <2>6, <2>7
  <1>9. ASSUME NEW s \in Side, stage'[s] = "open", NEW r \in Pos
        PROVE  /\ Debt(s, r)' <= Grants(s, r)'
               /\ Exact(s)' => Debt(s, r)' = Grants(s, r)'
    <2>1. Debt(s, r)' = Debt(s, r) /\ Peer(s) \in Side BY <1>1, <1>8, Two
    <2> QED BY <1>5, <1>9, <2>1 DEF Owes, NoneOpens
  <1>10. ASSUME stage'[u] = "open", NEW i \in 1 .. Len(Chan(p)), NEW r \in Pos,
                Chan(p)[i].op # "release", Chan(p)[i].val = Home(r)
         PROVE  One(draft'[u].val, r) + OnWay(Append(q, f), r) + Before(Chan(p), i, r)
                  < Grants(u, r)
    <2>1. i \in 1 .. Len(Chan(p)) + 1 BY <1>2
    <2>2. Before(Chan(p), i, r) \in Nat BY <1>2, <2>1, BeforeTotal
    <2>3. One(draft[u].val, r) + OnWay(q, r) + Before(Chan(p), i, r) < Grants(u, r)
      BY <1>10 DEF Lasts, NoneOpens, p, q
    <2>4. One(draft'[u].val, r) + One(f.val, r) = One(draft[u].val, r) OBVIOUS
    <2> QED BY <1>6, <1>7, <2>2, <2>3, <2>4, SMTT(30)
  <1>11. ASSUME stage'[p] = "open", NEW i \in 1 .. Len(q) + 1, NEW r \in Pos,
                Append(q, f)[i].op # "release", Append(q, f)[i].val = Home(r)
         PROVE  One(draft[p].val, r) + OnWay(Chan(p), r) + Before(Append(q, f), i, r)
                  < Grants(p, r)
    <2>0. stage[p] = "open" BY <1>1, <1>11 DEF NoneOpens
    <2>1. i \in Nat /\ \A j \in 1 .. i - 1 : j \in 1 .. Len(q) /\ Append(q, f)[j] = q[j]
      BY <1>3
    <2>2. Before(Append(q, f), i, r) = Before(q, i, r) BY <2>1, BeforeSame
    <2>3. CASE i = Len(q) + 1
      <3>1. Before(q, i, r) = Back(q, r) BY <1>2, <2>3, BeforeEnd
      <3>2. f.op # "release" /\ f.val = Home(r) BY <1>3, <1>11, <2>3
      <3>3. Given(f, r) = 0 BY <3>2 DEF Given
      <3>4. Kept(imports'[u], r) >= 1 /\ Kept(imports'[u], r) + Given(f, r) = Kept(imports[u], r)
        BY <3>2
      <3>5. Debt(p, r) <= Grants(p, r) BY <1>1, <2>0 DEF Owes
      <3>6. One(draft[p].val, r) + OnWay(Chan(p), r) + Kept(imports[u], r) + Back(q, r)
              <= Grants(p, r)
        BY <1>1, <3>5 DEF Debt, q
      <3> QED BY <1>7, <2>2, <3>1, <3>3, <3>4, <3>6, SMTT(30)
    <2>4. CASE i # Len(q) + 1
      <3>1. i \in 1 .. Len(q) /\ Append(q, f)[i] = q[i] BY <1>3, <2>4
      <3>2. One(draft[p].val, r) + OnWay(Chan(p), r) + Before(q, i, r) < Grants(p, r)
        BY <1>1, <1>11, <2>0, <3>1 DEF Lasts, q
      <3> QED BY <2>2, <3>2
    <2> QED BY <2>3, <2>4
  <1>12. Owes' BY <1>9 DEF Owes
  <1>13. ASSUME NEW s \in Side, stage'[s] = "open",
                NEW i \in 1 .. Len(Chan(Peer(s))'), NEW r \in Pos,
                Chan(Peer(s))'[i].op # "release", Chan(Peer(s))'[i].val = Home(r)
         PROVE  One(draft'[s].val, r) + OnWay(Chan(s)', r) + Before(Chan(Peer(s))', i, r)
                  < Grants(s, r)'
    <2>1. CASE s = u BY <1>4, <1>5, <1>10, <1>13, <2>1 DEF p
    <2>2. CASE s = p
      <3>1. Peer(s) = u BY <1>1, <2>2
      <3>2. i \in 1 .. Len(q) + 1 BY <1>3, <1>4, <1>13, <3>1
      <3> QED BY <1>4, <1>5, <1>11, <1>13, <2>2, <3>1, <3>2
    <2> QED BY <1>1, <2>1, <2>2
  <1>14. Lasts' BY <1>13 DEF Lasts
  <1> QED BY <1>12, <1>14

(* A push that is refused: nobody owes what the frame was to carry. *)
LEMMA BooksLost ==
  ASSUME Typed, Typed', Owes, Lasts, NoneOpens, NEW u \in Side,
         stage'[u] # "open" \/ overrun' # {},
         \A s \in Side : Chan(s)' = Chan(s), granted' = granted,
         \A s \in Side \ {u} : draft'[s] = draft[s] /\ imports'[s] = imports[s],
         \A r \in Pos : /\ One(draft'[u].val, r) <= One(draft[u].val, r)
                        /\ Kept(imports'[u], r) <= Kept(imports[u], r)
  PROVE  Owes' /\ Lasts'
  <1> DEFINE p == Peer(u)
  <1>1. p \in Side /\ p # u /\ Peer(p) = u /\ \A s \in Side : s = u \/ s = p BY Two
  <1>2. /\ draft'[p] = draft[p] /\ imports'[p] = imports[p]
        /\ \A s \in Side : \A r : Grants(s, r)' = Grants(s, r)
    BY <1>1 DEF Grants
  <1>3. \A s \in Side : stage'[s] = "open" => ~ Exact(s)' BY <1>1 DEF Exact
  <1>4. \A s \in Side, r \in Pos :
          /\ One(draft'[s].val, r) <= One(draft[s].val, r)
          /\ Kept(imports'[s], r) <= Kept(imports[s], r)
    <2>1. \A r : One(draft[p].val, r) \in Nat /\ Kept(imports[p], r) \in Nat
      BY <1>1, BookNumbers
    <2> QED BY <1>1, <1>2, <2>1
  <1> HIDE DEF p
  <1>5. ASSUME NEW s \in Side, stage'[s] = "open", NEW r \in Pos
        PROVE  Debt(s, r)' <= Grants(s, r)'
    <2>1. Peer(s) \in Side BY Two
    <2>2. One(draft[s].val, r) + OnWay(Chan(s), r) + Kept(imports[Peer(s)], r)
            + Back(Chan(Peer(s)), r) <= Grants(s, r)
      BY <1>5 DEF Owes, Debt, NoneOpens
    <2>3. Debt(s, r)' = One(draft'[s].val, r) + OnWay(Chan(s), r) + Kept(imports'[Peer(s)], r)
                        + Back(Chan(Peer(s)), r)
      BY <2>1 DEF Debt
    <2>4. /\ One(draft'[s].val, r) <= One(draft[s].val, r)
          /\ Kept(imports'[Peer(s)], r) <= Kept(imports[Peer(s)], r)
      BY <1>4, <2>1
    <2>5. /\ One(draft[s].val, r) \in Nat /\ One(draft'[s].val, r) \in Nat
          /\ OnWay(Chan(s), r) \in Nat /\ Back(Chan(Peer(s)), r) \in Nat
          /\ Kept(imports[Peer(s)], r) \in Nat /\ Kept(imports'[Peer(s)], r) \in Nat
          /\ Grants(s, r) \in Int /\ Grants(s, r)' = Grants(s, r)
      BY <1>2, <2>1, BookNumbers, BookNumbersNext
    <2> QED BY <2>2, <2>3, <2>4, <2>5, SMTT(30)
  <1>6. Owes' BY <1>3, <1>5 DEF Owes
  <1>7. ASSUME NEW s \in Side, stage'[s] = "open",
               NEW i \in 1 .. Len(Chan(Peer(s))), NEW r \in Pos,
               Chan(Peer(s))[i].op # "release", Chan(Peer(s))[i].val = Home(r)
        PROVE  One(draft'[s].val, r) + OnWay(Chan(s), r) + Before(Chan(Peer(s)), i, r)
                 < Grants(s, r)'
    <2>1. Peer(s) \in Side /\ Chan(Peer(s)) \in Seq(Messages) BY Two, ChanIs
    <2>2. i \in 1 .. Len(Chan(Peer(s))) + 1 BY <2>1
    <2>3. Before(Chan(Peer(s)), i, r) \in Nat BY <2>1, <2>2, BeforeTotal
    <2>4. One(draft[s].val, r) + OnWay(Chan(s), r) + Before(Chan(Peer(s)), i, r) < Grants(s, r)
      BY <1>7 DEF Lasts, NoneOpens
    <2>5. /\ One(draft[s].val, r) \in Nat /\ One(draft'[s].val, r) \in Nat
          /\ OnWay(Chan(s), r) \in Nat /\ Grants(s, r) \in Int
      BY BookNumbers, BookNumbersNext
    <2> QED BY <1>2, <1>4, <2>3, <2>4, <2>5, SMTT(30)
  <1>8. \A s \in Side : Peer(s) \in Side BY Two
  <1>9. Lasts' BY <1>7, <1>8 DEF Lasts
  <1> QED BY <1>6, <1>9

(* A step that takes a frame from the channel. *)
LEMMA BooksGot ==
  ASSUME Typed, Typed', Owes, Lasts, NoneOpens, NEW u \in Side, NEW f, draft' = draft,
         Chan(Peer(u)) # <<>>, Chan(Peer(u))[1] = f, Chan(Peer(u))' = Tail(Chan(Peer(u))),
         Chan(u)' = Chan(u),
         \A s \in Side \ {u} : granted'[s] = granted[s] /\ imports'[s] = imports[s],
         \A r \in Pos :
           /\ Kept(imports'[u], r) = Kept(imports[u], r) + One(f.val, r)
           /\ Grants(u, r)' = Grants(u, r) - Given(f, r)
  PROVE  Owes' /\ Lasts'
  <1> DEFINE p == Peer(u)
             q == Chan(p)
             t == Tail(q)
  <1>1. p \in Side /\ p # u /\ Peer(p) = u /\ \A s \in Side : s = u \/ s = p BY Two
  <1>2. q \in Seq(Messages) /\ Chan(u) \in Seq(Messages) BY <1>1, ChanIs
  <1>3. /\ Len(t) \in Nat /\ Len(q) = Len(t) + 1 /\ f \in Messages
        /\ \A i \in 1 .. Len(t) : t[i] = q[i + 1]
    BY <1>2
  <1>4. Chan(p)' = t /\ Chan(u)' = Chan(u) /\ q # <<>> /\ q[1] = f OBVIOUS
  <1>5. imports'[p] = imports[p] /\ \A r : Grants(p, r)' = Grants(p, r)
    BY <1>1 DEF Grants
  <1>6. ASSUME NEW r
        PROVE  /\ OnWay(q, r) = One(f.val, r) + OnWay(t, r)
               /\ Back(q, r) = Given(f, r) + Back(t, r)
    BY <1>2, <1>4, ListTaken
  <1>7. ASSUME NEW i \in 1 .. Len(t), NEW r
        PROVE  Before(q, i + 1, r) = Given(f, r) + Before(t, i, r)
    BY <1>2, <1>4, BeforeTaken
  <1> HIDE DEF p, q, t
  <1>8. t \in Seq(Messages) BY <1>2, <1>4 DEF t
  <1>9. ASSUME NEW r
        PROVE  /\ One(draft[u].val, r) \in Nat /\ One(draft[p].val, r) \in Nat
               /\ OnWay(q, r) \in Nat /\ Back(q, r) \in Nat
               /\ OnWay(t, r) \in Nat /\ Back(t, r) \in Nat
               /\ OnWay(Chan(u), r) \in Nat /\ Back(Chan(u), r) \in Nat
               /\ Kept(imports[u], r) \in Nat /\ Kept(imports'[u], r) \in Nat
               /\ Kept(imports[p], r) \in Nat
               /\ Grants(u, r) \in Int /\ Grants(p, r) \in Int
               /\ Given(f, r) \in Nat /\ One(f.val, r) \in Nat
    BY <1>1, <1>3, <1>8, BookNumbers, BookNumbersNext, ListTotals, GivenNat DEF q
  <1>10. ASSUME NEW r \in Pos
         PROVE  Debt(u, r)' = Debt(u, r) - Given(f, r) /\ Debt(p, r)' = Debt(p, r)
    <2>1. Debt(u, r) = One(draft[u].val, r) + OnWay(Chan(u), r) + Kept(imports[p], r)
                       + Back(q, r)
      BY DEF Debt, p, q
    <2>2. Debt(p, r) = One(draft[p].val, r) + OnWay(q, r) + Kept(imports[u], r)
                       + Back(Chan(u), r)
      BY <1>1 DEF Debt, q
    <2>3. Debt(u, r)' = One(draft[u].val, r) + OnWay(Chan(u), r) + Kept(imports[p], r)
                        + Back(t, r)
      BY <1>4, <1>5 DEF Debt, p
    <2>4. Debt(p, r)' = One(draft[p].val, r) + OnWay(t, r) + Kept(imports'[u], r)
                        + Back(Chan(u), r)
      BY <1>1, <1>4 DEF Debt
    <2>5. Kept(imports'[u], r) = Kept(imports[u], r) + One(f.val, r) OBVIOUS
    <2>6. Debt(u, r)' = Debt(u, r) - Given(f, r)
      <3>1. /\ One(draft[u].val, r) \in Nat /\ OnWay(Chan(u), r) \in Nat
            /\ Kept(imports[p], r) \in Nat /\ Back(t, r) \in Nat /\ Given(f, r) \in Nat
            /\ Back(q, r) = Given(f, r) + Back(t, r)
        BY <1>6, <1>9
      <3> QED BY <2>1, <2>3, <3>1
    <2>7. Debt(p, r)' = Debt(p, r) BY <1>6, <1>9, <2>2, <2>4, <2>5, SMTT(30)
    <2> QED BY <2>6, <2>7
  <1>11. ASSUME NEW r \in Pos
         PROVE  Debt(u, r) \in Nat /\ Debt(p, r) \in Nat
                /\ Grants(u, r)' = Grants(u, r) - Given(f, r)
    <2>1. Debt(u, r) = One(draft[u].val, r) + OnWay(Chan(u), r) + Kept(imports[p], r)
                       + Back(q, r)
      BY DEF Debt, p, q
    <2>2. Debt(p, r) = One(draft[p].val, r) + OnWay(q, r) + Kept(imports[u], r)
                       + Back(Chan(u), r)
      BY <1>1 DEF Debt, q
    <2>3. Debt(u, r) \in Nat
      <3>1. /\ One(draft[u].val, r) \in Nat /\ OnWay(Chan(u), r) \in Nat
            /\ Kept(imports[p], r) \in Nat /\ Back(q, r) \in Nat
        BY <1>9
      <3> QED BY <2>1, <3>1
    <2>4. Debt(p, r) \in Nat
      <3>1. /\ One(draft[p].val, r) \in Nat /\ OnWay(q, r) \in Nat
            /\ Kept(imports[u], r) \in Nat /\ Back(Chan(u), r) \in Nat
        BY <1>9
      <3> QED BY <2>2, <3>1
    <2> QED BY <2>3, <2>4
  <1>12. ASSUME NEW s \in Side, stage'[s] = "open", NEW r \in Pos
         PROVE  /\ Debt(s, r)' <= Grants(s, r)'
                /\ Exact(s)' => Debt(s, r)' = Grants(s, r)'
    <2>1. /\ Debt(s, r) <= Grants(s, r)
          /\ Exact(s)' => Debt(s, r) = Grants(s, r)
      BY <1>12, Two DEF Owes, NoneOpens
    <2>2. CASE s = u BY <1>9, <1>10, <1>11, <2>1, <2>2, SMTT(30)
    <2>3. CASE s = p BY <1>5, <1>10, <2>1, <2>3
    <2> QED BY <1>1, <2>2, <2>3
  <1>13. ASSUME stage'[u] = "open", NEW i \in 1 .. Len(t), NEW r \in Pos,
                t[i].op # "release", t[i].val = Home(r)
         PROVE  One(draft[u].val, r) + OnWay(Chan(u), r) + Before(t, i, r) < Grants(u, r)'
    <2>1. i + 1 \in 1 .. Len(q) /\ q[i + 1] = t[i] BY <1>3
    <2>2. One(draft[u].val, r) + OnWay(Chan(u), r) + Before(q, i + 1, r) < Grants(u, r)
      BY <1>13, <2>1 DEF Lasts, NoneOpens, p, q
    <2>3. i \in 1 .. Len(t) + 1 BY <1>3
    <2>4. Before(t, i, r) \in Nat BY <1>8, <2>3, BeforeTotal
    <2>5. Before(q, i + 1, r) = Given(f, r) + Before(t, i, r) BY <1>7
    <2>6. /\ One(draft[u].val, r) + OnWay(Chan(u), r) \in Nat
          /\ Grants(u, r) \in Int /\ Given(f, r) \in Nat
          /\ Grants(u, r)' = Grants(u, r) - Given(f, r)
      BY <1>9, SMTT(30)
    <2> QED BY <2>2, <2>4, <2>5, <2>6
  <1>14. ASSUME stage'[p] = "open", NEW i \in 1 .. Len(Chan(u)), NEW r \in Pos,
                Chan(u)[i].op # "release", Chan(u)[i].val = Home(r)
         PROVE  One(draft[p].val, r) + OnWay(t, r) + Before(Chan(u), i, r) < Grants(p, r)
    <2>1. One(draft[p].val, r) + OnWay(q, r) + Before(Chan(u), i, r) < Grants(p, r)
      BY <1>1, <1>14 DEF Lasts, NoneOpens, q
    <2>2. i \in 1 .. Len(Chan(u)) + 1 BY <1>2
    <2>3. Before(Chan(u), i, r) \in Nat BY <1>2, <2>2, BeforeTotal
    <2>4. /\ One(draft[p].val, r) \in Nat /\ OnWay(t, r) \in Nat
          /\ One(f.val, r) \in Nat /\ Grants(p, r) \in Int
          /\ OnWay(q, r) = One(f.val, r) + OnWay(t, r)
      BY <1>6, <1>9
    <2> QED BY <2>1, <2>3, <2>4
  <1>15. Owes' BY <1>12 DEF Owes
  <1>16. ASSUME NEW s \in Side, stage'[s] = "open",
                NEW i \in 1 .. Len(Chan(Peer(s))'), NEW r \in Pos,
                Chan(Peer(s))'[i].op # "release", Chan(Peer(s))'[i].val = Home(r)
         PROVE  One(draft'[s].val, r) + OnWay(Chan(s)', r) + Before(Chan(Peer(s))', i, r)
                  < Grants(s, r)'
    <2>1. CASE s = u BY <1>4, <1>13, <1>16, <2>1 DEF p
    <2>2. CASE s = p BY <1>1, <1>4, <1>5, <1>14, <1>16, <2>2
    <2> QED BY <1>1, <2>1, <2>2
  <1>17. Lasts' BY <1>16 DEF Lasts
  <1> QED BY <1>15, <1>17

(* An end that closes lets go of what it had not written. *)
LEMMA BooksCut ==
  ASSUME Typed, Typed', Owes, Lasts, NoneOpens, NEW u \in Side, stage'[u] # "open",
         Prefix(Chan(u)', Chan(u)), \A s \in Side \ {u} : Chan(s)' = Chan(s),
         \A s \in Side \ {u} : granted'[s] = granted[s],
         draft' = draft, imports' = imports
  PROVE  Owes' /\ Lasts'
  <1> DEFINE p == Peer(u)
  <1>1. p \in Side /\ p # u /\ Peer(p) = u /\ \A s \in Side : s = u \/ s = p BY Two
  <1> HIDE DEF p
  <1>2. Chan(p)' = Chan(p) /\ \A r : Grants(p, r)' = Grants(p, r) BY <1>1 DEF Grants
  <1>3. Chan(u) \in Seq(Messages) /\ Chan(u)' \in Seq(Messages)
    BY ChanIs, BookNumbersNext
  <1>4. ASSUME NEW r
        PROVE  /\ One(draft[p].val, r) \in Nat /\ OnWay(Chan(p), r) \in Nat
               /\ Back(Chan(u), r) \in Nat /\ Back(Chan(u)', r) \in Nat
               /\ Grants(p, r) \in Int /\ Kept(imports[u], r) \in Nat
               /\ Back(Chan(u)', r) <= Back(Chan(u), r)
    BY <1>1, <1>3, BookNumbers, BookNumbersNext, ListCut
  <1>5. ASSUME stage'[p] = "open", NEW r \in Pos PROVE Debt(p, r)' <= Grants(p, r)
    <2>1. One(draft[p].val, r) + OnWay(Chan(p), r) + Kept(imports[u], r) + Back(Chan(u), r)
            <= Grants(p, r)
      BY <1>1, <1>5 DEF Owes, Debt, NoneOpens
    <2>2. Debt(p, r)' = One(draft[p].val, r) + OnWay(Chan(p), r) + Kept(imports[u], r)
                        + Back(Chan(u)', r)
      BY <1>1, <1>2 DEF Debt
    <2> QED BY <1>4, <2>1, <2>2
  <1>6. Owes' BY <1>1, <1>2, <1>5 DEF Owes, Exact
  <1>7. ASSUME stage'[p] = "open", NEW i \in 1 .. Len(Chan(u)'), NEW r \in Pos,
               Chan(u)'[i].op # "release", Chan(u)'[i].val = Home(r)
        PROVE  One(draft[p].val, r) + OnWay(Chan(p), r) + Before(Chan(u)', i, r) < Grants(p, r)
    <2>1. Len(Chan(u)) \in Nat /\ Len(Chan(u)') \in Nat BY <1>3
    <2>2. i \in 1 .. Len(Chan(u)) /\ Chan(u)'[i] = Chan(u)[i] BY <2>1 DEF Prefix
    <2>3. i \in Nat /\ \A j \in 1 .. i - 1 : Chan(u)'[j] = Chan(u)[j] BY <2>1 DEF Prefix
    <2>4. Before(Chan(u)', i, r) = Before(Chan(u), i, r) BY <2>3, BeforeSame
    <2>5. One(draft[p].val, r) + OnWay(Chan(p), r) + Before(Chan(u), i, r) < Grants(p, r)
      BY <1>1, <1>7, <2>2 DEF Lasts, NoneOpens
    <2> QED BY <2>4, <2>5
  <1>8. Lasts' BY <1>1, <1>2, <1>7 DEF Lasts
  <1> QED BY <1>6, <1>8

-----------------------------------------------------------------------------
(* What is imported *)

LEMMA KeptChanged ==
  ASSUME NEW m \in Seq(ImportRecs), NEW n \in Seq(ImportRecs), Len(n) = Len(m),
         NEW k \in 1 .. Len(m), \A j \in (1 .. Len(m)) \ {k} : n[j] = m[j], NEW r
  PROVE  Kept(n, r) = Kept(m, r) - Has(m[k], r) + Has(n[k], r)
  <1> DEFINE D == 1 .. Len(m)
             f == HeldIn(m, r)
             g == HeldIn(n, r)
  <1>1. Len(m) \in Nat /\ 1 \in Int OBVIOUS
  <1>2. IsFiniteSet(D) BY <1>1, FS_Interval
  <1>3. /\ f \in [D -> Nat] /\ g \in [D -> Nat] /\ k \in D
        /\ \A j \in D : f[j] = Has(m[j], r) /\ g[j] = Has(n[j], r)
    BY HeldNumbers
  <1>4. \A j \in D \ {k} : g[j] = f[j] BY <1>3
  <1> HIDE DEF D, f, g
  <1>5. f \in [D -> Nat] /\ g \in [D -> Nat] /\ k \in D BY <1>3
  <1>6. f[k] \in Nat /\ g[k] \in Nat /\ Total(f) \in Nat /\ Total(g) \in Nat
    BY <1>2, <1>5, TotalNat
  <1>7. IsFiniteSet(D \ {k}) /\ Off(f, k) \in [D \ {k} -> Nat] BY <1>2, <1>5, OffTyped
  <1>8. Off(g, k) = Off(f, k)
    <2>1. DOMAIN f = D /\ DOMAIN g = D BY <1>5
    <2> QED BY <1>4, <2>1 DEF Off
  <1>9. Total(Off(f, k)) \in Nat BY <1>7, TotalNat
  <1>10. Total(f) = f[k] + Total(Off(f, k)) BY <1>2, <1>5, TotalSplit
  <1>11. Total(g) = g[k] + Total(Off(g, k)) BY <1>2, <1>5, TotalSplit
  <1>12. Total(g) = Total(f) - f[k] + g[k] BY <1>6, <1>8, <1>9, <1>10, <1>11
  <1> QED BY <1>3, <1>12 DEF Kept, f, g

LEMMA KeptAppended ==
  ASSUME NEW m \in Seq(ImportRecs), NEW x \in ImportRecs, NEW r
  PROVE  Kept(Append(m, x), r) = Kept(m, r) + Has(x, r)
  <1> DEFINE t == Append(m, x)
             n == Len(m)
  <1>1. /\ n \in Nat /\ t \in Seq(ImportRecs) /\ Len(t) = n + 1 /\ t[n + 1] = x
        /\ \A i \in 1 .. n : t[i] = m[i]
    OBVIOUS
  <1> HIDE DEF t, n
  <1>2. /\ HeldIn(m, r) \in [1 .. n -> Nat]
        /\ \A i \in 1 .. n : HeldIn(m, r)[i] = Has(m[i], r)
    BY HeldNumbers DEF n
  <1>3. /\ HeldIn(t, r) \in [1 .. n + 1 -> Nat]
        /\ \A i \in 1 .. n + 1 : HeldIn(t, r)[i] = Has(t[i], r)
    BY <1>1, HeldNumbers
  <1>4. \A i \in 1 .. n : i \in 1 .. n + 1 /\ HeldIn(t, r)[i] = HeldIn(m, r)[i]
    BY <1>1, <1>2, <1>3
  <1>5. n + 1 \in 1 .. n + 1 BY <1>1
  <1>6. HeldIn(t, r)[n + 1] = Has(x, r) BY <1>1, <1>3, <1>5
  <1>7. Total(HeldIn(t, r)) = Total(HeldIn(m, r)) + HeldIn(t, r)[n + 1]
    BY <1>1, <1>2, <1>3, <1>4, TotalAppended
  <1> QED BY <1>6, <1>7 DEF Kept, t

(* One Import is part of what is kept. *)
LEMMA KeptSome ==
  ASSUME NEW m \in Seq(ImportRecs), NEW k \in 1 .. Len(m), NEW r
  PROVE  Has(m[k], r) <= Kept(m, r)
  <1> DEFINE f == HeldIn(m, r)
  <1>1. Len(m) \in Nat /\ 1 \in Int OBVIOUS
  <1>2. IsFiniteSet(1 .. Len(m)) BY <1>1, FS_Interval
  <1>3. f \in [1 .. Len(m) -> Nat] /\ f[k] = Has(m[k], r) /\ Has(m[k], r) \in Nat
    BY HeldNumbers
  <1> HIDE DEF f
  <1>4. IsFiniteSet((1 .. Len(m)) \ {k}) /\ Off(f, k) \in [(1 .. Len(m)) \ {k} -> Nat]
    BY <1>2, <1>3, OffTyped
  <1>5. Total(Off(f, k)) \in Nat BY <1>4, TotalNat
  <1>6. Total(f) = f[k] + Total(Off(f, k)) BY <1>2, <1>3, TotalSplit
  <1> QED BY <1>3, <1>5, <1>6 DEF Kept, f

LEMMA PayloadIs ==
  ASSUME NEW v \in Payloads
  PROVE  /\ v.kind = "own" => v = Own(v.ref)
         /\ v.kind = "home" => v = Home(v.ref)
         /\ v.ref \in Nat
         /\ \A r : v = Own(r) => v.kind = "own" /\ v.ref = r
         /\ \A r : v = Home(r) => v.kind = "home" /\ v.ref = r
  <1>1. v = [kind |-> v.kind, ref |-> v.ref] /\ v.ref \in Nat BY DEF Payloads
  <1>2. v.kind = "own" => v = Own(v.ref) BY <1>1 DEF Own
  <1>3. v.kind = "home" => v = Home(v.ref) BY <1>1 DEF Home
  <1> QED BY <1>1, <1>2, <1>3 DEF Own, Home

(* An end never gives out more references than calls are made. *)
LEMMA PastSmall ==
  ASSUME CallInv, NEW s \in Side
  PROVE  /\ IsFiniteSet(PastAnswer(s)) /\ Cardinality(PastAnswer(s)) \in Nat
         /\ Cardinality(PastAnswer(s)) <= next[Peer(s)]
  <1>1. Peer(s) \in Side /\ next[Peer(s)] \in Nat /\ 1 \in Int
    BY Two DEF CallInv, Typed
  <1>2. IsFiniteSet(1 .. next[Peer(s)]) /\ Cardinality(1 .. next[Peer(s)]) = next[Peer(s)]
    BY <1>1, FS_Interval
  <1>3. ASSUME NEW c \in PastAnswer(s) PROVE c \in 1 .. next[Peer(s)]
    <2>1. c \in Ids /\ handler[s][c] # "none" BY DEF PastAnswer
    <2>2. caller[Peer(s)][c] # "idle" BY <2>1 DEF CallInv, Taken, Unsent
    <2> QED BY <1>1, <2>1, <2>2 DEF CallInv, Numbered, Ids
  <1>4. PastAnswer(s) \subseteq 1 .. next[Peer(s)] BY <1>3
  <1> QED BY <1>2, <1>4, FS_Subset, FS_CardinalityType

LEMMA ExportedSmall ==
  ASSUME CallInv, Granting, NEW s \in Side
  PROVE  exported[s] \in Nat /\ 1 .. exported[s] \subseteq Refs
  <1>1. next[s] \in Nat /\ next[Peer(s)] \in Nat /\ exported[s] \in Nat
        /\ next[s] + next[Peer(s)] <= MaxCalls
    BY Two DEF CallInv, Typed, Numbered
  <1>2. exported[s] <= next[s] + Cardinality(PastAnswer(s)) BY DEF Granting
  <1>3. exported[s] <= MaxCalls BY <1>1, <1>2, PastSmall, SessionAssumption
  <1> QED BY <1>1, <1>3, SessionAssumption DEF Refs

(* A step answers no fewer calls. *)
LEMMA PastGrows ==
  ASSUME CallInv, [Next]_vars, NEW s \in Side
  PROVE  /\ Cardinality(PastAnswer(s)) \in Nat /\ Cardinality(PastAnswer(s)') \in Nat
         /\ Cardinality(PastAnswer(s)) <= Cardinality(PastAnswer(s)')
         /\ \A c \in PastAnswer(s)' : c \notin PastAnswer(s) =>
              Cardinality(PastAnswer(s)) + 1 <= Cardinality(PastAnswer(s)')
  <1>1. HandlerMoves BY MovesOn DEF Moves
  <1>2. PastAnswer(s) \subseteq PastAnswer(s)' BY <1>1 DEF HandlerMoves, PastAnswer
  <1>3. IsFiniteSet(Ids) BY FS_Interval, SessionAssumption DEF Ids
  <1>4. PastAnswer(s) \subseteq Ids /\ PastAnswer(s)' \subseteq Ids BY DEF PastAnswer
  <1>5. IsFiniteSet(PastAnswer(s)) /\ IsFiniteSet(PastAnswer(s)')
    BY <1>3, <1>4, FS_Subset
  <1>6. ASSUME NEW c \in PastAnswer(s)', c \notin PastAnswer(s)
        PROVE  Cardinality(PastAnswer(s)) + 1 <= Cardinality(PastAnswer(s)')
    <2>1. PastAnswer(s) \cup {c} \subseteq PastAnswer(s)' BY <1>2, <1>6
    <2>2. Cardinality(PastAnswer(s) \cup {c}) = Cardinality(PastAnswer(s)) + 1
      BY <1>5, <1>6, FS_AddElement
    <2>3. Cardinality(PastAnswer(s) \cup {c}) <= Cardinality(PastAnswer(s)')
      BY <1>5, <2>1, FS_Subset
    <2> QED BY <2>2, <2>3
  <1> QED BY <1>2, <1>5, <1>6, FS_Subset, FS_CardinalityType

(* What an end has imported, and where it finds it: its part of Imported. *)
Kempt(m, tab, most) ==
  /\ \A k \in DOMAIN m :
       /\ m[k].ref \in 1 .. most
       /\ m[k].st = "gone" <=> m[k].n = 0
  /\ \A r \in Refs : tab[r] # 0 => tab[r] \in DOMAIN m /\ m[tab[r]].ref = r

(* Decoding counts the grant of an object's reference, and no other. *)
LEMMA DecodeBooks ==
  ASSUME CallInv, Granting, Imported, NEW s \in Side, NEW v \in Payloads, Decode(s, v),
         v.kind = "own" => v.ref \in 1 .. exported[Peer(s)]
  PROVE  /\ \A t \in Side \ {s} : imports'[t] = imports[t] /\ table'[t] = table[t]
         /\ \A r : Kept(imports'[s], r) = Kept(imports[s], r) + One(v, r)
         /\ Kempt(imports'[s], table'[s], exported[Peer(s)])
         /\ \A k \in Held(s) : /\ k \in DOMAIN imports'[s] /\ imports'[s][k].st = "held"
                               /\ imports'[s][k].ref = imports[s][k].ref
  <1> DEFINE m == imports[s]
             k == table[s][v.ref]
             most == exported[Peer(s)]
             new == [ref |-> v.ref, n |-> 1, st |-> "held"]
  <1>1. Typed BY DEF CallInv
  <1>2. m \in Seq(ImportRecs) /\ Kempt(m, table[s], most) /\ Peer(s) \in Side
    BY <1>1, Two DEF Typed, Imported, Kempt
  <1>3. DOMAIN m = 1 .. Len(m) /\ Len(m) \in Nat /\ \A j \in DOMAIN m : m[j] \in ImportRecs
    BY <1>2
  <1>4. v.ref \in Nat /\ \A r : v = Own(r) <=> v.kind = "own" /\ v.ref = r BY PayloadIs
  <1>5. \A r : Kept(m, r) \in Nat BY <1>2, HeldTotal
  <1>6. CASE v.kind # "own"
    <2>1. imports' = imports /\ table' = table BY <1>6 DEF Decode
    <2>2. \A r : One(v, r) = 0 BY <1>4, <1>6 DEF One
    <2> QED BY <1>2, <1>3, <1>5, <2>1, <2>2 DEF Held
  <1>7. CASE v.kind = "own" /\ k \in Held(s)
    <2>0. v.ref \in Refs BY <1>2, <1>7, ExportedSmall
    <2>1. k \in DOMAIN m /\ m[k].st = "held" BY <1>7 DEF Held
    <2>2. m[k] \in ImportRecs /\ k # 0 BY <1>3, <2>1
    <2>3. m[k].ref = v.ref BY <1>2, <2>0, <2>2 DEF Kempt
    <2> DEFINE x == [m[k] EXCEPT !.n = m[k].n + 1]
               n == [m EXCEPT ![k] = x]
    <2>4. /\ x \in ImportRecs /\ x.ref = v.ref /\ x.st = "held" /\ x.n = m[k].n + 1
          /\ m[k].n \in Nat
      BY <2>1, <2>2, <2>3 DEF ImportRecs
    <2>5. imports' = [imports EXCEPT ![s] = n] /\ table' = table
      BY <1>7 DEF Decode
    <2>6. imports'[s] = n /\ \A t \in Side \ {s} : imports'[t] = imports[t]
      BY <1>1, <2>5 DEF Typed
    <2> HIDE DEF x
    <2>7. /\ n \in Seq(ImportRecs) /\ Len(n) = Len(m) /\ DOMAIN n = DOMAIN m /\ n[k] = x
          /\ \A j \in DOMAIN m \ {k} : n[j] = m[j]
      BY <1>2, <1>3, <2>1, <2>4
    <2> HIDE DEF n, m, k
    <2>8. ASSUME NEW r PROVE Kept(n, r) = Kept(m, r) + One(v, r)
      <3>0. /\ m \in Seq(ImportRecs) /\ k \in 1 .. Len(m)
            /\ \A j \in (1 .. Len(m)) \ {k} : n[j] = m[j]
        BY <1>2, <1>3, <2>1, <2>7
      <3>1. Kept(n, r) = Kept(m, r) - Has(m[k], r) + Has(n[k], r)
        BY <2>7, <3>0, KeptChanged
      <3>2. Has(n[k], r) = Has(m[k], r) + One(v, r) /\ Has(m[k], r) \in Nat
        BY <1>4, <1>7, <2>3, <2>4, <2>7 DEF Has, One
      <3>3. One(v, r) \in Nat /\ Kept(m, r) \in Nat BY <1>5 DEF One
      <3> QED BY <3>1, <3>2, <3>3
    <2>9. \A j \in DOMAIN m : n[j].ref = m[j].ref /\ n[j].st = m[j].st
      BY <2>1, <2>3, <2>4, <2>7
    <2>10. \A j \in DOMAIN m : n[j].st = "gone" <=> n[j].n = 0
      <3>1. n[k].st # "gone" /\ n[k].n # 0 BY <2>4, <2>7
      <3> QED BY <1>2, <2>7, <3>1 DEF Kempt
    <2>11. Kempt(n, table[s], most) BY <1>2, <2>7, <2>9, <2>10 DEF Kempt
    <2>12. \A j \in Held(s) : j \in DOMAIN n /\ n[j].st = "held" /\ n[j].ref = m[j].ref
      BY <2>7, <2>9 DEF Held, m
    <2> QED BY <2>5, <2>6, <2>8, <2>11, <2>12 DEF m
  <1>8. CASE v.kind = "own" /\ k \notin Held(s)
    <2>0. v.ref \in Refs BY <1>2, <1>8, ExportedSmall
    <2> DEFINE n == Append(m, new)
               tab == [table[s] EXCEPT ![v.ref] = Len(m) + 1]
    <2>1. imports' = [imports EXCEPT ![s] = n] /\ table' = [table EXCEPT ![s] = tab]
      BY <1>8 DEF Decode
    <2>2. /\ imports'[s] = n /\ table'[s] = tab
          /\ \A t \in Side \ {s} : imports'[t] = imports[t] /\ table'[t] = table[t]
      BY <1>1, <2>1 DEF Typed
    <2>3. new \in ImportRecs /\ new.ref = v.ref /\ new.st = "held" /\ new.n = 1
      BY <1>4 DEF ImportRecs
    <2> HIDE DEF new
    <2>4. /\ n \in Seq(ImportRecs) /\ Len(n) = Len(m) + 1 /\ n[Len(m) + 1] = new
          /\ \A j \in 1 .. Len(m) : n[j] = m[j]
      BY <1>2, <1>3, <2>3
    <2>5. /\ DOMAIN n = 1 .. Len(m) + 1 /\ \A j \in DOMAIN n : j \in DOMAIN m \/ j = Len(m) + 1
          /\ \A j \in DOMAIN m : j \in DOMAIN n /\ n[j] = m[j]
          /\ Len(m) + 1 \in DOMAIN n
      BY <1>3, <2>4
    <2>6. \A r \in Refs : tab[r] = IF r = v.ref THEN Len(m) + 1 ELSE table[s][r]
      BY <1>1 DEF Typed
    <2>7. ASSUME NEW r PROVE Kept(n, r) = Kept(m, r) + One(v, r)
      <3>1. Kept(n, r) = Kept(m, r) + Has(new, r) BY <1>2, <2>3, KeptAppended
      <3>2. Has(new, r) = One(v, r) BY <1>4, <1>8, <2>3 DEF Has, One
      <3> QED BY <3>1, <3>2
    <2> HIDE DEF n, m, tab
    <2>8. \A j \in DOMAIN n : n[j].ref \in 1 .. most /\ (n[j].st = "gone" <=> n[j].n = 0)
      BY <1>2, <1>8, <2>3, <2>4, <2>5 DEF Kempt
    <2>9. \A r \in Refs : tab[r] # 0 => tab[r] \in DOMAIN n /\ n[tab[r]].ref = r
      BY <1>2, <2>3, <2>4, <2>5, <2>6 DEF Kempt
    <2>10. Kempt(n, tab, most) BY <2>8, <2>9 DEF Kempt
    <2>11. \A j \in Held(s) : j \in DOMAIN n /\ n[j].st = "held" /\ n[j].ref = m[j].ref
      BY <2>5 DEF Held, m
    <2> QED BY <2>2, <2>7, <2>10, <2>11 DEF m
  <1> QED BY <1>6, <1>7, <1>8

-----------------------------------------------------------------------------
(* The books are kept: what sending changes *)

Books == Granting /\ Holding /\ Named /\ Imported /\ Owes /\ Lasts

LEMMA NextGrows ==
  ASSUME CallInv, [Next]_vars, NEW s \in Side
  PROVE  next[s] \in Nat /\ next'[s] \in Nat /\ next[s] <= next'[s]
  <1>1. Typed /\ next[s] \in Nat BY DEF CallInv, Typed
  <1>2. CASE UNCHANGED next BY <1>1, <1>2
  <1>3. ASSUME NEW t \in Side, SendBegin(t) PROVE next'[s] \in Nat /\ next[s] <= next'[s]
    <2>1. next' = [next EXCEPT ![t] = next[t] + 1] BY <1>3 DEF SendBegin
    <2> QED BY <1>1, <2>1 DEF Typed
  <1> QED BY <1>1, <1>2, <1>3, NextRests

(* No entry is made. *)
LEMMA GrantingOn ==
  ASSUME CallInv, [Next]_vars, Granting, exported' = exported,
         \A s \in Side : /\ granted'[s].ref \in 0 .. exported[s] /\ granted'[s].n \in Nat
                         /\ granted'[s].ref = 0 <=> granted'[s].n = 0
  PROVE  Granting'
  <1>1. ASSUME NEW s \in Side
        PROVE  exported'[s] <= next'[s] + Cardinality(PastAnswer(s)')
    <2>1. exported[s] \in Nat BY DEF CallInv, Typed
    <2>2. exported[s] <= next[s] + Cardinality(PastAnswer(s)) BY DEF Granting
    <2> QED BY <2>1, <2>2, NextGrows, PastGrows
  <1> QED BY <1>1 DEF Granting

(* What is in the channel refers to what was given out. *)
LEMMA NamedOn ==
  ASSUME Typed, Named,
         \A s \in Side : exported'[s] \in Nat /\ exported[s] <= exported'[s],
         \A s \in Side : \A f : In(Chan(s)', f) => In(Chan(s), f) \/ Names(s, f)
  PROVE  Named'
  <1>1. ASSUME NEW s \in Side, NEW f, Names(s, f) PROVE Names(s, f)'
    <2>1. /\ exported[s] \in Nat /\ exported[Peer(s)] \in Nat
          /\ exported'[s] \in Nat /\ exported'[Peer(s)] \in Nat
          /\ exported[s] <= exported'[s] /\ exported[Peer(s)] <= exported'[Peer(s)]
      BY Two DEF Typed
    <2> QED BY <1>1, <2>1 DEF Names
  <1>2. ASSUME NEW s \in Side, NEW f, In(Chan(s)', f) PROVE Names(s, f)'
    BY <1>1, <1>2 DEF Named
  <1> QED BY <1>2 DEF Named

(* A step that leaves the books alone. *)
LEMMA BooksQuiet ==
  ASSUME BookInv, CallInv', [Next]_vars, \A s \in Side : Chan(s)' = Chan(s),
         UNCHANGED <<draft, exports, importing>>
  PROVE  Books'
  <1>1. Typed /\ Typed' /\ NoneOpens /\ \A s \in Side : exported[s] \in Nat
    BY NoneOpensOn DEF BookInv, CallInv, Typed
  <1>2. Granting' BY GrantingOn DEF BookInv, Granting
  <1>3. Holding' BY DEF BookInv, Holding, Held
  <1>4. Named' BY <1>1, NamedOn DEF BookInv
  <1>5. Imported' BY DEF BookInv, Imported
  <1>6. \A s \in Side : \A r : Grants(s, r)' = Grants(s, r) BY DEF Grants
  <1>7. \A s \in Side : \A r : Grants(s, r) \in Int /\ One(draft[s].val, r) \in Nat
    BY <1>1, BookNumbers
  <1>8. Owes' /\ Lasts' BY <1>1, <1>6, <1>7, BooksRest DEF BookInv
  <1> QED BY <1>2, <1>3, <1>4, <1>5, <1>8 DEF Books

(* A value encoded: its grant is owed for the frame that is being made. *)
LEMMA BooksEncode ==
  ASSUME BookInv, CallInv', [Next]_vars, NEW u \in Side, draft[u] = Free,
         NEW op, NEW c, NEW v \in Sendable(u), Encode(u, op, c, v),
         UNCHANGED <<transit, importing>>,
         next[u] + Cardinality(PastAnswer(u)) + 1 <= next'[u] + Cardinality(PastAnswer(u)')
  PROVE  Books'
  <1> DEFINE g == granted'[u]
             e == exported'[u]
             w == draft'[u].val
  <1>1. Typed /\ Typed' /\ NoneOpens
    BY NoneOpensOn DEF BookInv, CallInv
  <1>2. /\ v \in Payloads /\ exported[u] \in Nat /\ granted[u] \in Counts
        /\ granted[u].ref \in 0 .. exported[u] /\ granted[u].n \in Nat
        /\ granted[u].ref = 0 <=> granted[u].n = 0
    BY <1>1, SentPayload DEF Typed, BookInv, Granting
  <1>3. \A t \in Side \ {u} : /\ granted'[t] = granted[t] /\ exported'[t] = exported[t]
                              /\ draft'[t] = draft[t]
    BY <1>1, SMTT(30) DEF Encode, Typed
  <1>4. Free.val = Data /\ \A r : One(Data, r) = 0 BY DEF Free, Frame, One, Data, Own
  <1>5. /\ e \in Nat /\ exported[u] <= e /\ e <= exported[u] + 1
        /\ g.ref \in 0 .. e /\ g.n \in Nat /\ (g.ref = 0 <=> g.n = 0)
        /\ w.kind = "own" => w.ref = g.ref /\ g.ref # 0
        /\ w.kind = "home" => \E k \in Held(u) : imports[u][k].ref = w.ref
        /\ w.kind = "data" => w = Data
        /\ \A r \in Pos : Grants(u, r)' = Grants(u, r) + One(w, r)
    <2>1. CASE v.kind = "own"
      <3>1. /\ g = GrantedOnce(u) /\ w = Own(GrantedOnce(u).ref)
            /\ e = IF granted[u].ref = 0 THEN exported[u] + 1 ELSE exported[u]
        BY <1>1, <2>1 DEF Encode, Typed, Frame
      <3>2. w.kind = "own" /\ w.ref = g.ref BY <3>1 DEF Own
      <3>3. \A r : One(w, r) = IF g.ref = r THEN 1 ELSE 0 BY <3>1 DEF One, Own
      <3>4. CASE granted[u].ref # 0
        <4>1. g.ref = granted[u].ref /\ g.n = granted[u].n + 1
          BY <1>2, <3>1, <3>4 DEF GrantedOnce, Counts
        <4>2. \A r : Grants(u, r)' = Grants(u, r) + One(w, r)
          BY <1>2, <3>3, <4>1 DEF Grants
        <4> QED BY <1>2, <3>1, <3>2, <3>4, <4>1, <4>2
      <3>5. CASE granted[u].ref = 0
        <4>1. g.ref = exported[u] + 1 /\ g.n = 1 BY <3>1, <3>5 DEF GrantedOnce
        <4>2. \A r \in Pos : Grants(u, r)' = Grants(u, r) + One(w, r)
          BY <3>3, <3>5, <4>1 DEF Grants, Pos
        <4> QED BY <1>2, <3>1, <3>2, <3>5, <4>1, <4>2
      <3> QED BY <3>4, <3>5
    <2>2. CASE v.kind # "own"
      <3>1. g = granted[u] /\ e = exported[u] /\ w = v
        BY <1>1, <2>2 DEF Encode, Typed, Frame
      <3>2. \A r : One(w, r) = 0 BY <2>2, <3>1 DEF One, Own
      <3>3. \A r : Grants(u, r)' = Grants(u, r) /\ Grants(u, r) \in Int
        BY <1>1, <3>1, BookNumbers DEF Grants
      <3>4. v = Data \/ \E k \in Held(u) : v = Home(imports[u][k].ref)
        BY <2>2 DEF Sendable, Own
      <3>5. /\ w.kind = "home" => \E k \in Held(u) : imports[u][k].ref = w.ref
            /\ w.kind = "data" => w = Data
        BY <3>1, <3>4 DEF Data, Home
      <3> QED BY <1>2, <2>2, <3>1, <3>2, <3>3, <3>5
    <2> QED BY <2>1, <2>2
  <1> HIDE DEF g, e, w
  <1>6. Granting'
    <2>1. ASSUME NEW s \in Side
          PROVE  /\ granted'[s].ref \in 0 .. exported'[s] /\ granted'[s].n \in Nat
                 /\ granted'[s].ref = 0 <=> granted'[s].n = 0
                 /\ exported'[s] <= next'[s] + Cardinality(PastAnswer(s)')
      <3>1. /\ exported[s] \in Nat /\ exported[s] <= next[s] + Cardinality(PastAnswer(s))
            /\ next[s] \in Nat /\ next'[s] \in Nat /\ next[s] <= next'[s]
            /\ Cardinality(PastAnswer(s)) \in Nat /\ Cardinality(PastAnswer(s)') \in Nat
            /\ Cardinality(PastAnswer(s)) <= Cardinality(PastAnswer(s)')
        BY <1>1, NextGrows, PastGrows DEF BookInv, Granting, Typed
      <3>2. CASE s = u BY <1>5, <3>1, <3>2 DEF g, e
      <3>3. CASE s # u BY <1>3, <3>1, <3>3 DEF BookInv, Granting
      <3> QED BY <3>2, <3>3
    <2> QED BY <2>1 DEF Granting
  <1>7. Holding'
    <2>1. \A s \in Side : Held(s)' = Held(s) BY DEF Held
    <2> QED BY <1>3, <1>5, <2>1 DEF BookInv, Holding, g, w
  <1>8. \A s \in Side : exported[s] \in Nat /\ exported'[s] \in Nat /\ exported[s] <= exported'[s]
    <2>1. ASSUME NEW s \in Side
          PROVE  exported[s] \in Nat /\ exported'[s] \in Nat /\ exported[s] <= exported'[s]
      <3>1. exported[s] \in Nat BY <1>1 DEF Typed
      <3>2. CASE s = u BY <1>5, <3>1, <3>2 DEF e
      <3>3. CASE s # u BY <1>3, <3>1, <3>3
      <3> QED BY <3>2, <3>3
    <2> QED BY <2>1
  <1>9. \A s \in Side : Chan(s)' = Chan(s) BY ChanStays
  <1>10. Named' BY <1>1, <1>8, <1>9, NamedOn DEF BookInv
  <1>11. Imported'
    <2>1. \A s \in Side : exported[Peer(s)] \in Nat /\ exported'[Peer(s)] \in Nat
                          /\ exported[Peer(s)] <= exported'[Peer(s)]
      BY <1>8, Two
    <2> QED BY <2>1 DEF BookInv, Imported
  <1>12. ASSUME NEW s \in Side, NEW r \in Pos
         PROVE  Grants(s, r)' + One(draft[s].val, r) = Grants(s, r) + One(draft'[s].val, r)
    <2>1. Grants(s, r) \in Int /\ One(draft'[s].val, r) \in Nat
      BY <1>1, BookNumbers DEF One
    <2>2. CASE s = u BY <1>4, <1>5, <2>1, <2>2 DEF w
    <2>3. CASE s # u
      <3>1. Grants(s, r)' = Grants(s, r) /\ draft'[s] = draft[s] BY <1>3, <2>3 DEF Grants
      <3> QED BY <2>1, <3>1
    <2> QED BY <2>2, <2>3
  <1>13. Owes' /\ Lasts' BY <1>1, <1>9, <1>12, BooksRest DEF BookInv
  <1> QED BY <1>6, <1>7, <1>10, <1>11, <1>13 DEF Books

(* A frame that is not sent gives back its grant. *)
LEMMA BooksUngrant ==
  ASSUME BookInv, CallInv', [Next]_vars, NEW u \in Side, Ungrant(u),
         draft'[u].val = Data, \A s \in Side \ {u} : draft'[s] = draft[s],
         UNCHANGED <<transit, importing, exported>>
  PROVE  Books'
  <1> DEFINE v == draft[u].val
             g == granted[u]
  <1>1. Typed /\ Typed' /\ NoneOpens /\ \A s \in Side : exported[s] \in Nat
    BY NoneOpensOn DEF BookInv, CallInv, Typed
  <1>2. /\ v \in Payloads /\ g \in Counts /\ g.n \in Nat
        /\ g.ref \in 0 .. exported[u] /\ (g.ref = 0 <=> g.n = 0)
        /\ v.kind = "own" => v.ref = g.ref /\ g.ref # 0
    BY <1>1 DEF Typed, Messages, BookInv, Granting, Holding
  <1>3. \A s \in Side \ {u} : granted'[s] = granted[s]
    BY <1>1 DEF Ungrant, Typed
  <1>4. /\ granted'[u].ref \in 0 .. exported[u] /\ granted'[u].n \in Nat
        /\ granted'[u].ref = 0 <=> granted'[u].n = 0
        /\ \A r \in Pos : Grants(u, r)' + One(v, r) = Grants(u, r)
    <2>1. CASE v.kind = "own"
      <3>1. granted'[u] = Fewer(g, 1) BY <1>1, <2>1 DEF Ungrant, Typed
      <3>2. \A r : One(v, r) = IF g.ref = r THEN 1 ELSE 0
        BY <1>2, <2>1, PayloadIs DEF One
      <3>3. CASE g.n = 1
        <4>1. granted'[u].ref = 0 /\ granted'[u].n = 0 BY <3>1, <3>3 DEF Fewer
        <4> QED BY <1>1, <1>2, <3>2, <3>3, <4>1 DEF Grants, Pos
      <3>4. CASE g.n # 1
        <4>1. granted'[u].ref = g.ref /\ granted'[u].n = g.n - 1 /\ g.n > 1
          BY <1>2, <2>1, <3>1, <3>4 DEF Fewer, Counts
        <4> QED BY <1>2, <2>1, <3>2, <4>1 DEF Grants
      <3> QED BY <3>3, <3>4
    <2>2. CASE v.kind # "own"
      <3>1. granted'[u] = g BY <2>2 DEF Ungrant
      <3>2. \A r : One(v, r) = 0 BY <2>2 DEF One, Own
      <3>3. \A r : Grants(u, r)' = Grants(u, r) /\ Grants(u, r) \in Int
        BY <1>1, <3>1, BookNumbers DEF Grants
      <3> QED BY <1>2, <3>1, <3>2, <3>3
    <2> QED BY <2>1, <2>2
  <1> HIDE DEF v, g
  <1>5. Granting'
    <2>1. ASSUME NEW s \in Side
          PROVE  /\ granted'[s].ref \in 0 .. exported[s] /\ granted'[s].n \in Nat
                 /\ granted'[s].ref = 0 <=> granted'[s].n = 0
      BY <1>3, <1>4 DEF BookInv, Granting
    <2> QED BY <2>1, GrantingOn DEF BookInv
  <1>6. Holding'
    <2>1. \A s \in Side : Held(s)' = Held(s) BY DEF Held
    <2>2. Data.kind = "data" BY DEF Data
    <2> QED BY <1>3, <2>1, <2>2 DEF BookInv, Holding
  <1>7. \A s \in Side : Chan(s)' = Chan(s) BY ChanStays
  <1>8. Named' BY <1>1, <1>7, NamedOn DEF BookInv
  <1>9. Imported' BY DEF BookInv, Imported
  <1>10. ASSUME NEW s \in Side, NEW r \in Pos
         PROVE  Grants(s, r)' + One(draft[s].val, r) = Grants(s, r) + One(draft'[s].val, r)
    <2>1. Grants(s, r) \in Int /\ One(draft[s].val, r) \in Nat BY <1>1, BookNumbers
    <2>2. CASE s = u
      <3>1. One(Data, r) = 0 BY DEF One, Data, Own
      <3> QED BY <1>4, <2>1, <2>2, <3>1 DEF v
    <2>3. CASE s # u
      <3>1. Grants(s, r)' = Grants(s, r) /\ draft'[s] = draft[s] BY <1>3, <2>3 DEF Grants
      <3> QED BY <2>1, <3>1
    <2> QED BY <2>2, <2>3
  <1>11. Owes' /\ Lasts' BY <1>1, <1>7, <1>10, BooksRest DEF BookInv
  <1> QED BY <1>5, <1>6, <1>8, <1>9, <1>11 DEF Books

(* A frame pushed, and what it carries no longer held for it. *)
LEMMA BooksPush ==
  ASSUME BookInv, CallInv', [Next]_vars, NEW u \in Side, NEW f \in Messages, Push(u, f),
         Names(u, f), UNCHANGED exports,
         draft'[u].val = Data,
         \A s \in Side \ {u} : draft'[s] = draft[s] /\ imports'[s] = imports[s],
         \A s \in Side \ {u} : table'[s] = table[s],
         Kempt(imports'[u], table'[u], exported[Peer(u)]),
         \A r \in Pos :
           /\ One(f.val, r) = One(draft[u].val, r)
           /\ Kept(imports'[u], r) + Given(f, r) = Kept(imports[u], r)
           /\ f.op # "release" /\ f.val = Home(r) => Kept(imports'[u], r) >= 1
  PROVE  Books'
  <1>1. Typed /\ Typed' /\ NoneOpens /\ \A s \in Side : exported[s] \in Nat
    BY NoneOpensOn DEF BookInv, CallInv, Typed
  <1>2. Granting' BY GrantingOn DEF BookInv, Granting
  <1>3. Holding'
    <2>1. \A s \in Side \ {u} : Held(s)' = Held(s) BY DEF Held
    <2>2. Data.kind = "data" BY DEF Data
    <2> QED BY <2>1, <2>2 DEF BookInv, Holding
  <1>4. /\ Chan(u)' = IF Accepts(u, f) THEN Append(Chan(u), f) ELSE Chan(u)
        /\ \A s \in Side \ {u} : Chan(s)' = Chan(s)
    BY <1>1, ChanPushed
  <1>5. Named'
    <2>1. ASSUME NEW s \in Side, NEW g, In(Chan(s)', g) PROVE In(Chan(s), g) \/ Names(s, g)
      <3>1. CASE Chan(s)' = Chan(s) BY <2>1, <3>1
      <3>2. CASE s = u /\ Chan(u)' = Append(Chan(u), f)
        <4>1. Chan(u) \in Seq(Messages) BY <1>1, ChanIs
        <4>2. In(Append(Chan(u), f), g) BY <2>1, <3>2
        <4>3. In(Chan(u), g) \/ g = f BY <4>1, <4>2, InAppended
        <4> QED BY <3>2, <4>3
      <3> QED BY <1>4, <3>1, <3>2
    <2> QED BY <1>1, <2>1, NamedOn DEF BookInv
  <1>6. Imported'
    <2>1. ASSUME NEW s \in Side PROVE Kempt(imports'[s], table'[s], exported'[Peer(s)])
      <3>1. CASE s = u BY <3>1
      <3>2. CASE s # u BY <3>2 DEF BookInv, Imported, Kempt
      <3> QED BY <3>1, <3>2
    <2> QED BY <2>1 DEF Imported, Kempt
  <1>7. ASSUME NEW r \in Pos
        PROVE  /\ One(draft'[u].val, r) + One(f.val, r) = One(draft[u].val, r)
               /\ One(draft'[u].val, r) <= One(draft[u].val, r)
               /\ Kept(imports'[u], r) <= Kept(imports[u], r)
    <2>1. One(Data, r) = 0 BY DEF One, Data, Own
    <2>2. /\ Kept(imports'[u], r) \in Nat /\ Given(f, r) \in Nat
          /\ Kept(imports'[u], r) + Given(f, r) = Kept(imports[u], r)
          /\ One(f.val, r) \in Nat
      BY <1>1, BookNumbersNext, GivenNat
    <2> QED BY <2>1, <2>2
  <1>8. ASSUME Accepts(u, f) PROVE Owes' /\ Lasts'
    <2>1. Chan(u)' = Append(Chan(u), f) /\ granted' = granted BY <1>4, <1>8
    <2> QED BY <1>1, <1>4, <1>7, <2>1, BooksPut DEF BookInv
  <1>9. ASSUME ~ Accepts(u, f) PROVE Owes' /\ Lasts'
    <2>1. stage'[u] # "open" \/ overrun' # {}
      BY <1>1, <1>9 DEF Push, NoneOpens
    <2>2. granted' = granted /\ \A s \in Side : Chan(s)' = Chan(s) BY <1>4, <1>9
    <2> QED BY <1>1, <1>7, <2>1, <2>2, BooksLost DEF BookInv
  <1>10. Owes' /\ Lasts' BY <1>8, <1>9
  <1> QED BY <1>2, <1>3, <1>5, <1>6, <1>10 DEF Books

(* What the lock is held for may be sent. *)
LEMMA DraftNames ==
  ASSUME BookInv, NEW s \in Side, draft[s].op \in {"call", "return"}
  PROVE  /\ draft[s] \in Messages /\ Names(s, draft[s])
         /\ \A r \in Pos : draft[s].val = Home(r) => Kept(imports[s], r) >= 1
  <1> DEFINE v == draft[s].val
  <1>1. Typed /\ draft[s] \in Messages /\ v \in Payloads /\ imports[s] \in Seq(ImportRecs)
    BY DEF BookInv, CallInv, Typed, Messages
  <1>2. \A k \in Held(s) : /\ k \in 1 .. Len(imports[s])
                           /\ imports[s][k].ref \in 1 .. exported[Peer(s)]
                           /\ imports[s][k].n # 0 /\ imports[s][k].n \in Nat
    <2>1. ASSUME NEW k \in Held(s)
          PROVE  /\ k \in 1 .. Len(imports[s])
                 /\ imports[s][k].ref \in 1 .. exported[Peer(s)]
                 /\ imports[s][k].n # 0 /\ imports[s][k].n \in Nat
      <3>1. k \in DOMAIN imports[s] /\ imports[s][k].st = "held" BY DEF Held
      <3>2. k \in 1 .. Len(imports[s]) /\ imports[s][k] \in ImportRecs BY <1>1, <3>1
      <3> QED BY <3>1, <3>2 DEF BookInv, Imported, ImportRecs
    <2> QED BY <2>1
  <1>3. v.kind = "own" => v.ref \in 1 .. exported[s]
    <2>1. granted[s].ref \in 0 .. exported[s] BY DEF BookInv, Granting
    <2>2. v.kind = "own" => v.ref = granted[s].ref /\ granted[s].ref # 0
      BY DEF BookInv, Holding
    <2>3. exported[s] \in Nat BY <1>1 DEF Typed
    <2> QED BY <2>1, <2>2, <2>3
  <1>4. v.kind = "home" => v.ref \in 1 .. exported[Peer(s)]
    BY <1>2 DEF BookInv, Holding
  <1>5. Names(s, draft[s]) BY <1>3, <1>4 DEF BookInv, Holding, Names
  <1>6. ASSUME NEW r \in Pos, v = Home(r) PROVE Kept(imports[s], r) >= 1
    <2>1. v.kind = "home" /\ v.ref = r BY <1>6 DEF Home
    <2>2. PICK k \in Held(s) : imports[s][k].ref = r BY <2>1 DEF BookInv, Holding
    <2>3. Has(imports[s][k], r) >= 1 /\ Has(imports[s][k], r) \in Nat BY <1>2, <2>2 DEF Has
    <2>4. Has(imports[s][k], r) <= Kept(imports[s], r) BY <1>1, <1>2, KeptSome
    <2>5. Kept(imports[s], r) \in Nat BY <1>1, HeldTotal
    <2> QED BY <2>3, <2>4, <2>5
  <1> QED BY <1>1, <1>5, <1>6

LEMMA KemptNow ==
  ASSUME BookInv, NEW s \in Side
  PROVE  Kempt(imports[s], table[s], exported[Peer(s)])
  BY DEF BookInv, Imported, Kempt

LEMMA BooksSend ==
  ASSUME BookInv, CallInv', [Next]_vars, NEW u \in Side, SendEnd(u) \/ RespondEnd(u)
  PROVE  Books'
  <1> DEFINE f == draft[u]
  <1>1. Typed /\ f.op \in {"call", "return"} BY DEF BookInv, CallInv, SendEnd, RespondEnd, Calling
  <1>2. /\ f \in Messages /\ Names(u, f)
        /\ \A r \in Pos : f.val = Home(r) => Kept(imports[u], r) >= 1
    BY <1>1, DraftNames
  <1>3. Push(u, f) /\ draft' = [draft EXCEPT ![u] = Free] /\ UNCHANGED <<exports, importing>>
    BY DEF SendEnd, RespondEnd
  <1>4. Free.val = Data BY DEF Free, Frame
  <1>5. /\ draft'[u].val = Data
        /\ \A s \in Side \ {u} : draft'[s] = draft[s] /\ imports'[s] = imports[s]
                                 /\ table'[s] = table[s]
    BY <1>1, <1>3, <1>4 DEF Typed
  <1>6. ASSUME NEW r PROVE Kept(imports'[u], r) + Given(f, r) = Kept(imports[u], r)
    <2>1. Given(f, r) = 0 BY <1>1 DEF Given
    <2>2. imports' = imports /\ Kept(imports[u], r) \in Nat BY <1>1, <1>3, BookNumbers
    <2> QED BY <2>1, <2>2
  <1>7. Kempt(imports'[u], table'[u], exported[Peer(u)]) BY <1>3, KemptNow
  <1>8. imports'[u] = imports[u] /\ UNCHANGED exports BY <1>3
  <1> HIDE DEF f
  <1>9. \A r : One(f.val, r) = One(draft[u].val, r) BY DEF f
  <1> QED BY <1>2, <1>3, <1>5, <1>6, <1>7, <1>8, <1>9, BooksPush

LEMMA BooksCancel ==
  ASSUME BookInv, CallInv', [Next]_vars, NEW u \in Side, NEW c \in Ids, CancelWrite(u, c)
  PROVE  Books'
  <1>1. Typed BY DEF BookInv, CallInv
  <1>2. PICK f \in Messages : f = Frame("cancel", c, Data) BY FramesMade DEF Ids
  <1>3. f.op = "cancel" /\ f.val = Data BY <1>2 DEF Frame
  <1>4. Push(u, f) /\ draft[u] = Free /\ UNCHANGED <<draft, exports, importing>>
    BY <1>2 DEF CancelWrite, Locked
  <1>5. Free.val = Data /\ Data.kind = "data" BY DEF Free, Frame, Data
  <1>6. Names(u, f) BY <1>3, <1>5 DEF Names
  <1>7. ASSUME NEW r \in Pos
        PROVE  /\ One(f.val, r) = One(draft[u].val, r)
               /\ Kept(imports'[u], r) + Given(f, r) = Kept(imports[u], r)
               /\ f.val # Home(r)
    <2>1. Given(f, r) = 0 BY <1>3 DEF Given
    <2>2. imports' = imports /\ Kept(imports[u], r) \in Nat BY <1>1, <1>4, BookNumbers
    <2>3. f.val # Home(r) BY <1>3, <1>5 DEF Home
    <2> QED BY <1>3, <1>4, <1>5, <2>1, <2>2, <2>3
  <1>8. Kempt(imports'[u], table'[u], exported[Peer(u)]) BY <1>4, KemptNow
  <1>9. /\ draft'[u].val = Data
        /\ \A s \in Side \ {u} : draft'[s] = draft[s] /\ imports'[s] = imports[s]
                                 /\ table'[s] = table[s]
    BY <1>4, <1>5
  <1> QED BY <1>4, <1>6, <1>7, <1>8, <1>9, BooksPush

LEMMA BooksRelease ==
  ASSUME BookInv, CallInv', [Next]_vars, NEW u \in Side, NEW k, Release(u, k)
  PROVE  Books'
  <1> DEFINE m == imports[u]
             n == [m EXCEPT ![k] = [m[k] EXCEPT !.st = "gone", !.n = 0]]
             f == Frame("release", m[k].n, Home(m[k].ref))
  <1>1. Typed BY DEF BookInv, CallInv
  <1>2. m \in Seq(ImportRecs) /\ k \in DOMAIN m /\ m[k].st = "dropping" /\ draft[u] = Free
    BY <1>1 DEF Release, Locked, Typed
  <1>3. /\ DOMAIN m = 1 .. Len(m) /\ m[k] \in ImportRecs
        /\ m[k].n \in Nat /\ m[k].ref \in Nat
    <2>1. DOMAIN m = 1 .. Len(m) /\ m[k] \in ImportRecs BY <1>2
    <2> QED BY <2>1 DEF ImportRecs
  <1>4. Kempt(m, table[u], exported[Peer(u)]) BY KemptNow
  <1>5. m[k].n # 0 /\ m[k].ref \in 1 .. exported[Peer(u)] BY <1>2, <1>4 DEF Kempt
  <1>6. f \in Messages /\ f.op = "release" /\ f.id = m[k].n /\ f.val = Home(m[k].ref)
    BY <1>3, FramesMade DEF Frame
  <1>7. /\ Push(u, f) /\ UNCHANGED <<draft, exports>>
        /\ imports' = [imports EXCEPT ![u] = n]
        /\ table' = [table EXCEPT ![u] = [table[u] EXCEPT ![m[k].ref] =
                       IF Mine(u, k) THEN 0 ELSE table[u][m[k].ref]]]
    BY DEF Release
  <1>8. n[k] = [m[k] EXCEPT !.st = "gone", !.n = 0] /\ DOMAIN n = DOMAIN m
        /\ \A j \in DOMAIN m \ {k} : n[j] = m[j]
    BY <1>2
  <1>9. n[k].ref = m[k].ref /\ n[k].st = "gone" /\ n[k].n = 0 /\ n[k] \in ImportRecs
    <2> DEFINE x == [m[k] EXCEPT !.st = "gone", !.n = 0]
    <2>1. x.ref = m[k].ref /\ x.st = "gone" /\ x.n = 0 /\ x \in ImportRecs
      BY <1>3 DEF ImportRecs
    <2>2. n[k] = x BY <1>8
    <2> HIDE DEF x, n
    <2> QED BY <2>1, <2>2
  <1>10. n \in Seq(ImportRecs) /\ Len(n) = Len(m)
    BY <1>2, <1>3, <1>8, <1>9
  <1>11. imports'[u] = n /\ \A s \in Side \ {u} : imports'[s] = imports[s]
                                                 /\ table'[s] = table[s]
    BY <1>1, <1>7 DEF Typed
  <1>12. \A r \in Refs : table'[u][r] = table[u][r] \/ table'[u][r] = 0
    <2>1. table[u] \in [Refs -> Nat] BY <1>1 DEF Typed
    <2>2. table'[u] = [table[u] EXCEPT ![m[k].ref] =
                         IF Mine(u, k) THEN 0 ELSE table[u][m[k].ref]]
      BY <1>1, <1>7 DEF Typed
    <2> QED BY <2>1, <2>2
  <1> HIDE DEF m, n, f
  <1>13. Kempt(n, table'[u], exported[Peer(u)])
    <2>1. ASSUME NEW j \in DOMAIN n
          PROVE  /\ n[j].ref \in 1 .. exported[Peer(u)] /\ (n[j].st = "gone" <=> n[j].n = 0)
                 /\ n[j].ref = m[j].ref
      <3>1. CASE j = k BY <1>5, <1>9, <3>1
      <3>2. CASE j # k BY <1>4, <1>8, <3>2 DEF Kempt
      <3> QED BY <3>1, <3>2
    <2>2. ASSUME NEW r \in Refs, table'[u][r] # 0
          PROVE  table'[u][r] \in DOMAIN n /\ n[table'[u][r]].ref = r
      <3>1. table'[u][r] = table[u][r] BY <1>12, <2>2
      <3>2. table[u][r] \in DOMAIN m /\ m[table[u][r]].ref = r
        BY <1>4, <2>2, <3>1 DEF Kempt
      <3> QED BY <1>8, <2>1, <3>1, <3>2
    <2> QED BY <2>1, <2>2 DEF Kempt
  <1>14. Data.kind = "data" /\ Free.val = Data BY DEF Data, Free, Frame
  <1>15. Names(u, f) BY <1>5, <1>6 DEF Names, Home
  <1>16. ASSUME NEW r \in Pos
         PROVE  /\ One(f.val, r) = One(draft[u].val, r)
                /\ Kept(n, r) + Given(f, r) = Kept(m, r)
    <2>1. One(f.val, r) = 0 /\ One(draft[u].val, r) = 0
      BY <1>2, <1>6, <1>14 DEF One, Own, Home
    <2>2. Kept(n, r) = Kept(m, r) - Has(m[k], r) + Has(n[k], r)
      BY <1>2, <1>3, <1>8, <1>10, KeptChanged
    <2>3. Has(n[k], r) = 0 BY <1>9 DEF Has
    <2>4. Has(m[k], r) = Given(f, r) /\ Given(f, r) \in Nat
      BY <1>3, <1>6 DEF Has, Given, Home
    <2>5. Kept(m, r) \in Nat BY <1>2, HeldTotal
    <2> QED BY <2>1, <2>2, <2>3, <2>4, <2>5
  <1>17. draft'[u].val = Data /\ \A s \in Side \ {u} : draft'[s] = draft[s]
    BY <1>2, <1>7, <1>14
  <1>18. Kempt(imports'[u], table'[u], exported[Peer(u)]) BY <1>11, <1>13
  <1>19. ASSUME NEW r \in Pos
         PROVE  /\ One(f.val, r) = One(draft[u].val, r)
                /\ Kept(imports'[u], r) + Given(f, r) = Kept(imports[u], r)
                /\ f.op = "release"
    BY <1>6, <1>11, <1>16 DEF m
  <1> QED BY <1>6, <1>7, <1>11, <1>15, <1>17, <1>18, <1>19, BooksPush

LEMMA BooksDrop ==
  ASSUME BookInv, CallInv', [Next]_vars, NEW u \in Side, NEW k, DropImport(u, k)
  PROVE  Books'
  <1> DEFINE m == imports[u]
             x == [m[k] EXCEPT !.st = "dropping"]
             n == [m EXCEPT ![k] = x]
  <1>1. Typed /\ Typed' /\ NoneOpens /\ \A s \in Side : exported[s] \in Nat
    BY NoneOpensOn DEF BookInv, CallInv, Typed
  <1>2. /\ m \in Seq(ImportRecs) /\ k \in DOMAIN m /\ m[k].st = "held"
        /\ draft[u].val # Home(m[k].ref) /\ draft[u].val \in Payloads
    BY <1>1 DEF DropImport, Held, Typed, Messages
  <1>3. DOMAIN m = 1 .. Len(m) /\ m[k] \in ImportRecs BY <1>2
  <1>4. x.ref = m[k].ref /\ x.st = "dropping" /\ x.n = m[k].n /\ x \in ImportRecs
    BY <1>3 DEF ImportRecs
  <1>5. UNCHANGED <<transit, draft, exports, table>> /\ imports' = [imports EXCEPT ![u] = n]
    BY DEF DropImport
  <1>6. imports'[u] = n /\ \A s \in Side \ {u} : imports'[s] = imports[s]
    BY <1>1, <1>5 DEF Typed
  <1> HIDE DEF x
  <1>7. DOMAIN n = DOMAIN m /\ n[k] = x /\ \A j \in DOMAIN m \ {k} : n[j] = m[j]
    BY <1>2
  <1>8. n \in Seq(ImportRecs) /\ Len(n) = Len(m) BY <1>2, <1>3, <1>4
  <1>9. Kempt(m, table[u], exported[Peer(u)]) BY KemptNow
  <1> HIDE DEF m, n
  <1>10. \A j \in DOMAIN m : n[j].ref = m[j].ref /\ n[j].n = m[j].n
    BY <1>4, <1>7
  <1>11. \A j \in DOMAIN m : n[j].st = "gone" <=> m[j].st = "gone"
    BY <1>2, <1>4, <1>7
  <1>12. Kempt(n, table[u], exported[Peer(u)]) BY <1>7, <1>9, <1>10, <1>11 DEF Kempt
  <1>13. ASSUME NEW r PROVE Kept(n, r) = Kept(m, r)
    <2>1. Kept(n, r) = Kept(m, r) - Has(m[k], r) + Has(n[k], r)
      BY <1>2, <1>3, <1>7, <1>8, KeptChanged, SMTT(30)
    <2>2. Has(n[k], r) = Has(m[k], r) /\ Has(m[k], r) \in Nat
      BY <1>2, <1>3, <1>4, <1>7, HeldNumbers DEF Has
    <2>3. Kept(m, r) \in Nat BY <1>2, HeldTotal
    <2> QED BY <2>1, <2>2, <2>3
  <1>14. Granting' BY <1>5, GrantingOn DEF BookInv, Granting
  <1>15. Holding'
    <2>1. ASSUME draft[u].val.kind = "home"
          PROVE  \E j \in Held(u)' : imports'[u][j].ref = draft[u].val.ref
      <3>1. PICK j \in Held(u) : imports[u][j].ref = draft[u].val.ref
        BY <2>1 DEF BookInv, Holding
      <3>2. j # k BY <1>2, <2>1, <3>1, PayloadIs DEF m
      <3>3. j \in DOMAIN m /\ m[j].st = "held" /\ m[j].ref = draft[u].val.ref
        BY <3>1 DEF Held, m
      <3>4. j \in DOMAIN n /\ n[j].st = "held" /\ n[j].ref = draft[u].val.ref
        BY <1>7, <3>2, <3>3
      <3> QED BY <1>6, <3>4 DEF Held
    <2>2. \A s \in Side \ {u} : Held(s)' = Held(s) BY <1>6 DEF Held
    <2> QED BY <1>5, <1>6, <2>1, <2>2 DEF BookInv, Holding
  <1>16. \A s \in Side : Chan(s)' = Chan(s) BY <1>5, ChanStays
  <1>17. Named' BY <1>1, <1>5, <1>16, NamedOn DEF BookInv
  <1>18. Imported'
    <2>1. ASSUME NEW s \in Side PROVE Kempt(imports'[s], table'[s], exported'[Peer(s)])
      <3>1. CASE s = u BY <1>5, <1>6, <1>12, <3>1
      <3>2. CASE s # u BY <1>5, <1>6, <3>2, KemptNow
      <3> QED BY <3>1, <3>2
    <2> QED BY <2>1 DEF Imported, Kempt
  <1>19. ASSUME NEW s \in Side, NEW r \in Pos
         PROVE  /\ Kept(imports'[s], r) = Kept(imports[s], r)
                /\ Grants(s, r)' + One(draft[s].val, r) = Grants(s, r) + One(draft'[s].val, r)
    <2>1. Grants(s, r)' = Grants(s, r) BY <1>5 DEF Grants
    <2> QED BY <1>5, <1>6, <1>13, <2>1 DEF m
  <1>20. Owes' /\ Lasts' BY <1>1, <1>16, <1>19, BooksRest DEF BookInv
  <1> QED BY <1>14, <1>15, <1>17, <1>18, <1>20 DEF Books

LEMMA BooksTeardown ==
  ASSUME BookInv, CallInv', [Next]_vars, NEW u \in Side, Teardown(u)
  PROVE  Books'
  <1>1. Typed /\ Typed' /\ NoneOpens /\ \A s \in Side : exported[s] \in Nat
    BY NoneOpensOn DEF BookInv, CallInv, Typed
  <1>2. /\ draft[u] = Free /\ UNCHANGED <<draft, exported, imports>>
        /\ stage'[u] = "closed"
        /\ granted'[u].ref = 0 /\ granted'[u].n = 0
        /\ table'[u] = [r \in Refs |-> 0]
        /\ \A s \in Side \ {u} : granted'[s] = granted[s] /\ table'[s] = table[s]
    BY <1>1 DEF Teardown, Excluded, Locked, Typed
  <1>3. /\ Chan(u)' \in Seq(Messages) /\ Prefix(Chan(u)', Chan(u)) /\ Chan(u) \in Seq(Messages)
        /\ \A s \in Side \ {u} : Chan(s)' = Chan(s)
    BY <1>1, ChanCut, ChanIs
  <1>4. Granting'
    <2>1. ASSUME NEW s \in Side
          PROVE  /\ granted'[s].ref \in 0 .. exported[s] /\ granted'[s].n \in Nat
                 /\ granted'[s].ref = 0 <=> granted'[s].n = 0
      BY <1>1, <1>2 DEF BookInv, Granting
    <2> QED BY <1>2, <2>1, GrantingOn DEF BookInv
  <1>5. Holding'
    <2>1. Free.val.kind = "data" BY DEF Free, Frame, Data
    <2> QED BY <1>2, <2>1 DEF BookInv, Holding, Held
  <1>6. Named'
    <2>1. ASSUME NEW s \in Side, NEW f, In(Chan(s)', f) PROVE In(Chan(s), f)
      <3>1. CASE s = u BY <1>3, <2>1, <3>1, InCut
      <3>2. CASE s # u BY <1>3, <2>1, <3>2
      <3> QED BY <3>1, <3>2
    <2> QED BY <1>1, <1>2, <2>1, NamedOn DEF BookInv
  <1>7. Imported' BY <1>2 DEF BookInv, Imported
  <1>8. Owes' /\ Lasts' BY <1>1, <1>2, <1>3, BooksCut DEF BookInv
  <1> QED BY <1>4, <1>5, <1>6, <1>7, <1>8 DEF Books

-----------------------------------------------------------------------------
(* The books are kept: what receiving changes *)

(* What is read is in order, expected, and names what is still there. *)
LEMMA ReadsAll ==
  ASSUME BookInv, NEW s \in Side, Receive(s), NEW f, f = Head(wire[Peer(s)])
  PROVE  /\ f \in Messages /\ Names(Peer(s), f) /\ Says(Peer(s), f)
         /\ Chan(Peer(s)) # <<>> /\ Chan(Peer(s))[1] = f
         /\ \/ /\ f.op = "call" /\ f.id > received[s] /\ Known(s, f.val)
               /\ ReceiveCall(s, f)
            \/ /\ f.op = "return" /\ f.id \in waiting[s] \cup cancelled[s] /\ Known(s, f.val)
               /\ ReceiveReply(s, f)
            \/ f.op = "cancel" /\ ReceiveCancel(s, f)
            \/ /\ f.op = "release" /\ f.val.ref = granted[s].ref /\ f.id \in 1 .. granted[s].n
               /\ ReceiveRelease(s, f)
  <1> DEFINE p == Peer(s)
             q == Chan(p)
  <1>1. Typed /\ p \in Side /\ Peer(p) = s /\ stage[s] = "open"
    BY Two DEF BookInv, CallInv, Receive
  <1>2. /\ q # <<>> /\ q[1] = f /\ q \in Seq(Messages) /\ In(wire[p], f)
    BY <1>1, ChanRead, ChanIs, Read
  <1>3. In(q, f) /\ f \in Messages /\ Names(p, f) /\ Says(p, f)
    <2>1. In(q, f) BY <1>1, <1>2, ChanIs
    <2>2. f \in Messages BY <1>1, Read
    <2>3. Names(p, f) BY <1>1, <2>1 DEF BookInv, Named
    <2>4. Says(p, f) BY <1>1, HeadSays DEF BookInv, CallInv
    <2> QED BY <2>1, <2>2, <2>3, <2>4
  <1>4. f.val \in Payloads /\ f.id \in Nat /\ exported[s] \in Nat /\ granted[s].n \in Nat
    BY <1>1, <1>3 DEF Messages, Typed, BookInv, Granting
  <1>5. ASSUME NEW r
        PROVE  /\ One(draft[s].val, r) \in Nat /\ OnWay(Chan(s), r) \in Nat
               /\ Kept(imports[p], r) \in Nat
               /\ Back(q, r) = Given(f, r) + Back(Tail(q), r) /\ Back(Tail(q), r) \in Nat
               /\ Given(f, r) \in Nat
    <2>1. Tail(q) \in Seq(Messages) BY <1>2
    <2>2. Back(q, r) = Given(f, r) + Back(Tail(q), r) BY <1>2, ListTaken
    <2>3. Back(Tail(q), r) \in Nat BY <2>1, ListTotals
    <2> QED BY <1>1, <1>3, <2>2, <2>3, BookNumbers, GivenNat
  <1>6. 1 \in 1 .. Len(q) /\ 1 \in 1 .. Len(q) + 1 BY <1>2
  <1> HIDE DEF p, q
  <1>7. ASSUME f.op # "release" PROVE Known(s, f.val)
    <2> SUFFICES ASSUME f.val.kind = "home" PROVE f.val.ref = granted[s].ref
      BY DEF Known
    <2> DEFINE r == f.val.ref
    <2>1. r \in Pos /\ f.val = Home(r)
      BY <1>1, <1>3, <1>4, PayloadIs DEF Names, Pos
    <2>2. One(draft[s].val, r) + OnWay(Chan(s), r) + Before(q, 1, r) < Grants(s, r)
      BY <1>1, <1>2, <1>6, <1>7, <2>1 DEF BookInv, Lasts, p, q
    <2>3. Before(q, 1, r) \in Nat BY <1>2, <1>6, BeforeTotal
    <2> HIDE DEF r
    <2>4. Grants(s, r) # 0 BY <1>5, <2>2, <2>3
    <2> QED BY <2>4 DEF Grants, r
  <1>8. ASSUME f.op = "call" PROVE f.id > received[s]
    BY <1>1, <1>3, <1>8 DEF BookInv, Ordered, q
  <1>9. ASSUME f.op = "return" PROVE f.id \in waiting[s] \cup cancelled[s]
    <2>1. f.id \in Ids BY <1>3, <1>9 DEF Says
    <2>2. Due(s, f.id) BY <1>3, <1>9 DEF Due, p, q
    <2> QED BY <1>1, <2>1, <2>2 DEF BookInv, Expected
  <1>10. ASSUME f.op = "release" PROVE f.val.ref = granted[s].ref /\ f.id \in 1 .. granted[s].n
    <2> DEFINE r == f.val.ref
    <2>1. r \in Pos /\ f.id # 0 BY <1>1, <1>3, <1>4, <1>10 DEF Names, Pos
    <2>2. Debt(s, r) <= Grants(s, r) BY <1>1, <2>1 DEF BookInv, Owes
    <2>3. Debt(s, r) = One(draft[s].val, r) + OnWay(Chan(s), r) + Kept(imports[p], r) + Back(q, r)
      BY DEF Debt, p, q
    <2>4. Given(f, r) = f.id BY <1>10 DEF Given
    <2> HIDE DEF r
    <2>5. Grants(s, r) >= f.id
      <3>1. /\ One(draft[s].val, r) \in Nat /\ OnWay(Chan(s), r) \in Nat
            /\ Kept(imports[p], r) \in Nat /\ Back(Tail(q), r) \in Nat
            /\ Back(q, r) = f.id + Back(Tail(q), r)
        BY <1>5, <2>4
      <3>2. Grants(s, r) \in Int BY <1>4 DEF Grants
      <3> QED BY <1>4, <2>2, <2>3, <3>1, <3>2
    <2>6. granted[s].ref = r /\ Grants(s, r) = granted[s].n
      BY <1>4, <2>1, <2>5 DEF Grants
    <2> QED BY <1>4, <2>1, <2>5, <2>6 DEF r
  <1>11. \/ f.op = "call" /\ ReceiveCall(s, f)
         \/ f.op = "return" /\ ReceiveReply(s, f)
         \/ f.op = "cancel" /\ ReceiveCancel(s, f)
         \/ f.op = "release" /\ ReceiveRelease(s, f)
    BY DEF Receive
  <1> QED BY <1>2, <1>3, <1>7, <1>8, <1>9, <1>10, <1>11 DEF p, q

(* A frame taken in, with its grant or what it gives back. *)
LEMMA BooksTake ==
  ASSUME BookInv, CallInv', [Next]_vars, NEW u \in Side, Receive(u),
         NEW f, f = Head(wire[Peer(u)]), exported' = exported,
         \A s \in Side \ {u} :
           granted'[s] = granted[s] /\ imports'[s] = imports[s] /\ table'[s] = table[s],
         granted'[u].ref \in 0 .. exported[u] /\ granted'[u].n \in Nat,
         granted'[u].ref = 0 <=> granted'[u].n = 0,
         draft[u].val.kind = "own" => granted'[u].ref = granted[u].ref,
         Kempt(imports'[u], table'[u], exported[Peer(u)]),
         \A k \in Held(u) : /\ k \in DOMAIN imports'[u] /\ imports'[u][k].st = "held"
                            /\ imports'[u][k].ref = imports[u][k].ref,
         \A r \in Pos :
           /\ Kept(imports'[u], r) = Kept(imports[u], r) + One(f.val, r)
           /\ Grants(u, r)' = Grants(u, r) - Given(f, r)
  PROVE  Books'
  <1>1. Typed /\ Typed' /\ NoneOpens /\ \A s \in Side : exported[s] \in Nat
    BY NoneOpensOn DEF BookInv, CallInv, Typed
  <1>2. /\ Chan(Peer(u)) # <<>> /\ Chan(Peer(u))[1] = f
        /\ Chan(Peer(u))' = Tail(Chan(Peer(u))) /\ Chan(u)' = Chan(u)
        /\ draft' = draft
    BY <1>1, ChanRead, Read
  <1>3. Granting'
    <2>1. ASSUME NEW s \in Side
          PROVE  /\ granted'[s].ref \in 0 .. exported[s] /\ granted'[s].n \in Nat
                 /\ granted'[s].ref = 0 <=> granted'[s].n = 0
      <3>1. CASE s = u BY <3>1
      <3>2. CASE s # u BY <3>2 DEF BookInv, Granting
      <3> QED BY <3>1, <3>2
    <2> QED BY <2>1, GrantingOn DEF BookInv
  <1>4. Holding'
    <2>1. ASSUME draft[u].val.kind = "home"
          PROVE  \E k \in Held(u)' : imports'[u][k].ref = draft[u].val.ref
      <3>1. PICK k \in Held(u) : imports[u][k].ref = draft[u].val.ref
        BY <2>1 DEF BookInv, Holding
      <3>2. k \in DOMAIN imports'[u] /\ imports'[u][k].st = "held"
            /\ imports'[u][k].ref = draft[u].val.ref
        BY <3>1
      <3> QED BY <3>2 DEF Held
    <2>2. \A s \in Side \ {u} : Held(s)' = Held(s) BY DEF Held
    <2>3. ASSUME NEW s \in Side
          PROVE  /\ draft[s].val.kind = "own" =>
                      draft[s].val.ref = granted'[s].ref /\ granted'[s].ref # 0
                 /\ draft[s].val.kind = "home" =>
                      \E k \in Held(s)' : imports'[s][k].ref = draft[s].val.ref
                 /\ draft[s].val.kind = "data" => draft[s].val = Data
      <3>1. CASE s = u BY <2>1, <3>1 DEF BookInv, Holding
      <3>2. CASE s # u BY <2>2, <3>2 DEF BookInv, Holding
      <3> QED BY <3>1, <3>2
    <2> QED BY <1>2, <2>3 DEF Holding
  <1>5. Named'
    <2>1. ASSUME NEW s \in Side, NEW g, In(Chan(s)', g) PROVE In(Chan(s), g)
      <3>1. CASE s = u BY <1>2, <2>1, <3>1
      <3>2. CASE s = Peer(u)
        <4>1. Chan(s) \in Seq(Messages) BY <1>1, ChanIs
        <4> QED BY <1>2, <2>1, <3>2, <4>1, InTaken
      <3> QED BY <3>1, <3>2, Two
    <2> QED BY <1>1, <2>1, NamedOn DEF BookInv
  <1>6. Imported'
    <2>1. ASSUME NEW s \in Side PROVE Kempt(imports'[s], table'[s], exported'[Peer(s)])
      <3>1. CASE s = u BY <3>1
      <3>2. CASE s # u BY <3>2, KemptNow
      <3> QED BY <3>1, <3>2
    <2> QED BY <2>1 DEF Imported, Kempt
  <1>7. Owes' /\ Lasts' BY <1>1, <1>2, BooksGot DEF BookInv
  <1> QED BY <1>3, <1>4, <1>5, <1>6, <1>7 DEF Books

(* A call or a reply brings at most one grant with its value. *)
LEMMA BooksDecode ==
  ASSUME BookInv, CallInv', [Next]_vars, NEW u \in Side, Receive(u),
         NEW f, f = Head(wire[Peer(u)]), f.op \in {"call", "return"}, Decode(u, f.val),
         UNCHANGED exports
  PROVE  Books'
  <1>1. Typed /\ Peer(u) \in Side BY Two DEF BookInv, CallInv
  <1>2. f.val \in Payloads /\ Names(Peer(u), f) BY ReadsAll DEF Messages
  <1>3. f.val.kind = "own" => f.val.ref \in 1 .. exported[Peer(u)] BY <1>2 DEF Names
  <1>4. /\ \A s \in Side \ {u} : imports'[s] = imports[s] /\ table'[s] = table[s]
        /\ \A r : Kept(imports'[u], r) = Kept(imports[u], r) + One(f.val, r)
        /\ Kempt(imports'[u], table'[u], exported[Peer(u)])
        /\ \A k \in Held(u) : /\ k \in DOMAIN imports'[u] /\ imports'[u][k].st = "held"
                              /\ imports'[u][k].ref = imports[u][k].ref
    BY <1>2, <1>3, DecodeBooks DEF BookInv
  <1>5. ASSUME NEW r PROVE Grants(u, r)' = Grants(u, r) - Given(f, r)
    <2>1. Given(f, r) = 0 BY DEF Given
    <2>2. Grants(u, r)' = Grants(u, r) BY DEF Grants
    <2>3. Grants(u, r) \in Int BY <1>1, BookNumbers
    <2> QED BY <2>1, <2>2, <2>3
  <1>6. /\ granted'[u].ref \in 0 .. exported[u] /\ granted'[u].n \in Nat
        /\ granted'[u].ref = 0 <=> granted'[u].n = 0
        /\ granted' = granted /\ exported' = exported
    BY DEF BookInv, Granting
  <1> QED BY <1>4, <1>5, <1>6, BooksTake

LEMMA BooksReceive ==
  ASSUME BookInv, CallInv', [Next]_vars, NEW u \in Side, Receive(u)
  PROVE  Books' /\ refused' = refused
  <1> DEFINE f == Head(wire[Peer(u)])
             p == Peer(u)
  <1>1. Typed /\ p \in Side BY Two DEF BookInv, CallInv
  <1>2. /\ f \in Messages /\ Names(p, f) /\ Says(p, f)
        /\ Chan(p) # <<>> /\ Chan(p)[1] = f
        /\ \/ /\ f.op = "call" /\ f.id > received[u] /\ Known(u, f.val)
              /\ ReceiveCall(u, f)
           \/ /\ f.op = "return" /\ f.id \in waiting[u] \cup cancelled[u] /\ Known(u, f.val)
              /\ ReceiveReply(u, f)
           \/ f.op = "cancel" /\ ReceiveCancel(u, f)
           \/ /\ f.op = "release" /\ f.val.ref = granted[u].ref /\ f.id \in 1 .. granted[u].n
              /\ ReceiveRelease(u, f)
    BY ReadsAll
  <1>3. Kempt(imports[u], table[u], exported[p]) BY KemptNow
  <1>4. /\ granted[u] \in Counts /\ granted[u].ref \in 0 .. exported[u] /\ granted[u].n \in Nat
        /\ granted[u].ref = 0 <=> granted[u].n = 0
        /\ exported[u] \in Nat /\ f.id \in Nat /\ f.val \in Payloads
    BY <1>1, <1>2 DEF Typed, BookInv, Granting, Messages
  <1>5. ASSUME NEW r PROVE Kept(imports[u], r) \in Nat /\ Grants(u, r) \in Int
    BY <1>1, BookNumbers
  <1> HIDE DEF f, p
  <1>6. CASE f.op = "call" /\ f.id > received[u] /\ Known(u, f.val) /\ ReceiveCall(u, f)
    <2>1. Decode(u, f.val) /\ UNCHANGED <<exports, refused>> BY <1>6 DEF ReceiveCall
    <2> QED BY <1>6, <2>1, BooksDecode DEF f
  <1>7. CASE /\ f.op = "return" /\ f.id \in waiting[u] \cup cancelled[u] /\ Known(u, f.val)
             /\ ReceiveReply(u, f)
    <2>1. Decode(u, f.val) /\ UNCHANGED <<exports, refused>> BY <1>7 DEF ReceiveReply
    <2> QED BY <1>7, <2>1, BooksDecode DEF f
  <1>8. CASE f.op = "cancel" /\ ReceiveCancel(u, f)
    <2>1. UNCHANGED <<exports, importing, refused>> BY <1>8 DEF ReceiveCancel
    <2>2. f.val.kind = "data" BY <1>2, <1>8 DEF Names
    <2>3. ASSUME NEW r PROVE One(f.val, r) = 0 /\ Given(f, r) = 0
      BY <1>8, <2>2 DEF One, Own, Given
    <2>4. ASSUME NEW r
          PROVE  /\ Kept(imports'[u], r) = Kept(imports[u], r) + One(f.val, r)
                 /\ Grants(u, r)' = Grants(u, r) - Given(f, r)
      <3>1. Grants(u, r)' = Grants(u, r) /\ imports'[u] = imports[u] BY <2>1 DEF Grants
      <3> QED BY <1>5, <2>3, <3>1
    <2>5. \A k \in Held(u) : /\ k \in DOMAIN imports'[u] /\ imports'[u][k].st = "held"
                             /\ imports'[u][k].ref = imports[u][k].ref
      BY <2>1 DEF Held
    <2>6. Kempt(imports'[u], table'[u], exported[Peer(u)]) BY <1>3, <2>1 DEF p
    <2>7. Books' BY <1>4, <2>1, <2>4, <2>5, <2>6, BooksTake DEF f
    <2> QED BY <2>1, <2>7
  <1>9. CASE /\ f.op = "release" /\ f.val.ref = granted[u].ref /\ f.id \in 1 .. granted[u].n
             /\ ReceiveRelease(u, f)
    <2>1. /\ granted' = [granted EXCEPT ![u] = Fewer(granted[u], f.id)]
          /\ UNCHANGED <<exported, importing, refused>>
      BY <1>9 DEF ReceiveRelease
    <2>2. /\ granted'[u] = Fewer(granted[u], f.id)
          /\ \A s \in Side \ {u} : granted'[s] = granted[s]
      BY <1>1, <2>1 DEF Typed
    <2>3. f.val.kind = "home" /\ f.id # 0 BY <1>2, <1>9 DEF Names
    <2>4. ASSUME NEW r PROVE One(f.val, r) = 0 BY <2>3 DEF One, Own
    <2>5. \/ granted[u].n = f.id /\ granted'[u].ref = 0 /\ granted'[u].n = 0
          \/ /\ granted[u].n > f.id /\ granted'[u].ref = granted[u].ref
             /\ granted'[u].n = granted[u].n - f.id
      BY <1>4, <1>9, <2>2 DEF Fewer, Counts
    <2>6. ASSUME NEW r \in Pos PROVE Grants(u, r)' = Grants(u, r) - Given(f, r)
      BY <1>4, <1>9, <2>5 DEF Grants, Given, Pos
    <2>7. /\ granted'[u].ref \in 0 .. exported[u] /\ granted'[u].n \in Nat
          /\ granted'[u].ref = 0 <=> granted'[u].n = 0
      BY <1>4, <2>3, <2>5
    <2>8. draft[u].val.kind = "own" => granted'[u].ref = granted[u].ref
      <3> SUFFICES ASSUME draft[u].val.kind = "own" PROVE granted[u].n > f.id
        BY <1>4, <2>5
      <3> DEFINE r == granted[u].ref
      <3>1. draft[u].val.ref = r /\ r \in Pos BY <1>4 DEF BookInv, Holding, Pos
      <3>2. draft[u].val \in Payloads BY <1>1 DEF Typed, Messages
      <3>3. One(draft[u].val, r) = 1 BY <3>1, <3>2, PayloadIs DEF One
      <3>4. stage[u] = "open" BY DEF Receive
      <3>5. One(draft[u].val, r) + OnWay(Chan(u), r) + Kept(imports[p], r) + Back(Chan(p), r)
              <= Grants(u, r)
        BY <3>1, <3>4 DEF BookInv, Owes, Debt, p
      <3>6. /\ OnWay(Chan(u), r) \in Nat /\ Kept(imports[p], r) \in Nat
            /\ Back(Chan(p), r) = Given(f, r) + Back(Tail(Chan(p)), r)
            /\ Back(Tail(Chan(p)), r) \in Nat
        <4>1. Chan(p) \in Seq(Messages) BY <1>1, ChanIs
        <4>2. Tail(Chan(p)) \in Seq(Messages) BY <1>2, <4>1, InTaken
        <4>3. Back(Chan(p), r) = Given(f, r) + Back(Tail(Chan(p)), r)
          BY <1>2, <4>1, ListTaken
        <4>4. Back(Tail(Chan(p)), r) \in Nat BY <4>2, ListTotals
        <4> QED BY <1>1, <4>3, <4>4, BookNumbers
      <3>7. Given(f, r) = f.id /\ Grants(u, r) = granted[u].n BY <1>9 DEF Given, Grants
      <3> HIDE DEF r
      <3> QED BY <1>4, <3>3, <3>5, <3>6, <3>7
    <2>9. ASSUME NEW r
          PROVE  Kept(imports'[u], r) = Kept(imports[u], r) + One(f.val, r)
      BY <1>5, <2>1, <2>4
    <2>10. \A k \in Held(u) : /\ k \in DOMAIN imports'[u] /\ imports'[u][k].st = "held"
                              /\ imports'[u][k].ref = imports[u][k].ref
      BY <2>1 DEF Held
    <2>11. Kempt(imports'[u], table'[u], exported[Peer(u)]) BY <1>3, <2>1 DEF p
    <2>12. \A s \in Side \ {u} :
             granted'[s] = granted[s] /\ imports'[s] = imports[s] /\ table'[s] = table[s]
      BY <2>1, <2>2
    <2>13. Books'
      BY <2>1, <2>6, <2>7, <2>8, <2>9, <2>10, <2>11, <2>12, BooksTake DEF f
    <2> QED BY <2>1, <2>13
  <1> QED BY <1>2, <1>6, <1>7, <1>8, <1>9

-----------------------------------------------------------------------------
(* Every step keeps the books, and refuses nothing *)

LEMMA BooksStep ==
  ASSUME BookInv, CallInv', [Next]_vars
  PROVE  Books' /\ refused' = refused
  <1>0. Typed BY DEF BookInv, CallInv
  <1>1. ASSUME NEW s \in Side, SendBegin(s) PROVE Books' /\ refused' = refused
    <2>1. PICK v \in Sendable(s) : Encode(s, "call", next[s] + 1, v) BY <1>1 DEF SendBegin
    <2>2. draft[s] = Free /\ UNCHANGED <<transit, importing>> BY <1>1 DEF SendBegin, Locked
    <2>3. next[s] \in Nat /\ next'[s] = next[s] + 1 BY <1>0, <1>1 DEF SendBegin, Typed
    <2>4. /\ Cardinality(PastAnswer(s)) \in Nat /\ Cardinality(PastAnswer(s)') \in Nat
          /\ Cardinality(PastAnswer(s)) <= Cardinality(PastAnswer(s)')
      BY PastGrows DEF BookInv
    <2>5. next[s] + Cardinality(PastAnswer(s)) + 1 <= next'[s] + Cardinality(PastAnswer(s)')
      BY <2>3, <2>4
    <2>6. Books' BY <2>1, <2>2, <2>5, BooksEncode
    <2> QED BY <1>1, <2>6 DEF SendBegin
  <1>2. ASSUME NEW s \in Side, NEW c \in Ids, RespondBegin(s, c)
        PROVE  Books' /\ refused' = refused
    <2>1. PICK v \in Sendable(s) : Encode(s, "return", c, v) BY <1>2 DEF RespondBegin
    <2>2. draft[s] = Free /\ UNCHANGED <<transit, importing, next>>
      BY <1>2 DEF RespondBegin, Locked
    <2>3. handler[s][c] = "running" /\ handler'[s][c] = "answering"
      BY <1>0, <1>2 DEF RespondBegin, Typed
    <2>4. c \in PastAnswer(s)' /\ c \notin PastAnswer(s) BY <2>3 DEF PastAnswer
    <2>5. /\ Cardinality(PastAnswer(s)) \in Nat /\ Cardinality(PastAnswer(s)') \in Nat
          /\ Cardinality(PastAnswer(s)) + 1 <= Cardinality(PastAnswer(s)')
      BY <2>4, PastGrows DEF BookInv
    <2>6. next[s] \in Nat /\ next'[s] = next[s] BY <1>0, <2>2 DEF Typed
    <2>7. next[s] + Cardinality(PastAnswer(s)) + 1 <= next'[s] + Cardinality(PastAnswer(s)')
      BY <2>5, <2>6
    <2>8. Books' BY <2>1, <2>2, <2>7, BooksEncode
    <2> QED BY <1>2, <2>8 DEF RespondBegin
  <1>3. ASSUME NEW s \in Side, SendRefused(s) \/ RespondTooLarge(s)
        PROVE  Books' /\ refused' = refused
    <2>1. /\ Ungrant(s) /\ draft'[s].val = Data
          /\ \A t \in Side \ {s} : draft'[t] = draft[t]
          /\ UNCHANGED <<transit, importing, exported, refused>>
      BY <1>0, <1>3 DEF SendRefused, RespondTooLarge, Typed, Messages, Free, Frame
    <2> QED BY <2>1, BooksUngrant
  <1>4. ASSUME NEW s \in Side, SendEnd(s) \/ RespondEnd(s) PROVE Books' /\ refused' = refused
    BY <1>4, BooksSend DEF SendEnd, RespondEnd
  <1>5. ASSUME NEW s \in Side, NEW c \in Ids, CancelWrite(s, c)
        PROVE  Books' /\ refused' = refused
    BY <1>5, BooksCancel DEF CancelWrite
  <1>6. ASSUME NEW s \in Side, NEW k, Release(s, k) \/ DropImport(s, k)
        PROVE  Books' /\ refused' = refused
    BY <1>6, BooksRelease, BooksDrop DEF Release, DropImport
  <1>7. ASSUME NEW s \in Side, Teardown(s) PROVE Books' /\ refused' = refused
    BY <1>7, BooksTeardown DEF Teardown
  <1>8. ASSUME NEW s \in Side, Receive(s) PROVE Books' /\ refused' = refused
    BY <1>8, BooksReceive
  <1>9. ASSUME NEW s \in Side, Write(s) PROVE Books' /\ refused' = refused
    <2>1. \A t \in Side : Chan(t)' = Chan(t) BY <1>0, <1>9, ChanWritten
    <2>2. UNCHANGED <<draft, exports, importing, refused>> BY <1>9 DEF Write
    <2> QED BY <2>1, <2>2, BooksQuiet
  <1>10. ASSUME UNCHANGED <<transit, draft, exports, importing, refused>>
         PROVE  Books' /\ refused' = refused
    BY <1>10, ChanStays, BooksQuiet
  <1>11. ASSUME NEW s \in Side, Close(s) PROVE Books' /\ refused' = refused
    <2>1. \A t \in Side : Chan(t)' = Chan(t) BY <1>11, ChanStays DEF Close
    <2>2. UNCHANGED <<draft, exports, importing, refused>> BY <1>11 DEF Close
    <2> QED BY <2>1, <2>2, BooksQuiet
  <1>12. ASSUME NEW s \in Side, NEW c \in Ids,
                Consume(s, c) \/ Cancel(s, c) \/ Start(s, c) \/ Execute(s, c) \/ Ready(s, c)
         PROVE  Books' /\ refused' = refused
    BY <1>10, <1>12 DEF Consume, Cancel, Start, Execute, Ready
  <1>13. CASE UNCHANGED vars BY <1>10, <1>13 DEF vars
  <1> QED BY <1>1, <1>2, <1>3, <1>4, <1>5, <1>6, <1>7, <1>8, <1>9, <1>11, <1>12, <1>13,
          SessionAssumption DEF Next, Step, CloseBehind, CloseAtEnd

LEMMA BookInit == Init => BookInv
  <1> SUFFICES ASSUME Init PROVE BookInv OBVIOUS
  <1>1. CallInv /\ Typed BY CallInit DEF CallInv
  <1>2. \A s \in Side : Chan(s) = <<>> BY DEF Init, Chan
  <1>3. \A s \in Side : Peer(s) \in Side BY Two
  <1>4. Ordered
    <2>1. \A s \in Side : Orderly(Chan(s)) /\ \A f : ~ In(Chan(s), f)
      BY <1>2 DEF Orderly, In
    <2> QED BY <1>3, <2>1 DEF Ordered, Init, Free, Frame
  <1>5. Expected
    <2>1. \A s \in Side : \A f : ~ In(Chan(s), f) BY <1>2 DEF In
    <2>2. \A s \in Side, c \in Ids : ~ Due(s, c) BY <1>3, <2>1 DEF Due, Init
    <2> QED BY <2>2 DEF Expected, Init
  <1>6. Granting
    <2>1. ASSUME NEW s \in Side PROVE exported[s] <= next[s] + Cardinality(PastAnswer(s))
      <3>1. Cardinality(PastAnswer(s)) \in Nat BY <1>1, PastSmall
      <3>2. exported[s] = 0 /\ next[s] = 0 BY DEF Init
      <3> QED BY <3>1, <3>2
    <2> QED BY <2>1 DEF Granting, Init
  <1>7. Holding BY DEF Holding, Init, Free, Frame, Data
  <1>8. Named BY <1>2 DEF Named, In
  <1>9. Imported BY <1>3 DEF Imported, Init
  <1>10. Owes
    <2>1. ASSUME NEW s \in Side, NEW r \in Pos PROVE Debt(s, r) = 0 /\ Grants(s, r) = 0
      <3>1. OnWay(Chan(s), r) = 0 BY <1>2, TotalNone DEF OnWay, OwnIn
      <3>2. Back(Chan(Peer(s)), r) = 0 BY <1>2, <1>3, TotalNone DEF Back, ReleasedIn
      <3>3. imports[Peer(s)] = <<>> BY <1>3 DEF Init
      <3>4. Kept(imports[Peer(s)], r) = 0 BY <3>3, TotalNone DEF Kept, HeldIn
      <3>5. One(draft[s].val, r) = 0 BY DEF Init, Free, Frame, One, Data, Own
      <3> QED BY <3>1, <3>2, <3>4, <3>5 DEF Debt, Grants, Init, Pos
    <2> QED BY <2>1 DEF Owes
  <1>11. Lasts
    <2>1. \A s \in Side : Len(Chan(Peer(s))) = 0 BY <1>2, <1>3
    <2> QED BY <2>1 DEF Lasts
  <1> QED BY <1>1, <1>4, <1>5, <1>6, <1>7, <1>8, <1>9, <1>10, <1>11 DEF BookInv

LEMMA BookStep == BookInv /\ [Next]_vars => BookInv' /\ refused' = refused
  <1> SUFFICES ASSUME BookInv, [Next]_vars PROVE BookInv' /\ refused' = refused OBVIOUS
  <1>1. CallInv' BY CallStep DEF BookInv
  <1>2. Ordered' /\ Expected' BY OrderedStep, ExpectedStep DEF BookInv
  <1>3. Books' /\ refused' = refused BY <1>1, BooksStep
  <1> QED BY <1>1, <1>2, <1>3 DEF BookInv, Books

-----------------------------------------------------------------------------
(* What the invariant says of the tables, and of what is owed *)

LEMMA FrameNamed ==
  ASSUME BookInv, NEW s \in Side, NEW f \in Messages, Names(s, f) \/ f = draft[s]
  PROVE  f \in Frames
  <1>1. /\ exported[s] \in Nat /\ exported[Peer(s)] \in Nat
        /\ 1 .. exported[s] \subseteq Refs /\ 1 .. exported[Peer(s)] \subseteq Refs
    BY Two, ExportedSmall DEF BookInv
  <1>2. f.val \in Payloads /\ f.val.kind \in {"data", "own", "home"} BY DEF Messages, Payloads
  <1>3. f.val \in Values
    <2>1. CASE Names(s, f) BY <1>1, <1>2, <2>1, PayloadIs DEF Names, Values
    <2>2. CASE f = draft[s]
      <3>1. f.val.kind = "own" => f.val.ref \in Refs
        <4>1. granted[s].ref \in 0 .. exported[s] BY DEF BookInv, Granting
        <4> QED BY <1>1, <2>2, <4>1 DEF BookInv, Holding
      <3>2. f.val.kind = "home" => f.val.ref \in Refs
        <4>1. \A k \in DOMAIN imports[s] : imports[s][k].ref \in Refs
          BY <1>1 DEF BookInv, Imported
        <4> QED BY <2>2, <4>1 DEF BookInv, Holding, Held
      <3>3. f.val.kind = "data" => f.val = Data BY <2>2 DEF BookInv, Holding
      <3> QED BY <1>2, <3>1, <3>2, <3>3, PayloadIs DEF Values
    <2> QED BY <2>1, <2>2
  <1> QED BY <1>3 DEF Messages, Frames

LEMMA TypesHold ==
  ASSUME BookInv, NothingRefused
  PROVE  TypeOK
  <1>0. Typed BY DEF BookInv, CallInv
  <1>1. draft \in [Side -> Frames]
    <2>1. \A s \in Side : draft[s] \in Messages BY <1>0 DEF Typed
    <2>2. \A s \in Side : draft[s] \in Frames BY <2>1, FrameNamed
    <2> QED BY <1>0, <2>2 DEF Typed
  <1>2. ASSUME NEW s \in Side PROVE wire[s] \in Seq(Frames) /\ queued[s] \in Seq(Frames)
    <2>1. wire[s] \in Seq(Messages) /\ queued[s] \in Seq(Messages) BY <1>0 DEF Typed
    <2>2. ASSUME NEW q \in Seq(Messages), \A f : In(q, f) => In(Chan(s), f)
          PROVE  q \in Seq(Frames)
      <3>1. ASSUME NEW i \in 1 .. Len(q) PROVE q[i] \in Frames
        <4>1. q[i] \in Messages /\ In(Chan(s), q[i]) BY <2>2 DEF In
        <4> QED BY <4>1, FrameNamed DEF BookInv, Named
      <3> QED BY <3>1
    <2>3. \A f : In(Chan(s), f) <=> In(wire[s], f) \/ In(queued[s], f) BY <1>0, ChanIs
    <2> QED BY <2>1, <2>2, <2>3
  <1>3. queued \in [Side -> Seq(Frames)] /\ wire \in [Side -> Seq(Frames)]
    BY <1>0, <1>2 DEF Typed
  <1>4. waiting \in [Side -> SUBSET Ids] /\ cancelled \in [Side -> SUBSET Ids]
    <2>1. \A s \in Side : waiting[s] \subseteq Ids BY DEF BookInv, CallInv, Waiters
    <2>2. \A s \in Side : cancelled[s] \subseteq Ids BY DEF BookInv, Expected
    <2> QED BY <1>0, <2>1, <2>2 DEF Typed
  <1>5. granted \in [Side -> Entries]
    <2>1. ASSUME NEW s \in Side PROVE granted[s] \in Entries
      <3>1. granted[s] \in Counts BY <1>0 DEF Typed
      <3>2. granted[s].ref \in 0 .. exported[s] /\ granted[s].n \in Nat
        BY DEF BookInv, Granting
      <3>3. exported[s] \in Nat /\ 1 .. exported[s] \subseteq Refs
        BY ExportedSmall DEF BookInv
      <3>4. granted[s].ref \in Refs \cup {0} BY <3>2, <3>3
      <3> QED BY <3>1, <3>2, <3>4 DEF Counts, Entries
    <2> QED BY <1>0, <2>1 DEF Typed
  <1>6. imports \in [Side -> Seq([ref : Refs, n : Nat, st : {"held", "dropping", "gone"}])]
    <2> DEFINE R == [ref : Refs, n : Nat, st : {"held", "dropping", "gone"}]
    <2>1. ASSUME NEW s \in Side PROVE imports[s] \in Seq(R)
      <3>1. imports[s] \in Seq(ImportRecs) BY <1>0 DEF Typed
      <3>2. 1 .. exported[Peer(s)] \subseteq Refs BY Two, ExportedSmall DEF BookInv
      <3>3. ASSUME NEW k \in 1 .. Len(imports[s]) PROVE imports[s][k] \in R
        <4>1. imports[s][k] \in ImportRecs /\ k \in DOMAIN imports[s] BY <3>1
        <4>2. imports[s][k].ref \in Refs BY <3>2, <4>1 DEF BookInv, Imported
        <4> QED BY <4>1, <4>2 DEF ImportRecs
      <3> HIDE DEF R
      <3> QED BY <3>1, <3>3
    <2> HIDE DEF R
    <2>2. imports \in [Side -> Seq(R)] BY <1>0, <2>1 DEF Typed
    <2> QED BY <2>2 DEF R
  <1>7. refused \subseteq Side BY DEF NothingRefused
  <1> QED BY <1>0, <1>1, <1>3, <1>4, <1>5, <1>6, <1>7 DEF Typed, TypeOK, Places

LEMMA OwedIsDebt ==
  ASSUME Typed, NEW s \in Side, NEW r
  PROVE  Owed(s, r) = Debt(s, r)
  <1>1. draft[s] \in Messages BY DEF Typed
  <1>2. <<>> \in Seq(Messages) /\ Append(<<>>, draft[s]) = <<draft[s]>> BY <1>1
  <1>3. OnWay(<<draft[s]>>, r) = OnWay(<<>>, r) + One(draft[s].val, r)
    BY <1>1, <1>2, ListAppended
  <1>4. OnWay(<<>>, r) = 0 BY TotalNone DEF OnWay, OwnIn
  <1>5. One(draft[s].val, r) \in Nat BY DEF One
  <1>6. Total(OwnIn(<<draft[s]>>, r)) = One(draft[s].val, r) BY <1>3, <1>4, <1>5 DEF OnWay
  <1> QED BY <1>6 DEF Owed, Debt, OnWay, Back, Kept

-----------------------------------------------------------------------------
(* The theorems *)

LEMMA BooksKept == Spec => [](BookInv /\ NothingRefused)
  <1>1. Init => BookInv /\ NothingRefused BY BookInit DEF Init, NothingRefused
  <1>2. (BookInv /\ NothingRefused) /\ [Next]_vars => (BookInv /\ NothingRefused)'
    BY BookStep DEF NothingRefused
  <1> QED BY <1>1, <1>2, PTL DEF Spec

(* Two ends that run this code never take each other's frames for a breach   *)
(* of the protocol (on_call, reply_target, export, on_release), however      *)
(* calls, replies, cancellations, drops of references and the end of the     *)
(* session come between each other, for any number of calls.                 *)
THEOREM NothingIsRefused == Spec => []NothingRefused
  BY BooksKept, PTL

(* Every table and frame is well typed; and while both ends are open, and    *)
(* neither has lost a frame that its queue had no room for, an export holds  *)
(* exactly the grants that are on their way, held by the other end or on     *)
(* their way back: an object never goes while the other end can name it, and *)
(* none stays once it cannot (encode_local, Import, on_release).             *)
THEOREM GrantsBalance == Spec => []GrantsCounted
  <1>1. BookInv /\ NothingRefused => GrantsCounted
    <2> SUFFICES ASSUME BookInv, NothingRefused PROVE GrantsCounted OBVIOUS
    <2>1. ASSUME NEW s \in Side, overrun = {}, \A t \in Side : stage[t] = "open",
                 NEW r \in Refs
          PROVE  Owed(s, r) = IF granted[s].ref = r THEN granted[s].n ELSE 0
      <3>1. Typed /\ Peer(s) \in Side BY Two DEF BookInv, CallInv
      <3>2. r \in Pos BY DEF Refs, Pos
      <3>3. stage[s] = "open" /\ stage[Peer(s)] = "open" BY <2>1, <3>1
      <3>4. Debt(s, r) = Grants(s, r) BY <2>1, <3>2, <3>3 DEF BookInv, Owes, Exact
      <3> QED BY <3>1, <3>4, OwedIsDebt DEF Grants
    <2> QED BY <2>1, TypesHold DEF GrantsCounted
  <1> QED BY <1>1, BooksKept, PTL
=============================================================================
