-------------------------- MODULE LoaderRowsProofs --------------------------
(***************************************************************************)
(* The loader's tables under every interleaving of its monitors, the       *)
(* kernel and the one operation that holds the tree: what is registered,   *)
(* which fiber runs which row, in which context, and which layer they      *)
(* follow, for any tree of rows, any number of callers and any number of   *)
(* failures of the store and of the rows.                                  *)
(*                                                                         *)
(* Rowed relates the records, the contexts and the fibers; Typing gives    *)
(* every place of an operation its type; Followed says from which place on *)
(* the rows follow the layer that is wanted. Base is the three together.   *)
(***************************************************************************)
EXTENDS Loader, FiniteSetTheorems, FunctionTheorems, SequenceTheorems,
        WellFoundedInduction, TLAPS

-----------------------------------------------------------------------------
(* Least numbers, and the tree *)

(* A set of numbers that is not empty has a least one. *)
LEMMA Least ==
  ASSUME NEW T \in SUBSET Nat, T # {}
  PROVE  \E x \in T : \A y \in T : x <= y
  <1> DEFINE R == OpToRel(<, Nat)
  <1>1. IsWellFoundedOn(R, Nat)
    BY NatLessThanWellFounded, Zenon
  <1> HIDE DEF R
  <1>2. \E x \in T : \A y \in T : <<y, x>> \notin R
    BY <1>1, WFMin, Zenon
  <1>3. \A x, y \in Nat : y < x => <<y, x>> \in R
    BY DEF R, OpToRel
  <1>4. \A x, y \in Nat : ~ (y < x) => x <= y
    OBVIOUS
  <1> QED BY <1>2, <1>3, <1>4

(* The tree: what the assumption says of a row's group. *)
LEMMA TreeFacts ==
  /\ Groups \subseteq Rows /\ Root \notin Rows /\ Root \notin Groups
  /\ \A r \in Rows : Parent[r] \in Groups \cup {Root}
  /\ \A r \in Rows : Parent[r] # Root => Parent[r] \in Groups /\ Parent[r] \in Rows
  /\ \A i \in DOMAIN Tree : Tree[i] \in Rows
  /\ \A i, j \in DOMAIN Tree : Tree[i] = Tree[j] => i = j
  /\ \A r \in Rows : \E i \in DOMAIN Tree : Tree[i] = r
  /\ \E n \in Nat : DOMAIN Tree = 1 .. n
  <1>1. \A i \in DOMAIN Tree : Tree[i] \in Rows
    BY DEF Rows, Range
  <1>2. \A r \in Rows : \E i \in DOMAIN Tree : Tree[i] = r
    BY DEF Rows, Range
  <1>3. \A i, j \in DOMAIN Tree : Tree[i] = Tree[j] => i = j
    BY TreeAssumption DEF IsInjective
  <1>4. \E n \in Nat : DOMAIN Tree = 1 .. n
    <2> HIDE DEF Rows
    <2> QED BY TreeAssumption, LenProperties
  <1>5. Parent \in [Rows -> Groups \cup {Root}] /\ Groups \subseteq Rows /\ Root \notin Rows
    BY TreeAssumption
  <1> HIDE DEF Rows
  <1> QED BY <1>1, <1>2, <1>3, <1>4, <1>5

(* What holds of a row when it holds of its group holds of every row. *)
LEMMA TreeInduction ==
  ASSUME NEW S \in SUBSET Rows,
         \A r \in Rows : Parent[r] \in S \cup {Root} => r \in S
  PROVE  S = Rows
  <1> DEFINE T == {i \in DOMAIN Tree : Tree[i] \notin S}
  <1>1. PICK n \in Nat : DOMAIN Tree = 1 .. n
    BY TreeFacts
  <1>2. T \in SUBSET Nat
    BY <1>1
  <1>3. ASSUME T # {} PROVE FALSE
    <2>1. PICK i \in T : \A j \in T : i <= j
      BY <1>2, <1>3, Least
    <2>2. i \in DOMAIN Tree /\ Tree[i] \notin S /\ Tree[i] \in Rows
      BY <2>1, TreeFacts
    <2>3. Parent[Tree[i]] \in {Root} \cup {Tree[j] : j \in 1 .. i - 1}
      BY <2>2, TreeAssumption
    <2>4. \A j \in 1 .. i - 1 : Tree[j] \in S
      BY <1>1, <2>1, <2>2
    <2> QED BY <2>2, <2>3, <2>4
  <1>4. \A i \in DOMAIN Tree : Tree[i] \in S
    BY <1>3
  <1>5. \A r \in Rows : r \in S
    BY <1>4, TreeFacts
  <1> HIDE DEF T
  <1> QED BY <1>5, Zenon

(* Above a row in the root's context is nothing, above any other its       *)
(* group and what is above that.                                           *)
LEMMA AboveStep ==
  ASSUME NEW r \in Rows
  PROVE  /\ Parent[r] = Root => Above[r] = {}
         /\ Parent[r] # Root => Above[r] = {Parent[r]} \cup Above[Parent[r]]
  <1> DEFINE Holds(S, x) == Upward(S) /\ Parent[x] \in S \cup {Root}
  <1>1. \A x \in Rows : \A a : a \in Above[x] <=> a \in Rows /\ \A S \in SUBSET Rows : Holds(S, x) => a \in S
    BY DEF Above
  <1>2. ASSUME Parent[r] = Root PROVE Above[r] = {}
    <2>1. Holds({}, r)
      BY <1>2 DEF Upward
    <2> QED BY <1>1, <2>1
  <1>3. ASSUME Parent[r] # Root PROVE Above[r] = {Parent[r]} \cup Above[Parent[r]]
    <2> DEFINE p == Parent[r]
    <2>1. p \in Rows
      BY <1>3, TreeFacts
    <2>2. p \in Above[r]
      BY <1>1, <1>3, <2>1
    <2>3. \A a \in Above[p] : a \in Above[r]
      <3>1. \A S \in SUBSET Rows : Holds(S, r) => Holds(S, p)
        BY <1>3, <2>1 DEF Upward
      <3> QED BY <1>1, <2>1, <3>1
    <2>4. ASSUME NEW a \in Above[r], a # p PROVE a \in Above[p]
      <3>1. a \in Rows
        BY <1>1
      <3>2. ASSUME NEW S \in SUBSET Rows, Holds(S, p) PROVE a \in S
        <4>1. S \cup {p} \in SUBSET Rows /\ Holds(S \cup {p}, r)
          BY <2>1, <3>2 DEF Upward
        <4> QED BY <1>1, <2>4, <4>1
      <3> QED BY <1>1, <2>1, <3>1, <3>2
    <2> QED BY <2>2, <2>3, <2>4
  <1> QED BY <1>2, <1>3

(* Only groups are above a row, and what is above one of them is above it. *)
LEMMA AboveFacts ==
  ASSUME NEW r \in Rows
  PROVE  /\ Above[r] \subseteq Groups /\ Above[r] \subseteq Rows /\ Root \notin Above[r]
         /\ \A a \in Above[r] : Above[a] \subseteq Above[r]
         /\ Parent[r] # Root => Parent[r] \in Above[r]
         /\ r \notin Above[r]
  <1> DEFINE Holds(S, x) == Upward(S) /\ Parent[x] \in S \cup {Root}
  <1>1. \A x \in Rows : \A a : a \in Above[x] <=> a \in Rows /\ \A S \in SUBSET Rows : Holds(S, x) => a \in S
    BY DEF Above
  <1>2. Above[r] \subseteq Groups /\ Above[r] \subseteq Rows
    <2>1. Groups \in SUBSET Rows /\ Holds(Groups, r)
      BY TreeFacts DEF Upward
    <2> QED BY <1>1, <2>1
  <1>3. ASSUME NEW a \in Above[r] PROVE Above[a] \subseteq Above[r]
    <2>1. a \in Rows
      BY <1>2, <1>3
    <2>2. ASSUME NEW S \in SUBSET Rows, Holds(S, r) PROVE Holds(S, a)
      <3>1. a \in S
        BY <1>1, <1>3, <2>2
      <3> QED BY <2>2, <3>1 DEF Upward
    <2> QED BY <1>1, <2>1, <2>2
  <1>4. Parent[r] # Root => Parent[r] \in Above[r]
    BY AboveStep
  <1>5. r \notin Above[r]
    <2>1. PICK i \in DOMAIN Tree : Tree[i] = r
      BY TreeFacts
    <2>2. PICK n \in Nat : DOMAIN Tree = 1 .. n
      BY TreeFacts
    <2> DEFINE S == {Tree[j] : j \in 1 .. i - 1}
    <2>3. S \in SUBSET Rows
      BY <2>2, TreeFacts
    <2>4. \A j \in DOMAIN Tree : Parent[Tree[j]] \in {Root} \cup {Tree[k] : k \in 1 .. j - 1}
      BY TreeAssumption
    <2>5. Upward(S)
      BY <2>2, <2>4 DEF Upward
    <2>6. Holds(S, r)
      BY <2>1, <2>4, <2>5
    <2>7. r \notin S
      BY <2>1, <2>2, TreeFacts
    <2> QED BY <1>1, <2>3, <2>6, <2>7
  <1> QED BY <1>2, <1>3, <1>4, <1>5, TreeFacts

(* A row is wanted when it is there, switched on, and its group is wanted. *)
LEMMA WantedUp ==
  ASSUME NEW l, NEW r \in Rows, Wanted(l, r)
  PROVE  r \in DOMAIN l /\ \A a \in Above[r] : a \in DOMAIN l /\ Wanted(l, a)
  BY AboveFacts DEF Wanted

(* The records below a context: a fixed point, and the least one. *)
LEMMA UnderFixed ==
  ASSUME NEW g, NEW t
  PROVE  /\ Under(g, t) = UnderOf(Under(g, t), g, t)
         /\ \A S \in SUBSET Rows : UnderOf(S, g, t) \subseteq S => Under(g, t) \subseteq S
  <1> DEFINE U == Under(g, t)
             V == UnderOf(U, g, t)
  <1>1. U \subseteq Rows /\ \A r \in Rows : r \in U <=> \A S \in SUBSET Rows : UnderOf(S, g, t) \subseteq S => r \in S
    BY DEF Under
  <1>2. \A S, W \in SUBSET Rows : S \subseteq W => UnderOf(S, g, t) \subseteq UnderOf(W, g, t)
    BY DEF UnderOf
  <1>3. \A S \in SUBSET Rows : UnderOf(S, g, t) \subseteq Rows
    BY DEF UnderOf
  <1> HIDE DEF U, V
  <1>4. \A S \in SUBSET Rows : UnderOf(S, g, t) \subseteq S => U \subseteq S
    BY <1>1
  <1>5. V \subseteq U
    <2>1. ASSUME NEW r \in V, NEW S \in SUBSET Rows, UnderOf(S, g, t) \subseteq S PROVE r \in S
      <3>1. V \subseteq UnderOf(S, g, t)
        BY <1>1, <1>2, <1>4, <2>1 DEF V
      <3> QED BY <2>1, <3>1
    <2>2. V \subseteq Rows
      BY <1>1, <1>3 DEF V
    <2> QED BY <1>1, <2>1, <2>2
  <1>6. U \subseteq V
    <2>1. V \in SUBSET Rows /\ U \in SUBSET Rows
      BY <1>1, <1>5
    <2>2. UnderOf(V, g, t) \subseteq V
      BY <1>2, <1>5, <2>1 DEF V
    <2> QED BY <1>4, <2>1, <2>2
  <1> QED BY <1>4, <1>5, <1>6 DEF U, V

-----------------------------------------------------------------------------
(* The tables: records, contexts and fibers *)

Finite ==
  /\ IsFiniteSet(Tokens)
  /\ \A t \in Tokens : t \in Nat /\ RootToken < t /\ t <= RootToken + Cardinality(Tokens)

(* A fiber runs in the root's context, or in that of a fiber of its group; *)
(* it unloads because it ends or restarts, and a group never fails.        *)
Lives(t) ==
  LET f == fiber[t] IN
  /\ f.parent < t
  /\ \/ f.parent = RootToken /\ Parent[f.row] = Root
     \/ f.parent \in Tokens /\ fiber[f.parent].row = Parent[f.row]
  /\ f.st \in {"Unloading", "Draining"} => f.ending \/ f.restart
  /\ f.st = "Disposed" => f.ending
  /\ f.row \in Groups => f.st # "Failed"

(* A context is registered by the group's record, while its fiber has one. *)
Registered(g) ==
  groups[g] # NoToken =>
    /\ IsRunning(g) /\ running[g].token = groups[g]
    /\ fiber[groups[g]].st \in {"Active", "Unloading"}

(* A record is of a watched fiber, in the context its group has now; the   *)
(* fiber ends only by itself or because its group unloads.                 *)
RecordOf(r) ==
  IsRunning(r) =>
    LET t == running[r].token IN
    /\ t \in Tokens /\ t \in watched
    /\ fiber[t].row = r /\ fiber[t].parent = running[r].parent
    /\ groups[Parent[r]] = running[r].parent
    /\ fiber[t].ending =>
         fiber[t].self \/ (Parent[r] # Root /\ fiber[running[r].parent].st = "Unloading")
    /\ r \in Groups /\ fiber[t].st \in {"Active", "Unloading"} => groups[r] = t

(* A fiber no record is of ends, or is below one that goes. *)
Stray(t) == running[fiber[t].row].token # t

StrayGoes(t) ==
  Stray(t) => \/ fiber[t].ending
              \/ /\ fiber[t].parent \in Tokens
                 /\ Stray(fiber[t].parent) \/ fiber[fiber[t].parent].st = "Unloading"

Placed ==
  /\ RowsTypeOK /\ fiber \in [Tokens -> FiberRecord] /\ Finite
  /\ groups[Root] = RootToken

Rowed ==
  /\ Placed
  /\ \A t \in Tokens : Lives(t)
  /\ \A t \in Tokens : StrayGoes(t)
  /\ \A g \in Groups : Registered(g)
  /\ \A r \in Rows : RecordOf(r)
  /\ \A t \in disables : fiber[t].self

(* What the types say, one fact at a time. *)
LEMMA Typed ==
  ASSUME Placed
  PROVE  /\ \A t \in Tokens : /\ t \in Nat /\ t # NoToken /\ t # RootToken /\ RootToken < t
                              /\ fiber[t].row \in Rows /\ fiber[t].parent \in Nat
                              /\ fiber[t].st \in FiberState
                              /\ fiber[t].ending \in BOOLEAN /\ fiber[t].restart \in BOOLEAN
                              /\ fiber[t].config \in Configs
                              /\ fiber[t].self \in BOOLEAN /\ fiber[t].late \in BOOLEAN
         /\ \A r \in Rows : IsRunning(r) => /\ running[r] \in Record
                                            /\ running[r].token \in Nat
                                            /\ running[r].parent \in Nat
                                            /\ running[r].config \in Configs
                                            /\ running[r].inject \in Injects
         /\ \A r \in Rows : ~ IsRunning(r) => running[r] = NoRecord /\ running[r].token = NoToken
         /\ \A g \in Groups \cup {Root} : groups[g] \in Nat
         /\ DOMAIN running = Rows /\ DOMAIN groups = Groups \cup {Root}
         /\ watched \subseteq Tokens /\ disables \subseteq Tokens /\ abandoned \subseteq Tokens
  <1>1. \A t \in Tokens : t \in Nat /\ t # NoToken /\ t # RootToken /\ RootToken < t
    BY DEF Placed, Finite, NoToken, RootToken
  <1>2. \A t \in Tokens : fiber[t] \in FiberRecord
    BY DEF Placed
  <1>3. \A t \in Tokens : /\ fiber[t].row \in Rows /\ fiber[t].parent \in Nat
                              /\ fiber[t].st \in FiberState
                              /\ fiber[t].ending \in BOOLEAN /\ fiber[t].restart \in BOOLEAN
                              /\ fiber[t].config \in Configs
                              /\ fiber[t].self \in BOOLEAN /\ fiber[t].late \in BOOLEAN
    BY <1>2 DEF FiberRecord
  <1>4. running \in [Rows -> Record \cup {NoRecord}] /\ groups \in [Groups \cup {Root} -> Nat]
        /\ watched \subseteq Tokens /\ disables \subseteq Tokens /\ abandoned \subseteq Tokens
    BY DEF Placed, RowsTypeOK
  <1>5. NoRecord.token = NoToken
    BY DEF NoRecord, NoToken
  <1>6. \A x \in Record : x.token \in Nat /\ x.parent \in Nat /\ x.config \in Configs /\ x.inject \in Injects
    BY DEF Record
  <1> QED BY <1>1, <1>3, <1>4, <1>5, <1>6 DEF IsRunning

(* The record of a row and that of its group. *)
LEMMA Records ==
  ASSUME Rowed, NEW r \in Rows, IsRunning(r)
  PROVE  /\ running[r].token \in Tokens /\ running[r].token # NoToken
         /\ fiber[running[r].token].row = r
         /\ fiber[running[r].token].parent = running[r].parent
         /\ groups[Parent[r]] = running[r].parent /\ running[r].parent # NoToken
         /\ Parent[r] = Root => running[r].parent = RootToken
         /\ Parent[r] # Root => /\ Parent[r] \in Rows /\ Parent[r] \in Groups
                                /\ IsRunning(Parent[r])
                                /\ running[Parent[r]].token = running[r].parent
                                /\ running[r].parent \in Tokens
                                /\ fiber[running[r].parent].st \in {"Active", "Unloading"}
  <1> DEFINE t == running[r].token
             p == running[r].parent
  <1>1. t \in Tokens /\ fiber[t].row = r /\ fiber[t].parent = p /\ groups[Parent[r]] = p
    BY DEF Rowed, RecordOf
  <1>2. t # NoToken
    BY <1>1, Typed DEF Rowed
  <1>3. Lives(t)
    BY <1>1 DEF Rowed
  <1>4. \/ p = RootToken /\ Parent[r] = Root
        \/ p \in Tokens /\ fiber[p].row = Parent[r]
    <2>1. \/ fiber[t].parent = RootToken /\ Parent[fiber[t].row] = Root
          \/ fiber[t].parent \in Tokens /\ fiber[fiber[t].parent].row = Parent[fiber[t].row]
      BY <1>3 DEF Lives
    <2> HIDE DEF t, p
    <2> QED BY <1>1, <2>1
  <1>5. p # NoToken
    BY <1>4, Typed DEF RootToken, NoToken, Rowed
  <1>6. Parent[r] = Root => p = RootToken
    BY <1>1 DEF Rowed, Placed
  <1>7. ASSUME Parent[r] # Root
        PROVE  /\ Parent[r] \in Rows /\ Parent[r] \in Groups
               /\ IsRunning(Parent[r])
               /\ running[Parent[r]].token = p
               /\ p \in Tokens
               /\ fiber[p].st \in {"Active", "Unloading"}
    <2>1. Parent[r] \in Groups /\ Parent[r] \in Rows
      BY <1>7, TreeFacts
    <2>2. Registered(Parent[r])
      BY <2>1 DEF Rowed
    <2> QED BY <1>1, <1>4, <1>5, <1>7, <2>1, <2>2 DEF Registered
  <1> QED BY <1>1, <1>2, <1>5, <1>6, <1>7

(* Above a record there are records, and their contexts are registered. *)
LEMMA RecordsAbove ==
  ASSUME Rowed
  PROVE  \A r \in Rows : IsRunning(r) => \A a \in Above[r] :
           IsRunning(a) /\ groups[a] = running[a].token /\ groups[a] # NoToken
  <1> DEFINE Good(a) == IsRunning(a) /\ groups[a] = running[a].token /\ groups[a] # NoToken
             S == {r \in Rows : IsRunning(r) => \A a \in Above[r] : Good(a)}
  <1>1. ASSUME NEW r \in Rows, Parent[r] \in S \cup {Root}, IsRunning(r), NEW a \in Above[r]
        PROVE  Good(a)
    <2>1. Parent[r] # Root
      BY <1>1, AboveStep
    <2>2. IsRunning(Parent[r]) /\ Good(Parent[r])
      BY <1>1, <2>1, Records
    <2>3. a = Parent[r] \/ a \in Above[Parent[r]]
      BY <1>1, <2>1, AboveStep
    <2>4. Parent[r] \in S
      BY <1>1, <2>1
    <2> QED BY <2>2, <2>3, <2>4
  <1>2. S = Rows
    <2>1. \A r \in Rows : Parent[r] \in S \cup {Root} => r \in S
      BY <1>1
    <2>2. S \in SUBSET Rows
      OBVIOUS
    <2> HIDE DEF S
    <2> QED BY <2>1, <2>2, TreeInduction
  <1> QED BY <1>2

(* Records below a registered context: all of its rows, at any depth. *)
LEMMA UnderRegistered ==
  ASSUME Rowed, NEW g \in Groups, groups[g] # NoToken
  PROVE  Under(g, groups[g]) = {r \in Rows : IsRunning(r) /\ g \in Above[r]}
  <1> DEFINE t == groups[g]
             U == Under(g, t)
             B == {r \in Rows : IsRunning(r) /\ g \in Above[r]}
  <1>0. g \in Rows /\ g # Root
    BY TreeFacts
  <1>1. U \subseteq B
    <2>1. ASSUME NEW r \in UnderOf(B, g, t) PROVE r \in B
      <3>1. r \in Rows /\ IsRunning(r) /\ (Parent[r] = g \/ Parent[r] \in B)
        BY <2>1 DEF UnderOf
      <3>2. Parent[r] # Root
        BY <1>0, <3>1, TreeFacts
      <3>3. Above[r] = {Parent[r]} \cup Above[Parent[r]]
        BY <3>1, <3>2, AboveStep
      <3> QED BY <3>1, <3>3
    <2>2. UnderOf(B, g, t) \subseteq B /\ B \in SUBSET Rows
      BY <2>1
    <2> HIDE DEF B, t
    <2> QED BY <2>2, UnderFixed
  <1>2. B \subseteq U
    <2> DEFINE S == {r \in Rows : r \in B => r \in U}
    <2>1. ASSUME NEW r \in Rows, Parent[r] \in S \cup {Root}, r \in B PROVE r \in U
      <3>1. IsRunning(r) /\ Parent[r] # Root /\ g \in Above[r]
        BY <2>1, AboveStep
      <3>2. IsRunning(Parent[r]) /\ running[Parent[r]].token = running[r].parent
            /\ groups[Parent[r]] = running[r].parent
        BY <3>1, Records
      <3>3. CASE Parent[r] = g
        <4>1. r \in UnderOf(U, g, t)
          BY <3>1, <3>2, <3>3 DEF UnderOf
        <4> HIDE DEF U, t
        <4> QED BY <4>1, UnderFixed DEF U
      <3>4. CASE Parent[r] # g
        <4>1. g \in Above[Parent[r]]
          BY <3>1, <3>4, AboveStep
        <4>2. Parent[r] \in U
          BY <2>1, <3>1, <3>2, <4>1
        <4>3. r \in UnderOf(U, g, t)
          BY <3>1, <3>2, <4>2 DEF UnderOf
        <4> HIDE DEF U, t
        <4> QED BY <4>3, UnderFixed DEF U
      <3> QED BY <3>3, <3>4
    <2>2. \A r \in Rows : Parent[r] \in S \cup {Root} => r \in S
      BY <2>1
    <2>3. S \in SUBSET Rows
      OBVIOUS
    <2>4. S = Rows
      <3> HIDE DEF S
      <3> QED BY <2>2, <2>3, TreeInduction
    <2> QED BY <2>4
  <1> QED BY <1>1, <1>2

(* A context that is not registered has no records in it, at any depth. *)
LEMMA UnderUnregistered ==
  ASSUME Rowed, NEW g \in Rows, NEW t, g \in Groups => groups[g] # t
  PROVE  Under(g, t) = {}
  <1>1. ASSUME NEW r \in UnderOf({}, g, t) PROVE FALSE
    <2>1. r \in Rows /\ IsRunning(r) /\ Parent[r] = g /\ running[r].parent = t
      BY <1>1 DEF UnderOf
    <2> QED BY <2>1, Records, TreeFacts
  <1>2. UnderOf({}, g, t) \subseteq {} /\ {} \in SUBSET Rows
    BY <1>1
  <1> QED BY <1>2, UnderFixed

-----------------------------------------------------------------------------
(* One step of the tables *)

(* A fiber in another's context is of a row of its group. *)
LEMMA InAGroup ==
  ASSUME Rowed, NEW t \in Tokens, fiber[t].parent \in Tokens
  PROVE  /\ fiber[fiber[t].parent].row \in Groups
         /\ fiber[fiber[t].parent].row = Parent[fiber[t].row]
         /\ Parent[fiber[t].row] # Root
         /\ fiber[t].parent < t
  <1>1. Lives(t)
    BY DEF Rowed
  <1>2. fiber[t].parent # RootToken
    BY Typed DEF Rowed
  <1>3. fiber[fiber[t].parent].row = Parent[fiber[t].row] /\ fiber[t].parent < t
    BY <1>1, <1>2 DEF Lives
  <1>4. fiber[fiber[t].parent].row \in Rows /\ fiber[t].row \in Rows
    BY Typed DEF Rowed
  <1> QED BY <1>3, <1>4, TreeFacts

(* A group is registered under its record's token, from its apply to its  *)
(* cleanup.                                                                *)
LEMMA WhenRegistered ==
  ASSUME Rowed, NEW g \in Groups
  PROVE  /\ groups[g] # NoToken => /\ g \in Rows /\ IsRunning(g) /\ groups[g] = running[g].token
                                   /\ groups[g] \in Tokens /\ fiber[groups[g]].row = g
                                   /\ fiber[groups[g]].st \in {"Active", "Unloading"}
         /\ IsRunning(g) /\ fiber[running[g].token].st \in {"Active", "Unloading"} =>
              groups[g] = running[g].token
  BY Records, TreeFacts DEF Rowed, Registered, RecordOf

(* A fiber that is not stray is its row's record. *)
LEMMA NotStray ==
  ASSUME Rowed, NEW t \in Tokens
  PROVE  ~ Stray(t) <=> IsRunning(fiber[t].row) /\ running[fiber[t].row].token = t
  BY Typed DEF Stray, Rowed

(* A step that changes what one fiber is doing, and nothing else, keeps    *)
(* the tables, as long as the fiber stays in its context.                  *)
LEMMA OneFiber ==
  ASSUME Rowed, NEW t \in Tokens, NEW f \in FiberRecord,
         fiber' = [fiber EXCEPT ![t] = f],
         UNCHANGED <<running, groups, watched>>,
         desired' \in Layers, disables' \subseteq disables, abandoned' \subseteq Tokens,
         f.row = fiber[t].row, f.parent = fiber[t].parent,
         f.st \in {"Unloading", "Draining"} => f.ending \/ f.restart,
         f.st = "Disposed" => f.ending,
         f.row \in Groups => f.st # "Failed",
         fiber[t].ending => f.ending, fiber[t].self => f.self,
         f.ending => fiber[t].ending \/ f.self,
         f.row \in Groups /\ fiber[t].st = "Unloading" => f.st = "Unloading",
         f.row \in Groups /\ ~ Stray(t) =>
           (f.st \in {"Active", "Unloading"} <=> fiber[t].st \in {"Active", "Unloading"})
  PROVE  Rowed'
  <1>1. Tokens' = Tokens /\ fiber' \in [Tokens -> FiberRecord]
        /\ \A x \in Tokens : fiber'[x] = IF x = t THEN f ELSE fiber[x]
    BY DEF Rowed, Placed, Tokens
  <1>2. \A x \in Tokens : /\ fiber'[x].row = fiber[x].row /\ fiber'[x].parent = fiber[x].parent
                          /\ fiber[x].ending => fiber'[x].ending
                          /\ fiber[x].self => fiber'[x].self
                          /\ fiber'[x].ending => fiber[x].ending \/ fiber'[x].self
                          /\ fiber[x].row \in Groups /\ fiber[x].st = "Unloading" => fiber'[x].st = "Unloading"
                          /\ fiber[x].row \in Groups /\ ~ Stray(x) =>
                               (fiber'[x].st \in {"Active", "Unloading"} <=> fiber[x].st \in {"Active", "Unloading"})
    BY <1>1
  <1>3. Placed'
    BY <1>1 DEF Rowed, Placed, RowsTypeOK, Finite
  <1>4. ASSUME NEW x \in Tokens PROVE Lives(x)'
    <2>1. Lives(x)
      BY DEF Rowed
    <2>2. \/ fiber'[x].parent = RootToken /\ Parent[fiber'[x].row] = Root
          \/ fiber'[x].parent \in Tokens /\ fiber'[fiber'[x].parent].row = Parent[fiber'[x].row]
      BY <1>2, <2>1 DEF Lives
    <2>3. fiber'[x].parent < x
      BY <1>2, <2>1 DEF Lives
    <2>4. /\ fiber'[x].st \in {"Unloading", "Draining"} => fiber'[x].ending \/ fiber'[x].restart
          /\ fiber'[x].st = "Disposed" => fiber'[x].ending
          /\ fiber'[x].row \in Groups => fiber'[x].st # "Failed"
      <3>1. CASE x = t
        BY <1>1, <3>1
      <3>2. CASE x # t
        BY <1>1, <2>1, <3>2 DEF Lives
      <3> QED BY <3>1, <3>2
    <2> QED BY <1>1, <2>2, <2>3, <2>4 DEF Lives
  <1>5. ASSUME NEW x \in Tokens PROVE StrayGoes(x)'
    <2>1. StrayGoes(x)
      BY DEF Rowed
    <2>2. \A y \in Tokens : Stray(y)' <=> Stray(y)
      BY <1>2 DEF Stray
    <2>3. CASE ~ Stray(x)
      BY <2>2, <2>3 DEF StrayGoes
    <2>4. CASE fiber[x].ending
      BY <1>2, <2>4 DEF StrayGoes
    <2>5. CASE fiber[x].parent \in Tokens /\ Stray(fiber[x].parent)
      BY <1>1, <1>2, <2>2, <2>5 DEF StrayGoes
    <2>6. CASE fiber[x].parent \in Tokens /\ fiber[fiber[x].parent].st = "Unloading"
      BY <1>1, <1>2, <2>6, InAGroup DEF StrayGoes
    <2> QED BY <2>1, <2>3, <2>4, <2>5, <2>6 DEF StrayGoes
  <1>6. ASSUME NEW g \in Groups PROVE Registered(g)'
    BY <1>2, WhenRegistered, NotStray DEF Registered, IsRunning
  <1>7. ASSUME NEW r \in Rows PROVE RecordOf(r)'
    <2> SUFFICES ASSUME IsRunning(r) PROVE RecordOf(r)'
      BY DEF RecordOf, IsRunning
    <2> DEFINE x == running[r].token
               p == running[r].parent
    <2>1. /\ x \in Tokens /\ x \in watched
          /\ fiber[x].row = r /\ fiber[x].parent = p
          /\ groups[Parent[r]] = p
          /\ fiber[x].ending => fiber[x].self \/ (Parent[r] # Root /\ fiber[p].st = "Unloading")
          /\ r \in Groups /\ fiber[x].st \in {"Active", "Unloading"} => groups[r] = x
      BY DEF Rowed, RecordOf
    <2>2. ~ Stray(x)
      BY <2>1 DEF Stray
    <2>3. Parent[r] # Root => p \in Tokens /\ fiber[p].row \in Groups
      BY <2>1, Records, InAGroup
    <2>4. fiber'[x].ending => fiber'[x].self \/ (Parent[r] # Root /\ fiber'[p].st = "Unloading")
      BY <1>2, <2>1, <2>3
    <2>5. r \in Groups /\ fiber'[x].st \in {"Active", "Unloading"} => groups[r] = x
      BY <1>2, <2>1, <2>2
    <2> HIDE DEF x, p
    <2>6. fiber'[x].row = r /\ fiber'[x].parent = p
      BY <1>2, <2>1
    <2>7. running' = running /\ groups' = groups /\ watched' = watched
      OBVIOUS
    <2> QED BY <1>1, <2>1, <2>4, <2>5, <2>6, <2>7 DEF RecordOf, IsRunning, x, p
  <1>8. \A x \in disables' : fiber'[x].self
    BY <1>2, Typed DEF Rowed
  <1> QED BY <1>1, <1>3, <1>4, <1>5, <1>6, <1>7, <1>8 DEF Rowed

-----------------------------------------------------------------------------
(* The steps of one fiber *)

(* A step that gives a fiber another state, and no more than its restart. *)
LEMMA NewState ==
  ASSUME Rowed, NEW t \in Tokens, NEW s \in FiberState, NEW f \in FiberRecord,
         f = [fiber[t] EXCEPT !.st = s] \/ f = [fiber[t] EXCEPT !.st = s, !.restart = FALSE],
         fiber' = [fiber EXCEPT ![t] = f],
         UNCHANGED <<desired, running, groups, watched, disables>>, abandoned' \subseteq Tokens,
         s \in {"Unloading", "Draining"} => f.ending \/ f.restart,
         s = "Disposed" => fiber[t].ending,
         fiber[t].row \in Groups =>
           /\ s # "Failed"
           /\ fiber[t].st = "Unloading" => s = "Unloading"
           /\ s \in {"Active", "Unloading"} <=> fiber[t].st \in {"Active", "Unloading"}
  PROVE  Rowed'
  <1>1. fiber[t] \in FiberRecord /\ desired \in Layers
    BY DEF Rowed, Placed, RowsTypeOK
  <1>2. /\ f.st = s /\ f.row = fiber[t].row /\ f.parent = fiber[t].parent
        /\ f.ending = fiber[t].ending /\ f.self = fiber[t].self
    BY <1>1 DEF FiberRecord
  <1>3. desired' \in Layers /\ disables' \subseteq disables
    BY <1>1
  <1> QED BY <1>2, <1>3, OneFiber, Zenon

(* The tables are kept by a row that loads, ... *)
LEMMA RowedRowLoads ==
  ASSUME Rowed, NEW t \in Tokens, RowLoads(t)
  PROVE  Rowed'
  <1>1. fiber[t] \in FiberRecord /\ abandoned \subseteq Tokens
    BY DEF Rowed, Placed, RowsTypeOK
  <1>2. fiber[t].row \notin Groups /\ UNCHANGED <<desired, running, groups, watched, disables>>
    BY DEF RowLoads, IsGroup
  <1>3. /\ "Unloading" \in FiberState /\ "Loading" \in FiberState /\ "Active" \in FiberState
        /\ "Failed" \in FiberState
    BY DEF FiberState
  <1>4. CASE fiber[t].ending /\ Becomes(t, [fiber[t] EXCEPT !.st = "Unloading"])
    <2>1. [fiber[t] EXCEPT !.st = "Unloading"] \in FiberRecord
          /\ [fiber[t] EXCEPT !.st = "Unloading"].ending
      BY <1>1, <1>4 DEF FiberRecord, FiberState
    <2> QED BY <1>1, <1>2, <1>3, <1>4, <2>1, NewState DEF Becomes
  <1>5. CASE ~ fiber[t].ending /\ fiber[t].restart /\ fiber[t].st = "Loading"
             /\ Becomes(t, [fiber[t] EXCEPT !.restart = FALSE])
    <2>1. [fiber[t] EXCEPT !.restart = FALSE] = [fiber[t] EXCEPT !.st = "Loading", !.restart = FALSE]
          /\ [fiber[t] EXCEPT !.restart = FALSE] \in FiberRecord
      BY <1>1, <1>5 DEF FiberRecord
    <2> QED BY <1>1, <1>2, <1>3, <1>5, <2>1, NewState DEF Becomes
  <1>6. CASE Becomes(t, [fiber[t] EXCEPT !.st = "Active"])
    <2>1. [fiber[t] EXCEPT !.st = "Active"] \in FiberRecord
      BY <1>1 DEF FiberRecord, FiberState
    <2> QED BY <1>1, <1>2, <1>3, <1>6, <2>1, NewState DEF Becomes
  <1>7. CASE Becomes(t, [fiber[t] EXCEPT !.st = "Failed"])
    <2>1. [fiber[t] EXCEPT !.st = "Failed"] \in FiberRecord
      BY <1>1 DEF FiberRecord, FiberState
    <2> QED BY <1>1, <1>2, <1>3, <1>7, <2>1, NewState DEF Becomes
  <1> QED BY <1>4, <1>5, <1>6, <1>7 DEF RowLoads

(* ... by a fiber that restarts, ... *)
LEMMA RowedRestarts ==
  ASSUME Rowed, NEW t \in Tokens, Restarts(t)
  PROVE  Rowed'
  <1>1. fiber[t] \in FiberRecord /\ abandoned \subseteq Tokens
    BY DEF Rowed, Placed, RowsTypeOK
  <1>2. /\ UNCHANGED <<desired, running, groups, watched, disables>>
        /\ fiber[t].restart /\ fiber[t].st \in {"Active", "Failed"}
    BY DEF Restarts
  <1>3. "Unloading" \in FiberState /\ "Loading" \in FiberState
    BY DEF FiberState
  <1>4. CASE IsGroup(t)
    <2>1. [fiber[t] EXCEPT !.st = "Unloading"] \in FiberRecord
          /\ [fiber[t] EXCEPT !.st = "Unloading"].restart
      BY <1>1, <1>2 DEF FiberRecord, FiberState
    <2>2. fiber[t].row \in Groups => fiber[t].st = "Active"
      BY <1>2 DEF Rowed, Lives
    <2>3. Becomes(t, [fiber[t] EXCEPT !.st = "Unloading"])
      BY <1>4 DEF Restarts
    <2> QED BY <1>1, <1>2, <1>3, <2>1, <2>2, <2>3, NewState DEF Becomes
  <1>5. CASE ~ IsGroup(t)
    <2>1. [fiber[t] EXCEPT !.st = "Loading", !.restart = FALSE] \in FiberRecord
      BY <1>1 DEF FiberRecord, FiberState
    <2>2. Becomes(t, [fiber[t] EXCEPT !.st = "Loading", !.restart = FALSE])
      BY <1>5 DEF Restarts
    <2> QED BY <1>1, <1>2, <1>3, <1>5, <2>1, <2>2, NewState DEF Becomes, IsGroup
  <1> QED BY <1>4, <1>5

(* ... by a fiber that ends, ... *)
LEMMA RowedEnds ==
  ASSUME Rowed, NEW t \in Tokens, Ends(t)
  PROVE  Rowed'
  <1>1. fiber[t] \in FiberRecord /\ abandoned \subseteq Tokens
    BY DEF Rowed, Placed, RowsTypeOK
  <1>2. /\ UNCHANGED <<desired, running, groups, watched, disables>>
        /\ fiber[t].ending /\ fiber[t].st \in {"Active", "Failed"}
        /\ Becomes(t, [fiber[t] EXCEPT !.st = "Unloading"])
    BY DEF Ends
  <1>3. "Unloading" \in FiberState
    BY DEF FiberState
  <1>4. [fiber[t] EXCEPT !.st = "Unloading"] \in FiberRecord
        /\ [fiber[t] EXCEPT !.st = "Unloading"].ending
    BY <1>1, <1>2 DEF FiberRecord, FiberState
  <1>5. fiber[t].row \in Groups => fiber[t].st = "Active"
    BY <1>2 DEF Rowed, Lives
  <1> QED BY <1>1, <1>2, <1>3, <1>4, <1>5, NewState DEF Becomes

(* ... by a group that is stopped before it loads, ... *)
LEMMA RowedGroupNeverLoads ==
  ASSUME Rowed, NEW t \in Tokens, GroupNeverLoads(t)
  PROVE  Rowed'
  <1>1. fiber[t] \in FiberRecord /\ abandoned \subseteq Tokens
    BY DEF Rowed, Placed, RowsTypeOK
  <1>2. /\ UNCHANGED <<desired, running, groups, watched, disables>>
        /\ fiber[t].ending /\ fiber[t].st = "Loading"
        /\ Becomes(t, [fiber[t] EXCEPT !.st = "Disposed"])
    BY DEF GroupNeverLoads
  <1>3. "Disposed" \in FiberState
    BY DEF FiberState
  <1>4. [fiber[t] EXCEPT !.st = "Disposed"] \in FiberRecord
    BY <1>1 DEF FiberRecord, FiberState
  <1> QED BY <1>1, <1>2, <1>3, <1>4, NewState DEF Becomes

(* ... by a fiber that has unloaded, ... *)
LEMMA RowedUnloaded ==
  ASSUME Rowed, NEW t \in Tokens, Unloaded(t)
  PROVE  Rowed'
  <1>1. fiber[t] \in FiberRecord /\ abandoned \subseteq Tokens
    BY DEF Rowed, Placed, RowsTypeOK
  <1>2. /\ UNCHANGED <<desired, running, groups, watched, disables>>
        /\ fiber[t].st \in {"Unloading", "Draining"}
        /\ fiber[t].row \in Groups => fiber[t].st = "Draining"
    BY DEF Unloaded, IsGroup
  <1>3. "Disposed" \in FiberState /\ "Loading" \in FiberState
    BY DEF FiberState
  <1>4. fiber[t].ending \/ fiber[t].restart
    BY <1>2 DEF Rowed, Lives
  <1>5. fiber[t].ending \in BOOLEAN /\ fiber[t].restart \in BOOLEAN
    BY Typed DEF Rowed
  <1>6. CASE fiber[t].restart /\ ~ fiber[t].ending
    <2>1. [fiber[t] EXCEPT !.st = "Loading", !.restart = FALSE] \in FiberRecord
      BY <1>1 DEF FiberRecord, FiberState
    <2>2. Becomes(t, [fiber[t] EXCEPT !.st = "Loading", !.restart = FALSE])
      BY <1>6 DEF Unloaded
    <2> QED BY <1>1, <1>2, <1>3, <2>1, <2>2, NewState DEF Becomes
  <1>7. CASE ~ (fiber[t].restart /\ ~ fiber[t].ending)
    <2>1. [fiber[t] EXCEPT !.st = "Disposed"] \in FiberRecord
      BY <1>1 DEF FiberRecord, FiberState
    <2>2. Becomes(t, [fiber[t] EXCEPT !.st = "Disposed"])
      BY <1>7 DEF Unloaded
    <2> QED BY <1>1, <1>2, <1>3, <1>4, <1>5, <1>7, <2>1, <2>2, NewState DEF Becomes
  <1> QED BY <1>6, <1>7

(* ... and by one that must unload though nobody asked for it. *)
LEMMA RowedUpsets ==
  ASSUME Rowed, NEW t \in Tokens, Upsets(t)
  PROVE  Rowed'
  <1>1. fiber[t] \in FiberRecord /\ abandoned \subseteq Tokens /\ desired \in Layers
    BY DEF Rowed, Placed, RowsTypeOK
  <1>2. /\ UNCHANGED <<desired, running, groups, watched, disables, abandoned>>
        /\ fiber[t].st = "Active"
    BY DEF Upsets, DisposedOutside, GroupReloads
  <1>3. Lives(t)
    BY DEF Rowed
  <1>4. CASE DisposedOutside(t)
    <2> DEFINE f == [fiber[t] EXCEPT !.ending = TRUE, !.self = TRUE]
    <2>1. f \in FiberRecord
      BY <1>1 DEF FiberRecord
    <2>2. fiber' = [fiber EXCEPT ![t] = f]
      BY <1>4 DEF DisposedOutside
    <2>3. f.row = fiber[t].row /\ f.parent = fiber[t].parent /\ f.st = "Active"
          /\ f.ending /\ f.self
      BY <1>1, <1>2 DEF FiberRecord
    <2> HIDE DEF f
    <2>4. desired' \in Layers /\ disables' \subseteq disables /\ abandoned' \subseteq Tokens
      BY <1>1, <1>2
    <2> QED BY <1>2, <2>1, <2>2, <2>3, <2>4, OneFiber
  <1>5. CASE GroupReloads(t)
    <2> DEFINE f == [fiber[t] EXCEPT !.restart = TRUE]
    <2>1. f \in FiberRecord
      BY <1>1 DEF FiberRecord
    <2>2. fiber' = [fiber EXCEPT ![t] = f]
      BY <1>5 DEF GroupReloads
    <2>3. f.row = fiber[t].row /\ f.parent = fiber[t].parent /\ f.st = "Active"
          /\ f.ending = fiber[t].ending /\ f.self = fiber[t].self
      BY <1>1, <1>2 DEF FiberRecord
    <2> HIDE DEF f
    <2>4. desired' \in Layers /\ disables' \subseteq disables /\ abandoned' \subseteq Tokens
      BY <1>1, <1>2
    <2> QED BY <1>2, <2>1, <2>2, <2>3, <2>4, OneFiber
  <1> QED BY <1>4, <1>5 DEF Upsets

-----------------------------------------------------------------------------
(* The steps that drop records *)

(* A fiber either stays in its state, or was cleaned up: it drains, what is *)
(* in its context ends, and neither record nor context holds it.           *)
CleanedUp(x, gone) ==
  /\ fiber[x].st = "Unloading" /\ fiber'[x].st = "Draining"
  /\ \A c \in Tokens : fiber[c].parent = x => fiber'[c].ending
  /\ \A r \in Rows \ gone : IsRunning(r) => running[r].parent # x
  /\ \A g \in Groups : groups'[g] # x

(* Records dropped with the contexts below them leave the tables right, if *)
(* the fibers that are no longer registered have gone or are going.        *)
LEMMA Dropping ==
  ASSUME Rowed, NEW gone \in SUBSET Rows,
         running' = Without(gone),
         groups' \in [Groups \cup {Root} -> Nat], groups'[Root] = groups[Root],
         fiber' \in [Tokens -> FiberRecord],
         watched' \subseteq watched, desired' \in Layers, abandoned' \subseteq Tokens,
         disables' \subseteq Tokens,
         \A g \in Groups : \/ groups'[g] = NoToken
                           \/ groups'[g] = groups[g] /\ g \notin gone,
         \A r \in Rows \ gone : IsRunning(r) =>
            /\ groups'[Parent[r]] = groups[Parent[r]]
            /\ running[r].token \in watched'
            /\ fiber'[running[r].token].ending => fiber[running[r].token].ending
            /\ r \in Groups => \/ groups'[r] = groups[r]
                               \/ fiber'[running[r].token].st = "Draining",
         \A x \in Tokens : /\ fiber'[x].row = fiber[x].row /\ fiber'[x].parent = fiber[x].parent
                           /\ fiber'[x].self = fiber[x].self
                           /\ fiber'[x].restart = fiber[x].restart
                           /\ fiber[x].ending => fiber'[x].ending
                           /\ fiber'[x].st = fiber[x].st \/ CleanedUp(x, gone),
         \A r \in gone : IsRunning(r) =>
            \/ fiber'[running[r].token].ending
            \/ Parent[r] # Root /\ Parent[r] \in gone,
         \A x \in disables' : fiber[x].self
  PROVE  Rowed'
  <1>1. Tokens' = Tokens
    BY DEF Tokens
  <1>2. running' \in [Rows -> Record \cup {NoRecord}]
        /\ \A r \in Rows : running'[r] = IF r \in gone THEN NoRecord ELSE running[r]
    BY DEF Without, Rowed, Placed, RowsTypeOK
  <1>3. Placed'
    BY <1>1, <1>2 DEF Rowed, Placed, RowsTypeOK, Finite
  <1>4. ASSUME NEW x \in Tokens PROVE Lives(x)'
    <2>1. Lives(x)
      BY DEF Rowed
    <2>2. /\ fiber'[x].row = fiber[x].row /\ fiber'[x].parent = fiber[x].parent
          /\ fiber'[x].restart = fiber[x].restart
          /\ fiber[x].ending => fiber'[x].ending
          /\ fiber'[x].st = fiber[x].st \/ (fiber[x].st = "Unloading" /\ fiber'[x].st = "Draining")
      BY DEF CleanedUp
    <2>3. \A y \in Tokens : fiber'[y].row = fiber[y].row
      OBVIOUS
    <2> QED BY <1>1, <2>1, <2>2, <2>3 DEF Lives
  <1>5. ASSUME NEW x \in Tokens, Stray(x) PROVE Stray(x)'
    BY <1>2, <1>5, Typed DEF Stray, NoRecord, Rowed
  <1>6. ASSUME NEW x \in Tokens PROVE StrayGoes(x)'
    <2> DEFINE r == fiber[x].row
    <2>1. StrayGoes(x)
      BY DEF Rowed
    <2>2. r \in Rows /\ fiber'[x].row = r /\ fiber'[x].parent = fiber[x].parent
      BY Typed DEF Rowed
    <2>3. CASE ~ Stray(x) /\ r \notin gone
      <3>1. ~ Stray(x)'
        BY <1>2, <2>2, <2>3 DEF Stray
      <3> QED BY <3>1 DEF StrayGoes
    <2>4. CASE ~ Stray(x) /\ r \in gone
      <3>1. IsRunning(r) /\ running[r].token = x
        BY <2>4, NotStray
      <3>2. CASE fiber'[x].ending
        BY <3>2 DEF StrayGoes
      <3>3. CASE Parent[r] # Root /\ Parent[r] \in gone
        <4>1. fiber[x].parent \in Tokens /\ fiber[fiber[x].parent].row = Parent[r]
          BY <2>2, <3>1, <3>3, Records
        <4>2. fiber'[fiber'[x].parent].row = Parent[r] /\ fiber[x].parent # NoToken
          BY <2>2, <4>1, Typed DEF Rowed
        <4>3. running'[Parent[r]].token = NoToken
          BY <1>2, <3>3 DEF NoRecord, NoToken
        <4>4. Stray(fiber[x].parent)'
          BY <2>2, <4>2, <4>3 DEF Stray
        <4> QED BY <1>1, <2>2, <4>1, <4>4 DEF StrayGoes
      <3> QED BY <2>4, <3>1, <3>2, <3>3
    <2>5. CASE fiber[x].ending
      BY <2>5 DEF StrayGoes
    <2>6. CASE fiber[x].parent \in Tokens /\ Stray(fiber[x].parent)
      BY <1>1, <1>5, <2>2, <2>6 DEF StrayGoes
    <2>7. CASE fiber[x].parent \in Tokens /\ fiber[fiber[x].parent].st = "Unloading"
      <3> DEFINE p == fiber[x].parent
      <3>1. fiber'[p].st = "Unloading" \/ CleanedUp(p, gone)
        BY <2>7
      <3>2. CASE CleanedUp(p, gone)
        BY <3>2 DEF CleanedUp, StrayGoes
      <3>3. CASE fiber'[p].st = "Unloading"
        BY <1>1, <2>2, <2>7, <3>3 DEF StrayGoes
      <3> QED BY <3>1, <3>2, <3>3
    <2> QED BY <2>1, <2>3, <2>4, <2>5, <2>6, <2>7 DEF StrayGoes
  <1>7. ASSUME NEW g \in Groups PROVE Registered(g)'
    <2> SUFFICES ASSUME groups'[g] # NoToken PROVE Registered(g)'
      BY DEF Registered
    <2>1. groups'[g] = groups[g] /\ g \notin gone
      OBVIOUS
    <2>2. g \in Rows /\ IsRunning(g) /\ groups[g] = running[g].token
          /\ groups[g] \in Tokens /\ fiber[groups[g]].st \in {"Active", "Unloading"}
      BY <2>1, WhenRegistered
    <2>3. ~ CleanedUp(groups[g], gone)
      BY <2>1 DEF CleanedUp
    <2>4. fiber'[groups[g]].st = fiber[groups[g]].st
      BY <2>2, <2>3
    <2> QED BY <1>2, <2>1, <2>2, <2>4 DEF Registered, IsRunning
  <1>8. ASSUME NEW r \in Rows PROVE RecordOf(r)'
    <2> SUFFICES ASSUME IsRunning(r)' PROVE RecordOf(r)'
      BY DEF RecordOf
    <2>1. r \notin gone /\ IsRunning(r) /\ running'[r] = running[r]
      BY <1>2 DEF IsRunning
    <2> DEFINE x == running[r].token
               p == running[r].parent
    <2>2. /\ x \in Tokens /\ fiber[x].row = r /\ fiber[x].parent = p
          /\ groups[Parent[r]] = p
          /\ fiber[x].ending => fiber[x].self \/ (Parent[r] # Root /\ fiber[p].st = "Unloading")
          /\ r \in Groups /\ fiber[x].st \in {"Active", "Unloading"} => groups[r] = x
      BY <2>1 DEF Rowed, RecordOf
    <2>3. Parent[r] # Root => p \in Tokens
      BY <2>1, Records
    <2>4. /\ groups'[Parent[r]] = groups[Parent[r]] /\ x \in watched'
          /\ fiber'[x].ending => fiber[x].ending
          /\ r \in Groups => groups'[r] = groups[r] \/ fiber'[x].st = "Draining"
      BY <2>1
    <2>5. Parent[r] # Root => fiber'[p].st = fiber[p].st
      BY <2>1, <2>3 DEF CleanedUp
    <2>6. /\ fiber'[x].row = r /\ fiber'[x].parent = p /\ fiber'[x].self = fiber[x].self
          /\ fiber'[x].st = fiber[x].st \/ fiber'[x].st = "Draining"
      BY <2>2 DEF CleanedUp
    <2>7. running'[r].token = x /\ running'[r].parent = p
      BY <2>1
    <2> HIDE DEF x, p
    <2>8. r \in Groups /\ fiber'[x].st \in {"Active", "Unloading"} => groups'[r] = x
      BY <2>2, <2>4, <2>6
    <2>9. fiber'[x].ending => fiber'[x].self \/ (Parent[r] # Root /\ fiber'[p].st = "Unloading")
      BY <2>2, <2>4, <2>5, <2>6
    <2> QED BY <1>1, <2>2, <2>4, <2>6, <2>7, <2>8, <2>9 DEF RecordOf
  <1>9. \A x \in disables' : fiber'[x].self
    OBVIOUS
  <1> QED BY <1>1, <1>3, <1>4, <1>6, <1>7, <1>8, <1>9 DEF Rowed

(* A group that ends late drops what is below it, and the tables are kept: *)
(* ...                                                                     *)
LEMMA RowedEndLate ==
  ASSUME Rowed, NEW t \in Tokens, EndLate(t)
  PROVE  Rowed'
  <1>1. UNCHANGED <<desired, running, groups, watched, disables, abandoned>>
        /\ fiber[t].st = "Unloading"
    BY DEF EndLate
  <1>2. \A x \in Tokens : fiber[x] \in FiberRecord
    BY DEF Rowed, Placed
  <1>3. /\ Tokens' = Tokens /\ DOMAIN fiber' = Tokens
        /\ fiber' = [x \in Tokens |->
             IF x \in LateChildren(t) THEN [fiber[x] EXCEPT !.ending = TRUE] ELSE fiber[x]]
    BY DEF EndLate, Tokens
  <1>4. \A x \in Tokens : [fiber[x] EXCEPT !.ending = TRUE] \in FiberRecord
    BY <1>2 DEF FiberRecord
  <1>5. fiber' \in [Tokens -> FiberRecord]
    BY <1>2, <1>3, <1>4
  <1>6. \A x \in Tokens : /\ fiber'[x].row = fiber[x].row /\ fiber'[x].parent = fiber[x].parent
                          /\ fiber'[x].st = fiber[x].st /\ fiber'[x].restart = fiber[x].restart
                          /\ fiber'[x].self = fiber[x].self
                          /\ fiber[x].ending => fiber'[x].ending
                          /\ fiber'[x].ending => fiber[x].ending \/ fiber[x].parent = t
    <2> TAKE x \in Tokens
    <2>1. CASE x \in LateChildren(t)
      <3>1. fiber'[x] = [fiber[x] EXCEPT !.ending = TRUE] /\ fiber[x].parent = t
        BY <1>3, <2>1 DEF LateChildren, Children
      <3> QED BY <1>2, <3>1 DEF FiberRecord
    <2>2. CASE x \notin LateChildren(t)
      BY <1>3, <2>2
    <2> QED BY <2>1, <2>2
  <1>7. Placed'
    BY <1>1, <1>3, <1>5 DEF Rowed, Placed, RowsTypeOK, Finite
  <1>8. ASSUME NEW x \in Tokens PROVE Lives(x)'
    <2>1. Lives(x)
      BY DEF Rowed
    <2> QED BY <1>3, <1>6, <2>1 DEF Lives
  <1>9. ASSUME NEW x \in Tokens PROVE StrayGoes(x)'
    <2>1. StrayGoes(x)
      BY DEF Rowed
    <2>2. \A y \in Tokens : Stray(y)' <=> Stray(y)
      BY <1>1, <1>6 DEF Stray
    <2> QED BY <1>3, <1>6, <2>1, <2>2 DEF StrayGoes
  <1>10. ASSUME NEW g \in Groups PROVE Registered(g)'
    BY <1>1, <1>6, WhenRegistered DEF Registered, IsRunning
  <1>11. ASSUME NEW r \in Rows PROVE RecordOf(r)'
    <2> SUFFICES ASSUME IsRunning(r) PROVE RecordOf(r)'
      BY <1>1 DEF RecordOf, IsRunning
    <2> DEFINE x == running[r].token
               p == running[r].parent
    <2>1. /\ x \in Tokens /\ x \in watched
          /\ fiber[x].row = r /\ fiber[x].parent = p
          /\ groups[Parent[r]] = p
          /\ fiber[x].ending => fiber[x].self \/ (Parent[r] # Root /\ fiber[p].st = "Unloading")
          /\ r \in Groups /\ fiber[x].st \in {"Active", "Unloading"} => groups[r] = x
      BY DEF Rowed, RecordOf
    <2>2. Parent[r] # Root => p \in Tokens
      BY Records
    <2>3. fiber[x].parent = t => Parent[r] # Root
      BY <2>1, Records, Typed DEF Rowed
    <2>4. fiber'[x].ending => fiber'[x].self \/ (Parent[r] # Root /\ fiber'[p].st = "Unloading")
      BY <1>1, <1>6, <2>1, <2>2, <2>3
    <2> HIDE DEF x, p
    <2>5. /\ fiber'[x].row = r /\ fiber'[x].parent = p /\ fiber'[x].st = fiber[x].st
      BY <1>6, <2>1
    <2> QED BY <1>1, <1>3, <2>1, <2>4, <2>5 DEF RecordOf, IsRunning, x, p
  <1>12. \A x \in disables' : fiber'[x].self
    BY <1>1, <1>6, Typed DEF Rowed
  <1> QED BY <1>3, <1>7, <1>8, <1>9, <1>10, <1>11, <1>12 DEF Rowed

(* Contexts with the records of some rows: none of them stays. *)
LEMMA UnregisteredFacts ==
  ASSUME Rowed, NEW gone \in SUBSET Rows
  PROVE  /\ Unregistered(gone) \in [Groups \cup {Root} -> Nat]
         /\ Unregistered(gone)[Root] = RootToken
         /\ \A g \in Groups : Unregistered(gone)[g] = IF g \in gone THEN NoToken ELSE groups[g]
  <1>1. groups \in [Groups \cup {Root} -> Nat] /\ NoToken \in Nat
    BY DEF Rowed, Placed, RowsTypeOK, NoToken
  <1>2. groups[Root] = RootToken /\ Root \notin gone
    BY TreeFacts DEF Rowed, Placed
  <1>3. \A g \in Groups : groups[g] # NoToken => groups[g] = running[g].token
    BY WhenRegistered
  <1> QED BY <1>1, <1>2, <1>3 DEF Unregistered

(* detach by a fiber that is not registered changes nothing; by the one   *)
(* that is, drops what is below it.                                        *)
LEMMA RowedCleanup ==
  ASSUME Rowed, NEW t \in Tokens, Cleanup(t)
  PROVE  Rowed'
  <1> DEFINE g == fiber[t].row
             gone == IF groups[g] = t THEN {r \in Rows : IsRunning(r) /\ g \in Above[r]} ELSE {}
  <1>1. g \in Groups /\ g \in Rows /\ fiber[t].st = "Unloading" /\ fiber[t] \in FiberRecord
        /\ UNCHANGED <<desired, watched, disables>> /\ abandoned' \subseteq Tokens
        /\ desired \in Layers
    BY Typed DEF Cleanup, IsGroup, Rowed, Placed, RowsTypeOK
  <1>2. /\ fiber' = [c \in Tokens |->
             IF c = t THEN [fiber[t] EXCEPT !.st = "Draining"]
             ELSE IF c \in Children(t) THEN [fiber[c] EXCEPT !.ending = TRUE] ELSE fiber[c]]
        /\ Detach(t)
    BY DEF Cleanup
  <1>3. t # NoToken /\ gone \in SUBSET Rows /\ g \notin gone
    BY Typed, AboveFacts, <1>1 DEF Rowed
  <1>4. /\ running' = Without(gone)
        /\ groups' \in [Groups \cup {Root} -> Nat] /\ groups'[Root] = RootToken
        /\ \A a \in Groups : groups'[a] = IF a \in gone \/ (a = g /\ groups[g] = t)
                                          THEN NoToken ELSE groups[a]
    <2>1. CASE groups[g] = t
      <3>1. Under(g, t) = gone
        BY <1>1, <1>3, <2>1, UnderRegistered
      <3>2. /\ groups' = [Unregistered(gone) EXCEPT ![g] = NoToken]
            /\ running' = Without(gone)
        BY <1>2, <2>1, <3>1 DEF Detach
      <3> HIDE DEF gone
      <3>3. Unregistered(gone) \in [Groups \cup {Root} -> Nat] /\ Unregistered(gone)[Root] = RootToken
            /\ \A a \in Groups : Unregistered(gone)[a] = IF a \in gone THEN NoToken ELSE groups[a]
        BY <1>3, UnregisteredFacts
      <3> QED BY <1>1, <2>1, <3>2, <3>3, TreeFacts DEF NoToken
    <2>2. CASE groups[g] # t
      <3>1. gone = {} /\ UNCHANGED <<groups, running>>
        BY <1>2, <2>2 DEF Detach
      <3>2. running = Without({})
        BY DEF Without, Rowed, Placed, RowsTypeOK
      <3> QED BY <2>2, <3>1, <3>2 DEF Rowed, Placed, RowsTypeOK
    <2> QED BY <2>1, <2>2
  <1>5. \A x \in Tokens : fiber[x] \in FiberRecord
    BY DEF Rowed, Placed
  <1>6. fiber' \in [Tokens -> FiberRecord]
    <2>1. \A x \in Tokens : [fiber[x] EXCEPT !.ending = TRUE] \in FiberRecord
          /\ [fiber[x] EXCEPT !.st = "Draining"] \in FiberRecord
      BY <1>5 DEF FiberRecord, FiberState
    <2> QED BY <1>2, <1>5, <2>1
  <1>7. \A x \in Tokens : /\ fiber'[x].row = fiber[x].row /\ fiber'[x].parent = fiber[x].parent
                          /\ fiber'[x].self = fiber[x].self /\ fiber'[x].restart = fiber[x].restart
                          /\ fiber'[x].ending <=> fiber[x].ending \/ (x # t /\ fiber[x].parent = t)
                          /\ fiber'[x].st = IF x = t THEN "Draining" ELSE fiber[x].st
    <2> TAKE x \in Tokens
    <2>0. fiber[x].ending \in BOOLEAN
      BY Typed DEF Rowed
    <2>1. CASE x = t
      BY <1>2, <1>5, <2>1 DEF FiberRecord
    <2>2. CASE x # t /\ x \in Children(t)
      <3>1. fiber'[x] = [fiber[x] EXCEPT !.ending = TRUE]
        BY <1>2, <2>2
      <3>2. fiber[x] \in FiberRecord
        BY <1>5
      <3> QED BY <2>2, <3>1, <3>2 DEF FiberRecord, Children
    <2>3. CASE x # t /\ x \notin Children(t)
      BY <1>2, <2>3 DEF Children
    <2> QED BY <2>1, <2>2, <2>3
  <1>8. \A x \in Tokens : fiber[x].parent = t => x # t /\ Parent[fiber[x].row] = g
    BY InAGroup, Typed DEF Rowed
  <1>9. \A r \in Rows \ gone : IsRunning(r) => running[r].parent # t /\ Parent[r] \notin gone
                                               /\ ~ (Parent[r] = g /\ groups[g] = t)
    <2> SUFFICES ASSUME NEW r \in Rows, IsRunning(r), r \notin gone
                 PROVE  running[r].parent # t /\ Parent[r] \notin gone
                        /\ ~ (Parent[r] = g /\ groups[g] = t)
      OBVIOUS
    <2>1. groups[g] = t => g \notin Above[r]
      OBVIOUS
    <2>2. Parent[r] = g => g \in Above[r]
      BY <1>1, AboveFacts, TreeFacts
    <2>3. running[r].parent = t => Parent[r] = g /\ groups[g] = t
      BY Records, <1>8
    <2>4. Parent[r] \in gone => groups[g] = t /\ g \in Above[r]
      <3> SUFFICES ASSUME Parent[r] \in gone PROVE groups[g] = t /\ g \in Above[r]
        OBVIOUS
      <3>1. groups[g] = t /\ g \in Above[Parent[r]] /\ Parent[r] \in Rows
        OBVIOUS
      <3> QED BY <3>1, AboveFacts, TreeFacts
    <2> QED BY <2>1, <2>2, <2>3, <2>4
  <1>10. CleanedUp(t, gone)
    <2>1. \A a \in Groups : groups'[a] # t
      <3>1. \A a \in Groups : groups[a] = t => a = g
        BY <1>3, WhenRegistered
      <3> QED BY <1>3, <1>4, <3>1
    <2>2. fiber[t].st = "Unloading" /\ fiber'[t].st = "Draining"
      BY <1>1, <1>7
    <2>3. \A c \in Tokens : fiber[c].parent = t => fiber'[c].ending
      BY <1>7, <1>8
    <2> QED BY <1>9, <2>1, <2>2, <2>3 DEF CleanedUp
  <1>11. \A r \in Rows \ gone : IsRunning(r) =>
            /\ groups'[Parent[r]] = groups[Parent[r]]
            /\ running[r].token \in watched'
            /\ fiber'[running[r].token].ending => fiber[running[r].token].ending
            /\ r \in Groups => \/ groups'[r] = groups[r]
                               \/ fiber'[running[r].token].st = "Draining"
    <2> TAKE r \in Rows \ gone
    <2> HAVE IsRunning(r)
    <2>1. running[r].parent # t /\ Parent[r] \notin gone
          /\ ~ (Parent[r] = g /\ groups[g] = t)
      BY <1>9
    <2>2. running[r].token \in Tokens /\ fiber[running[r].token].parent = running[r].parent
      BY Records
    <2>3. groups'[Parent[r]] = groups[Parent[r]]
      BY <1>4, <2>1, TreeFacts DEF Rowed, Placed
    <2>4. running[r].token \in watched'
      BY <1>1 DEF Rowed, RecordOf
    <2>5. fiber'[running[r].token].ending => fiber[running[r].token].ending
      BY <1>7, <2>1, <2>2
    <2>6. r \in Groups => groups'[r] = groups[r] \/ fiber'[running[r].token].st = "Draining"
      <3>1. r = g /\ groups[g] = t => running[r].token = t
        BY <1>1, <1>3, WhenRegistered
      <3> QED BY <1>4, <1>7, <2>2, <3>1
    <2> QED BY <2>3, <2>4, <2>5, <2>6
  <1>12. \A r \in gone : IsRunning(r) =>
            \/ fiber'[running[r].token].ending
            \/ Parent[r] # Root /\ Parent[r] \in gone
    <2> TAKE r \in gone
    <2>1. r \in Rows /\ IsRunning(r) /\ groups[g] = t /\ g \in Above[r]
      OBVIOUS
    <2>2. Parent[r] # Root /\ Above[r] = {Parent[r]} \cup Above[Parent[r]]
      BY <2>1, AboveStep
    <2>3. /\ IsRunning(Parent[r]) /\ Parent[r] \in Rows
          /\ running[r].token \in Tokens /\ fiber[running[r].token].parent = groups[Parent[r]]
      BY <2>1, <2>2, Records
    <2>4. CASE Parent[r] = g
      <3>1. fiber[running[r].token].parent = t
        BY <2>1, <2>3, <2>4
      <3> QED BY <1>7, <1>8, <2>3, <3>1
    <2>5. CASE Parent[r] # g
      BY <2>1, <2>2, <2>3, <2>5
    <2> QED BY <2>4, <2>5
  <1>13. \A a \in Groups : groups'[a] = NoToken \/ (groups'[a] = groups[a] /\ a \notin gone)
    BY <1>4
  <1>14. groups'[Root] = groups[Root]
    BY <1>4 DEF Rowed, Placed
  <1>15. \A x \in Tokens : /\ fiber'[x].row = fiber[x].row /\ fiber'[x].parent = fiber[x].parent
                           /\ fiber'[x].self = fiber[x].self
                           /\ fiber'[x].restart = fiber[x].restart
                           /\ fiber[x].ending => fiber'[x].ending
                           /\ fiber'[x].st = fiber[x].st \/ CleanedUp(x, gone)
    BY <1>7, <1>10
  <1>16. \A x \in disables' : fiber[x].self
    BY <1>1 DEF Rowed
  <1>17. running' = Without(gone) /\ groups' \in [Groups \cup {Root} -> Nat]
         /\ watched' \subseteq watched /\ desired' \in Layers /\ abandoned' \subseteq Tokens
         /\ disables' \subseteq Tokens
    BY <1>1, <1>4, Typed DEF Rowed
  <1> HIDE DEF gone
  <1> QED BY <1>3, <1>6, <1>11, <1>12, <1>13, <1>14, <1>15, <1>16, <1>17, Dropping

(* Where a monitor's fiber was, nothing is registered any more: it drops   *)
(* its own record and no other.                                            *)
LEMMA MonitorDrops ==
  ASSUME Rowed, NEW t \in Tokens, Monitor(t)
  PROVE  LET gone == IF StillItsRecord(t) THEN {fiber[t].row} ELSE {} IN
         /\ gone \in SUBSET Rows
         /\ running' = Without(gone)
         /\ groups' = groups
         /\ \A g \in Groups : g \notin gone \/ groups[g] = NoToken
         /\ \A r \in Rows \ gone : IsRunning(r) => Parent[r] \notin gone
  <1> DEFINE r == fiber[t].row
             gone == IF StillItsRecord(t) THEN {r} ELSE {}
  <1>1. r \in Rows /\ fiber[t].st = "Disposed"
    BY Typed DEF Rowed, Monitor
  <1>2. CASE ~ StillItsRecord(t)
    <2>1. UNCHANGED <<running, groups>> /\ gone = {}
      BY <1>2 DEF Monitor
    <2>2. running = Without({})
      BY DEF Without, Rowed, Placed, RowsTypeOK
    <2> QED BY <2>1, <2>2
  <1>3. CASE StillItsRecord(t)
    <2>1. gone = {r} /\ IsRunning(r) /\ running[r].token = t
      BY <1>3 DEF StillItsRecord
    <2>2. r \in Groups => groups[r] # t /\ groups[r] = NoToken
      BY <1>1, <2>1, WhenRegistered, Typed DEF Rowed
    <2>3. Under(r, t) = {}
      BY <1>1, <2>2, UnderUnregistered
    <2>4. running' = Without({r}) /\ groups' = Unregistered({r})
      <3>1. {r} \cup Under(r, t) = {r}
        BY <2>3
      <3> HIDE DEF r
      <3> QED BY <1>3, <3>1 DEF Monitor, r
    <2>5. groups' = groups
      <3>1. /\ Unregistered({r}) \in [Groups \cup {Root} -> Nat]
            /\ Unregistered({r})[Root] = RootToken
            /\ \A g \in Groups : Unregistered({r})[g] = IF g \in {r} THEN NoToken ELSE groups[g]
        BY <1>1, UnregisteredFacts
      <3>2. groups \in [Groups \cup {Root} -> Nat] /\ groups[Root] = RootToken
        BY DEF Rowed, Placed, RowsTypeOK
      <3>3. \A g \in Groups \cup {Root} : groups'[g] = groups[g]
        BY <2>2, <2>4, <3>1, <3>2
      <3> QED BY <2>4, <3>1, <3>2, <3>3
    <2>6. \A x \in Rows : IsRunning(x) => Parent[x] # r
      BY <1>1, <2>1, <2>2, Records, TreeFacts
    <2> QED BY <1>1, <2>1, <2>2, <2>4, <2>5, <2>6
  <1> QED BY <1>2, <1>3

(* ... so they are by the monitor of a fiber that has gone, ... *)
LEMMA RowedMonitor ==
  ASSUME Rowed, NEW t \in Tokens, Monitor(t)
  PROVE  Rowed'
  <1> DEFINE r == fiber[t].row
             gone == IF StillItsRecord(t) THEN {r} ELSE {}
  <1>1. r \in Rows /\ fiber[t].st = "Disposed" /\ fiber[t].ending
        /\ UNCHANGED <<desired, fiber, abandoned>> /\ watched' = watched \ {t}
        /\ desired \in Layers
    BY Typed DEF Rowed, Monitor, Lives, Placed, RowsTypeOK
  <1>2. /\ gone \in SUBSET Rows
        /\ running' = Without(gone)
        /\ groups' = groups
        /\ \A g \in Groups : g \notin gone \/ groups[g] = NoToken
        /\ \A x \in Rows \ gone : IsRunning(x) => Parent[x] \notin gone
    BY MonitorDrops
  <1>3. fiber' \in [Tokens -> FiberRecord] /\ groups' \in [Groups \cup {Root} -> Nat]
    BY <1>1, <1>2 DEF Rowed, Placed, RowsTypeOK
  <1>4. \A x \in Rows \ gone : IsRunning(x) => running[x].token \in watched'
    <2> TAKE x \in Rows \ gone
    <2> HAVE IsRunning(x)
    <2>1. running[x].token \in watched /\ fiber[running[x].token].row = x
      BY DEF Rowed, RecordOf
    <2>2. running[x].token # t
      BY <2>1 DEF StillItsRecord
    <2> QED BY <1>1, <2>1, <2>2
  <1>5. ASSUME StillItsRecord(t), ~ Cascading(r) PROVE fiber[t].self
    <2>1. IsRunning(r) /\ running[r].token = t
      BY <1>5 DEF StillItsRecord
    <2>2. fiber[t].self \/ (Parent[r] # Root /\ fiber[running[r].parent].st = "Unloading")
      BY <1>1, <2>1 DEF Rowed, RecordOf
    <2>3. ASSUME Parent[r] # Root, fiber[running[r].parent].st = "Unloading" PROVE FALSE
      <3>1. Parent[r] \in Above[r] /\ running[Parent[r]].token = running[r].parent
        BY <1>1, <2>1, <2>3, Records, AboveFacts
      <3> QED BY <1>5, <2>3, <3>1 DEF Cascading
    <2> QED BY <2>2, <2>3
  <1>6. disables' \subseteq Tokens /\ \A x \in disables' : fiber[x].self
    <2>1. disables' = disables \/ (disables' = disables \cup {t} /\ StillItsRecord(t) /\ ~ Cascading(r))
      BY DEF Monitor
    <2> HIDE DEF r, gone
    <2> QED BY <1>5, <2>1, Typed DEF Rowed
  <1>7. \A x \in gone : IsRunning(x) => fiber'[running[x].token].ending
    BY <1>1 DEF StillItsRecord
  <1>8. \A g \in Groups : groups'[g] = NoToken \/ (groups'[g] = groups[g] /\ g \notin gone)
    BY <1>2
  <1>9. \A x \in Tokens : fiber'[x] = fiber[x]
    BY <1>1
  <1>10. watched' \subseteq watched /\ desired' \in Layers /\ abandoned' \subseteq Tokens
         /\ groups'[Root] = groups[Root]
    BY <1>1, <1>2, Typed DEF Rowed
  <1>11. \A x \in Rows \ gone : IsRunning(x) =>
            /\ groups'[Parent[x]] = groups[Parent[x]]
            /\ running[x].token \in watched'
            /\ fiber'[running[x].token].ending => fiber[running[x].token].ending
            /\ x \in Groups => \/ groups'[x] = groups[x]
                               \/ fiber'[running[x].token].st = "Draining"
    BY <1>1, <1>2, <1>4
  <1> HIDE DEF gone, r
  <1> QED BY <1>2, <1>3, <1>6, <1>7, <1>8, <1>9, <1>10, <1>11, Dropping

(* What a reconcile keeps it keeps with all that is above it. *)
LEMMA KeepsUp ==
  ASSUME NEW r \in Rows, Keeps(r)
  PROVE  /\ IsRunning(r) /\ r \in DOMAIN desired /\ Wanted(desired, r)
         /\ running[r].inject = desired[r].inject
         /\ Parent[r] # Root => Keeps(Parent[r])
  <1>1. Fits(r) /\ \A a \in Above[r] : Fits(a)
    BY DEF Keeps
  <1>2. ASSUME Parent[r] # Root PROVE Keeps(Parent[r])
    BY <1>1, <1>2, AboveStep DEF Keeps
  <1> QED BY <1>1, <1>2 DEF Fits

(* ... and by an operation that drops what the layer no longer holds. *)
LEMMA RowedDropRows ==
  ASSUME Rowed, DropRows
  PROVE  Rowed'
  <1> DEFINE rows == {r \in Rows : IsRunning(r) /\ ~ Keeps(r)}
             tokens == {running[r].token : r \in rows}
  <1>1. /\ running' = Without(rows) /\ groups' = Unregistered(rows)
        /\ fiber' = [t \in Tokens |->
             IF t \in tokens /\ fiber[t].st # "Disposed" THEN [fiber[t] EXCEPT !.ending = TRUE]
             ELSE fiber[t]]
        /\ UNCHANGED <<desired, watched, disables, abandoned>>
        /\ desired \in Layers
    BY DEF DropRows, Rowed, Placed, RowsTypeOK
  <1>2. \A x \in Tokens : fiber[x] \in FiberRecord
    BY DEF Rowed, Placed
  <1>3. fiber' \in [Tokens -> FiberRecord]
    <2>1. \A x \in Tokens : [fiber[x] EXCEPT !.ending = TRUE] \in FiberRecord
      BY <1>2 DEF FiberRecord
    <2> QED BY <1>1, <1>2, <2>1
  <1>4. \A x \in Tokens : /\ fiber'[x].row = fiber[x].row /\ fiber'[x].parent = fiber[x].parent
                          /\ fiber'[x].self = fiber[x].self /\ fiber'[x].restart = fiber[x].restart
                          /\ fiber'[x].st = fiber[x].st
                          /\ fiber'[x].ending <=> fiber[x].ending \/ x \in tokens
    <2> TAKE x \in Tokens
    <2>1. Lives(x)
      BY DEF Rowed
    <2>2. CASE x \in tokens /\ fiber[x].st # "Disposed"
      <3>1. fiber'[x] = [fiber[x] EXCEPT !.ending = TRUE]
        BY <1>1, <2>2
      <3>2. fiber[x] \in FiberRecord
        BY <1>2
      <3> QED BY <2>2, <3>1, <3>2 DEF FiberRecord
    <2>3. CASE ~ (x \in tokens /\ fiber[x].st # "Disposed")
      <3>1. fiber'[x] = fiber[x]
        BY <1>1, <2>3
      <3>2. fiber[x].ending \in BOOLEAN
        BY Typed DEF Rowed
      <3>3. x \in tokens => fiber[x].ending
        BY <2>1, <2>3 DEF Lives
      <3> HIDE DEF tokens
      <3> QED BY <3>1, <3>2, <3>3
    <2> QED BY <2>2, <2>3
  <1>5. /\ Unregistered(rows) \in [Groups \cup {Root} -> Nat]
        /\ Unregistered(rows)[Root] = RootToken
        /\ \A g \in Groups : Unregistered(rows)[g] = IF g \in rows THEN NoToken ELSE groups[g]
    BY UnregisteredFacts
  <1>6. \A r \in Rows \ rows : IsRunning(r) => Parent[r] \notin rows /\ running[r].token \notin tokens
    <2> TAKE r \in Rows \ rows
    <2> HAVE IsRunning(r)
    <2>1. Keeps(r)
      OBVIOUS
    <2>2. Parent[r] \notin rows
      BY <2>1, KeepsUp, TreeFacts
    <2>3. running[r].token \notin tokens
      BY Records
    <2> QED BY <2>2, <2>3
  <1>7. groups'[Root] = groups[Root] /\ groups' \in [Groups \cup {Root} -> Nat]
    BY <1>1, <1>5 DEF Rowed, Placed
  <1>8. \A g \in Groups : groups'[g] = NoToken \/ (groups'[g] = groups[g] /\ g \notin rows)
    BY <1>1, <1>5
  <1>9. \A r \in Rows \ rows : IsRunning(r) =>
            /\ groups'[Parent[r]] = groups[Parent[r]]
            /\ running[r].token \in watched'
            /\ fiber'[running[r].token].ending => fiber[running[r].token].ending
            /\ r \in Groups => groups'[r] = groups[r]
    <2> TAKE r \in Rows \ rows
    <2> HAVE IsRunning(r)
    <2>1. Parent[r] \notin rows /\ running[r].token \notin tokens
      BY <1>6
    <2>2. running[r].token \in Tokens /\ running[r].token \in watched
      BY DEF Rowed, RecordOf
    <2>3. groups'[Parent[r]] = groups[Parent[r]]
      BY <1>1, <1>5, <1>7, <2>1, TreeFacts
    <2> HIDE DEF tokens, rows
    <2> QED BY <1>1, <1>4, <1>5, <2>1, <2>2, <2>3
  <1>10. \A r \in rows : IsRunning(r) => fiber'[running[r].token].ending
    <2> TAKE r \in rows
    <2>1. running[r].token \in tokens /\ running[r].token \in Tokens
      BY Records
    <2> HIDE DEF tokens, rows
    <2> QED BY <1>4, <2>1
  <1>11. rows \in SUBSET Rows
    OBVIOUS
  <1>12. watched' \subseteq watched /\ desired' \in Layers /\ abandoned' \subseteq Tokens
         /\ disables' \subseteq Tokens /\ \A x \in disables' : fiber[x].self
    BY <1>1, Typed DEF Rowed
  <1> HIDE DEF tokens, rows
  <1> QED BY <1>1, <1>3, <1>4, <1>7, <1>8, <1>9, <1>10, <1>11, <1>12, Dropping

-----------------------------------------------------------------------------
(* The steps that spawn rows *)

(* There are finitely many rows. *)
LEMMA FiniteRows == IsFiniteSet(Rows)
  <1>1. PICK n \in Nat : DOMAIN Tree = 1 .. n
    BY TreeFacts
  <1>2. IsFiniteSet(1 .. n)
    BY FS_Interval
  <1>3. Tree \in Surjection(1 .. n, Rows)
    <2>1. Tree \in [1 .. n -> Rows]
      <3>1. \A i \in 1 .. n : Tree[i] \in Rows
        BY <1>1, TreeFacts
      <3>2. Tree = [i \in 1 .. n |-> Tree[i]]
        <4>1. Tree \in Seq(Rows)
          BY TreeAssumption
        <4> HIDE DEF Rows
        <4> QED BY <1>1, <4>1
      <3> HIDE DEF Rows
      <3> QED BY <3>1, <3>2
    <2>2. \A r \in Rows : \E i \in 1 .. n : Tree[i] = r
      BY <1>1, TreeFacts
    <2> HIDE DEF Rows
    <2> QED BY <2>1, <2>2 DEF Surjection
  <1> HIDE DEF Rows
  <1> QED BY <1>2, <1>3, FS_Surjection

(* The tokens of some rows: the numbers after those taken, all different, *)
(* and no more of them than there are rows.                                *)
LEMMA FreshTokens ==
  ASSUME NEW old, IsFiniteSet(old), NEW new \in SUBSET Rows,
         \A t \in old : t \in Nat /\ RootToken < t /\ t <= RootToken + Cardinality(old),
         NEW token \in [new -> RootToken + Cardinality(old) + 1
                               .. RootToken + Cardinality(old) + Cardinality(new)],
         \A r, q \in new : r # q => token[r] # token[q]
  PROVE  /\ IsFiniteSet(old \cup Range(token))
         /\ \A t \in old \cup Range(token) :
              /\ t \in Nat /\ RootToken < t
              /\ t <= RootToken + Cardinality(old \cup Range(token))
         /\ \A r \in new : /\ token[r] \in Nat /\ token[r] \notin old
                           /\ token[r] > RootToken /\ \A t \in old : t < token[r]
  <1>1. IsFiniteSet(new) /\ Cardinality(new) \in Nat
    BY FiniteRows, FS_Subset, FS_CardinalityType
  <1>2. Cardinality(old) \in Nat
    BY FS_CardinalityType
  <1> DEFINE n == Cardinality(old)
             m == Cardinality(new)
             R == Range(token)
  <1>3. \A r \in new : token[r] \in RootToken + n + 1 .. RootToken + n + m
    OBVIOUS
  <1>4. R = {token[r] : r \in new}
    BY DEF Range
  <1>5. token \in Bijection(new, R)
    <2>1. token \in [new -> R]
      BY <1>4
    <2>2. \A r, q \in new : token[r] = token[q] => r = q
      OBVIOUS
    <2>3. \A y \in R : \E r \in new : token[r] = y
      BY <1>4
    <2> HIDE DEF R
    <2> QED BY <2>1, <2>2, <2>3 DEF Bijection, Injection, Surjection, IsInjective
  <1>6. IsFiniteSet(R) /\ Cardinality(R) = m
    BY <1>1, <1>5, FS_Bijection DEF ExistsBijection
  <1>7. \A t \in R : t \in Nat /\ RootToken + n < t /\ t <= RootToken + n + m
    BY <1>1, <1>2, <1>3, <1>4 DEF RootToken
  <1>8. old \cap R = {}
    <2>1. ASSUME NEW t \in old, t \in R PROVE FALSE
      BY <1>2, <1>7, <2>1 DEF RootToken
    <2> QED BY <2>1
  <1>9. IsFiniteSet(old \cup R) /\ Cardinality(old \cup R) = n + m
    <2>1. Cardinality(old \cap R) = 0
      BY <1>8, FS_EmptySet
    <2>2. Cardinality(old \cup R) = n + m - 0 /\ IsFiniteSet(old \cup R)
      BY <1>6, <2>1, FS_Union
    <2> QED BY <1>1, <1>2, <2>2
  <1>10. \A r \in new : token[r] \in R
    BY <1>4
  <1> HIDE DEF n, m, R
  <1>11. \A t \in old \cup R : t \in Nat /\ RootToken < t /\ t <= RootToken + (n + m)
    BY <1>1, <1>2, <1>7 DEF RootToken, n, m
  <1>12. \A r \in new : /\ token[r] \in Nat /\ token[r] \notin old
                        /\ token[r] > RootToken /\ \A t \in old : t < token[r]
    BY <1>2, <1>7, <1>10 DEF RootToken, n
  <1> QED BY <1>9, <1>11, <1>12 DEF R

(* What a spawn leaves: a record and a watched fiber for each of the rows. *)
Mounted(token, new, run, gs, fs) ==
  /\ \A r \in new : /\ token[r] \notin DOMAIN fs /\ token[r] > RootToken
                    /\ \A t \in DOMAIN fs : t < token[r]
  /\ running' \in [Rows -> Record \cup {NoRecord}]
  /\ \A r \in Rows \ new : running'[r] = run[r]
  /\ \A r \in new : /\ running'[r] # NoRecord
                    /\ running'[r].token = token[r]
                    /\ running'[r].parent = gs[Parent[r]]
                    /\ running'[r].config = desired[r].config
                    /\ running'[r].inject = desired[r].inject
  /\ DOMAIN fiber' = DOMAIN fs \cup Range(token)
  /\ fiber' \in [DOMAIN fs \cup Range(token) -> FiberRecord]
  /\ \A t \in DOMAIN fs : fiber'[t] = fs[t]
  /\ \A r \in new :
       LET orphan == Parent[r] # Root /\ fs[gs[Parent[r]]].st \notin {"Loading", "Active"}
           f == fiber'[token[r]]
       IN /\ f.row = r /\ f.parent = gs[Parent[r]]
          /\ f.st = IF orphan THEN "Disposed" ELSE "Loading"
          /\ f.ending <=> orphan
          /\ ~ f.restart /\ ~ f.self /\ f.config = desired[r].config
  /\ watched' = watched \cup Range(token)
  /\ Finite'

(* What a spawn leaves in the tables: a fiber of its own for every new     *)
(* row, in the context its record says, and nothing else changed.          *)
LEMMA Spawned ==
  ASSUME NEW new \in SUBSET Rows, NEW run, NEW gs, NEW fs, NEW late \in BOOLEAN,
         Spawn(new, run, gs, fs, late),
         fs \in [DOMAIN fs -> FiberRecord], IsFiniteSet(DOMAIN fs),
         \A t \in DOMAIN fs : t \in Nat /\ RootToken < t /\ t <= RootToken + Cardinality(DOMAIN fs),
         run \in [Rows -> Record \cup {NoRecord}],
         desired \in Layers, new \subseteq DOMAIN desired,
         \A r \in new : gs[Parent[r]] \in Nat
  PROVE  \E token \in [new -> Nat] : Mounted(token, new, run, gs, fs)
  <1> DEFINE last == RootToken + Cardinality(DOMAIN fs)
             orphan(r) == Parent[r] # Root /\ fs[gs[Parent[r]]].st \notin {"Loading", "Active"}
             mounted(r) == [row |-> r, parent |-> gs[Parent[r]],
                            st |-> IF orphan(r) THEN "Disposed" ELSE "Loading",
                            ending |-> orphan(r), restart |-> FALSE,
                            config |-> desired[r].config, self |-> FALSE, late |-> late]
             record(r) == [token |-> gs[Parent[r]], parent |-> gs[Parent[r]],
                           config |-> desired[r].config, inject |-> desired[r].inject]
  <1>1. PICK token \in [new -> last + 1 .. last + Cardinality(new)] :
     /\ \A i, j \in DOMAIN Tree :
          Tree[i] \in new /\ Tree[j] \in new /\ i < j => token[Tree[i]] < token[Tree[j]]
     /\ running' = [r \in Rows |->
          IF r \in new THEN [token |-> token[r], parent |-> gs[Parent[r]],
                             config |-> desired[r].config, inject |-> desired[r].inject]
          ELSE run[r]]
     /\ fiber' = [t \in DOMAIN fs \cup Range(token) |->
          IF t \in DOMAIN fs THEN fs[t] ELSE mounted(CHOOSE r \in new : token[r] = t)]
     /\ watched' = watched \cup Range(token)
    <2> HIDE DEF mounted
    <2> QED BY Zenon DEF Spawn, mounted
  <1>2. Cardinality(DOMAIN fs) \in Nat /\ IsFiniteSet(new) /\ Cardinality(new) \in Nat
    BY FiniteRows, FS_Subset, FS_CardinalityType
  <1>3. \A r \in new : token[r] \in Nat
    <2>1. \A r \in new : token[r] \in last + 1 .. last + Cardinality(new)
      OBVIOUS
    <2> QED BY <1>2, <2>1 DEF RootToken
  <1>4. \A r, q \in new : r # q => token[r] # token[q]
    <2> TAKE r, q \in new
    <2> HAVE r # q
    <2>1. PICK i \in DOMAIN Tree : Tree[i] = r
      BY TreeFacts
    <2>2. PICK j \in DOMAIN Tree : Tree[j] = q
      BY TreeFacts
    <2>3. i \in Nat /\ j \in Nat
      BY TreeFacts
    <2>4. i < j \/ j < i
      BY <2>1, <2>2, <2>3
    <2>5. token[r] < token[q] \/ token[q] < token[r]
      BY <1>1, <2>1, <2>2, <2>4
    <2> QED BY <1>3, <2>5
  <1>5. /\ IsFiniteSet(DOMAIN fs \cup Range(token))
        /\ \A t \in DOMAIN fs \cup Range(token) :
              /\ t \in Nat /\ RootToken < t
              /\ t <= RootToken + Cardinality(DOMAIN fs \cup Range(token))
        /\ \A r \in new : /\ token[r] \in Nat /\ token[r] \notin DOMAIN fs
                          /\ token[r] > RootToken /\ \A t \in DOMAIN fs : t < token[r]
    <2> HIDE DEF Rows
    <2> QED BY <1>4, FreshTokens
  <1>6. Range(token) = {token[r] : r \in new} /\ token \in [new -> Nat]
    BY <1>3 DEF Range
  <1>7. \A r \in new : desired[r] \in Content
    BY DEF Layers
  <1>8. \A r \in new : mounted(r) \in FiberRecord
    <2> TAKE r \in new
    <2>1. desired[r].config \in Configs /\ gs[Parent[r]] \in Nat /\ r \in Rows
      BY <1>7 DEF Content
    <2>2. (IF orphan(r) THEN "Disposed" ELSE "Loading") \in FiberState /\ orphan(r) \in BOOLEAN
      BY DEF FiberState
    <2> HIDE DEF orphan
    <2> QED BY <2>1, <2>2 DEF FiberRecord
  <1>9. \A r \in new : (CHOOSE q \in new : token[q] = token[r]) = r
    BY <1>4
  <1>10. /\ DOMAIN fiber' = DOMAIN fs \cup Range(token)
         /\ \A t \in DOMAIN fs : fiber'[t] = fs[t]
         /\ \A r \in new : fiber'[token[r]] = mounted(r)
    <2> HIDE DEF mounted
    <2>1. DOMAIN fiber' = DOMAIN fs \cup Range(token)
          /\ \A t \in DOMAIN fs : fiber'[t] = fs[t]
      BY <1>1
    <2>2. ASSUME NEW r \in new PROVE fiber'[token[r]] = mounted(r)
      <3>1. token[r] \in DOMAIN fs \cup Range(token) /\ token[r] \notin DOMAIN fs
        BY <1>5, <1>6
      <3>2. fiber'[token[r]] = mounted(CHOOSE q \in new : token[q] = token[r])
        BY <1>1, <3>1
      <3> QED BY <1>9, <3>2
    <2> QED BY <2>1, <2>2
  <1>11. fiber' \in [DOMAIN fs \cup Range(token) -> FiberRecord]
    <2>1. \A t \in DOMAIN fs \cup Range(token) : fiber'[t] \in FiberRecord
      <3>1. \A t \in DOMAIN fs : fs[t] \in FiberRecord
        OBVIOUS
      <3>2. \A t \in Range(token) : \E r \in new : t = token[r]
        BY <1>6
      <3> HIDE DEF mounted, last
      <3> QED BY <1>8, <1>10, <3>1, <3>2
    <2>2. fiber' = [t \in DOMAIN fs \cup Range(token) |-> fiber'[t]]
      BY <1>1
    <2> QED BY <2>1, <2>2
  <1>12. \A r \in new : running'[r] = [token |-> token[r], parent |-> gs[Parent[r]],
                             config |-> desired[r].config, inject |-> desired[r].inject]
    BY <1>1
  <1>13. \A r \in Rows \ new : running'[r] = run[r]
    BY <1>1
  <1>14. \A r \in new : running'[r] \in Record
    <2> TAKE r \in new
    <2>1. token[r] \in Nat /\ gs[Parent[r]] \in Nat
      BY <1>6
    <2>2. desired[r].config \in Configs /\ desired[r].inject \in Injects
      BY <1>7 DEF Content
    <2>3. running'[r] = [token |-> token[r], parent |-> gs[Parent[r]],
                         config |-> desired[r].config, inject |-> desired[r].inject]
      BY <1>12
    <2> QED BY <2>1, <2>2, <2>3 DEF Record
  <1>15. running' \in [Rows -> Record \cup {NoRecord}]
    BY <1>1, <1>13, <1>14
  <1>16. \A r \in new : /\ running'[r].token = token[r]
                        /\ running'[r].parent = gs[Parent[r]]
                        /\ running'[r].config = desired[r].config
                        /\ running'[r].inject = desired[r].inject
    <2> TAKE r \in new
    <2>1. running'[r] = [token |-> token[r], parent |-> gs[Parent[r]],
                         config |-> desired[r].config, inject |-> desired[r].inject]
      BY <1>12
    <2> HIDE DEF last
    <2> QED BY <2>1
  <1>17. \A r \in new : running'[r] # NoRecord
    <2> TAKE r \in new
    <2>1. running'[r].token = token[r]
      BY <1>16
    <2>2. token[r] # 0
      <3>1. token[r] \in Nat /\ token[r] > 1
        BY <1>5 DEF RootToken
      <3> QED BY <3>1
    <2>3. NoRecord.token = 0
      BY DEF NoRecord, NoToken
    <2> HIDE DEF NoRecord
    <2> QED BY <2>1, <2>2, <2>3
  <1>18. Finite'
    BY <1>5, <1>10 DEF Finite, Tokens
  <1>19. \A r \in new : LET f == fiber'[token[r]] IN
                   /\ f.row = r /\ f.parent = gs[Parent[r]]
                   /\ f.st = IF orphan(r) THEN "Disposed" ELSE "Loading"
                   /\ f.ending <=> orphan(r)
                   /\ ~ f.restart /\ ~ f.self /\ f.config = desired[r].config
    <2> TAKE r \in new
    <2>1. fiber'[token[r]] = mounted(r)
      BY <1>10
    <2> HIDE DEF orphan
    <2> QED BY <2>1
  <1> HIDE DEF mounted
  <1>20. watched' = watched \cup Range(token)
    BY <1>1
  <1>21. token \in [new -> Nat]
    BY <1>6
  <1> USE <1>21
  <1> WITNESS token \in [new -> Nat]
  <1> QED BY <1>5, <1>6, <1>10, <1>11, <1>13, <1>15, <1>17, <1>18, <1>16, <1>19, <1>20 DEF Mounted

(* Spawning rows that have no record, in contexts that are registered: by  *)
(* a group that just registered its own, or by a reconcile.                *)
LEMMA Spawning ==
  ASSUME Rowed, NEW new \in SUBSET Rows, NEW gs, NEW fs, NEW late \in BOOLEAN,
         Spawn(new, running, gs, fs, late),
         groups' = gs, UNCHANGED <<desired, disables>>, abandoned' \subseteq Tokens,
         gs \in [Groups \cup {Root} -> Nat], gs[Root] = RootToken,
         fs \in [Tokens -> FiberRecord],
         new \subseteq DOMAIN desired,
         \A r \in new : ~ IsRunning(r) /\ gs[Parent[r]] # NoToken,
         \A x \in Tokens :
            /\ fs[x].row = fiber[x].row /\ fs[x].parent = fiber[x].parent
            /\ fs[x].ending = fiber[x].ending /\ fs[x].restart = fiber[x].restart
            /\ fs[x].self = fiber[x].self
            /\ \/ fs[x].st = fiber[x].st
               \/ /\ fiber[x].row \in Groups /\ fiber[x].st = "Loading"
                  /\ fs[x].st \in {"Active", "Unloading"}
                  /\ fs[x].st = "Unloading" => fiber[x].ending
                  /\ Stray(x) \/ gs[fiber[x].row] = x,
         \A g \in Groups : \/ gs[g] = groups[g]
                           \/ /\ groups[g] = NoToken
                              /\ IsRunning(g) /\ gs[g] = running[g].token
                              /\ fs[gs[g]].st \in {"Active", "Unloading"}
  PROVE  Rowed'
  <1>1. /\ DOMAIN fs = Tokens /\ IsFiniteSet(DOMAIN fs)
        /\ \A t \in DOMAIN fs : t \in Nat /\ RootToken < t /\ t <= RootToken + Cardinality(DOMAIN fs)
        /\ running \in [Rows -> Record \cup {NoRecord}] /\ desired \in Layers
    BY DEF Rowed, Placed, Finite, RowsTypeOK
  <1>2. \A r \in new : gs[Parent[r]] \in Nat
    BY TreeFacts
  <1>3. PICK token \in [new -> Nat] : Mounted(token, new, running, gs, fs)
    <2> HIDE DEF Rows
    <2> QED BY <1>1, <1>2, Spawned
  <1>4. /\ Tokens' = Tokens \cup Range(token)
        /\ Range(token) = {token[r] : r \in new}
        /\ \A r \in new : token[r] \in Tokens' /\ token[r] \notin Tokens /\ token[r] \in watched'
    BY <1>1, <1>3 DEF Tokens, Range, Mounted
  <1>5. \A x \in Tokens : /\ fiber'[x] = fs[x]
                          /\ fiber'[x].row = fiber[x].row /\ fiber'[x].parent = fiber[x].parent
                          /\ fiber'[x].ending = fiber[x].ending /\ fiber'[x].restart = fiber[x].restart
                          /\ fiber'[x].self = fiber[x].self
                          /\ fiber[x].st = "Unloading" => fiber'[x].st = "Unloading"
    BY <1>1, <1>3 DEF Mounted
  <1>6. Placed'
    BY <1>1, <1>3, <1>4, Typed DEF Rowed, Placed, RowsTypeOK, Mounted
  <1>7. \A g \in Groups : gs[g] # NoToken =>
          /\ g \in Rows /\ IsRunning(g) /\ gs[g] = running[g].token /\ gs[g] \in Tokens
          /\ fiber[gs[g]].row = g /\ fs[gs[g]].st \in {"Active", "Unloading"}
    <2> TAKE g \in Groups
    <2> HAVE gs[g] # NoToken
    <2>1. CASE gs[g] = groups[g]
      <3>1. g \in Rows /\ IsRunning(g) /\ groups[g] = running[g].token
            /\ groups[g] \in Tokens /\ fiber[groups[g]].row = g
            /\ fiber[groups[g]].st \in {"Active", "Unloading"}
        BY <2>1, WhenRegistered
      <3> QED BY <2>1, <3>1
    <2>2. CASE IsRunning(g) /\ gs[g] = running[g].token /\ fs[gs[g]].st \in {"Active", "Unloading"}
      BY <2>2, Records, TreeFacts
    <2> QED BY <2>1, <2>2
  <1>8. \A r \in new : \/ Parent[r] = Root /\ gs[Parent[r]] = RootToken
                       \/ Parent[r] \in Groups /\ gs[Parent[r]] \in Tokens
    BY <1>7, TreeFacts
  <1>9. \A x \in Tokens : Stray(x)' <=> Stray(x)
    <2> TAKE x \in Tokens
    <2>1. fiber[x].row \in Rows /\ fiber'[x].row = fiber[x].row
      BY <1>5, Typed DEF Rowed
    <2>2. CASE fiber[x].row \in new
      <3>0. ~ IsRunning(fiber[x].row)
        BY <2>2
      <3>1. running[fiber[x].row].token = NoToken /\ x # NoToken
        BY <2>1, <3>0, Typed DEF Rowed
      <3>2. running'[fiber[x].row].token # x
        BY <1>3, <1>4, <2>2 DEF Mounted
      <3> QED BY <2>1, <3>1, <3>2 DEF Stray
    <2>3. CASE fiber[x].row \notin new
      BY <1>3, <2>1, <2>3 DEF Stray, Mounted
    <2> QED BY <2>2, <2>3
  <1>10. ASSUME NEW x \in Tokens PROVE Lives(x)'
    <2>1. Lives(x)
      BY DEF Rowed
    <2>2. \/ fiber'[x].parent = RootToken /\ Parent[fiber'[x].row] = Root
          \/ fiber'[x].parent \in Tokens' /\ fiber'[fiber'[x].parent].row = Parent[fiber'[x].row]
      BY <1>4, <1>5, <2>1 DEF Lives
    <2>3. fiber'[x].parent < x
      BY <1>5, <2>1 DEF Lives
    <2>4. /\ fiber'[x].st \in {"Unloading", "Draining"} => fiber'[x].ending \/ fiber'[x].restart
          /\ fiber'[x].st = "Disposed" => fiber'[x].ending
          /\ fiber'[x].row \in Groups => fiber'[x].st # "Failed"
      BY <1>5, <2>1 DEF Lives
    <2> QED BY <2>2, <2>3, <2>4 DEF Lives
  <1>11. ASSUME NEW r \in new PROVE Lives(token[r])'
    <2> DEFINE y == token[r]
    <2>1. /\ fiber'[y].row = r /\ fiber'[y].parent = gs[Parent[r]]
          /\ fiber'[y].st \in {"Disposed", "Loading"}
          /\ fiber'[y].st = "Disposed" => fiber'[y].ending
          /\ y > RootToken /\ \A x \in Tokens : x < y
      BY <1>1, <1>3 DEF Mounted
    <2>2. CASE Parent[r] = Root /\ gs[Parent[r]] = RootToken
      <3>1. fiber'[y].parent < y
        BY <1>3, <2>1, <2>2 DEF RootToken, Mounted
      <3> QED BY <2>1, <2>2, <3>1 DEF Lives
    <2>3. CASE Parent[r] \in Groups /\ gs[Parent[r]] \in Tokens
      <3>1. fiber[gs[Parent[r]]].row = Parent[r]
        BY <1>7, <2>3, Typed DEF Rowed
      <3>2. fiber'[gs[Parent[r]]].row = Parent[r] /\ gs[Parent[r]] < y /\ gs[Parent[r]] \in Tokens'
        BY <1>4, <1>5, <2>1, <2>3, <3>1
      <3> QED BY <2>1, <3>2 DEF Lives
    <2> QED BY <1>8, <2>2, <2>3
  <1>12. ASSUME NEW x \in Tokens PROVE StrayGoes(x)'
    <2>1. StrayGoes(x)
      BY DEF Rowed
    <2>2. fiber[x].parent \in Tokens =>
            fiber[x].parent \in Tokens' /\ (Stray(fiber[x].parent)' <=> Stray(fiber[x].parent))
            /\ (fiber[fiber[x].parent].st = "Unloading" => fiber'[fiber[x].parent].st = "Unloading")
      BY <1>4, <1>5, <1>9
    <2> QED BY <1>5, <1>9, <2>1, <2>2 DEF StrayGoes
  <1>13. ASSUME NEW r \in new PROVE StrayGoes(token[r])'
    <2>1. ~ Stray(token[r])'
      BY <1>3 DEF Stray, Mounted
    <2> QED BY <2>1 DEF StrayGoes
  <1>14. ASSUME NEW g \in Groups PROVE Registered(g)'
    <2> SUFFICES ASSUME gs[g] # NoToken PROVE Registered(g)'
      BY DEF Registered
    <2>1. g \in Rows /\ IsRunning(g) /\ gs[g] = running[g].token /\ gs[g] \in Tokens
          /\ fs[gs[g]].st \in {"Active", "Unloading"}
      BY <1>7
    <2>2. running'[g] = running[g] /\ fiber'[gs[g]] = fs[gs[g]]
      BY <1>3, <1>5, <2>1 DEF Mounted
    <2> QED BY <2>1, <2>2 DEF Registered, IsRunning
  <1>15. ASSUME NEW r \in Rows, r \notin new PROVE RecordOf(r)'
    <2>1. running'[r] = running[r]
      BY <1>3, <1>15 DEF Mounted
    <2> SUFFICES ASSUME IsRunning(r) PROVE RecordOf(r)'
      BY <2>1 DEF RecordOf, IsRunning
    <2> DEFINE x == running[r].token
               p == running[r].parent
    <2>2. /\ x \in Tokens /\ x \in watched
          /\ fiber[x].row = r /\ fiber[x].parent = p
          /\ groups[Parent[r]] = p /\ p # NoToken
          /\ fiber[x].ending => fiber[x].self \/ (Parent[r] # Root /\ fiber[p].st = "Unloading")
          /\ r \in Groups /\ fiber[x].st \in {"Active", "Unloading"} => groups[r] = x
          /\ Parent[r] # Root => p \in Tokens /\ Parent[r] \in Groups
      BY Records DEF Rowed, RecordOf
    <2>3. gs[Parent[r]] = p
      BY <2>2 DEF Rowed, Placed
    <2>4. x \in Tokens' /\ x \in watched'
      BY <1>3, <1>4, <2>2 DEF Mounted
    <2>5. fiber'[x].ending => fiber'[x].self \/ (Parent[r] # Root /\ fiber'[p].st = "Unloading")
      BY <1>5, <2>2
    <2>6. r \in Groups /\ fiber'[x].st \in {"Active", "Unloading"} => gs[r] = x
      <3>1. ~ Stray(x)
        BY <2>2 DEF Stray
      <3>2. r \in Groups /\ groups[r] = x => gs[r] = x
        BY <2>2, Typed DEF Rowed
      <3> QED BY <1>5, <2>2, <3>1, <3>2
    <2>7. fiber'[x].row = r /\ fiber'[x].parent = p
      BY <1>5, <2>2
    <2>8. running'[r].token = x /\ running'[r].parent = p
      BY <2>1
    <2> HIDE DEF x, p
    <2> QED BY <2>3, <2>4, <2>5, <2>6, <2>7, <2>8 DEF RecordOf
  <1>16. ASSUME NEW r \in new PROVE RecordOf(r)'
    <2> DEFINE y == token[r]
               p == gs[Parent[r]]
    <2>1. /\ fiber'[y].row = r /\ fiber'[y].parent = p
          /\ fiber'[y].st \in {"Disposed", "Loading"}
          /\ fiber'[y].ending => Parent[r] # Root /\ fs[p].st \notin {"Loading", "Active"}
          /\ running'[r].token = y /\ running'[r].parent = p
          /\ y \in Tokens' /\ y \in watched'
      BY <1>3, <1>4 DEF Mounted
    <2>2. fiber'[y].ending => Parent[r] # Root /\ fiber'[p].st = "Unloading"
      <3> SUFFICES ASSUME fiber'[y].ending PROVE Parent[r] # Root /\ fiber'[p].st = "Unloading"
        OBVIOUS
      <3>1. Parent[r] # Root /\ fs[p].st \notin {"Loading", "Active"} /\ Parent[r] \in Groups
        BY <2>1, TreeFacts
      <3>2. p \in Tokens /\ fs[p].st \in {"Active", "Unloading"}
        BY <1>7, <3>1
      <3> QED BY <1>5, <3>1, <3>2
    <2> HIDE DEF y, p
    <2>3. groups'[Parent[r]] = p
      BY DEF p
    <2> QED BY <2>1, <2>2, <2>3 DEF RecordOf
  <1>17. \A x \in disables' : fiber'[x].self
    BY <1>5, Typed DEF Rowed
  <1>18. \A x \in Tokens' : Lives(x)' /\ StrayGoes(x)'
    BY <1>4, <1>10, <1>11, <1>12, <1>13
  <1> QED BY <1>6, <1>14, <1>15, <1>16, <1>17, <1>18 DEF Rowed

(* The tables are kept by a group that loads its rows, ... *)
LEMMA RowedGroupLoads ==
  ASSUME Rowed, NEW t \in Tokens, GroupLoads(t)
  PROVE  Rowed'
  <1> DEFINE g == fiber[t].row
             s == IF fiber[t].ending THEN "Unloading" ELSE "Active"
             f == [fiber[t] EXCEPT !.st = s]
             fs == [fiber EXCEPT ![t].st = s]
             gs == [groups EXCEPT ![g] = t]
  <1>1. g \in Groups /\ g \in Rows /\ fiber[t].st = "Loading" /\ fiber[t] \in FiberRecord
        /\ abandoned' \subseteq Tokens /\ UNCHANGED <<desired, disables>>
    BY Typed DEF GroupLoads, IsGroup, Rowed, Placed, RowsTypeOK
  <1>2. Attach(t, fs)
    BY DEF GroupLoads
  <1>3. fs = [fiber EXCEPT ![t] = f]
    OBVIOUS
  <1>4. /\ f \in FiberRecord /\ f.row = g /\ f.parent = fiber[t].parent /\ f.st = s
        /\ f.ending = fiber[t].ending /\ f.restart = fiber[t].restart /\ f.self = fiber[t].self
    BY <1>1 DEF FiberRecord, FiberState
  <1>5. s \in {"Active", "Unloading"} /\ (s = "Unloading" => fiber[t].ending)
    OBVIOUS
  <1>6. t # NoToken /\ desired \in Layers
    BY Typed DEF Rowed, Placed, RowsTypeOK
  <1> HIDE DEF f, s
  <1>7. fs[t].row = g
    BY <1>3, <1>4 DEF Rowed, Placed
  <1>8. CASE ~ (IsRunning(g) /\ running[g].token = t)
    <2>1. fiber' = fs /\ UNCHANGED <<running, groups, watched>>
      <3> HIDE DEF fs, g
      <3> QED BY <1>2, <1>7, <1>8 DEF Attach
    <2>2. Stray(t)
      BY <1>8, NotStray
    <2>3. fiber' = [fiber EXCEPT ![t] = f]
      BY <1>3, <2>1
    <2>4. desired' \in Layers /\ disables' \subseteq disables
      BY <1>1, <1>6
    <2> HIDE DEF fs
    <2> QED BY <1>1, <1>4, <1>5, <2>1, <2>2, <2>3, <2>4, OneFiber
  <1>9. CASE IsRunning(g) /\ running[g].token = t
    <2> DEFINE new == {r \in Missing(running, gs) : Parent[r] = g}
    <2>1. groups' = gs /\ Spawn(new, running, gs, fs, FALSE)
      <3>1. LET gs1 == [groups EXCEPT ![fs[t].row] = t] IN
            groups' = gs1 /\ Spawn({r \in Missing(running, gs1) : Parent[r] = fs[t].row},
                                   running, gs1, fs, FALSE)
        <4> HIDE DEF fs, g
        <4> QED BY <1>2, <1>7, <1>9, Zenon DEF Attach
      <3> HIDE DEF fs
      <3> QED BY <1>7, <3>1
    <2>2. groups[g] = NoToken
      BY <1>1, <1>9, WhenRegistered
    <2>3. gs \in [Groups \cup {Root} -> Nat] /\ gs[Root] = RootToken /\ gs[g] = t
          /\ \A a \in Groups : a # g => gs[a] = groups[a]
      BY <1>1, TreeFacts, Typed DEF Rowed, Placed, RowsTypeOK
    <2>4. /\ new \in SUBSET Rows /\ new \subseteq DOMAIN desired
          /\ \A r \in new : ~ IsRunning(r) /\ gs[Parent[r]] # NoToken
      BY <1>6 DEF Missing, Layers, IsRunning
    <2>5. fs \in [Tokens -> FiberRecord]
      BY <1>3, <1>4 DEF Rowed, Placed
    <2>6. \A x \in Tokens :
            /\ fs[x].row = fiber[x].row /\ fs[x].parent = fiber[x].parent
            /\ fs[x].ending = fiber[x].ending /\ fs[x].restart = fiber[x].restart
            /\ fs[x].self = fiber[x].self
            /\ \/ fs[x].st = fiber[x].st
               \/ /\ fiber[x].row \in Groups /\ fiber[x].st = "Loading"
                  /\ fs[x].st \in {"Active", "Unloading"}
                  /\ fs[x].st = "Unloading" => fiber[x].ending
                  /\ Stray(x) \/ gs[fiber[x].row] = x
      <3>1. \A x \in Tokens : x # t => fs[x] = fiber[x]
        BY <1>3 DEF Rowed, Placed
      <3>2. fs[t] = f
        BY <1>3 DEF Rowed, Placed
      <3> HIDE DEF fs, gs
      <3> QED BY <1>1, <1>4, <1>5, <2>3, <3>1, <3>2
    <2>7. \A a \in Groups : \/ gs[a] = groups[a]
                           \/ /\ groups[a] = NoToken
                              /\ IsRunning(a) /\ gs[a] = running[a].token
                              /\ fs[gs[a]].st \in {"Active", "Unloading"}
      <3>1. fs[t].st = s
        BY <1>3, <1>4 DEF Rowed, Placed
      <3> HIDE DEF fs, gs
      <3> QED BY <1>5, <1>9, <2>2, <2>3, <3>1
    <2> HIDE DEF fs, gs, new
    <2> QED BY <1>1, <2>1, <2>3, <2>4, <2>5, <2>6, <2>7, Spawning
  <1> QED BY <1>8, <1>9

(* ... by an operation that spawns the rows that are new, ... *)
LEMMA RowedSpawnRows ==
  ASSUME Rowed, SpawnRows
  PROVE  Rowed'
  <1> DEFINE new == Missing(running, groups)
  <1>1. Spawn(new, running, groups, fiber, TRUE) /\ UNCHANGED <<desired, groups, disables, abandoned>>
    BY DEF SpawnRows
  <1>2. /\ groups \in [Groups \cup {Root} -> Nat] /\ groups[Root] = RootToken
        /\ fiber \in [Tokens -> FiberRecord] /\ abandoned \subseteq Tokens /\ desired \in Layers
    BY DEF Rowed, Placed, RowsTypeOK
  <1>3. /\ new \in SUBSET Rows /\ new \subseteq DOMAIN desired
        /\ \A r \in new : ~ IsRunning(r) /\ groups[Parent[r]] # NoToken
    BY <1>2 DEF Missing, Layers, IsRunning
  <1> HIDE DEF new
  <1> QED BY <1>1, <1>2, <1>3, Spawning

(* ... that updates a row with a new configuration, ... *)
LEMMA RowedSendUpdate ==
  ASSUME Rowed, NEW t \in Tokens, SendUpdate(t), fiber[t].row \in DOMAIN desired
  PROVE  Rowed'
  <1>1. UNCHANGED <<desired, running, groups, watched, disables, abandoned>>
    BY DEF SendUpdate
  <1>2. fiber[t] \in FiberRecord /\ desired \in Layers /\ abandoned \subseteq Tokens
    BY DEF Rowed, Placed, RowsTypeOK
  <1>3. CASE fiber' = fiber
    BY <1>1, <1>3 DEF Rowed, Placed, RowsTypeOK, Finite, Tokens, Lives, StrayGoes, Stray,
                      Registered, RecordOf, IsRunning
  <1>4. CASE fiber' # fiber
    <2> DEFINE c == desired[fiber[t].row].config
               f == [fiber[t] EXCEPT !.config = c, !.restart = TRUE]
    <2>1. fiber' = [fiber EXCEPT ![t] = f]
      BY <1>4 DEF SendUpdate
    <2>2. c \in Configs
      BY <1>2 DEF Layers, Content
    <2>3. f \in FiberRecord /\ f.row = fiber[t].row /\ f.parent = fiber[t].parent
          /\ f.st = fiber[t].st /\ f.ending = fiber[t].ending /\ f.self = fiber[t].self /\ f.restart
      BY <1>2, <2>2 DEF FiberRecord
    <2> HIDE DEF f
    <2>4. Lives(t) /\ desired' \in Layers /\ disables' \subseteq disables /\ abandoned' \subseteq Tokens
      BY <1>1, <1>2 DEF Rowed
    <2> QED BY <1>1, <2>1, <2>3, <2>4, OneFiber DEF Lives
  <1> QED BY <1>3, <1>4

(* ... and that records it once the row has taken it. *)
LEMMA RowedUpdateDone ==
  ASSUME Rowed, NEW t \in Tokens, UpdateDone(t)
  PROVE  Rowed'
  <1>1. UNCHANGED <<desired, groups, fiber, watched, disables, abandoned>>
    BY DEF UpdateDone
  <1>2. /\ running' \in [Rows -> Record \cup {NoRecord}]
        /\ \A r \in Rows : /\ running'[r].token = running[r].token
                           /\ running'[r].parent = running[r].parent
                           /\ IsRunning(r)' <=> IsRunning(r)
    <2>1. CASE ~ StillItsRecord(t)
      BY <2>1 DEF UpdateDone, Rowed, Placed, RowsTypeOK, IsRunning
    <2>2. CASE StillItsRecord(t)
      <3> DEFINE q == fiber[t].row
                 x == [running[q] EXCEPT !.config = fiber[t].config]
      <3>1. running' = [running EXCEPT ![q] = x]
        BY <2>2 DEF UpdateDone
      <3>2. q \in Rows /\ running[q] \in Record /\ running[q].token = t /\ t # NoToken
            /\ fiber[t].config \in Configs
        BY <2>2, Typed DEF StillItsRecord, Rowed
      <3>3. x \in Record /\ x.token = running[q].token /\ x.parent = running[q].parent
        BY <3>2 DEF Record
      <3>4. x # NoRecord
        <4>1. NoRecord.token = NoToken
          BY DEF NoRecord
        <4> HIDE DEF x, NoRecord
        <4> QED BY <3>2, <3>3, <4>1
      <3>5. running[q] # NoRecord
        BY <2>2 DEF StillItsRecord, IsRunning
      <3>6. running \in [Rows -> Record \cup {NoRecord}]
        BY DEF Rowed, Placed, RowsTypeOK
      <3> HIDE DEF x, q
      <3> QED BY <3>1, <3>2, <3>3, <3>4, <3>5, <3>6 DEF IsRunning
    <2> QED BY <2>1, <2>2
  <1>3. Tokens' = Tokens
    BY <1>1 DEF Tokens
  <1>4. Placed'
    BY <1>1, <1>2, <1>3 DEF Rowed, Placed, RowsTypeOK, Finite
  <1>5. ASSUME NEW x \in Tokens PROVE Lives(x)' /\ StrayGoes(x)'
    <2>1. Lives(x) /\ StrayGoes(x)
      BY DEF Rowed
    <2>2. \A y \in Tokens : Stray(y)' <=> Stray(y)
      BY <1>1, <1>2, Typed DEF Stray, Rowed
    <2> QED BY <1>1, <1>3, <2>1, <2>2 DEF Lives, StrayGoes
  <1>6. ASSUME NEW g \in Groups PROVE Registered(g)'
    <2>1. Registered(g)
      BY DEF Rowed
    <2> QED BY <1>1, <1>2, <2>1, TreeFacts DEF Registered
  <1>7. ASSUME NEW r \in Rows PROVE RecordOf(r)'
    <2>1. RecordOf(r)
      BY DEF Rowed
    <2> QED BY <1>1, <1>2, <1>3, <2>1 DEF RecordOf
  <1>8. \A x \in disables' : fiber'[x].self
    BY <1>1 DEF Rowed
  <1> QED BY <1>3, <1>4, <1>5, <1>6, <1>7, <1>8 DEF Rowed

-----------------------------------------------------------------------------
(* What the kernel and the monitors leave alone *)

(* A record stays, is dropped, or is of a row that is wanted. *)
Joined(r) ==
  /\ ~ IsRunning(r) /\ r \in DOMAIN desired /\ Wanted(desired, r)
  /\ running'[r].inject = desired[r].inject /\ running'[r].config = desired[r].config
  /\ running'[r].token \in Tokens' /\ running'[r].token \notin Tokens
  /\ fiber'[running'[r].token].config = desired[r].config

Follows ==
  /\ Tokens \subseteq Tokens' /\ desired' = desired
  /\ \A x \in Tokens : /\ fiber'[x].row = fiber[x].row /\ fiber'[x].config = fiber[x].config
                       /\ fiber[x].ending => fiber'[x].ending
  /\ \A r \in Rows : running'[r] = running[r] \/ running'[r] = NoRecord \/ Joined(r)

(* A wanted row without a record, where there is a context for it: one of  *)
(* its own accord is gone, and about to be disabled, or goes with a group. *)
Gap(r) ==
  /\ r \in DOMAIN desired /\ Wanted(desired, r)
  /\ groups[Parent[r]] # NoToken /\ ~ IsRunning(r)

Excused(r) ==
  \/ \E t \in disables : fiber[t].row = r
  \/ \E a \in Above[r] : IsRunning(a) /\ fiber[running[a].token].st = "Unloading"

NoGap == \A r \in Rows : Gap(r) => Excused(r)

(* The steps that leave the tables alone. *)
Plain(t) ==
  \/ RowLoads(t) \/ Restarts(t) \/ Ends(t) \/ GroupNeverLoads(t) \/ Unloaded(t)
  \/ EndLate(t) \/ Upsets(t)

(* A step of the kernel or of one fiber alone keeps the tables, ... *)
LEMMA PlainRowed ==
  ASSUME Rowed, NEW t \in Tokens, Plain(t)
  PROVE  Rowed'
  BY RowedRowLoads, RowedRestarts, RowedEnds, RowedGroupNeverLoads, RowedUnloaded,
     RowedEndLate, RowedUpsets DEF Plain

(* ... leaves every other fiber as it is, ... *)
LEMMA PlainFibers ==
  ASSUME Rowed, NEW t \in Tokens, Plain(t)
  PROVE  /\ UNCHANGED <<desired, running, groups, watched, disables>> /\ Tokens' = Tokens
         /\ \A x \in Tokens : /\ fiber'[x].row = fiber[x].row /\ fiber'[x].config = fiber[x].config
                              /\ fiber[x].ending => fiber'[x].ending
                              /\ fiber[x].row \in Groups /\ fiber[x].st = "Unloading" =>
                                   fiber'[x].st = "Unloading"
  <1> DEFINE Kept(x, f) == /\ f.row = x.row /\ f.config = x.config /\ (x.ending => f.ending)
                           /\ (x.row \in Groups /\ x.st = "Unloading" => f.st = "Unloading")
  <1>1. /\ UNCHANGED <<desired, running, groups, watched, disables>>
        /\ fiber \in [Tokens -> FiberRecord] /\ \A x \in Tokens : fiber[x] \in FiberRecord
    BY DEF Plain, RowLoads, Restarts, Ends, GroupNeverLoads, Unloaded, EndLate, Upsets,
           DisposedOutside, GroupReloads, Rowed, Placed
  <1>2. ASSUME NEW f, fiber' = [fiber EXCEPT ![t] = f], Kept(fiber[t], f)
        PROVE  Tokens' = Tokens /\ \A x \in Tokens : Kept(fiber[x], fiber'[x])
    BY <1>1, <1>2 DEF Tokens
  <1>3. CASE EndLate(t)
    <2>1. fiber' = [x \in Tokens |->
             IF x \in LateChildren(t) THEN [fiber[x] EXCEPT !.ending = TRUE] ELSE fiber[x]]
      BY <1>3 DEF EndLate
    <2>2. Tokens' = Tokens
      BY <2>1 DEF Tokens
    <2>3. ASSUME NEW x \in Tokens PROVE Kept(fiber[x], fiber'[x])
      <3>1. CASE x \in LateChildren(t)
        <4>1. fiber'[x] = [fiber[x] EXCEPT !.ending = TRUE]
          BY <2>1, <3>1
        <4> QED BY <1>1, <4>1 DEF FiberRecord
      <3>2. CASE x \notin LateChildren(t)
        BY <2>1, <3>2
      <3> QED BY <3>1, <3>2
    <2> QED BY <1>1, <2>2, <2>3
  <1>4. CASE Upsets(t)
    <2>1. fiber[t].st = "Active"
      BY <1>4 DEF Upsets, DisposedOutside, GroupReloads
    <2>2. CASE DisposedOutside(t)
      <3>1. fiber' = [fiber EXCEPT ![t] = [fiber[t] EXCEPT !.ending = TRUE, !.self = TRUE]]
        BY <2>2 DEF DisposedOutside
      <3>2. Kept(fiber[t], [fiber[t] EXCEPT !.ending = TRUE, !.self = TRUE])
        BY <1>1, <2>1 DEF FiberRecord
      <3> QED BY <1>1, <1>2, <3>1, <3>2
    <2>3. CASE GroupReloads(t)
      <3>1. fiber' = [fiber EXCEPT ![t] = [fiber[t] EXCEPT !.restart = TRUE]]
        BY <2>3 DEF GroupReloads
      <3>2. Kept(fiber[t], [fiber[t] EXCEPT !.restart = TRUE])
        BY <1>1, <2>1 DEF FiberRecord
      <3> QED BY <1>1, <1>2, <3>1, <3>2
    <2> QED BY <1>4, <2>2, <2>3 DEF Upsets
  <1>5. CASE RowLoads(t)
    <2>1. PICK f : Becomes(t, f) /\ (\/ f = [fiber[t] EXCEPT !.st = "Unloading"]
                                     \/ f = [fiber[t] EXCEPT !.restart = FALSE]
                                     \/ f = [fiber[t] EXCEPT !.st = "Active"]
                                     \/ f = [fiber[t] EXCEPT !.st = "Failed"])
      BY <1>5 DEF RowLoads
    <2>2. fiber[t].row \notin Groups
      BY <1>5 DEF RowLoads, IsGroup
    <2>3. Kept(fiber[t], f)
      BY <1>1, <2>1, <2>2 DEF FiberRecord
    <2>4. fiber' = [fiber EXCEPT ![t] = f]
      BY <2>1 DEF Becomes
    <2> QED BY <1>1, <2>3, <2>4 DEF Tokens
  <1>6. CASE Restarts(t) \/ Ends(t) \/ GroupNeverLoads(t) \/ Unloaded(t)
    <2>1. PICK f : Becomes(t, f) /\ (\/ f = [fiber[t] EXCEPT !.st = "Unloading"]
                                     \/ f = [fiber[t] EXCEPT !.st = "Disposed"]
                                     \/ f = [fiber[t] EXCEPT !.st = "Loading", !.restart = FALSE])
      BY <1>6 DEF Restarts, Ends, GroupNeverLoads, Unloaded
    <2>2. fiber[t].row \in Groups => fiber[t].st # "Unloading"
      BY <1>6 DEF Restarts, Ends, GroupNeverLoads, Unloaded, IsGroup
    <2>3. Kept(fiber[t], f)
      BY <1>1, <2>1, <2>2 DEF FiberRecord
    <2>4. fiber' = [fiber EXCEPT ![t] = f]
      BY <2>1 DEF Becomes
    <2> QED BY <1>1, <2>3, <2>4 DEF Tokens
  <1>7. Tokens' = Tokens /\ \A x \in Tokens : Kept(fiber[x], fiber'[x])
    BY <1>3, <1>4, <1>5, <1>6 DEF Plain
  <1> QED BY <1>1, <1>7

(* ... and no row stops following the layer by it. *)
LEMMA PlainFollows ==
  ASSUME Rowed, NEW t \in Tokens, Plain(t)
  PROVE  Follows /\ (NoGap => NoGap')
  <1>1. /\ UNCHANGED <<desired, running, groups, watched, disables>> /\ Tokens' = Tokens
        /\ \A x \in Tokens : /\ fiber'[x].row = fiber[x].row /\ fiber'[x].config = fiber[x].config
                             /\ fiber[x].ending => fiber'[x].ending
                             /\ fiber[x].row \in Groups /\ fiber[x].st = "Unloading" =>
                                   fiber'[x].st = "Unloading"
    BY PlainFibers
  <1>2. Follows
    BY <1>1 DEF Follows
  <1>3. ASSUME NEW r \in Rows, Excused(r) PROVE Excused(r)'
    <2>1. CASE \E d \in disables : fiber[d].row = r
      BY <1>1, <2>1, Typed DEF Excused, Rowed
    <2>2. CASE \E a \in Above[r] : IsRunning(a) /\ fiber[running[a].token].st = "Unloading"
      <3>1. PICK a \in Above[r] : IsRunning(a) /\ fiber[running[a].token].st = "Unloading"
        BY <2>2
      <3>2. a \in Rows /\ a \in Groups
        BY <3>1, AboveFacts
      <3>3. running[a].token \in Tokens /\ fiber[running[a].token].row = a
        BY <3>1, <3>2, Records
      <3>4. IsRunning(a)' /\ fiber'[running'[a].token].st = "Unloading"
        BY <1>1, <3>1, <3>2, <3>3 DEF IsRunning
      <3> QED BY <3>1, <3>4 DEF Excused
    <2> QED BY <1>3, <2>1, <2>2 DEF Excused
  <1>4. \A r \in Rows : Gap(r)' => Gap(r)
    BY <1>1 DEF Gap, IsRunning
  <1> QED BY <1>2, <1>3, <1>4 DEF NoGap

(* A row excused for what is missing above it stays excused while the      *)
(* fibers that excuse it are as they were.                                 *)
LEMMA ExcusedStays ==
  ASSUME Rowed, disables \subseteq disables',
         \A x \in Tokens : /\ fiber'[x].row = fiber[x].row
                           /\ fiber[x].row \in Groups /\ fiber[x].st = "Unloading" =>
                                fiber'[x].st = "Unloading",
         \A a \in Groups : IsRunning(a) /\ fiber[running[a].token].st = "Unloading" =>
                             IsRunning(a)' /\ running'[a].token = running[a].token
  PROVE  \A r \in Rows : Excused(r) => Excused(r)'
  <1> SUFFICES ASSUME NEW r \in Rows, Excused(r) PROVE Excused(r)'
    OBVIOUS
  <1>1. CASE \E d \in disables : fiber[d].row = r
    BY <1>1, Typed DEF Excused, Rowed
  <1>2. CASE \E a \in Above[r] : IsRunning(a) /\ fiber[running[a].token].st = "Unloading"
    <2>1. PICK a \in Above[r] : IsRunning(a) /\ fiber[running[a].token].st = "Unloading"
      BY <1>2
    <2>2. a \in Rows /\ a \in Groups
      BY <2>1, AboveFacts
    <2>3. running[a].token \in Tokens /\ fiber[running[a].token].row = a
      BY <2>1, <2>2, Records
    <2>4. IsRunning(a)' /\ fiber'[running'[a].token].st = "Unloading"
      BY <2>1, <2>2, <2>3
    <2> QED BY <2>1, <2>4 DEF Excused
  <1> QED BY <1>1, <1>2 DEF Excused

(* A spawn gives every one of its rows a record of a new fiber. *)
LEMMA SpawnJoins ==
  ASSUME Rowed, NEW new \in SUBSET Rows, NEW gs, NEW fs, NEW late \in BOOLEAN,
         Spawn(new, running, gs, fs, late),
         desired' = desired, fs \in [Tokens -> FiberRecord],
         new \subseteq DOMAIN desired,
         \A r \in new : ~ IsRunning(r) /\ gs[Parent[r]] \in Nat /\ Wanted(desired, r)
  PROVE  /\ Tokens \subseteq Tokens' /\ \A x \in Tokens : fiber'[x] = fs[x]
         /\ \A r \in Rows \ new : running'[r] = running[r]
         /\ \A r \in new : Joined(r) /\ IsRunning(r)'
  <1>1. /\ DOMAIN fs = Tokens /\ IsFiniteSet(DOMAIN fs)
        /\ \A t \in DOMAIN fs : t \in Nat /\ RootToken < t /\ t <= RootToken + Cardinality(DOMAIN fs)
        /\ running \in [Rows -> Record \cup {NoRecord}] /\ desired \in Layers
    BY DEF Rowed, Placed, Finite, RowsTypeOK
  <1>2. \A r \in new : gs[Parent[r]] \in Nat
    OBVIOUS
  <1>3. PICK token \in [new -> Nat] : Mounted(token, new, running, gs, fs)
    <2> HIDE DEF Rows
    <2> QED BY <1>1, <1>2, Spawned
  <1>4. Tokens' = Tokens \cup Range(token) /\ \A r \in new : token[r] \in Range(token)
    BY <1>1, <1>3 DEF Tokens, Mounted, Range
  <1>5. \A r \in new : Joined(r) /\ IsRunning(r)'
    <2> TAKE r \in new
    <2>1. /\ token[r] \notin Tokens /\ token[r] \in Tokens'
          /\ running'[r] # NoRecord /\ running'[r].token = token[r]
          /\ running'[r].config = desired[r].config /\ running'[r].inject = desired[r].inject
          /\ fiber'[token[r]].config = desired[r].config
      BY <1>1, <1>3, <1>4 DEF Mounted
    <2> QED BY <2>1 DEF Joined, IsRunning
  <1> QED BY <1>1, <1>3, <1>4, <1>5 DEF Mounted

(* No row stops following the layer when a group loads its rows, ... *)
LEMMA GroupLoadsFollows ==
  ASSUME Rowed, NEW t \in Tokens, GroupLoads(t)
  PROVE  Follows /\ (NoGap => NoGap')
  <1> DEFINE g == fiber[t].row
             s == IF fiber[t].ending THEN "Unloading" ELSE "Active"
             f == [fiber[t] EXCEPT !.st = s]
             fs == [fiber EXCEPT ![t].st = s]
             gs == [groups EXCEPT ![g] = t]
             new == {r \in Missing(running, gs) : Parent[r] = g}
  <1>1. g \in Groups /\ g \in Rows /\ fiber[t].st = "Loading" /\ fiber[t] \in FiberRecord
        /\ UNCHANGED <<desired, disables>> /\ desired \in Layers /\ t \in Nat
    BY Typed DEF GroupLoads, IsGroup, Rowed, Placed, RowsTypeOK
  <1>2. Attach(t, fs)
    BY DEF GroupLoads
  <1>3. fs \in [Tokens -> FiberRecord] /\ fs[t] = f /\ \A x \in Tokens : x # t => fs[x] = fiber[x]
    BY <1>1 DEF Rowed, Placed, FiberRecord, FiberState
  <1>4. \A x \in Tokens : /\ fs[x].row = fiber[x].row /\ fs[x].config = fiber[x].config
                          /\ fs[x].ending = fiber[x].ending
                          /\ fiber[x].st = "Unloading" => fs[x].st = "Unloading"
    <2>1. f.row = fiber[t].row /\ f.config = fiber[t].config /\ f.ending = fiber[t].ending
      BY <1>1 DEF FiberRecord
    <2> HIDE DEF f, fs
    <2> QED BY <1>1, <1>3, <2>1
  <1> HIDE DEF f, fs
  <1>5. /\ Tokens \subseteq Tokens' /\ \A x \in Tokens : fiber'[x] = fs[x]
        /\ \A r \in Rows : running'[r] = running[r] \/ Joined(r)
        /\ \/ UNCHANGED <<running, groups>>
           \/ groups' = gs /\ \A r \in new : IsRunning(r)'
    <2>1. CASE ~ (IsRunning(g) /\ running[g].token = t)
      <3>1. fiber' = fs /\ UNCHANGED <<running, groups, watched>>
        <4> HIDE DEF g
        <4> QED BY <1>2, <1>4, <2>1 DEF Attach, g
      <3> QED BY <1>3, <3>1 DEF Tokens
    <2>2. CASE IsRunning(g) /\ running[g].token = t
      <3>1. groups' = gs /\ Spawn(new, running, gs, fs, FALSE)
        <4>1. LET gs1 == [groups EXCEPT ![fs[t].row] = t] IN
              groups' = gs1 /\ Spawn({r \in Missing(running, gs1) : Parent[r] = fs[t].row},
                                     running, gs1, fs, FALSE)
          <5>1. IsRunning(fs[t].row) /\ running[fs[t].row].token = t
            BY <1>4, <2>2
          <5> HIDE DEF g
          <5> QED BY <1>2, <5>1, Zenon DEF Attach
        <4> QED BY <1>4, <4>1
      <3>2. gs \in [Groups \cup {Root} -> Nat]
        BY <1>1 DEF Rowed, Placed, RowsTypeOK
      <3>3. /\ new \in SUBSET Rows /\ new \subseteq DOMAIN desired
            /\ \A r \in new : ~ IsRunning(r) /\ gs[Parent[r]] \in Nat /\ Wanted(desired, r)
        <4> HIDE DEF gs
        <4> QED BY <1>1, <3>2, TreeFacts DEF Missing, Layers, IsRunning
      <3> HIDE DEF gs, new
      <3> QED BY <1>1, <1>3, <3>1, <3>3, SpawnJoins, ZenonT(30)
    <2> QED BY <2>1, <2>2
  <1>6. Follows
    BY <1>1, <1>4, <1>5 DEF Follows
  <1>7. \A r \in Rows : IsRunning(r) => IsRunning(r)' /\ running'[r].token = running[r].token
    BY <1>5 DEF IsRunning, Joined
  <1>8. \A r \in Rows : Excused(r) => Excused(r)'
    BY <1>1, <1>4, <1>5, <1>7, ExcusedStays, TreeFacts
  <1>9. ASSUME NEW r \in Rows, Gap(r)' PROVE Gap(r)
    <2>1. r \in DOMAIN desired /\ Wanted(desired, r) /\ ~ IsRunning(r) /\ groups'[Parent[r]] # NoToken
          /\ ~ IsRunning(r)'
      BY <1>1, <1>7, <1>9 DEF Gap
    <2>2. CASE UNCHANGED groups
      BY <2>1, <2>2 DEF Gap
    <2>3. CASE groups' = gs /\ \A x \in new : IsRunning(x)'
      <3>1. Parent[r] # g
        BY <2>1, <2>3 DEF Missing, IsRunning
      <3>2. groups'[Parent[r]] = groups[Parent[r]]
        BY <1>1, <2>3, <3>1, TreeFacts DEF Rowed, Placed, RowsTypeOK
      <3> QED BY <2>1, <3>2 DEF Gap
    <2> QED BY <1>5, <2>2, <2>3
  <1> QED BY <1>6, <1>8, <1>9 DEF NoGap

(* ... when a monitor drops the record of a fiber that has gone, ... *)
LEMMA MonitorFollows ==
  ASSUME Rowed, NEW t \in Tokens, Monitor(t)
  PROVE  Follows /\ (NoGap => NoGap')
  <1> DEFINE q == fiber[t].row
             gone == IF StillItsRecord(t) THEN {q} ELSE {}
  <1>1. q \in Rows /\ fiber[t].st = "Disposed" /\ UNCHANGED <<desired, fiber>> /\ Tokens' = Tokens
    BY Typed DEF Rowed, Monitor, Tokens
  <1>2. gone \in SUBSET Rows /\ running' = Without(gone) /\ groups' = groups
    BY MonitorDrops
  <1>3. \A r \in Rows : running'[r] = IF r \in gone THEN NoRecord ELSE running[r]
    <2> HIDE DEF gone
    <2> QED BY <1>2 DEF Without
  <1>4. Follows
    BY <1>1, <1>3 DEF Follows
  <1>5. disables \subseteq disables'
    BY DEF Monitor
  <1>6. \A a \in Groups : IsRunning(a) /\ fiber[running[a].token].st = "Unloading" =>
                             IsRunning(a)' /\ running'[a].token = running[a].token
    <2> TAKE a \in Groups
    <2> HAVE IsRunning(a) /\ fiber[running[a].token].st = "Unloading"
    <2>1. a \notin gone
      BY <1>1 DEF StillItsRecord
    <2> HIDE DEF gone
    <2> QED BY <1>3, <2>1, TreeFacts DEF IsRunning
  <1>7. \A r \in Rows : Excused(r) => Excused(r)'
    BY <1>1, <1>5, <1>6, ExcusedStays
  <1>8. ASSUME NEW r \in Rows, Gap(r)', r \notin gone PROVE Gap(r)
    <2> HIDE DEF gone
    <2> QED BY <1>1, <1>2, <1>3, <1>8 DEF Gap, IsRunning
  <1>9. ASSUME NEW r \in gone, Gap(r)' PROVE Excused(r)'
    <2>1. r = q /\ StillItsRecord(t) /\ IsRunning(r) /\ running[r].token = t
      BY <1>9 DEF StillItsRecord
    <2>2. CASE ~ Cascading(r)
      <3>1. t \in disables'
        BY <2>1, <2>2 DEF Monitor
      <3> QED BY <1>1, <2>1, <3>1 DEF Excused
    <2>3. CASE Cascading(r)
      <3>1. PICK a \in Above[r] : \/ ~ IsRunning(a)
                                  \/ fiber[running[a].token].st \in {"Unloading", "Draining", "Disposed"}
                                  \/ groups[a] = NoToken
        BY <2>3 DEF Cascading
      <3>2. /\ a \in Rows /\ a \in Groups /\ a # r
            /\ IsRunning(a) /\ groups[a] = running[a].token /\ groups[a] # NoToken
        BY <1>1, <2>1, RecordsAbove, AboveFacts
      <3>3. fiber[running[a].token].st \in {"Active", "Unloading"}
        BY <3>2, WhenRegistered
      <3>4. fiber[running[a].token].st = "Unloading"
        BY <3>1, <3>2, <3>3
      <3> QED BY <1>1, <1>6, <3>1, <3>2, <3>4 DEF Excused
    <2> QED BY <2>2, <2>3
  <1> HIDE DEF gone
  <1> QED BY <1>4, <1>7, <1>8, <1>9 DEF NoGap

(* ... and when a group drops what is below it. *)
LEMMA CleanupFollows ==
  ASSUME Rowed, NEW t \in Tokens, Cleanup(t)
  PROVE  Follows /\ (NoGap => NoGap')
  <1> DEFINE g == fiber[t].row
             gone == IF groups[g] = t THEN {r \in Rows : IsRunning(r) /\ g \in Above[r]} ELSE {}
  <1>1. g \in Groups /\ g \in Rows /\ fiber[t].st = "Unloading" /\ fiber[t] \in FiberRecord
        /\ UNCHANGED <<desired, disables>> /\ t # NoToken
    BY Typed DEF Cleanup, IsGroup, Rowed, Placed
  <1>2. /\ fiber' = [c \in Tokens |->
             IF c = t THEN [fiber[t] EXCEPT !.st = "Draining"]
             ELSE IF c \in Children(t) THEN [fiber[c] EXCEPT !.ending = TRUE] ELSE fiber[c]]
        /\ Detach(t) /\ Tokens' = Tokens
    BY DEF Cleanup, Tokens
  <1>3. /\ running' = Without(gone)
        /\ \A a \in Groups : groups'[a] # NoToken => /\ groups'[a] = groups[a]
                                                     /\ a \notin gone /\ ~ (a = g /\ groups[g] = t)
        /\ groups'[Root] = groups[Root]
    <2>1. CASE groups[g] = t
      <3>1. Under(g, t) = gone
        BY <1>1, <2>1, UnderRegistered
      <3>2. /\ groups' = [Unregistered(gone) EXCEPT ![g] = NoToken]
            /\ running' = Without(gone)
        BY <1>2, <2>1, <3>1 DEF Detach
      <3>3. gone \in SUBSET Rows
        OBVIOUS
      <3> HIDE DEF gone
      <3>4. Unregistered(gone) \in [Groups \cup {Root} -> Nat] /\ Unregistered(gone)[Root] = RootToken
            /\ \A a \in Groups : Unregistered(gone)[a] = IF a \in gone THEN NoToken ELSE groups[a]
        BY <3>3, UnregisteredFacts
      <3> QED BY <1>1, <2>1, <3>2, <3>4, TreeFacts DEF NoToken, Rowed, Placed
    <2>2. CASE groups[g] # t
      <3>1. gone = {} /\ UNCHANGED <<groups, running>>
        BY <1>2, <2>2 DEF Detach
      <3>2. running = Without({})
        BY DEF Without, Rowed, Placed, RowsTypeOK
      <3> QED BY <2>2, <3>1, <3>2
    <2> QED BY <2>1, <2>2
  <1>4. \A x \in Tokens : fiber[x] \in FiberRecord
    BY DEF Rowed, Placed
  <1>5. \A x \in Tokens : /\ fiber'[x].row = fiber[x].row /\ fiber'[x].config = fiber[x].config
                          /\ fiber[x].ending => fiber'[x].ending
                          /\ x # t => fiber'[x].st = fiber[x].st
    <2> TAKE x \in Tokens
    <2>1. CASE x = t
      <3>1. fiber'[x] = [fiber[x] EXCEPT !.st = "Draining"]
        BY <1>2, <2>1
      <3> QED BY <1>4, <2>1, <3>1 DEF FiberRecord
    <2>2. CASE x # t /\ x \in Children(t)
      <3>1. fiber'[x] = [fiber[x] EXCEPT !.ending = TRUE]
        BY <1>2, <2>2
      <3> QED BY <1>4, <3>1 DEF FiberRecord
    <2>3. CASE x # t /\ x \notin Children(t)
      BY <1>2, <2>3
    <2> QED BY <2>1, <2>2, <2>3
  <1>6. \A r \in Rows : running'[r] = IF r \in gone THEN NoRecord ELSE running[r]
    <2> HIDE DEF gone
    <2> QED BY <1>3 DEF Without
  <1>7. Follows
    BY <1>1, <1>2, <1>5, <1>6 DEF Follows
  <1>8. ASSUME NEW r \in Rows, Gap(r)'
        PROVE  r \notin gone /\ Gap(r) /\ (groups[g] = t => g \notin Above[r])
    <2>1. r \in DOMAIN desired /\ Wanted(desired, r) /\ groups'[Parent[r]] # NoToken /\ ~ IsRunning(r)'
      BY <1>1, <1>8 DEF Gap
    <2>2. groups'[Parent[r]] = groups[Parent[r]]
          /\ Parent[r] \notin gone /\ ~ (Parent[r] = g /\ groups[g] = t)
      <3>1. CASE Parent[r] = Root
        BY <1>1, <1>3, <3>1, TreeFacts
      <3>2. CASE Parent[r] \in Groups
        BY <1>3, <2>1, <3>2
      <3> QED BY <3>1, <3>2, TreeFacts
    <2>3. groups[g] = t => g \notin Above[r]
      <3> SUFFICES ASSUME groups[g] = t, g \in Above[r] PROVE FALSE
        OBVIOUS
      <3>1. Parent[r] # Root /\ Parent[r] # g
        BY <2>2, AboveStep
      <3>2. g \in Above[Parent[r]] /\ Parent[r] \in Groups /\ Parent[r] \in Rows
        BY <3>1, AboveStep, TreeFacts
      <3>3. IsRunning(Parent[r])
        BY <2>1, <2>2, <3>2, WhenRegistered
      <3> QED BY <2>2, <3>2, <3>3
    <2>4. r \notin gone
      BY <2>3
    <2> HIDE DEF gone
    <2> QED BY <1>6, <2>1, <2>2, <2>3, <2>4 DEF Gap, IsRunning
  <1>9. ASSUME NEW r \in Rows, Excused(r), groups[g] = t => g \notin Above[r] PROVE Excused(r)'
    <2>1. CASE \E d \in disables : fiber[d].row = r
      BY <1>1, <1>5, <2>1, Typed DEF Excused, Rowed
    <2>2. CASE \E a \in Above[r] : IsRunning(a) /\ fiber[running[a].token].st = "Unloading"
      <3>1. PICK a \in Above[r] : IsRunning(a) /\ fiber[running[a].token].st = "Unloading"
        BY <2>2
      <3>2. a \in Rows /\ a \in Groups /\ Above[a] \subseteq Above[r]
        BY AboveFacts
      <3>3. running[a].token \in Tokens /\ fiber[running[a].token].row = a
            /\ groups[a] = running[a].token
        BY <3>1, <3>2, Records, WhenRegistered
      <3>4. running[a].token # t
        BY <1>9, <3>1, <3>3
      <3>5. a \notin gone
        BY <1>9, <3>2
      <3> HIDE DEF gone
      <3>6. IsRunning(a)' /\ fiber'[running'[a].token].st = "Unloading"
        BY <1>5, <1>6, <3>1, <3>2, <3>3, <3>4, <3>5 DEF IsRunning
      <3> QED BY <3>1, <3>6 DEF Excused
    <2> QED BY <1>9, <2>1, <2>2 DEF Excused
  <1> HIDE DEF gone
  <1> QED BY <1>7, <1>8, <1>9 DEF NoGap

(* Whatever the kernel and the monitors do, the tables stay in order. *)
LEMMA TreeSteps ==
  ASSUME Rowed, NEW t \in Tokens, FiberSteps(t) \/ Monitor(t) \/ Upsets(t)
  PROVE  Rowed' /\ Follows /\ (NoGap => NoGap')
  <1>1. CASE Plain(t)
    BY <1>1, PlainRowed, PlainFollows
  <1>2. CASE GroupLoads(t)
    BY <1>2, RowedGroupLoads, GroupLoadsFollows
  <1>3. CASE Cleanup(t)
    BY <1>3, RowedCleanup, CleanupFollows
  <1>4. CASE Monitor(t)
    BY <1>4, RowedMonitor, MonitorFollows
  <1> QED BY <1>1, <1>2, <1>3, <1>4 DEF FiberSteps, Plain

-----------------------------------------------------------------------------
(* Types of the operation, and what goes with its parts *)

InReconcile == op # NoOp /\ op.at \in {"read", "drop", "dispose", "update", "settle"}
Editing == InReconcile /\ op.stage \in {"commit", "rollback"}

(* An edit is at hand while one is committed or taken back; a replay has   *)
(* edits left, a save none; and the retries are counted.                   *)
OpShape ==
  op # NoOp =>
    /\ Editing => op.edit \in EditType
    /\ op.at = "replay" => op.todo # <<>>
    /\ Editing /\ op.index = 0 => op.todo = <<>> /\ ~ op.tries
    /\ op.at \in {"save", "load"} => op.todo = <<>>
    /\ op.at # "save" /\ (op.tries \/ op.at = "load") => op.attempt < CONFLICT_RETRIES

OpsTyped ==
  /\ layer \in Layers /\ version \in Layers /\ store \in Layers /\ seen \in Layers
  /\ queue \in Seq(EditType)
  /\ op \in OpType \cup {NoOp}
  /\ told \in [Callers -> {"none", "read", "ok", "refused", "persistFailed", "conflict", "gaveUp"}]
  /\ saved \subseteq Callers \cup {Monitors} /\ dropped \subseteq Callers \cup {Monitors}
  /\ gaveUp \in BOOLEAN
  /\ work \in ScenarioType

Typing == OpsTyped /\ OpShape

(* The layer of the start is one. *)
LEMMA BootLayer == Boot \in Layers /\ Boot \in [Rows -> Content]
  <1>1. Boot \in [Rows -> Content]
    BY ScenarioAssumption
  <1>2. Rows \in SUBSET Rows
    OBVIOUS
  <1> HIDE DEF Rows
  <1> QED BY <1>1, <1>2 DEF Layers

(* A layer says something of some of the rows. *)
LEMMA LayerFacts ==
  ASSUME NEW l \in Layers
  PROVE  DOMAIN l \subseteq Rows /\ l \in [DOMAIN l -> Content]
  BY DEF Layers

(* What says something of some of the rows is a layer. *)
LEMMA IsLayer ==
  ASSUME NEW S \in SUBSET Rows, NEW l \in [S -> Content]
  PROVE  l \in Layers
  BY DEF Layers

(* An edit that applies to a layer makes a layer. *)
LEMMA Applied ==
  ASSUME NEW l \in Layers, NEW e, Applies(l, e),
         e.row \in Rows, e.set \in Changes, e.to \in ValuesFor(e.set)
  PROVE  Apply(l, e) \in Layers
  <1>1. DOMAIN l \subseteq Rows /\ l \in [DOMAIN l -> Content]
    BY LayerFacts
  <1>2. CASE e.set = "remove"
    <2>1. Apply(l, e) = [r \in DOMAIN l \ Below(e.row) |-> l[r]]
      BY <1>2 DEF Apply
    <2>2. Apply(l, e) \in [DOMAIN l \ Below(e.row) -> Content]
          /\ DOMAIN l \ Below(e.row) \in SUBSET Rows
      BY <1>1, <2>1
    <2> HIDE DEF Rows
    <2> QED BY <2>2, IsLayer
  <1>3. CASE e.set = "create"
    <2>1. Apply(l, e) = [r \in DOMAIN l \cup {e.row} |-> IF r = e.row THEN Boot[r] ELSE l[r]]
      BY <1>3 DEF Apply
    <2>2. Apply(l, e) \in [DOMAIN l \cup {e.row} -> Content] /\ DOMAIN l \cup {e.row} \in SUBSET Rows
      BY <1>1, <2>1, BootLayer
    <2> HIDE DEF Rows
    <2> QED BY <2>2, IsLayer
  <1>4. CASE e.set \in {"disable", "enable", "config", "inject"}
    <2>1. e.row \in DOMAIN l /\ l[e.row] \in Content
      BY <1>1, <1>4 DEF Applies
    <2>2. PICK x \in Content : Apply(l, e) = [l EXCEPT ![e.row] = x]
      <3>1. CASE e.set \in {"disable", "enable"}
        <4>1. Apply(l, e) = [l EXCEPT ![e.row] = [l[e.row] EXCEPT !.off = (e.set = "disable")]]
          BY <3>1 DEF Apply
        <4>2. [l[e.row] EXCEPT !.off = (e.set = "disable")] \in Content
          BY <2>1 DEF Content
        <4> QED BY <4>1, <4>2
      <3>2. CASE e.set = "config"
        <4>1. Apply(l, e) = [l EXCEPT ![e.row] = [l[e.row] EXCEPT !.config = e.to]]
          BY <3>2 DEF Apply
        <4>2. e.to \in Configs
          BY <3>2 DEF ValuesFor
        <4>3. [l[e.row] EXCEPT !.config = e.to] \in Content
          BY <2>1, <4>2 DEF Content
        <4> QED BY <4>1, <4>3
      <3>3. CASE e.set = "inject"
        <4>1. Apply(l, e) = [l EXCEPT ![e.row] = [l[e.row] EXCEPT !.inject = e.to]]
          BY <3>3 DEF Apply
        <4>2. e.to \in Injects
          BY <3>3 DEF ValuesFor
        <4>3. [l[e.row] EXCEPT !.inject = e.to] \in Content
          BY <2>1, <4>2 DEF Content
        <4> QED BY <4>1, <4>3
      <3> QED BY <1>4, <3>1, <3>2, <3>3
    <2>3. Apply(l, e) \in [DOMAIN l -> Content]
      BY <1>1, <2>1, <2>2
    <2> HIDE DEF Rows
    <2> QED BY <1>1, <2>3, IsLayer
  <1> QED BY <1>2, <1>3, <1>4 DEF Changes

(* The parts of an edit. *)
LEMMA EditFacts ==
  ASSUME NEW e \in EditType
  PROVE  /\ e.by \in Callers \cup {Monitors} /\ e.row \in Rows /\ e.set \in Changes
         /\ e.to \in ValuesFor(e.set)
  BY DEF EditType

(* A caller's job is about a row, and the edit it makes is one. *)
LEMMA JobFacts ==
  ASSUME work \in ScenarioType, NEW c \in Callers
  PROVE  /\ work.job[c].row \in Rows
         /\ IsEdit(work.job[c]) => EditOf(c) \in EditType
  <1>1. work.job \in [Callers -> Job]
    BY DEF ScenarioType
  <1>2. work.job[c] \in Job
    BY <1>1
  <1>3. /\ work.job[c].row \in Rows /\ work.job[c].to \in {0} \cup Configs \cup Injects
        /\ work.job[c].to \in ValuesFor(work.job[c].set)
    BY <1>2 DEF Job
  <1>4. ASSUME IsEdit(work.job[c]) PROVE EditOf(c) \in EditType
    <2>1. work.job[c].set \in Changes
      BY <1>4 DEF IsEdit
    <2> QED BY <1>3, <2>1 DEF EditOf, EditType
  <1> QED BY <1>3, <1>4

(* The edit of a monitor, which turns a row off, is one. *)
LEMMA DisableTyped ==
  ASSUME NEW r \in Rows
  PROVE  Disable(r) \in EditType
  BY DEF Disable, EditType, Changes, ValuesFor

(* The parts of what is left to do. *)
LEMMA WorkTyped ==
  ASSUME work \in ScenarioType
  PROVE  /\ work.outside \in Nat /\ work.saveFails \in Nat /\ work.loadFails \in Nat
         /\ work.applyFails \in Nat /\ work.giveUps \in Nat /\ work.upsets \in Nat
         /\ work.outside > 0 => [work EXCEPT !.outside = @ - 1] \in ScenarioType
         /\ work.saveFails > 0 => [work EXCEPT !.saveFails = @ - 1] \in ScenarioType
         /\ work.loadFails > 0 => [work EXCEPT !.loadFails = @ - 1] \in ScenarioType
         /\ work.applyFails > 0 => [work EXCEPT !.applyFails = @ - 1] \in ScenarioType
         /\ work.giveUps > 0 => [work EXCEPT !.giveUps = @ - 1] \in ScenarioType
         /\ work.upsets > 0 => [work EXCEPT !.upsets = @ - 1] \in ScenarioType
  BY DEF ScenarioType

(* The parts of an operation. *)
LEMMA OpFacts ==
  ASSUME OpsTyped, op # NoOp
  PROVE  /\ op \in OpType
         /\ op.who \in Callers \cup {Monitors} /\ op.at \in At
         /\ op.stage \in {"commit", "rollback", "latest"}
         /\ op.edit \in EditType \cup {NoEdit} /\ op.base \in Layers
         /\ op.wait \subseteq Tokens /\ op.updates \subseteq Tokens /\ op.sent \in Tokens \cup {NoToken}
         /\ op.todo \in Seq(EditType) /\ op.index \in Nat /\ op.tries \in BOOLEAN
         /\ op.current \in Nat /\ op.kept \in Nat /\ op.attempt \in 0 .. CONFLICT_RETRIES
         /\ op.error \in {"ok", "refused"}
  <1>1. op \in OpType
    BY DEF OpsTyped
  <1> QED BY <1>1 DEF OpType

(* An operation is told from none by its type. *)
LEMMA IsOp ==
  ASSUME NEW o \in OpType
  PROVE  o # NoOp
  BY DEF OpType, NoOp

(* An operation is one in a state with more fibers. *)
LEMMA OpGrows ==
  ASSUME Tokens \subseteq Tokens'
  PROVE  OpType \subseteq OpType'
  BY DEF OpType

(* A new operation is one but for the place it is at. *)
OpenType ==
  [who : Callers \cup {Monitors}, at : {"commit"}, stage : {"commit", "rollback", "latest"},
   edit : EditType \cup {NoEdit}, base : Layers, before : SUBSET (Rows \X Content),
   wait : SUBSET Tokens, updates : SUBSET Tokens, sent : Tokens \cup {NoToken},
   todo : Seq(EditType), index : Nat, tries : BOOLEAN, current : Nat, kept : Nat,
   attempt : 0 .. CONFLICT_RETRIES, error : {"ok", "refused"}]

(* The parts of an operation that opens. *)
LEMMA OpenFacts ==
  ASSUME NEW who \in Callers \cup {Monitors}
  PROVE  /\ NewOp(who) \in OpenType
         /\ LET p == NewOp(who) IN
            /\ p.who = who /\ p.edit = NoEdit /\ p.stage = "commit"
            /\ p.todo = <<>> /\ p.index = 0 /\ ~ p.tries /\ p.current = NoSuch /\ p.kept = NoSuch
            /\ p.attempt = 0 /\ p.error = "ok"
  <1>1. <<>> \in Seq(EditType) /\ Boot \in Layers /\ CONFLICT_RETRIES = 3
    BY BootLayer DEF CONFLICT_RETRIES
  <1>2. NewOp(who) \in OpenType
    BY <1>1 DEF NewOp, OpenType, NoSuch, NoToken
  <1>3. LET p == NewOp(who) IN
            /\ p.who = who /\ p.edit = NoEdit /\ p.stage = "commit"
            /\ p.todo = <<>> /\ p.index = 0 /\ ~ p.tries /\ p.current = NoSuch /\ p.kept = NoSuch
            /\ p.attempt = 0 /\ p.error = "ok"
    BY DEF NewOp, NoSuch
  <1> QED BY <1>2, <1>3

(* An operation that opens to commit an edit. *)
LEMMA NewEditFacts ==
  ASSUME NEW who \in Callers \cup {Monitors}, NEW e \in EditType, layer \in Layers
  PROVE  LET p == Committing(NewOp(who), e) IN
         /\ p \in OpType
         /\ p.who = who /\ p.at = "read" /\ p.stage = "commit" /\ p.edit = e /\ p.base = layer
         /\ p.todo = <<>> /\ p.index = 0 /\ ~ p.tries /\ p.current = NoSuch /\ p.kept = NoSuch
         /\ p.attempt = 0 /\ p.error = "ok"
  <1> DEFINE o == NewOp(who)
  <1>1. /\ o \in OpenType
        /\ o.who = who
        /\ o.todo = <<>> /\ o.index = 0 /\ ~ o.tries /\ o.current = NoSuch /\ o.kept = NoSuch
        /\ o.attempt = 0 /\ o.error = "ok"
    BY OpenFacts
  <1> HIDE DEF o
  <1>2. Committing(o, e) \in OpType
    BY <1>1 DEF Committing, OpenType, OpType, At
  <1>3. LET p == Committing(o, e) IN
         /\ p.who = who /\ p.at = "read" /\ p.stage = "commit" /\ p.edit = e /\ p.base = layer
         /\ p.todo = <<>> /\ p.index = 0 /\ ~ p.tries /\ p.current = NoSuch /\ p.kept = NoSuch
         /\ p.attempt = 0 /\ p.error = "ok"
    BY <1>1 DEF Committing, OpenType
  <1> QED BY <1>2, <1>3 DEF o

(* An operation that opens to save what is pending. *)
LEMMA NewFlushFacts ==
  ASSUME NEW who \in Callers \cup {Monitors}
  PROVE  LET p == Persisting(NewOp(who), NoSuch) IN
         /\ p \in OpType
         /\ p.who = who /\ p.at = "save" /\ p.edit = NoEdit
         /\ p.todo = <<>> /\ p.index = 0 /\ ~ p.tries /\ p.current = NoSuch /\ p.kept = NoSuch
         /\ p.attempt = 0 /\ p.error = "ok"
  <1> DEFINE o == NewOp(who)
  <1>1. /\ o \in OpenType
        /\ o.who = who /\ o.edit = NoEdit
        /\ o.todo = <<>> /\ o.index = 0 /\ ~ o.tries /\ o.current = NoSuch /\ o.kept = NoSuch
        /\ o.attempt = 0 /\ o.error = "ok"
    BY OpenFacts
  <1> HIDE DEF o
  <1>2. NoSuch \in Nat /\ 0 \in 0 .. CONFLICT_RETRIES
    BY DEF NoSuch, CONFLICT_RETRIES
  <1>3. Persisting(o, NoSuch) \in OpType
    BY <1>1, <1>2 DEF Persisting, OpenType, OpType, At
  <1>4. LET p == Persisting(o, NoSuch) IN
         /\ p.who = who /\ p.at = "save" /\ p.edit = NoEdit
         /\ p.todo = <<>> /\ p.index = 0 /\ ~ p.tries /\ p.current = NoSuch /\ p.kept = NoSuch
         /\ p.attempt = 0 /\ p.error = "ok"
    BY <1>1 DEF Persisting, OpenType
  <1> QED BY <1>3, <1>4 DEF o

(* An operation that is to save waits for an edit of the queue. *)
LEMMA PersistingFacts ==
  ASSUME NEW o \in OpType, NEW n \in Nat
  PROVE  LET p == Persisting(o, n) IN
         /\ p \in OpType
         /\ p.who = o.who /\ p.at = "save" /\ p.stage = o.stage /\ p.edit = o.edit
         /\ p.base = o.base /\ p.todo = o.todo /\ p.index = o.index /\ p.tries = o.tries
         /\ p.kept = o.kept /\ p.error = o.error /\ p.current = n
  <1>1. 0 \in 0 .. CONFLICT_RETRIES
    BY DEF CONFLICT_RETRIES
  <1> DEFINE z == 0
  <1>2. z \in 0 .. CONFLICT_RETRIES /\ Persisting(o, n) = [o EXCEPT !.at = "save", !.current = n, !.attempt = z]
    BY <1>1 DEF Persisting
  <1> HIDE DEF z
  <1>3. [o EXCEPT !.at = "save", !.current = n, !.attempt = z] \in OpType
    BY <1>2 DEF OpType, At
  <1>4. LET p == [o EXCEPT !.at = "save", !.current = n, !.attempt = z] IN
         /\ p.who = o.who /\ p.at = "save" /\ p.stage = o.stage /\ p.edit = o.edit
         /\ p.base = o.base /\ p.todo = o.todo /\ p.index = o.index /\ p.tries = o.tries
         /\ p.kept = o.kept /\ p.error = o.error /\ p.current = n
    BY DEF OpType
  <1> QED BY <1>2, <1>3, <1>4

(* The next edit of a replay, or the save after the last. *)
LEMMA ReplayingFacts ==
  ASSUME NEW o \in OpType, o.tries => o.attempt < CONFLICT_RETRIES
  PROVE  LET p == Replaying(o) IN
         /\ p \in OpType
         /\ p.who = o.who /\ p.stage = o.stage /\ p.edit = o.edit /\ p.base = o.base
         /\ p.todo = o.todo /\ p.index = o.index /\ p.tries = o.tries /\ p.kept = o.kept
         /\ p.error = o.error
         /\ o.todo # <<>> => p.at = "replay" /\ p.current = o.current /\ p.attempt = o.attempt
         /\ o.todo = <<>> => p.at = "save" /\ p.current = IF o.tries THEN o.kept ELSE NoSuch
  <1>0. o.tries \in BOOLEAN /\ o.kept \in Nat
    BY DEF OpType
  <1>1. CASE o.todo # <<>>
    <2>1. Replaying(o) = [o EXCEPT !.at = "replay"]
      BY <1>1 DEF Replaying
    <2> QED BY <1>1, <2>1 DEF OpType, At
  <1>2. CASE o.todo = <<>> /\ o.tries
    <2>1. Replaying(o) = [o EXCEPT !.at = "save", !.current = o.kept, !.attempt = @ + 1]
      BY <1>2 DEF Replaying
    <2>2. o.attempt \in 0 .. CONFLICT_RETRIES /\ o.attempt + 1 \in 0 .. CONFLICT_RETRIES
      BY <1>2 DEF OpType, CONFLICT_RETRIES
    <2> QED BY <1>0, <1>2, <2>1, <2>2 DEF OpType, At
  <1>3. CASE o.todo = <<>> /\ ~ o.tries
    <2>1. Replaying(o) = Persisting(o, NoSuch) /\ NoSuch \in Nat
      BY <1>3 DEF Replaying, NoSuch
    <2> DEFINE p == Persisting(o, NoSuch)
    <2>2. /\ p \in OpType
          /\ p.who = o.who /\ p.at = "save" /\ p.stage = o.stage /\ p.edit = o.edit
          /\ p.base = o.base /\ p.todo = o.todo /\ p.index = o.index /\ p.tries = o.tries
          /\ p.kept = o.kept /\ p.error = o.error /\ p.current = NoSuch
      BY <2>1, PersistingFacts
    <2>3. Replaying(o) = p
      BY <2>1
    <2> HIDE DEF p
    <2> QED BY <1>3, <2>2, <2>3
  <1> QED BY <1>0, <1>1, <1>2, <1>3

(* An answer ends the operation. *)
LEMMA AnswerFacts ==
  ASSUME OpsTyped, NEW who \in Callers \cup {Monitors},
         NEW a \in {"ok", "refused", "persistFailed", "conflict", "gaveUp"}, Answer(who, a)
  PROVE  /\ op' = NoOp
         /\ told' \in [Callers -> {"none", "read", "ok", "refused", "persistFailed", "conflict", "gaveUp"}]
         /\ \A c \in Callers : told'[c] = IF c = who THEN a ELSE told[c]
  BY DEF Answer, OpsTyped

(* What a caller is told is one of the answers. *)
LEMMA OutcomeTyped ==
  ASSUME OpsTyped, op # NoOp, NEW a \in {"ok", "persistFailed", "conflict"}
  PROVE  Outcome(a) \in {"ok", "refused", "persistFailed", "conflict", "gaveUp"}
  BY OpFacts DEF Outcome

(* The tables as they are. *)
LEMMA SameTree ==
  ASSUME UNCHANGED tree
  PROVE  /\ Rowed <=> Rowed'
         /\ Tokens' = Tokens
         /\ \A r \in Rows : IsRunning(r)' <=> IsRunning(r)
         /\ NoGap <=> NoGap'
  <1>1. /\ desired' = desired /\ running' = running /\ groups' = groups /\ fiber' = fiber
        /\ watched' = watched /\ disables' = disables /\ abandoned' = abandoned
    BY DEF tree
  <1>2. Tokens' = Tokens
    BY <1>1 DEF Tokens
  <1>3. Placed' <=> Placed
    BY <1>1, <1>2 DEF Placed, RowsTypeOK, Finite
  <1>4. \A t : (Lives(t)' <=> Lives(t)) /\ (StrayGoes(t)' <=> StrayGoes(t))
    BY <1>1, <1>2 DEF Lives, StrayGoes, Stray
  <1>5. \A r : (IsRunning(r)' <=> IsRunning(r)) /\ (RecordOf(r)' <=> RecordOf(r))
               /\ (Registered(r)' <=> Registered(r))
    BY <1>1, <1>2 DEF IsRunning, RecordOf, Registered
  <1>6. NoGap <=> NoGap'
    BY <1>1, <1>5 DEF NoGap, Gap, Excused
  <1> QED BY <1>1, <1>2, <1>3, <1>4, <1>5, <1>6 DEF Rowed

-----------------------------------------------------------------------------
(* The types of every step, and where it leads *)

(* An operation as it begins. *)
Opens(who) ==
  /\ op' # NoOp /\ op'.who = who /\ op'.index = 0 /\ ~ op'.tries
  /\ op'.current = NoSuch /\ op'.kept = NoSuch /\ op'.error = "ok"

(* An edit is made to the layer, and to be followed by the rows. *)
Commits(e) ==
  /\ Applies(layer, e) /\ layer' = Apply(layer, e)
  /\ op'.at = "read" /\ op'.stage = "commit" /\ op'.edit = e /\ op'.base = layer
  /\ UNCHANGED <<told, dropped>>

(* A replay with the edits q to go on with, or the save after it. *)
Resumes(q, i, k, r) ==
  /\ op' # NoOp /\ op'.who = op.who /\ op'.edit = op.edit /\ op'.tries = op.tries
  /\ op'.todo = q /\ op'.index = i /\ op'.error = r
  /\ q # <<>> => op'.at = "replay" /\ op'.current = op.current /\ op'.kept = k
  /\ q = <<>> => op'.at = "save" /\ op'.current = IF op.tries THEN k ELSE NoSuch

(* The rest of the state keeps its types. *)
LEMMA TypingStep ==
  ASSUME Typing, Tokens \subseteq Tokens', op' \in OpType \cup {NoOp},
         layer' \in Layers, version' \in Layers, store' \in Layers, seen' \in Layers,
         queue' \in Seq(EditType),
         told' \in [Callers -> {"none", "read", "ok", "refused", "persistFailed", "conflict", "gaveUp"}],
         saved' \subseteq Callers \cup {Monitors}, dropped' \subseteq Callers \cup {Monitors},
         gaveUp' \in BOOLEAN, work' \in ScenarioType,
         op' # NoOp => /\ Editing' => op'.edit \in EditType
                       /\ op'.at = "replay" => op'.todo # <<>>
                       /\ Editing' /\ op'.index = 0 => op'.todo = <<>> /\ ~ op'.tries
                       /\ op'.at \in {"save", "load"} => op'.todo = <<>>
                       /\ op'.at # "save" /\ (op'.tries \/ op'.at = "load") =>
                            op'.attempt < CONFLICT_RETRIES
  PROVE  Typing'
  <1>1. op' \in OpType' \cup {NoOp}
    BY OpGrows
  <1> QED BY <1>1 DEF Typing, OpsTyped, OpShape

(* An operation that starts for an edit opens, and commits the edit or     *)
(* refuses it there and then: types are kept, ...                          *)
LEMMA StartEditTyped ==
  ASSUME Typing, NEW who \in Callers \cup {Monitors}, NEW e \in EditType,
         StartEdit(who, e), Tokens' = Tokens
  PROVE  /\ Typing'
         /\ op = NoOp
         /\ \/ Opens(who) /\ Commits(e) /\ op'.todo = <<>>
            \/ /\ ~ Applies(layer, e) /\ Answer(who, "refused") /\ op' = NoOp
               /\ layer' = layer /\ dropped' = dropped
  <1>0. OpsTyped /\ layer \in Layers /\ op = NoOp
    BY DEF Typing, OpsTyped, StartEdit, Free
  <1>1. UNCHANGED <<version, queue, seen, saved, dropped, gaveUp, store, work>>
    BY DEF StartEdit
  <1>2. CASE Applies(layer, e)
    <2>1. op' = Committing(NewOp(who), e) /\ layer' = Apply(layer, e) /\ UNCHANGED told
      BY <1>2 DEF StartEdit
    <2>2. layer' \in Layers
      BY <1>0, <1>2, <2>1, EditFacts, Applied
    <2>3. /\ op' \in OpType /\ op'.at = "read" /\ op'.stage = "commit" /\ op'.edit = e
          /\ op'.who = who /\ op'.base = layer
          /\ op'.todo = <<>> /\ op'.index = 0 /\ ~ op'.tries /\ op'.current = NoSuch
          /\ op'.kept = NoSuch /\ op'.error = "ok"
      BY <1>0, <2>1, NewEditFacts
    <2>4. op' # NoOp
      BY <2>3, IsOp
    <2>5. Typing'
      BY <1>0, <1>1, <2>1, <2>2, <2>3, TypingStep DEF Typing, OpsTyped
    <2> QED BY <1>0, <1>1, <1>2, <2>1, <2>3, <2>4, <2>5 DEF Opens, Commits
  <1>3. CASE ~ Applies(layer, e)
    <2>1. Answer(who, "refused") /\ UNCHANGED layer
      BY <1>3 DEF StartEdit
    <2>2. op' = NoOp
          /\ told' \in [Callers -> {"none", "read", "ok", "refused", "persistFailed", "conflict", "gaveUp"}]
      BY <1>0, <2>1, AnswerFacts
    <2>3. Typing'
      BY <1>0, <1>1, <2>1, <2>2, TypingStep DEF Typing, OpsTyped
    <2> QED BY <1>0, <1>1, <1>3, <2>1, <2>2, <2>3
  <1> QED BY <1>2, <1>3

(* ... so they are when it starts to save, ... *)
LEMMA FlushTyped ==
  ASSUME Typing, NEW c \in Callers, Flush(c), Tokens' = Tokens
  PROVE  Typing' /\ op = NoOp /\ op' # NoOp /\ op'.at = "save" /\ Opens(c) /\ op'.todo = <<>>
  <1>1. UNCHANGED <<work, store, layer, version, queue, told, seen, saved, dropped, gaveUp>>
        /\ op = NoOp /\ op' = Persisting(NewOp(c), NoSuch)
    BY DEF Flush, Free
  <1>2. /\ op' \in OpType /\ op'.at = "save" /\ op'.todo = <<>> /\ op'.index = 0 /\ ~ op'.tries
        /\ op'.who = c /\ op'.current = NoSuch /\ op'.kept = NoSuch /\ op'.error = "ok"
    BY <1>1, NewFlushFacts
  <1>3. op' # NoOp
    BY <1>2, IsOp
  <1>4. ~ Editing'
    BY <1>2 DEF Editing, InReconcile
  <1>5. Typing'
    BY <1>1, <1>2, <1>4, TypingStep DEF Typing, OpsTyped
  <1> QED BY <1>1, <1>2, <1>3, <1>5 DEF Opens

(* ... to have the rows follow the layer as it is, ... *)
LEMMA ReconcileTyped ==
  ASSUME Typing, NEW c \in Callers, Reconcile(c), Tokens' = Tokens
  PROVE  /\ Typing' /\ op = NoOp /\ op' # NoOp /\ op'.at = "read" /\ op'.stage = "latest"
         /\ Opens(c) /\ op'.todo = queue
  <1>1. UNCHANGED <<work, store, told, seen, saved, dropped, gaveUp>>
        /\ layer' = seen /\ version' = seen /\ queue' = <<>>
        /\ op = NoOp /\ op' = [NewOp(c) EXCEPT !.at = "read", !.stage = "latest", !.todo = queue]
        /\ queue \in Seq(EditType)
    BY DEF Reconcile, Free, Typing, OpsTyped
  <1>2. /\ op' \in OpType /\ op'.at = "read" /\ op'.stage = "latest" /\ ~ op'.tries
        /\ op'.todo = queue /\ op'.index = 0 /\ op'.who = c
        /\ op'.current = NoSuch /\ op'.kept = NoSuch /\ op'.error = "ok"
    <2> DEFINE o == NewOp(c)
    <2>1. /\ o \in OpenType
          /\ o.who = c
          /\ o.index = 0 /\ ~ o.tries /\ o.current = NoSuch /\ o.kept = NoSuch
          /\ o.error = "ok"
      BY OpenFacts
    <2>2. op' = [o EXCEPT !.at = "read", !.stage = "latest", !.todo = queue]
      BY <1>1
    <2> HIDE DEF o
    <2>3. op' \in OpType
      BY <1>1, <2>1, <2>2 DEF OpenType, OpType, At
    <2>4. /\ op'.who = c /\ op'.at = "read" /\ op'.stage = "latest"
          /\ op'.todo = queue /\ op'.index = 0 /\ ~ op'.tries /\ op'.current = NoSuch
          /\ op'.kept = NoSuch /\ op'.error = "ok"
      BY <2>1, <2>2 DEF OpenType
    <2> QED BY <2>3, <2>4
  <1>3. op' # NoOp
    BY <1>2, IsOp
  <1>4. ~ Editing'
    BY <1>2 DEF Editing, InReconcile
  <1>5. queue' \in Seq(EditType)
    BY <1>1
  <1>6. Typing'
    BY <1>1, <1>2, <1>4, <1>5, TypingStep DEF Typing, OpsTyped
  <1> QED BY <1>1, <1>2, <1>3, <1>6 DEF Opens

(* ... and when a caller only reads. *)
LEMMA ReadLayersTyped ==
  ASSUME Typing, NEW c \in Callers, ReadLayers(c), Tokens' = Tokens
  PROVE  Typing'
  <1>1. UNCHANGED <<work, store, layer, version, queue, op, saved, dropped, gaveUp>>
        /\ told' = [told EXCEPT ![c] = "read"] /\ seen' = store
    BY DEF ReadLayers
  <1>2. told' \in [Callers -> {"none", "read", "ok", "refused", "persistFailed", "conflict", "gaveUp"}]
    BY <1>1 DEF Typing, OpsTyped
  <1>3. Editing' <=> Editing
    BY <1>1 DEF Editing, InReconcile
  <1> QED BY <1>1, <1>2, <1>3, TypingStep DEF Typing, OpsTyped, OpShape

(* Within a reconcile only the place of the operation changes. *)
LEMMA PlaceTyped ==
  ASSUME Typing, op # NoOp, InReconcile, Tokens \subseteq Tokens',
         UNCHANGED <<work, store, layer, version, queue, told, seen, saved, dropped, gaveUp>>,
         op' \in OpType', op'.at \in {"drop", "dispose", "update", "settle"},
         op'.stage = op.stage, op'.edit = op.edit, op'.index = op.index, op'.todo = op.todo,
         op'.tries = op.tries, op'.attempt = op.attempt
  PROVE  Typing' /\ op' # NoOp
  <1>1. op' # NoOp
    BY DEF OpType, NoOp
  <1>2. Editing' <=> Editing
    BY <1>1 DEF Editing, InReconcile
  <1>3. op.at # "save"
    BY DEF InReconcile
  <1> QED BY <1>1, <1>2, <1>3 DEF Typing, OpsTyped, OpShape

(* Types are kept when an operation reads what is running, ... *)
LEMMA ReadRowsTyped ==
  ASSUME Rowed, Typing, op # NoOp, ReadRows, Tokens' = Tokens
  PROVE  Typing' /\ op' # NoOp /\ op'.at = "drop"
  <1>1. UNCHANGED <<work, store, layer, version, queue, told, seen, saved, dropped, gaveUp>>
        /\ op' = [op EXCEPT !.at = "drop", !.before = Failing] /\ op.at = "read"
    BY DEF ReadRows
  <1>2. op \in OpType /\ InReconcile
    BY <1>1 DEF Typing, OpsTyped, InReconcile
  <1>3. Failing \in SUBSET (Rows \X Content)
    <2>1. desired \in Layers
      BY DEF Rowed, Placed, RowsTypeOK
    <2>2. \A r \in DOMAIN desired : r \in Rows /\ desired[r] \in Content
      BY <2>1, LayerFacts
    <2> HIDE DEF Rows
    <2> QED BY <2>2 DEF Failing
  <1>4. op' \in OpType
    <2> HIDE DEF Rows
    <2> QED BY <1>1, <1>2, <1>3 DEF OpType, At
  <1>5. op'.at = "drop" /\ op'.stage = op.stage /\ op'.edit = op.edit /\ op'.index = op.index
        /\ op'.todo = op.todo /\ op'.tries = op.tries /\ op'.attempt = op.attempt
    BY <1>1, <1>2 DEF OpType
  <1> QED BY <1>1, <1>2, <1>4, <1>5, OpGrows, PlaceTyped

(* ... drops what the layer no longer holds, ... *)
LEMMA DropRowsTyped ==
  ASSUME Rowed, Typing, op # NoOp, DropRows, Tokens' = Tokens
  PROVE  Typing' /\ op' # NoOp /\ op'.at = "dispose"
  <1> DEFINE tokens == {running[r].token : r \in {r \in Rows : IsRunning(r) /\ ~ Keeps(r)}}
  <1>1. UNCHANGED <<work, store, layer, version, queue, told, seen, saved, dropped, gaveUp>>
        /\ op' = [op EXCEPT !.at = "dispose", !.wait = tokens] /\ op.at = "drop"
    BY DEF DropRows
  <1>2. op \in OpType /\ InReconcile
    BY <1>1 DEF Typing, OpsTyped, InReconcile
  <1>3. tokens \in SUBSET Tokens
    BY Records
  <1> HIDE DEF tokens
  <1>4. op' \in OpType
    BY <1>1, <1>2, <1>3 DEF OpType, At
  <1>5. op'.at = "dispose" /\ op'.stage = op.stage /\ op'.edit = op.edit /\ op'.index = op.index
        /\ op'.todo = op.todo /\ op'.tries = op.tries /\ op'.attempt = op.attempt
    BY <1>1, <1>2 DEF OpType
  <1> QED BY <1>1, <1>2, <1>4, <1>5, OpGrows, PlaceTyped

(* (Rows whose configuration has changed have fibers.) *)
LEMMA ChangedTokens ==
  ASSUME Rowed
  PROVE  Changed \in SUBSET Tokens
  BY Records DEF Changed

(* ... spawns what is new, ... *)
LEMMA SpawnRowsTyped ==
  ASSUME Rowed, Typing, op # NoOp, SpawnRows, Tokens \subseteq Tokens'
  PROVE  Typing' /\ op' # NoOp /\ op'.at = "update" /\ op'.updates = Changed /\ op'.sent = NoToken
  <1>1. UNCHANGED <<work, store, layer, version, queue, told, seen, saved, dropped, gaveUp>>
        /\ op' = [op EXCEPT !.at = "update", !.wait = {}, !.sent = NoToken, !.updates = Changed]
        /\ op.at = "dispose"
    BY DEF SpawnRows
  <1>2. op \in OpType /\ InReconcile
    BY <1>1 DEF Typing, OpsTyped, InReconcile
  <1>3. Changed \in SUBSET Tokens
    BY ChangedTokens
  <1>4. op' \in OpType
    BY <1>1, <1>2, <1>3 DEF OpType, At
  <1>5. op'.at = "update" /\ op'.stage = op.stage /\ op'.edit = op.edit /\ op'.index = op.index
        /\ op'.todo = op.todo /\ op'.tries = op.tries /\ op'.attempt = op.attempt
        /\ op'.updates = Changed /\ op'.sent = NoToken
    BY <1>1, <1>2 DEF OpType
  <1> QED BY <1>1, <1>2, <1>4, <1>5, OpGrows, PlaceTyped

(* ... sends a row its new configuration, ... *)
LEMMA SendUpdateTyped ==
  ASSUME Typing, op # NoOp, NEW t \in Tokens, SendUpdate(t), Tokens' = Tokens
  PROVE  /\ Typing' /\ op' # NoOp /\ op'.at = "update" /\ op'.updates \subseteq op.updates
         /\ \/ fiber[t].ending /\ op'.updates = op.updates \ {t} /\ op'.sent = op.sent
            \/ ~ fiber[t].ending /\ op'.updates = op.updates /\ op'.sent = t
  <1>1. UNCHANGED <<work, store, layer, version, queue, told, seen, saved, dropped, gaveUp>>
        /\ op.at = "update"
        /\ \/ fiber[t].ending /\ op' = [op EXCEPT !.updates = @ \ {t}]
           \/ ~ fiber[t].ending /\ op' = [op EXCEPT !.sent = t]
    BY DEF SendUpdate
  <1>2. op \in OpType /\ InReconcile
    BY <1>1 DEF Typing, OpsTyped, InReconcile
  <1>3. op' \in OpType
    BY <1>1, <1>2 DEF OpType, At
  <1>4. op'.at = "update" /\ op'.stage = op.stage /\ op'.edit = op.edit /\ op'.index = op.index
        /\ op'.todo = op.todo /\ op'.tries = op.tries /\ op'.attempt = op.attempt
        /\ op'.updates \subseteq op.updates
        /\ \/ fiber[t].ending /\ op'.updates = op.updates \ {t} /\ op'.sent = op.sent
           \/ ~ fiber[t].ending /\ op'.updates = op.updates /\ op'.sent = t
    BY <1>1, <1>2 DEF OpType
  <1> QED BY <1>1, <1>2, <1>3, <1>4, OpGrows, PlaceTyped

(* ... takes its answer, ... *)
LEMMA UpdateDoneTyped ==
  ASSUME Typing, op # NoOp, NEW t \in Tokens, UpdateDone(t), Tokens' = Tokens
  PROVE  /\ Typing' /\ op' # NoOp /\ op'.at = "update" /\ op'.updates = op.updates \ {t}
         /\ op'.sent = NoToken
  <1>1. UNCHANGED <<work, store, layer, version, queue, told, seen, saved, dropped, gaveUp>>
        /\ op.at = "update"
        /\ op' = [op EXCEPT !.sent = NoToken, !.updates = @ \ {t}]
    BY DEF UpdateDone
  <1>2. op \in OpType /\ InReconcile
    BY <1>1 DEF Typing, OpsTyped, InReconcile
  <1>3. op' \in OpType
    BY <1>1, <1>2 DEF OpType, At
  <1>4. op'.at = "update" /\ op'.stage = op.stage /\ op'.edit = op.edit /\ op'.index = op.index
        /\ op'.todo = op.todo /\ op'.tries = op.tries /\ op'.attempt = op.attempt
        /\ op'.updates = op.updates \ {t} /\ op'.sent = NoToken
    BY <1>1, <1>2 DEF OpType
  <1> QED BY <1>1, <1>2, <1>3, <1>4, OpGrows, PlaceTyped

(* ... and waits for all to settle. *)
LEMMA SettleAllTyped ==
  ASSUME Typing, op # NoOp, SettleAll, Tokens' = Tokens
  PROVE  Typing' /\ op' # NoOp /\ op'.at = "settle"
  <1>1. UNCHANGED <<work, store, layer, version, queue, told, seen, saved, dropped, gaveUp>>
        /\ op.at = "update" /\ op' = [op EXCEPT !.at = "settle"]
    BY DEF SettleAll
  <1>2. op \in OpType /\ InReconcile
    BY <1>1 DEF Typing, OpsTyped, InReconcile
  <1>3. op' \in OpType
    BY <1>1, <1>2 DEF OpType, At
  <1>4. op'.at = "settle" /\ op'.stage = op.stage /\ op'.edit = op.edit /\ op'.index = op.index
        /\ op'.todo = op.todo /\ op'.tries = op.tries /\ op'.attempt = op.attempt
    BY <1>1, <1>2 DEF OpType
  <1> QED BY <1>1, <1>2, <1>3, <1>4, OpGrows, PlaceTyped

(* What the rest of an operation does to its place. *)
Moves ==
  \/ op' # NoOp /\ op'.at = "read"
  \/ /\ layer' = layer /\ op # NoOp /\ op.at \notin {"read", "drop"}
     /\ op' = NoOp \/ (op' # NoOp /\ op'.at \in {"replay", "save", "load"})

(* A queue with one more edit. *)
LEMMA Appended ==
  ASSUME NEW q \in Seq(EditType), NEW e \in EditType
  PROVE  Append(q, e) \in Seq(EditType) /\ Len(q) \in Nat /\ Len(q) + 1 \in Nat
  OBVIOUS

(* A queue with one edit less. *)
LEMMA TailTyped ==
  ASSUME NEW q \in Seq(EditType), q # <<>>
  PROVE  Head(q) \in EditType /\ Tail(q) \in Seq(EditType) /\ Len(Tail(q)) = Len(q) - 1
         /\ Len(q) \in Nat /\ Len(q) > 0
  OBVIOUS

(* No edit is in the hand of an operation that replays, saves, loads or    *)
(* takes the latest layer.                                                 *)
LEMMA NotEditing ==
  ASSUME op' = NoOp \/ op'.at \in {"replay", "save", "load"} \/ op'.stage = "latest"
  PROVE  ~ Editing'
  BY DEF Editing, InReconcile

(* The answer of an operation that saved, or had nothing to. *)
LEMMA EndsTyped ==
  ASSUME Typing, op # NoOp, Tokens' = Tokens,
         NEW a \in {"ok", "refused", "persistFailed", "conflict", "gaveUp"}, Answer(op.who, a),
         layer' = layer, version' \in Layers, store' \in Layers, queue' \in Seq(EditType),
         seen' = seen, saved' \subseteq Callers \cup {Monitors},
         dropped' \subseteq Callers \cup {Monitors}, gaveUp' \in BOOLEAN, work' \in ScenarioType
  PROVE  Typing' /\ op' = NoOp
  <1>1. OpsTyped /\ op.who \in Callers \cup {Monitors}
    BY OpFacts DEF Typing
  <1>2. op' = NoOp
        /\ told' \in [Callers -> {"none", "read", "ok", "refused", "persistFailed", "conflict", "gaveUp"}]
    BY <1>1, AnswerFacts
  <1> QED BY <1>1, <1>2, TypingStep DEF Typing, OpsTyped

(* Types are kept, and an operation moves on as it may, when the rows took *)
(* the edit, ...                                                           *)
LEMMA CommittedTyped ==
  ASSUME Typing, op # NoOp, Committed, Tokens' = Tokens
  PROVE  /\ Typing' /\ Moves
         /\ op.index = 0 =>
              /\ op' # NoOp /\ op'.who = op.who /\ op'.edit = op.edit /\ op'.todo = <<>>
              /\ op'.index = op.index /\ ~ op'.tries /\ op'.error = op.error
              /\ op'.at = "save" /\ op'.current = Len(queue) + 1
         /\ op.index # 0 =>
              Resumes(op.todo, op.index,
                      IF op.current = op.index THEN Len(queue) + 1 ELSE op.kept, op.error)
  <1> DEFINE k == IF op.current = op.index THEN Len(queue) + 1 ELSE op.kept
             o == [op EXCEPT !.kept = k]
  <1>1. /\ UNCHANGED <<work, store, layer, version, told, seen, saved, dropped, gaveUp>>
        /\ op.at = "settle" /\ op.stage = "commit" /\ queue' = Append(queue, op.edit)
        /\ op.index = 0 => op' = Persisting(op, Len(queue) + 1)
        /\ op.index # 0 => op' = Replaying(o)
    BY DEF Committed, Reconciled
  <1>2. /\ op \in OpType /\ queue \in Seq(EditType) /\ op.edit \in EditType /\ OpsTyped
        /\ op.index = 0 => op.todo = <<>> /\ ~ op.tries
        /\ op.tries => op.attempt < CONFLICT_RETRIES
        /\ op.at \notin {"read", "drop"}
    BY <1>1 DEF Typing, OpsTyped, OpShape, Editing, InReconcile
  <1>3. queue' \in Seq(EditType) /\ Len(queue) + 1 \in Nat
    BY <1>1, <1>2, Appended
  <1>4. CASE op.index = 0
    <2> DEFINE p == Persisting(op, Len(queue) + 1)
    <2>1. op' = p
      BY <1>1, <1>4
    <2>2. /\ p \in OpType
          /\ p.who = op.who /\ p.at = "save" /\ p.edit = op.edit
          /\ p.todo = op.todo /\ p.index = op.index /\ p.tries = op.tries
          /\ p.error = op.error /\ p.current = Len(queue) + 1
      BY <1>2, <1>3, PersistingFacts
    <2> HIDE DEF p
    <2>3. op' # NoOp /\ ~ Editing'
      BY <2>1, <2>2, IsOp DEF Editing, InReconcile
    <2>4. Typing'
      BY <1>1, <1>2, <1>3, <1>4, <2>1, <2>2, <2>3, TypingStep DEF Typing, OpsTyped
    <2>5. Moves
      BY <1>1, <1>2, <2>1, <2>2, <2>3 DEF Moves
    <2> QED BY <1>2, <1>4, <2>1, <2>2, <2>3, <2>4, <2>5
  <1>5. CASE op.index # 0
    <2>1. k \in Nat
      BY <1>2, <1>3 DEF OpType
    <2> HIDE DEF k
    <2>2. /\ o \in OpType
          /\ o.who = op.who /\ o.edit = op.edit /\ o.todo = op.todo /\ o.index = op.index
          /\ o.tries = op.tries /\ o.error = op.error /\ o.kept = k /\ o.current = op.current
          /\ o.attempt = op.attempt
      BY <1>2, <2>1 DEF OpType
    <2> HIDE DEF o
    <2> DEFINE p == Replaying(o)
    <2>3. op' = p
      BY <1>1, <1>5
    <2>4. /\ p \in OpType
          /\ p.who = o.who /\ p.edit = o.edit
          /\ p.todo = o.todo /\ p.index = o.index /\ p.tries = o.tries /\ p.kept = o.kept
          /\ p.error = o.error
          /\ o.todo # <<>> => p.at = "replay" /\ p.current = o.current /\ p.attempt = o.attempt
          /\ o.todo = <<>> => p.at = "save" /\ p.current = IF o.tries THEN o.kept ELSE NoSuch
      BY <1>2, <2>2, ReplayingFacts
    <2> HIDE DEF p
    <2>5. op' # NoOp /\ ~ Editing'
      BY <2>3, <2>4, IsOp DEF Editing, InReconcile
    <2>6. Typing'
      BY <1>1, <1>2, <1>3, <1>5, <2>2, <2>3, <2>4, <2>5, TypingStep DEF Typing, OpsTyped
    <2>7. Moves
      BY <1>1, <1>2, <2>3, <2>4, <2>5 DEF Moves
    <2> QED BY <1>5, <2>2, <2>3, <2>4, <2>5, <2>6, <2>7 DEF k, Resumes
  <1> QED BY <1>4, <1>5

(* ... when they did not and the layer before is taken back, ... *)
LEMMA RollBackTyped ==
  ASSUME Typing, op # NoOp, RollBack, Tokens' = Tokens
  PROVE  /\ Typing' /\ Moves
         /\ op' # NoOp /\ op'.at = "read" /\ op'.stage = "rollback" /\ op'.who = op.who
         /\ op'.edit = op.edit /\ op'.todo = op.todo /\ op'.index = op.index
         /\ op'.tries = op.tries /\ op'.error = op.error /\ op'.current = op.current
         /\ op'.kept = op.kept /\ layer' = op.base
  <1>1. /\ UNCHANGED <<work, store, version, queue, told, seen, saved, dropped, gaveUp>>
        /\ op.at = "settle" /\ op.stage = "commit" /\ layer' = op.base
        /\ op' = [op EXCEPT !.at = "read", !.stage = "rollback"]
    BY DEF RollBack, Reconciled
  <1>2. /\ op \in OpType /\ op.edit \in EditType /\ OpsTyped
        /\ op.index = 0 => op.todo = <<>> /\ ~ op.tries
        /\ op.tries => op.attempt < CONFLICT_RETRIES
    BY <1>1 DEF Typing, OpsTyped, OpShape, Editing, InReconcile
  <1>3. /\ op' \in OpType /\ op.base \in Layers
        /\ op'.at = "read" /\ op'.stage = "rollback" /\ op'.who = op.who
        /\ op'.edit = op.edit /\ op'.todo = op.todo /\ op'.index = op.index
        /\ op'.tries = op.tries /\ op'.error = op.error /\ op'.current = op.current
        /\ op'.kept = op.kept /\ op'.attempt = op.attempt
    BY <1>1, <1>2 DEF OpType, At
  <1>4. op' # NoOp
    BY <1>3, IsOp
  <1>5. Typing'
    BY <1>1, <1>2, <1>3, <1>4, TypingStep DEF Typing, OpsTyped
  <1> QED BY <1>1, <1>3, <1>4, <1>5 DEF Moves

(* An edit that does not apply in a replay. *)
LEMMA NotReplayedTyped ==
  ASSUME Typing, op # NoOp, NEW o \in OpType, NEW e \in EditType, NotReplayed(o, e),
         o.tries => o.attempt < CONFLICT_RETRIES,
         op.at \notin {"read", "drop"}, Tokens' = Tokens, o.who = op.who, o.edit = op.edit,
         o.tries = op.tries, o.current = op.current,
         UNCHANGED <<layer, version, queue, seen, saved, gaveUp, store, work>>
  PROVE  /\ Typing' /\ Moves
         /\ Resumes(o.todo, o.index, o.kept, IF o.current = o.index THEN "refused" ELSE o.error)
         /\ dropped' = (IF o.current = o.index THEN dropped ELSE dropped \cup {e.by})
         /\ told' = told
  <1> DEFINE r == IF o.current = o.index THEN "refused" ELSE o.error
             q == [o EXCEPT !.error = r]
             p == Replaying(q)
  <1>1. /\ op' = p /\ told' = told
        /\ dropped' = IF o.current = o.index THEN dropped ELSE dropped \cup {e.by}
    BY DEF NotReplayed
  <1>2. r \in {"ok", "refused"}
    BY DEF OpType
  <1> HIDE DEF r
  <1>3. /\ q \in OpType
        /\ q.who = o.who /\ q.edit = o.edit /\ q.todo = o.todo /\ q.index = o.index
        /\ q.tries = o.tries /\ q.kept = o.kept /\ q.error = r /\ q.current = o.current
        /\ q.attempt = o.attempt
    BY <1>2 DEF OpType
  <1> HIDE DEF q
  <1>4. /\ p \in OpType
        /\ p.who = q.who /\ p.edit = q.edit
        /\ p.todo = q.todo /\ p.index = q.index /\ p.tries = q.tries /\ p.kept = q.kept
        /\ p.error = q.error
        /\ q.todo # <<>> => p.at = "replay" /\ p.current = q.current /\ p.attempt = q.attempt
        /\ q.todo = <<>> => p.at = "save" /\ p.current = IF q.tries THEN q.kept ELSE NoSuch
    BY <1>3, ReplayingFacts
  <1> HIDE DEF p
  <1>5. op' # NoOp /\ ~ Editing'
    BY <1>1, <1>4, IsOp DEF Editing, InReconcile
  <1>6. dropped' \subseteq Callers \cup {Monitors}
    BY <1>1, EditFacts DEF Typing, OpsTyped
  <1>7. Typing'
    BY <1>1, <1>3, <1>4, <1>5, <1>6, TypingStep DEF Typing, OpsTyped
  <1>8. Moves
    BY <1>1, <1>3, <1>4, <1>5 DEF Moves
  <1>9. Resumes(o.todo, o.index, o.kept, r)
    BY <1>1, <1>3, <1>4, <1>5 DEF Resumes
  <1> QED BY <1>1, <1>7, <1>8, <1>9 DEF r

(* ... when that layer runs again, ... *)
LEMMA RolledBackTyped ==
  ASSUME Typing, op # NoOp, RolledBack, Tokens' = Tokens
  PROVE  /\ Typing' /\ Moves
         /\ op.index = 0 => Answer(op.who, "refused") /\ op' = NoOp /\ dropped' = dropped
         /\ op.index # 0 =>
              /\ Resumes(op.todo, op.index, op.kept,
                         IF op.current = op.index THEN "refused" ELSE op.error)
              /\ dropped' = (IF op.current = op.index THEN dropped ELSE dropped \cup {op.edit.by})
              /\ told' = told
  <1>1. /\ UNCHANGED <<work, store, layer, version, queue, seen, saved, gaveUp>>
        /\ op.at = "settle" /\ op.stage = "rollback"
        /\ \/ op.index = 0 /\ Answer(op.who, "refused") /\ dropped' = dropped
           \/ op.index # 0 /\ NotReplayed(op, op.edit)
    BY DEF RolledBack, Reconciled
  <1>2. /\ op \in OpType /\ op.edit \in EditType /\ OpsTyped
        /\ op.tries => op.attempt < CONFLICT_RETRIES
        /\ op.at \notin {"read", "drop"}
    BY <1>1 DEF Typing, OpsTyped, OpShape, Editing, InReconcile
  <1>3. CASE op.index = 0 /\ Answer(op.who, "refused") /\ dropped' = dropped
    <2>1. Typing' /\ op' = NoOp
      BY <1>1, <1>2, <1>3, EndsTyped DEF OpsTyped
    <2> QED BY <1>1, <1>2, <1>3, <2>1 DEF Moves
  <1>4. CASE op.index # 0 /\ NotReplayed(op, op.edit)
    BY <1>1, <1>2, <1>4, NotReplayedTyped
  <1> QED BY <1>1, <1>3, <1>4

(* ... when the layer that was read runs, ... *)
LEMMA TookLatestTyped ==
  ASSUME Typing, op # NoOp, TookLatest, Tokens' = Tokens
  PROVE  /\ Typing' /\ Moves
         /\ \/ op.todo = <<>> /\ ~ op.tries /\ Answer(op.who, "ok") /\ op' = NoOp
            \/ /\ op.todo # <<>> \/ op.tries
               /\ told' = told
               /\ Resumes(op.todo, op.index, op.kept, op.error)
  <1>1. /\ UNCHANGED <<work, store, layer, version, queue, seen, saved, dropped, gaveUp>>
        /\ op.at = "settle" /\ op.stage = "latest"
        /\ \/ op.todo = <<>> /\ ~ op.tries /\ Answer(op.who, "ok")
           \/ ~ (op.todo = <<>> /\ ~ op.tries) /\ op' = Replaying(op) /\ UNCHANGED told
    BY DEF TookLatest, Reconciled
  <1>2. /\ op \in OpType /\ OpsTyped
        /\ op.tries => op.attempt < CONFLICT_RETRIES
        /\ op.at \notin {"read", "drop"}
    BY <1>1 DEF Typing, OpsTyped, OpShape
  <1>3. CASE op.todo = <<>> /\ ~ op.tries /\ Answer(op.who, "ok")
    <2>1. Typing' /\ op' = NoOp
      BY <1>1, <1>2, <1>3, EndsTyped DEF OpsTyped
    <2> QED BY <1>1, <1>2, <1>3, <2>1 DEF Moves
  <1>4. CASE ~ (op.todo = <<>> /\ ~ op.tries) /\ op' = Replaying(op) /\ UNCHANGED told
    <2> DEFINE p == Replaying(op)
    <2>1. /\ p \in OpType
          /\ p.who = op.who /\ p.edit = op.edit
          /\ p.todo = op.todo /\ p.index = op.index /\ p.tries = op.tries /\ p.kept = op.kept
          /\ p.error = op.error
          /\ op.todo # <<>> => p.at = "replay" /\ p.current = op.current /\ p.attempt = op.attempt
          /\ op.todo = <<>> => p.at = "save" /\ p.current = IF op.tries THEN op.kept ELSE NoSuch
      BY <1>2, ReplayingFacts
    <2>2. op' = p
      BY <1>4
    <2> HIDE DEF p
    <2>3. op' # NoOp /\ ~ Editing'
      BY <2>1, <2>2, IsOp DEF Editing, InReconcile
    <2>4. Typing'
      BY <1>1, <1>2, <1>4, <2>1, <2>2, <2>3, TypingStep DEF Typing, OpsTyped
    <2>5. Moves
      BY <1>1, <1>2, <2>1, <2>2, <2>3 DEF Moves
    <2>6. Resumes(op.todo, op.index, op.kept, op.error)
      BY <2>1, <2>2, <2>3 DEF Resumes
    <2> QED BY <1>2, <1>4, <2>4, <2>5, <2>6 DEF OpType
  <1> QED BY <1>1, <1>3, <1>4

(* ... when it replays the next edit or has none left, ... *)
LEMMA ReplayEditTyped ==
  ASSUME Typing, op # NoOp, ReplayEdit, Tokens' = Tokens
  PROVE  /\ Typing' /\ Moves
         /\ op.todo \in Seq(EditType) /\ op.todo # <<>> /\ op.index \in Nat
         /\ \/ /\ Commits(Head(op.todo)) /\ op' # NoOp /\ op'.who = op.who
               /\ op'.todo = Tail(op.todo) /\ op'.index = op.index + 1
               /\ op'.tries = op.tries /\ op'.current = op.current /\ op'.kept = op.kept
               /\ op'.error = op.error
            \/ /\ ~ Applies(layer, Head(op.todo)) /\ layer' = layer /\ told' = told
               /\ Resumes(Tail(op.todo), op.index + 1, op.kept,
                          IF op.current = op.index + 1 THEN "refused" ELSE op.error)
               /\ dropped' = (IF op.current = op.index + 1 THEN dropped
                              ELSE dropped \cup {Head(op.todo).by})
  <1> DEFINE e == Head(op.todo)
             i == op.index + 1
             q == Tail(op.todo)
             o == [op EXCEPT !.todo = q, !.index = i]
  <1>1. /\ UNCHANGED <<work, store, version, queue, seen, saved, gaveUp>> /\ op.at = "replay"
        /\ \/ /\ Applies(layer, e) /\ op' = Committing(o, e) /\ layer' = Apply(layer, e)
              /\ UNCHANGED <<told, dropped>>
           \/ ~ Applies(layer, e) /\ NotReplayed(o, e) /\ UNCHANGED layer
    BY DEF ReplayEdit
  <1>2. /\ op \in OpType /\ OpsTyped /\ op.todo # <<>> /\ layer \in Layers
        /\ op.tries => op.attempt < CONFLICT_RETRIES
        /\ op.at \notin {"read", "drop"}
    BY <1>1 DEF Typing, OpsTyped, OpShape
  <1>3. op.todo \in Seq(EditType) /\ op.index \in Nat
    BY <1>2 DEF OpType
  <1>4. e \in EditType /\ q \in Seq(EditType) /\ i \in Nat /\ i # 0
    BY <1>2, <1>3, TailTyped
  <1> HIDE DEF e, q, i
  <1>5. /\ o \in OpType
        /\ o.tries = op.tries /\ o.attempt = op.attempt /\ o.index = i /\ o.todo = q
        /\ o.who = op.who /\ o.edit = op.edit /\ o.current = op.current /\ o.kept = op.kept
        /\ o.error = op.error
    BY <1>2, <1>4 DEF OpType
  <1> HIDE DEF o
  <1>6. CASE Applies(layer, e) /\ op' = Committing(o, e) /\ layer' = Apply(layer, e)
              /\ UNCHANGED <<told, dropped>>
    <2>1. /\ op' \in OpType
          /\ op'.at = "read" /\ op'.stage = "commit" /\ op'.edit = e
          /\ op'.index = i /\ op'.tries = op.tries /\ op'.attempt = op.attempt
          /\ op'.who = op.who /\ op'.base = layer /\ op'.todo = q /\ op'.current = op.current
          /\ op'.kept = op.kept /\ op'.error = op.error
      BY <1>2, <1>4, <1>5, <1>6 DEF Committing, OpType, At
    <2>2. op' # NoOp
      BY <2>1, IsOp
    <2>3. layer' \in Layers
      BY <1>2, <1>4, <1>6, EditFacts, Applied
    <2>4. Typing'
      BY <1>1, <1>2, <1>4, <1>6, <2>1, <2>2, <2>3, TypingStep DEF Typing, OpsTyped
    <2>5. Moves /\ Commits(e)
      BY <1>6, <2>1, <2>2 DEF Moves, Commits
    <2> QED BY <1>2, <1>3, <2>1, <2>2, <2>4, <2>5 DEF e, q, i
  <1>7. CASE ~ Applies(layer, e) /\ NotReplayed(o, e) /\ UNCHANGED layer
    <2>1. /\ Typing' /\ Moves /\ told' = told
          /\ Resumes(q, i, op.kept, IF op.current = i THEN "refused" ELSE op.error)
          /\ dropped' = (IF op.current = i THEN dropped ELSE dropped \cup {e.by})
      BY <1>1, <1>2, <1>4, <1>5, <1>7, NotReplayedTyped
    <2> QED BY <1>2, <1>3, <1>7, <2>1 DEF e, q, i
  <1> QED BY <1>1, <1>6, <1>7

(* (Those who made the queued edits.) *)
LEMMA SavedBy ==
  ASSUME Typing
  PROVE  By(queue) \subseteq Callers \cup {Monitors} /\ <<>> \in Seq(EditType)
  <1>1. queue \in Seq(EditType)
    BY DEF Typing, OpsTyped
  <1>2. \A i \in DOMAIN queue : queue[i] \in EditType
    BY <1>1
  <1> QED BY <1>1, <1>2, EditFacts DEF By

(* ... when it ends with a save or without one, ... *)
LEMMA SavesTyped ==
  ASSUME Typing, op # NoOp, Tokens' = Tokens,
         NothingToSave \/ Save \/ SaveFails \/ LoadFails \/ (Conflict /\ LastTry)
  PROVE  Typing' /\ Moves
  <1>1. OpsTyped
    BY DEF Typing
  <1>2. /\ layer' = layer /\ version' \in Layers /\ store' \in Layers
        /\ queue' \in Seq(EditType) /\ seen' = seen
        /\ saved' \subseteq Callers \cup {Monitors} /\ dropped' = dropped /\ gaveUp' = gaveUp
    BY <1>1, SavedBy DEF OpsTyped, NothingToSave, Save, SaveFails, LoadFails, Conflict
  <1>3. work' \in ScenarioType
    BY <1>1, WorkTyped DEF OpsTyped, NothingToSave, Save, SaveFails, LoadFails, Conflict
  <1>4. \E a \in {"ok", "refused", "persistFailed", "conflict", "gaveUp"} : Answer(op.who, a)
    BY <1>1, OutcomeTyped DEF NothingToSave, Save, SaveFails, LoadFails, Conflict
  <1>5. Typing' /\ op' = NoOp
    BY <1>1, <1>2, <1>3, <1>4, EndsTyped DEF OpsTyped
  <1>6. op.at \notin {"read", "drop"}
    BY DEF NothingToSave, Save, SaveFails, LoadFails, Conflict, Saving
  <1> QED BY <1>2, <1>5, <1>6 DEF Moves

(* ... when the save met another writer's, ... *)
LEMMA ConflictTyped ==
  ASSUME Typing, op # NoOp, Conflict, ~ LastTry, Tokens' = Tokens
  PROVE  Typing' /\ Moves
  <1>1. /\ UNCHANGED <<work, store, layer, version, queue, told, seen, saved, dropped, gaveUp>>
        /\ op.at = "save" /\ op' = [op EXCEPT !.at = "load"] /\ op.attempt # CONFLICT_RETRIES
    BY DEF Conflict, Saving, LastTry
  <1>2. op \in OpType /\ OpsTyped /\ op.todo = <<>>
    BY <1>1 DEF Typing, OpsTyped, OpShape
  <1>3. /\ op' \in OpType /\ op'.at = "load" /\ op'.todo = <<>> /\ op'.attempt = op.attempt
        /\ op.attempt \in 0 .. CONFLICT_RETRIES
    BY <1>1, <1>2 DEF OpType, At
  <1>4. op.attempt < CONFLICT_RETRIES
    BY <1>1, <1>3 DEF CONFLICT_RETRIES
  <1>5. op' # NoOp /\ ~ Editing'
    BY <1>3, IsOp DEF Editing, InReconcile
  <1>6. Typing'
    BY <1>1, <1>2, <1>3, <1>4, <1>5, TypingStep DEF Typing, OpsTyped
  <1> QED BY <1>1, <1>3, <1>5, <1>6 DEF Moves

(* ... when it has read what that one saved, ... *)
LEMMA LoadTyped ==
  ASSUME Typing, op # NoOp, Load, Tokens' = Tokens
  PROVE  /\ Typing' /\ Moves
         /\ op' # NoOp /\ op'.at = "read" /\ op'.stage = "latest" /\ op'.who = op.who
         /\ op'.edit = op.edit /\ op'.todo = queue /\ op'.index = 0 /\ op'.tries
         /\ op'.current = op.current /\ op'.kept = NoSuch /\ op'.error = op.error
  <1> DEFINE q == queue
             p == [op EXCEPT !.at = "read", !.stage = "latest", !.todo = q, !.index = 0,
                             !.tries = TRUE, !.kept = NoSuch]
  <1>1. /\ UNCHANGED <<work, store, told, seen, saved, dropped, gaveUp>>
        /\ layer' = store /\ version' = store /\ queue' = <<>> /\ op.at = "load"
        /\ op' = p
    BY DEF Load, Latest
  <1>2. op \in OpType /\ OpsTyped /\ op.attempt < CONFLICT_RETRIES /\ q \in Seq(EditType)
    BY <1>1 DEF Typing, OpsTyped, OpShape
  <1> HIDE DEF q
  <1>3. /\ p \in OpType /\ p.at = "read" /\ p.stage = "latest" /\ p.who = op.who
        /\ p.edit = op.edit /\ p.todo = q /\ p.index = 0 /\ p.tries
        /\ p.current = op.current /\ p.kept = NoSuch /\ p.error = op.error
        /\ p.attempt = op.attempt
    BY <1>2 DEF OpType, At, NoSuch
  <1> HIDE DEF p
  <1>4. op' # NoOp /\ ~ Editing'
    BY <1>1, <1>3, IsOp DEF Editing, InReconcile
  <1>5. Typing'
    BY <1>1, <1>2, <1>3, <1>4, SavedBy, TypingStep DEF Typing, OpsTyped
  <1> QED BY <1>1, <1>3, <1>4, <1>5 DEF Moves, q

(* ... and when its caller gives up. *)
LEMMA GiveUpTyped ==
  ASSUME Typing, op # NoOp, NEW c \in Callers, GiveUp(c), Tokens' = Tokens
  PROVE  Typing' /\ Moves
  <1>1. OpsTyped
    BY DEF Typing
  <1>2. /\ layer' = layer /\ version' \in Layers /\ store' \in Layers
        /\ queue' \in Seq(EditType) /\ seen' = seen
        /\ saved' \subseteq Callers \cup {Monitors} /\ dropped' = dropped /\ gaveUp'
        /\ Answer(op.who, "gaveUp") /\ op.at \notin {"read", "drop"}
    BY <1>1, SavedBy DEF OpsTyped, GiveUp, Saving
  <1>3. work' \in ScenarioType
    BY <1>1, WorkTyped DEF OpsTyped, GiveUp
  <1>4. Typing' /\ op' = NoOp
    BY <1>1, <1>2, <1>3, EndsTyped DEF OpsTyped
  <1> QED BY <1>2, <1>4 DEF Moves

(* Types are kept by a writer outside this process, ... *)
LEMMA OtherWriterTyped ==
  ASSUME Typing, NEW r \in Rows, OtherWriter(r), Tokens' = Tokens
  PROVE  Typing'
  <1>1. /\ UNCHANGED <<layer, version, queue, op, told, seen, saved, dropped, gaveUp>>
        /\ work.outside > 0 /\ work' = [work EXCEPT !.outside = @ - 1]
    BY DEF OtherWriter, ops
  <1>2. PICK e \in {[row |-> r, set |-> "remove", to |-> 0]}
               \cup {[row |-> r, set |-> "config", to |-> v] : v \in Configs} :
          Applies(store, e) /\ store' = Apply(store, e)
    BY DEF OtherWriter
  <1>3. e.row \in Rows /\ e.set \in Changes /\ e.to \in ValuesFor(e.set)
    BY <1>2 DEF Changes, ValuesFor
  <1>4. store' \in Layers
    BY <1>2, <1>3, Applied DEF Typing, OpsTyped
  <1>5. work' \in ScenarioType
    BY <1>1, WorkTyped DEF Typing, OpsTyped
  <1>6. Editing' <=> Editing
    BY <1>1 DEF Editing, InReconcile
  <1> QED BY <1>1, <1>4, <1>5, <1>6, TypingStep DEF Typing, OpsTyped, OpShape

(* ... and by what the fibers, their monitors and the kernel do. *)
LEMMA KernelTyped ==
  ASSUME Rowed, Typing, Rowed', Tokens \subseteq Tokens', NEW t \in Tokens,
         FiberSteps(t) \/ Monitor(t) \/ Upsets(t), UNCHANGED <<ops, store>>
  PROVE  Typing'
  <1>1. UNCHANGED <<layer, version, queue, op, told, seen, saved, dropped, gaveUp, store>>
    BY DEF ops
  <1>2. work' \in ScenarioType
    BY WorkTyped DEF Typing, OpsTyped, FiberSteps, GroupLoads, GroupNeverLoads, RowLoads, Restarts, Ends,
       EndLate, Cleanup, Unloaded, Monitor, Upsets, DisposedOutside, GroupReloads
  <1>3. Editing' <=> Editing
    BY <1>1 DEF Editing, InReconcile
  <1> QED BY <1>1, <1>2, <1>3, TypingStep DEF Typing, OpsTyped, OpShape

-----------------------------------------------------------------------------
(* The rows follow the layer *)

(* A record that may stay: of a row that is wanted, in its scope. *)
Kept(r) ==
  r \in DOMAIN desired /\ Wanted(desired, r) /\ running[r].inject = desired[r].inject

(* Once a reconcile has read its rows they are the layer's, once it has    *)
(* dropped records the others may stay, and an update is of a row that is  *)
(* there.                                                                  *)
Followed ==
  /\ op = NoOp \/ op.at # "read" => desired = layer
  /\ op = NoOp \/ op.at \notin {"read", "drop"} => \A r \in Rows : IsRunning(r) => Kept(r)
  /\ op # NoOp /\ op.at = "update" => \A t \in op.updates : fiber[t].row \in DOMAIN desired

Base == Rowed /\ Typing /\ Followed

(* The tables but for what the loader has read, and given up on. *)
LEMMA RowedTables ==
  ASSUME Rowed, UNCHANGED <<running, groups, fiber, watched>>,
         desired' \in Layers, disables' \subseteq disables, abandoned' \subseteq Tokens
  PROVE  Rowed' /\ Tokens' = Tokens
  <1>1. Tokens' = Tokens
    BY DEF Tokens
  <1>2. Placed'
    BY <1>1 DEF Rowed, Placed, RowsTypeOK, Finite
  <1>3. \A t : (Lives(t)' <=> Lives(t)) /\ (StrayGoes(t)' <=> StrayGoes(t))
    BY <1>1 DEF Lives, StrayGoes, Stray
  <1>4. \A r : (RecordOf(r)' <=> RecordOf(r)) /\ (Registered(r)' <=> Registered(r))
    BY <1>1 DEF RecordOf, Registered, IsRunning
  <1> QED BY <1>1, <1>2, <1>3, <1>4 DEF Rowed

(* A step that leaves the tables as they are, to a place where nothing new *)
(* is due.                                                                 *)
LEMMA FollowedStays ==
  ASSUME Followed, UNCHANGED <<desired, running>>,
         \/ op' # NoOp /\ op'.at = "read"
         \/ /\ layer' = layer /\ (op = NoOp \/ op.at \notin {"read", "drop"})
            /\ op' = NoOp \/ op'.at \notin {"read", "drop", "update"}
  PROVE  Followed'
  <1>1. \A r : (IsRunning(r)' <=> IsRunning(r)) /\ (Kept(r)' <=> Kept(r))
    BY DEF IsRunning, Kept
  <1> QED BY <1>1 DEF Followed

(* Base is kept by an operation that moves on, ... *)
LEMMA BaseMoves ==
  ASSUME Base, op # NoOp,
         \/ Committed \/ RollBack \/ RolledBack \/ TookLatest \/ ReplayEdit
         \/ NothingToSave \/ Save \/ Conflict \/ Load \/ SaveFails \/ LoadFails
         \/ \E c \in Callers : GiveUp(c)
  PROVE  Base' /\ Moves /\ UNCHANGED <<desired, running, groups, fiber, watched, disables>>
  <1>1. UNCHANGED <<desired, running, groups, fiber, watched, disables>> /\ Tokens' = Tokens
    BY DEF Committed, RollBack, RolledBack, TookLatest, ReplayEdit, NothingToSave, Save, Conflict,
           Load, SaveFails, LoadFails, GiveUp, tree, Tokens
  <1>2. abandoned' \subseteq Tokens
    <2>1. UnderWay \subseteq Tokens
      BY Records DEF UnderWay, Base
    <2> QED BY <2>1 DEF Base, Rowed, Placed, RowsTypeOK, Committed, RollBack, RolledBack, TookLatest,
             ReplayEdit, NothingToSave, Save, Conflict, Load, SaveFails, LoadFails, GiveUp, tree
  <1>3. Rowed'
    BY <1>1, <1>2, RowedTables DEF Base, Rowed, Placed, RowsTypeOK
  <1>4. Typing' /\ Moves
    BY <1>1, CommittedTyped, RollBackTyped, RolledBackTyped, TookLatestTyped, ReplayEditTyped,
       SavesTyped, ConflictTyped, LoadTyped, GiveUpTyped DEF Base
  <1>5. Followed'
    BY <1>1, <1>4, FollowedStays DEF Moves, Base
  <1> QED BY <1>1, <1>3, <1>4, <1>5 DEF Base

(* ... by one that starts, ... *)
LEMMA BaseStarts ==
  ASSUME Base, NEW c \in Callers, Starts(c)
  PROVE  Base' /\ UNCHANGED tree
  <1>1. UNCHANGED tree
    BY DEF Starts, Edit, Flush, ReadLayers, Reconcile
  <1>2. Rowed' /\ Tokens' = Tokens /\ UNCHANGED <<desired, running>>
    BY <1>1, SameTree DEF Base, tree
  <1>3. CASE Edit(c)
    <2>1. EditOf(c) \in EditType
      BY <1>3, JobFacts DEF Edit, Base, Typing, OpsTyped
    <2>2. /\ Typing' /\ op = NoOp
          /\ \/ op' # NoOp /\ op'.at = "read"
             \/ op' = NoOp /\ layer' = layer
      BY <1>2, <1>3, <2>1, StartEditTyped DEF Edit, Base, Opens, Commits
    <2> QED BY <1>1, <1>2, <2>2, FollowedStays DEF Base
  <1>4. CASE Flush(c)
    <2>1. Typing' /\ op = NoOp /\ op' # NoOp /\ op'.at = "save"
      BY <1>2, <1>4, FlushTyped DEF Base
    <2> QED BY <1>1, <1>2, <1>4, <2>1, FollowedStays DEF Base, Flush
  <1>5. CASE ReadLayers(c)
    <2>1. Typing' /\ op' = op /\ layer' = layer
      BY <1>2, <1>5, ReadLayersTyped DEF Base, ReadLayers
    <2>2. fiber' = fiber
      BY <1>1 DEF tree
    <2>3. \A r : (IsRunning(r)' <=> IsRunning(r)) /\ (Kept(r)' <=> Kept(r))
      BY <1>2 DEF IsRunning, Kept
    <2>4. Followed'
      BY <1>2, <2>1, <2>2, <2>3 DEF Followed, Base
    <2> QED BY <1>1, <1>2, <2>1, <2>4 DEF Base
  <1>6. CASE Reconcile(c)
    <2>1. Typing' /\ op = NoOp /\ op' # NoOp /\ op'.at = "read"
      BY <1>2, <1>6, ReconcileTyped DEF Base
    <2> QED BY <1>1, <1>2, <2>1, FollowedStays DEF Base
  <1> QED BY <1>3, <1>4, <1>5, <1>6 DEF Starts

(* ... by a monitor whose fiber ended by itself, and which turns its row   *)
(* off, ...                                                                *)
LEMMA BaseSelfDisposed ==
  ASSUME Base, NEW t \in Tokens, SelfDisposed(t)
  PROVE  /\ Base' /\ UNCHANGED <<desired, running, groups, fiber, watched, abandoned>>
         /\ disables' = disables \ {t}
         /\ Disable(fiber[t].row) \in EditType
         /\ \/ op' # NoOp /\ op'.at = "read"
            \/ /\ op' = NoOp /\ layer' = layer /\ op = NoOp
               /\ fiber[t].row \notin DOMAIN layer
  <1> DEFINE r == fiber[t].row
  <1>1. UNCHANGED <<desired, running, groups, fiber, watched, abandoned>> /\ disables' = disables \ {t}
        /\ StartEdit(Monitors, Disable(r))
    BY DEF SelfDisposed
  <1>2. r \in Rows
    BY Typed DEF Base, Rowed
  <1>3. Disable(r) \in EditType
    BY <1>2, DisableTyped
  <1>4. Rowed' /\ Tokens' = Tokens
    BY <1>1, RowedTables DEF Base, Rowed, Placed, RowsTypeOK
  <1>5. /\ Typing' /\ op = NoOp
        /\ \/ op' # NoOp /\ op'.at = "read"
           \/ op' = NoOp /\ layer' = layer
    BY <1>1, <1>3, <1>4, StartEditTyped DEF Base, Opens, Commits
  <1>6. Followed'
    BY <1>1, <1>5, FollowedStays DEF Base
  <1>7. \/ op' # NoOp /\ op'.at = "read"
        \/ r \notin DOMAIN layer
    <2>1. CASE Applies(layer, Disable(r))
      <3>1. op' = Committing(NewOp(Monitors), Disable(r))
        BY <1>1, <2>1 DEF StartEdit
      <3>2. op' \in OpType /\ op'.at = "read"
        BY <1>3, <3>1, NewEditFacts DEF Base, Typing, OpsTyped
      <3> QED BY <3>2, IsOp
    <2>2. CASE ~ Applies(layer, Disable(r))
      <3>1. Disable(r).set = "disable" /\ Disable(r).row = r
        BY DEF Disable
      <3> QED BY <2>2, <3>1 DEF Applies
    <2> QED BY <2>1, <2>2
  <1> QED BY <1>1, <1>3, <1>4, <1>5, <1>6, <1>7 DEF Base

(* ... by each step in which the rows follow the layer: what is wanted is  *)
(* read, ...                                                               *)
LEMMA BaseReadRows ==
  ASSUME Base, op # NoOp, ReadRows
  PROVE  Base' /\ op' # NoOp /\ op'.at = "drop" /\ desired' = layer
  <1>1. /\ UNCHANGED <<running, groups, fiber, watched, disables, abandoned, layer>>
        /\ desired' = layer /\ layer \in Layers
    BY DEF ReadRows, Base, Typing, OpsTyped
  <1>2. Rowed' /\ Tokens' = Tokens
    BY <1>1, RowedTables DEF Base, Rowed, Placed, RowsTypeOK
  <1>3. Typing' /\ op' # NoOp /\ op'.at = "drop"
    BY <1>2, ReadRowsTyped DEF Base
  <1>4. Followed'
    BY <1>1, <1>3 DEF Followed
  <1> QED BY <1>1, <1>2, <1>3, <1>4 DEF Base

(* ... what is not wanted is dropped, ... *)
LEMMA BaseDropRows ==
  ASSUME Base, op # NoOp, DropRows
  PROVE  /\ Base' /\ op' # NoOp /\ op'.at = "dispose"
         /\ \A r \in Rows : IsRunning(r)' => Keeps(r) /\ running'[r] = running[r]
  <1> DEFINE rows == {r \in Rows : IsRunning(r) /\ ~ Keeps(r)}
  <1>1. /\ UNCHANGED <<desired, watched, disables, abandoned, layer>>
        /\ running' = Without(rows) /\ Tokens' = Tokens /\ op.at = "drop"
    BY DEF DropRows, Tokens
  <1>2. Rowed'
    BY RowedDropRows DEF Base
  <1>3. Typing' /\ op' # NoOp /\ op'.at = "dispose"
    BY <1>1, DropRowsTyped DEF Base
  <1>4. \A r \in Rows : IsRunning(r)' => Keeps(r) /\ running'[r] = running[r]
    <2> TAKE r \in Rows
    <2> HAVE IsRunning(r)'
    <2>1. running'[r] = IF r \in rows THEN NoRecord ELSE running[r]
      <3> HIDE DEF rows
      <3> QED BY <1>1 DEF Without
    <2> QED BY <2>1 DEF IsRunning
  <1>5. \A r \in Rows : IsRunning(r)' => Kept(r)'
    <2> TAKE r \in Rows
    <2> HAVE IsRunning(r)'
    <2>1. /\ IsRunning(r) /\ r \in DOMAIN desired /\ Wanted(desired, r)
          /\ running[r].inject = desired[r].inject /\ running'[r] = running[r]
      BY <1>4, KeepsUp
    <2> QED BY <1>1, <2>1 DEF Kept
  <1>6. Followed'
    BY <1>1, <1>3, <1>5 DEF Followed, Base
  <1> QED BY <1>2, <1>3, <1>4, <1>6 DEF Base

(* ... what is new is spawned, ... *)
LEMMA BaseSpawnRows ==
  ASSUME Base, op # NoOp, SpawnRows
  PROVE  /\ Base' /\ op' # NoOp /\ op'.at = "update" /\ op'.updates = Changed /\ op'.sent = NoToken
         /\ UNCHANGED <<desired, groups, disables, abandoned>>
         /\ Tokens \subseteq Tokens' /\ \A x \in Tokens : fiber'[x] = fiber[x]
         /\ \A r \in Rows : \/ running'[r] = running[r] /\ r \notin Missing(running, groups)
                            \/ r \in Missing(running, groups) /\ Joined(r) /\ IsRunning(r)'
  <1> DEFINE new == Missing(running, groups)
  <1>1. /\ UNCHANGED <<desired, groups, disables, abandoned, layer>> /\ op.at = "dispose"
        /\ Spawn(new, running, groups, fiber, TRUE)
    BY DEF SpawnRows
  <1>2. /\ desired \in Layers /\ groups \in [Groups \cup {Root} -> Nat]
        /\ fiber \in [Tokens -> FiberRecord]
    BY DEF Base, Rowed, Placed, RowsTypeOK
  <1>3. /\ new \in SUBSET Rows /\ new \subseteq DOMAIN desired
        /\ \A r \in new : ~ IsRunning(r) /\ groups[Parent[r]] \in Nat /\ Wanted(desired, r)
    BY <1>2, TreeFacts, LayerFacts DEF Missing, IsRunning
  <1> HIDE DEF new
  <1>4. /\ Tokens \subseteq Tokens' /\ \A x \in Tokens : fiber'[x] = fiber[x]
        /\ \A r \in Rows \ new : running'[r] = running[r]
        /\ \A r \in new : Joined(r) /\ IsRunning(r)'
    BY <1>1, <1>2, <1>3, SpawnJoins DEF Base
  <1>5. Rowed'
    BY RowedSpawnRows DEF Base
  <1>6. Typing' /\ op' # NoOp /\ op'.at = "update" /\ op'.updates = Changed /\ op'.sent = NoToken
    BY <1>4, SpawnRowsTyped DEF Base
  <1>7. \A r \in Rows : IsRunning(r) => Kept(r)
    BY <1>1 DEF Base, Followed
  <1>8. \A r \in Rows : IsRunning(r)' => Kept(r)'
    <2> TAKE r \in Rows
    <2> HAVE IsRunning(r)'
    <2>1. CASE r \in new
      BY <1>1, <1>4, <2>1 DEF Joined, Kept
    <2>2. CASE r \notin new
      <3>1. running'[r] = running[r] /\ IsRunning(r)
        BY <1>4, <2>2 DEF IsRunning
      <3> QED BY <1>1, <1>7, <3>1 DEF Kept
    <2> QED BY <2>1, <2>2
  <1>9. \A t \in Changed : fiber'[t].row \in DOMAIN desired
    <2> TAKE t \in Changed
    <2>1. PICK r \in Rows : IsRunning(r) /\ t = running[r].token
      BY DEF Changed
    <2>2. t \in Tokens /\ fiber[t].row = r
      BY <2>1, Records DEF Base
    <2> QED BY <1>4, <1>7, <2>1, <2>2 DEF Kept
  <1>10. desired = layer
    BY <1>1 DEF Base, Followed
  <1>11. Followed'
    BY <1>1, <1>6, <1>8, <1>9, <1>10 DEF Followed
  <1> QED BY <1>1, <1>4, <1>5, <1>6, <1>11 DEF Base, new

(* ... what has changed is updated, ... *)
LEMMA BaseSendUpdate ==
  ASSUME Base, op # NoOp, NEW t \in Tokens, SendUpdate(t)
  PROVE  /\ Base' /\ op' # NoOp /\ op'.at = "update" /\ op'.updates \subseteq op.updates
         /\ UNCHANGED <<desired, running, groups, disables, abandoned>> /\ Tokens' = Tokens
         /\ t \in op.updates /\ op.sent = NoToken
         /\ \/ /\ fiber[t].ending /\ op'.updates = op.updates \ {t} /\ op'.sent = op.sent
               /\ UNCHANGED fiber
            \/ /\ ~ fiber[t].ending /\ op'.updates = op.updates /\ op'.sent = t
               /\ \A x \in Tokens : x # t => fiber'[x] = fiber[x]
               /\ fiber'[t].st = fiber[t].st /\ fiber'[t].row = fiber[t].row
               /\ fiber'[t].config = desired[fiber[t].row].config
  <1>1. /\ UNCHANGED <<desired, running, groups, watched, disables, abandoned, layer>>
        /\ op.at = "update" /\ t \in op.updates /\ op.sent = NoToken
        /\ \/ fiber[t].ending /\ UNCHANGED fiber
           \/ /\ ~ fiber[t].ending
              /\ fiber' = [fiber EXCEPT ![t].config = desired[fiber[t].row].config,
                                        ![t].restart = TRUE]
    BY DEF SendUpdate
  <1>2. fiber[t].row \in DOMAIN desired
    BY <1>1 DEF Base, Followed
  <1>3. Rowed'
    BY <1>2, RowedSendUpdate DEF Base
  <1>4. Tokens' = Tokens
    BY <1>1 DEF Tokens
  <1>5. /\ Typing' /\ op' # NoOp /\ op'.at = "update" /\ op'.updates \subseteq op.updates
        /\ \/ fiber[t].ending /\ op'.updates = op.updates \ {t} /\ op'.sent = op.sent
           \/ ~ fiber[t].ending /\ op'.updates = op.updates /\ op'.sent = t
    BY <1>4, SendUpdateTyped DEF Base
  <1>6. fiber \in [Tokens -> FiberRecord] /\ fiber[t] \in FiberRecord
    BY DEF Base, Rowed, Placed
  <1>7. ~ fiber[t].ending =>
               /\ \A x \in Tokens : x # t => fiber'[x] = fiber[x]
               /\ fiber'[t].st = fiber[t].st /\ fiber'[t].row = fiber[t].row
               /\ fiber'[t].config = desired[fiber[t].row].config
    <2> DEFINE d == desired[fiber[t].row].config
               f == [fiber[t] EXCEPT !.config = d, !.restart = TRUE]
    <2> SUFFICES ASSUME ~ fiber[t].ending
                 PROVE  /\ \A x \in Tokens : x # t => fiber'[x] = fiber[x]
                        /\ fiber'[t].st = fiber[t].st /\ fiber'[t].row = fiber[t].row
                        /\ fiber'[t].config = d
      OBVIOUS
    <2>1. fiber' = [fiber EXCEPT ![t] = f]
      BY <1>1
    <2> HIDE DEF d
    <2>2. f.st = fiber[t].st /\ f.row = fiber[t].row /\ f.config = d
      BY <1>6 DEF FiberRecord
    <2> HIDE DEF f
    <2> QED BY <1>6, <2>1, <2>2
  <1>8. \A x \in Tokens : fiber'[x].row = fiber[x].row
    BY <1>1, <1>7
  <1>9. \A r : (IsRunning(r)' <=> IsRunning(r)) /\ (Kept(r)' <=> Kept(r))
    BY <1>1 DEF IsRunning, Kept
  <1>10. op.updates \subseteq Tokens
    BY OpFacts DEF Base, Typing
  <1>11. Followed'
    BY <1>1, <1>5, <1>8, <1>9, <1>10 DEF Followed, Base
  <1> QED BY <1>1, <1>3, <1>4, <1>5, <1>7, <1>11 DEF Base

(* (A record that only has a new configuration.) *)
LEMMA RecordWith ==
  ASSUME NEW x \in Record, NEW k \in Configs
  PROVE  LET f == [x EXCEPT !.config = k] IN
         f.token = x.token /\ f.inject = x.inject /\ f.config = k /\ f \in Record /\ f # NoRecord
  BY DEF Record, NoRecord

(* ... is recorded as updated, ... *)
LEMMA BaseUpdateDone ==
  ASSUME Base, op # NoOp, NEW t \in Tokens, UpdateDone(t)
  PROVE  /\ Base' /\ op' # NoOp /\ op'.at = "update" /\ op'.updates = op.updates \ {t}
         /\ op'.sent = NoToken /\ op.sent = t
         /\ UNCHANGED <<desired, groups, fiber, disables, abandoned>>
         /\ \A r \in Rows : /\ running'[r].token = running[r].token /\ (IsRunning(r)' <=> IsRunning(r))
                            /\ running'[r].inject = running[r].inject
                            /\ running'[r].config = IF IsRunning(r) /\ running[r].token = t
                                                    THEN fiber[t].config ELSE running[r].config
  <1>1. /\ UNCHANGED <<desired, groups, fiber, watched, disables, abandoned, layer>>
        /\ op.at = "update" /\ op.sent = t
        /\ running' = IF StillItsRecord(t)
                      THEN [running EXCEPT ![fiber[t].row].config = fiber[t].config]
                      ELSE running
    BY DEF UpdateDone
  <1>2. Rowed' /\ Tokens' = Tokens
    BY <1>1, RowedUpdateDone DEF Base, Tokens
  <1>3. /\ Typing' /\ op' # NoOp /\ op'.at = "update" /\ op'.updates = op.updates \ {t}
        /\ op'.sent = NoToken
    BY <1>2, UpdateDoneTyped DEF Base
  <1>4. \A r \in Rows : /\ running'[r].token = running[r].token /\ (IsRunning(r)' <=> IsRunning(r))
                            /\ running'[r].inject = running[r].inject
                            /\ running'[r].config = IF IsRunning(r) /\ running[r].token = t
                                                    THEN fiber[t].config ELSE running[r].config
    <2> TAKE r \in Rows
    <2>1. /\ fiber[t].row \in Rows /\ fiber[t].config \in Configs
          /\ running \in [Rows -> Record \cup {NoRecord}]
          /\ \A x \in Rows : IsRunning(x) /\ running[x].token = t => x = fiber[t].row
      BY Records, Typed DEF Base, Rowed, Placed, RowsTypeOK
    <2>2. CASE StillItsRecord(t)
      <3>1. /\ running' = [running EXCEPT ![fiber[t].row].config = fiber[t].config]
            /\ IsRunning(fiber[t].row) /\ running[fiber[t].row].token = t
        BY <1>1, <2>2 DEF StillItsRecord
      <3> DEFINE q == fiber[t].row
                 k == fiber[t].config
                 f == [running[q] EXCEPT !.config = k]
      <3>2. running' = [running EXCEPT ![q] = f] /\ running[q] \in Record
        BY <2>1, <3>1 DEF IsRunning
      <3>3. f.token = running[q].token /\ f.inject = running[q].inject /\ f.config = k
            /\ f \in Record /\ f # NoRecord
        <4>1. q \in Rows /\ k \in Configs
          BY <2>1
        <4> HIDE DEF q, k
        <4> QED BY <3>2, <4>1, RecordWith
      <3> HIDE DEF f
      <3>4. CASE r = q
        <4>1. running'[r] = f /\ IsRunning(r) /\ running[r].token = t
          BY <2>1, <3>1, <3>2, <3>4
        <4> QED BY <3>3, <3>4, <4>1 DEF IsRunning
      <3>5. CASE r # q
        <4>1. running'[r] = running[r] /\ ~ (IsRunning(r) /\ running[r].token = t)
          BY <2>1, <3>2, <3>5
        <4> QED BY <4>1 DEF IsRunning
      <3> QED BY <3>4, <3>5
    <2>3. CASE ~ StillItsRecord(t)
      <3>1. running' = running
        BY <1>1, <2>3
      <3>2. ~ (IsRunning(fiber[t].row) /\ running[fiber[t].row].token = t)
        BY <2>3 DEF StillItsRecord
      <3>3. ~ (IsRunning(r) /\ running[r].token = t)
        BY <2>1, <3>2
      <3> QED BY <3>1, <3>3 DEF IsRunning
    <2> QED BY <2>2, <2>3
  <1>5. \A r \in Rows : IsRunning(r)' => Kept(r)'
    BY <1>1, <1>4 DEF Followed, Base, Kept
  <1>6. Followed'
    BY <1>1, <1>3, <1>5 DEF Followed, Base
  <1> QED BY <1>1, <1>2, <1>3, <1>4, <1>6 DEF Base

(* ... and all are settled; *)
LEMMA BaseSettleAll ==
  ASSUME Base, op # NoOp, SettleAll
  PROVE  Base' /\ UNCHANGED tree /\ op' # NoOp /\ op'.at = "settle"
  <1>1. UNCHANGED tree /\ layer' = layer /\ op.at = "update"
    BY DEF SettleAll
  <1>2. Rowed' /\ Tokens' = Tokens /\ UNCHANGED <<desired, running>>
    BY <1>1, SameTree DEF Base, tree
  <1>3. Typing' /\ op' # NoOp /\ op'.at = "settle"
    BY <1>2, SettleAllTyped DEF Base
  <1> QED BY <1>1, <1>2, <1>3, FollowedStays DEF Base

(* by a writer outside, ... *)
LEMMA BaseOtherWriter ==
  ASSUME Base, NEW r \in Rows, OtherWriter(r)
  PROVE  Base' /\ UNCHANGED <<tree, ops>>
  <1>1. UNCHANGED <<tree, ops>>
    BY DEF OtherWriter
  <1>2. Rowed' /\ Tokens' = Tokens /\ UNCHANGED <<desired, running, fiber, op, layer>>
    BY <1>1, SameTree DEF Base, tree, ops
  <1>3. Typing'
    BY <1>2, OtherWriterTyped DEF Base
  <1>4. \A x : (IsRunning(x)' <=> IsRunning(x)) /\ (Kept(x)' <=> Kept(x))
    BY <1>2 DEF IsRunning, Kept
  <1>5. Followed'
    BY <1>2, <1>4 DEF Followed, Base
  <1> QED BY <1>1, <1>2, <1>3, <1>5 DEF Base

(* ... and by what goes on without an operation. *)
LEMMA BaseKernel ==
  ASSUME Base, NEW t \in Tokens, FiberSteps(t) \/ Monitor(t) \/ Upsets(t), UNCHANGED <<ops, store>>
  PROVE  Base' /\ Follows /\ (NoGap => NoGap')
  <1>1. Rowed' /\ Follows /\ (NoGap => NoGap')
    BY TreeSteps DEF Base
  <1>2. Tokens \subseteq Tokens' /\ UNCHANGED <<op, layer, desired>>
    BY <1>1 DEF Follows, ops
  <1>3. Typing'
    BY <1>1, <1>2, KernelTyped DEF Base
  <1>4. ASSUME NEW r \in Rows, IsRunning(r)', IsRunning(r) => Kept(r) PROVE Kept(r)'
    <2>1. CASE running'[r] = running[r]
      BY <1>2, <1>4, <2>1 DEF IsRunning, Kept
    <2>2. CASE Joined(r)
      BY <1>2, <2>2 DEF Joined, Kept
    <2> QED BY <1>1, <1>4, <2>1, <2>2 DEF Follows, IsRunning
  <1>5. op # NoOp => op.updates \subseteq Tokens
    BY OpFacts DEF Base, Typing
  <1>6. Followed'
    BY <1>1, <1>2, <1>4, <1>5 DEF Followed, Base, Follows
  <1> QED BY <1>1, <1>3, <1>6 DEF Base

(* Every step. *)
LEMMA BaseStep ==
  ASSUME Base, [Next]_vars
  PROVE  Base'
  <1>1. CASE Next
    <2>1. ASSUME op # NoOp, ReadRows \/ DropRows \/ SpawnRows \/ SettleAll PROVE Base'
      BY <2>1, BaseReadRows, BaseDropRows, BaseSpawnRows, BaseSettleAll
    <2>2. ASSUME op # NoOp, NEW t \in Tokens, SendUpdate(t) \/ UpdateDone(t) PROVE Base'
      BY <2>2, BaseSendUpdate, BaseUpdateDone
    <2>3. ASSUME op # NoOp,
                 \/ Committed \/ RollBack \/ RolledBack \/ TookLatest \/ ReplayEdit
                 \/ NothingToSave \/ Save \/ Conflict \/ Load \/ SaveFails \/ LoadFails
                 \/ \E c \in Callers : GiveUp(c)
          PROVE  Base'
      BY <2>3, BaseMoves
    <2>4. CASE OpSteps
      BY <2>1, <2>2, <2>3, <2>4 DEF OpSteps
    <2>5. ASSUME NEW t \in Tokens, Kernel(t) \/ (Upsets(t) /\ UNCHANGED <<ops, store>>) PROVE Base'
      BY <2>5, BaseKernel DEF Kernel
    <2> QED BY <1>1, <2>3, <2>4, <2>5, BaseStarts, BaseSelfDisposed, BaseOtherWriter DEF Next
  <1>2. CASE UNCHANGED vars
    <2>1. /\ UNCHANGED tree
          /\ UNCHANGED <<layer, version, queue, op, told, seen, saved, dropped, gaveUp, store, work>>
      BY <1>2 DEF vars, ops
    <2>2. Rowed' /\ Tokens' = Tokens /\ UNCHANGED <<desired, running, fiber>>
      BY <2>1, SameTree DEF Base, tree
    <2>3. Editing' <=> Editing
      BY <2>1 DEF Editing, InReconcile
    <2>4. Typing'
      BY <2>1, <2>2, <2>3, TypingStep DEF Base, Typing, OpsTyped, OpShape
    <2>5. \A x : (IsRunning(x)' <=> IsRunning(x)) /\ (Kept(x)' <=> Kept(x))
      BY <2>2 DEF IsRunning, Kept
    <2>6. Followed'
      BY <2>1, <2>2, <2>5 DEF Followed, Base
    <2> QED BY <2>2, <2>4, <2>6 DEF Base
  <1> QED BY <1>1, <1>2

-----------------------------------------------------------------------------
(* The first state *)

(* Base holds at the start, where every row of the layer is running, ... *)
LEMMA InitBase ==
  ASSUME Init
  PROVE  Base
  <1> DEFINE token == [r \in Rows |-> RootToken + CHOOSE i \in DOMAIN Tree : Tree[i] = r]
             in(r) == IF Parent[r] = Root THEN RootToken ELSE token[Parent[r]]
             rowOf(t) == CHOOSE x \in Rows : token[x] = t
  <1>1. /\ desired = Boot
        /\ running = [r \in Rows |-> [token |-> token[r], parent |-> in(r),
                                config |-> Boot[r].config, inject |-> Boot[r].inject]]
        /\ groups = [g \in Groups \cup {Root} |-> IF g = Root THEN RootToken ELSE token[g]]
        /\ fiber = [t \in Range(token) |->
             [row |-> rowOf(t), parent |-> in(rowOf(t)), st |-> "Active", ending |-> FALSE,
              restart |-> FALSE, config |-> Boot[rowOf(t)].config, self |-> FALSE, late |-> FALSE]]
        /\ watched = Range(token) /\ disables = {} /\ abandoned = {}
    BY DEF Init, InitRows
  <1>2. PICK n \in Nat : DOMAIN Tree = 1 .. n
    BY TreeFacts
  <1>3. \A r \in Rows : \E i \in 1 .. n : Tree[i] = r /\ token[r] = 1 + i
    <2> TAKE r \in Rows
    <2> DEFINE i == CHOOSE k \in DOMAIN Tree : Tree[k] = r
    <2>1. \E k \in DOMAIN Tree : Tree[k] = r
      BY TreeFacts
    <2>2. i \in DOMAIN Tree /\ Tree[i] = r
      BY <2>1
    <2>3. token[r] = 1 + i
      BY DEF RootToken
    <2> HIDE DEF i
    <2> QED BY <1>2, <2>2, <2>3
  <1>4. \A i \in 1 .. n : Tree[i] \in Rows /\ token[Tree[i]] = 1 + i
    <2> TAKE i \in 1 .. n
    <2>1. Tree[i] \in Rows
      BY <1>2, TreeFacts
    <2>2. PICK k \in 1 .. n : Tree[k] = Tree[i] /\ token[Tree[i]] = 1 + k
      <3> HIDE DEF token
      <3> QED BY <1>3, <2>1
    <2>3. k = i
      BY <1>2, <2>2, TreeFacts
    <2> QED BY <2>1, <2>2, <2>3
  <1>5. \A r \in Rows : token[r] \in 2 .. n + 1
    <2> HIDE DEF token
    <2> QED BY <1>3
  <1>6. \A r, q \in Rows : token[r] = token[q] => r = q
    <2> HIDE DEF token
    <2> QED BY <1>3
  <1>7. DOMAIN token = Rows
    OBVIOUS
  <1> HIDE DEF token
  <1>8. Range(token) = 2 .. n + 1
    <2>1. \A t \in 2 .. n + 1 : t - 1 \in 1 .. n /\ token[Tree[t - 1]] = t /\ Tree[t - 1] \in Rows
      BY <1>4
    <2> QED BY <1>5, <1>7, <2>1 DEF Range
  <1>9. IsFiniteSet(2 .. n + 1) /\ Cardinality(2 .. n + 1) = n
    <2>1. 2 \in Int /\ n + 1 \in Int /\ (n + 1) - 2 + 1 = n
      OBVIOUS
    <2>2. n = 0 => 2 .. n + 1 = {}
      OBVIOUS
    <2>3. n # 0 => 2 <= n + 1
      OBVIOUS
    <2> QED BY <2>1, <2>2, <2>3, FS_Interval, FS_EmptySet
  <1>10. Tokens = 2 .. n + 1
    BY <1>1, <1>8 DEF Tokens
  <1>11. \A t \in Tokens : rowOf(t) \in Rows /\ token[rowOf(t)] = t
    <2> TAKE t \in Tokens
    <2>1. t - 1 \in 1 .. n
      BY <1>10
    <2>2. Tree[t - 1] \in Rows /\ token[Tree[t - 1]] = 1 + (t - 1)
      BY <1>4, <2>1
    <2>3. \E x \in Rows : token[x] = t
      BY <1>10, <2>2
    <2> QED BY <2>3
  <1>12. \A r \in Rows : token[r] \in Tokens /\ rowOf(token[r]) = r
    BY <1>5, <1>6, <1>10, <1>11
  <1> HIDE DEF rowOf
  <1>13. \A r \in Rows : \/ Parent[r] = Root /\ in(r) = RootToken
                         \/ /\ Parent[r] # Root /\ Parent[r] \in Groups /\ Parent[r] \in Rows
                            /\ in(r) = token[Parent[r]] /\ token[Parent[r]] < token[r]
    <2> TAKE r \in Rows
    <2>1. PICK i \in 1 .. n : Tree[i] = r /\ token[r] = 1 + i
      BY <1>3
    <2>2. Parent[Tree[i]] \in {Root} \cup {Tree[j] : j \in 1 .. i - 1}
      BY <1>2, TreeAssumption
    <2>3. CASE Parent[r] = Root
      BY <2>3
    <2>4. CASE Parent[r] # Root
      <3>1. PICK j \in 1 .. i - 1 : Parent[r] = Tree[j]
        BY <2>1, <2>2, <2>4
      <3>2. token[Parent[r]] = 1 + j
        BY <1>4, <2>1, <3>1
      <3> QED BY <2>1, <2>4, <3>1, <3>2, TreeFacts
    <2> QED BY <2>3, <2>4
  <1>14. \A r \in Rows : in(r) \in Nat
    BY <1>5, <1>13 DEF RootToken
  <1> HIDE DEF in
  <1>15. Boot \in Layers /\ Boot \in [Rows -> Content]
    BY BootLayer
  <1>16. \A r \in Rows : Boot[r].config \in Configs /\ Boot[r].inject \in Injects
    BY <1>15 DEF Content
  <1>17. \A t \in Tokens :
           /\ fiber[t].row = rowOf(t) /\ fiber[t].parent = in(rowOf(t)) /\ fiber[t].st = "Active"
           /\ fiber[t].ending = FALSE /\ fiber[t] \in FiberRecord
    <2> TAKE t \in Tokens
    <2> DEFINE q == rowOf(t)
               p == in(rowOf(t))
               c == Boot[rowOf(t)].config
    <2>1. fiber[t] = [row |-> q, parent |-> p, st |-> "Active", ending |-> FALSE,
              restart |-> FALSE, config |-> c, self |-> FALSE, late |-> FALSE]
      BY <1>1, <1>8, <1>10
    <2>2. q \in Rows /\ p \in Nat /\ c \in Configs
      BY <1>11, <1>14, <1>16
    <2> HIDE DEF q, p, c
    <2>3. fiber[t].row = q /\ fiber[t].parent = p /\ fiber[t].st = "Active"
           /\ fiber[t].ending = FALSE /\ fiber[t] \in FiberRecord
      BY <2>1, <2>2 DEF FiberRecord, FiberState
    <2> QED BY <2>3 DEF q, p
  <1>18. \A r \in Rows :
           /\ running[r].token = token[r] /\ running[r].parent = in(r)
           /\ running[r].inject = Boot[r].inject
           /\ running[r] \in Record /\ IsRunning(r)
    <2> TAKE r \in Rows
    <2> DEFINE k == token[r]
               p == in(r)
               c == Boot[r].config
               j == Boot[r].inject
    <2>1. running[r] = [token |-> k, parent |-> p, config |-> c, inject |-> j]
      BY <1>1
    <2>2. k \in Nat /\ p \in Nat /\ c \in Configs /\ j \in Injects
      BY <1>5, <1>14, <1>16
    <2> HIDE DEF k, p, c, j
    <2>3. running[r].token = k /\ running[r].parent = p /\ running[r].inject = j
          /\ running[r] \in Record
      BY <2>1, <2>2 DEF Record
    <2>4. running[r] # NoRecord
      BY <2>3 DEF Record, NoRecord
    <2> QED BY <2>3, <2>4 DEF k, p, j, IsRunning
  <1>19. /\ groups[Root] = RootToken /\ groups \in [Groups \cup {Root} -> Nat]
         /\ \A g \in Groups : groups[g] = token[g] /\ g \in Rows
    <2>1. \A g \in Groups : g \in Rows /\ g # Root
      BY TreeFacts
    <2> QED BY <1>1, <1>5, <2>1 DEF RootToken
  <1>20. Placed
    <2>1. running \in [Rows -> Record \cup {NoRecord}]
      BY <1>1, <1>18
    <2>2. RowsTypeOK
      BY <1>1, <1>8, <1>10, <1>15, <1>17, <1>19, <2>1 DEF RowsTypeOK
    <2>3. fiber \in [Tokens -> FiberRecord]
      BY <1>1, <1>8, <1>10, <1>17
    <2>4. Finite
      BY <1>9, <1>10 DEF Finite, RootToken
    <2> QED BY <1>19, <2>2, <2>3, <2>4 DEF Placed
  <1>21. \A t \in Tokens : Lives(t)
    <2> TAKE t \in Tokens
    <2> DEFINE q == rowOf(t)
    <2>1. q \in Rows /\ token[q] = t /\ t > RootToken
      BY <1>10, <1>11 DEF RootToken
    <2>2. fiber[t].row = q /\ fiber[t].parent = in(q) /\ fiber[t].st = "Active"
      BY <1>17
    <2>3. Parent[q] # Root => Parent[q] \in Rows /\ token[Parent[q]] \in Tokens
                              /\ fiber[token[Parent[q]]].row = Parent[q]
      BY <1>12, <1>13, <1>17, <2>1
    <2> HIDE DEF q
    <2>4. in(q) < t
      BY <1>13, <2>1
    <2>5. \/ in(q) = RootToken /\ Parent[q] = Root
          \/ in(q) \in Tokens /\ fiber[in(q)].row = Parent[q]
      BY <1>13, <2>1, <2>3
    <2> QED BY <2>2, <2>4, <2>5 DEF Lives
  <1>22. \A t \in Tokens : StrayGoes(t)
    BY <1>11, <1>17, <1>18 DEF StrayGoes, Stray
  <1>23. \A g \in Groups : Registered(g)
    BY <1>12, <1>17, <1>18, <1>19 DEF Registered
  <1>24. \A r \in Rows : RecordOf(r)
    <2> TAKE r \in Rows
    <2>1. /\ token[r] \in Tokens /\ token[r] \in watched
          /\ fiber[token[r]].row = r /\ fiber[token[r]].parent = in(r)
          /\ fiber[token[r]].ending = FALSE
      BY <1>1, <1>8, <1>10, <1>12, <1>17
    <2>2. groups[Parent[r]] = in(r)
      BY <1>13, <1>19
    <2>3. r \in Groups => groups[r] = token[r]
      BY <1>19
    <2> QED BY <1>18, <2>1, <2>2, <2>3 DEF RecordOf
  <1>25. Rowed
    BY <1>1, <1>20, <1>21, <1>22, <1>23, <1>24 DEF Rowed
  <1>26. Typing
    <2>1. work \in ScenarioType
      BY ScenarioAssumption DEF Init
    <2>2. /\ layer = Boot /\ version = Boot /\ store = Boot /\ seen = Boot
          /\ queue = <<>> /\ op = NoOp /\ told = [c \in Callers |-> "none"]
          /\ saved = {} /\ dropped = {} /\ gaveUp = FALSE
      BY DEF Init
    <2>3. <<>> \in Seq(EditType)
      OBVIOUS
    <2>4. OpsTyped
      BY <1>15, <2>1, <2>2, <2>3 DEF OpsTyped
    <2> QED BY <2>2, <2>4 DEF Typing, OpShape
  <1>27. \A r \in Rows : Kept(r)
    <2> TAKE r \in Rows
    <2>1. \A a \in {r} \cup Above[r] : a \in Rows
      BY AboveFacts
    <2>2. \A a \in Rows : a \in DOMAIN Boot /\ ~ Boot[a].off
      BY <1>15, ScenarioAssumption
    <2>3. Wanted(Boot, r)
      BY <2>1, <2>2 DEF Wanted
    <2> QED BY <1>1, <1>18, <2>2, <2>3 DEF Kept
  <1>28. op = NoOp /\ layer = Boot
    BY DEF Init
  <1>29. Followed
    BY <1>1, <1>27, <1>28 DEF Followed
  <1> QED BY <1>25, <1>26, <1>29 DEF Base

(* ... and always. *)
LEMMA BaseAlways == Spec => []Base
  <1>1. Init => Base
    BY InitBase
  <1>2. Base /\ [Next]_vars => Base'
    BY BaseStep
  <1> QED BY <1>1, <1>2, PTL DEF Spec

(* A row is turned off by the monitor of its fiber (reconcile.rs) only if  *)
(* that fiber was disposed from inside its row or by the application,      *)
(* never because the loader replaced it, dropped it or disposed the group  *)
(* it is in.                                                               *)
THEOREM OnlyItself == Spec => []OnlyItselfDisables
  <1>1. Base => OnlyItselfDisables
    BY DEF Base, Rowed, OnlyItselfDisables
  <1> QED BY <1>1, BaseAlways, PTL

(* Every part of the state keeps its type, and every operation holds what  *)
(* the place it is at needs.                                               *)
THEOREM WellTyped == Spec => []TypeOK
  <1>1. Base => TypeOK
    BY DEF Base, Rowed, Placed, Typing, OpsTyped, Followed, Kept, TypeOK
  <1> QED BY <1>1, BaseAlways, PTL

(* A registered row is in its group: its record names the context of the   *)
(* group's present fiber, however often the group restarted, ended late or *)
(* was dropped while the row was spawned (reconcile.rs).                   *)
THEOREM InTheirGroup == Spec => []RowsInTheirGroup
  <1>1. Base => TypeOK
    BY DEF Base, Rowed, Placed, Typing, OpsTyped, Followed, Kept, TypeOK
  <1>2. Base => RowsInTheirGroup
    BY <1>1, Records DEF Base, RowsInTheirGroup
  <1> QED BY <1>2, BaseAlways, PTL

(* Doomed: what goes, and what is below it. *)
Goes(d, t) ==
  \/ fiber[t].ending \/ fiber[t].st = "Disposed"
  \/ fiber[t].parent \in Tokens /\ (d[fiber[t].parent]
                                    \/ fiber[fiber[t].parent].st = "Unloading")

(* Doomed is made by one of the functions that say of every fiber whether  *)
(* it goes with its context.                                               *)
LEMMA DoomedIs ==
  ASSUME NEW f, f = [t \in Tokens |-> Goes(f, t)]
  PROVE  \E d : d = [t \in Tokens |-> Goes(d, t)] /\ Doomed = {t \in Tokens : d[t]}
  <1> DEFINE d == CHOOSE g : g = [t \in Tokens |-> Goes(g, t)]
  <1>1. d = [t \in Tokens |-> Goes(d, t)]
    OBVIOUS
  <1>2. Doomed = {t \in Tokens : d[t]}
    BY DEF Doomed, Goes
  <1> QED BY <1>1, <1>2

(* There is one: it is defined along the tree. *)
LEMMA DoomedExists ==
  \E f : f = [t \in Tokens |-> Goes(f, t)]
  <1> DEFINE Holds(S, t) ==
               \/ fiber[t].ending \/ fiber[t].st = "Disposed"
               \/ fiber[t].parent \in Tokens /\ (fiber[t].parent \in S
                                                 \/ fiber[fiber[t].parent].st = "Unloading")
             Closed(S) == \A t \in Tokens : Holds(S, t) => t \in S
             D == {t \in Tokens : \A S \in SUBSET Tokens : Closed(S) => t \in S}
  <1>1. \A S, W : S \subseteq W => \A t : Holds(S, t) => Holds(W, t)
    OBVIOUS
  <1>2. \A S \in SUBSET Tokens : Closed(S) => D \subseteq S
    OBVIOUS
  <1>3. D \in SUBSET Tokens /\ \A t \in Tokens : t \in D <=> \A S \in SUBSET Tokens : Closed(S) => t \in S
    OBVIOUS
  <1> HIDE DEF D, Holds
  <1>4. \A t \in Tokens : Holds(D, t) => t \in D
    <2> TAKE t \in Tokens
    <2> HAVE Holds(D, t)
    <2>1. ASSUME NEW S \in SUBSET Tokens, Closed(S) PROVE t \in S
      <3>1. Holds(S, t)
        BY <1>1, <1>2, <2>1
      <3> QED BY <2>1, <3>1
    <2> QED BY <1>3, <2>1
  <1>5. \A t \in Tokens : t \in D => Holds(D, t)
    <2> DEFINE W == {t \in D : Holds(D, t)}
    <2>1. W \in SUBSET Tokens /\ W \subseteq D
      BY <1>3
    <2>2. Closed(W)
      <3> TAKE t \in Tokens
      <3> HAVE Holds(W, t)
      <3>1. Holds(D, t)
        BY <1>1, <2>1
      <3> QED BY <1>4, <3>1
    <2> HIDE DEF W
    <2>3. D \subseteq W
      BY <1>2, <2>1, <2>2
    <2> QED BY <2>3 DEF W
  <1> DEFINE f == [t \in Tokens |-> t \in D]
  <1>6. \A t \in Tokens : Goes(f, t) <=> Holds(D, t)
    BY Zenon DEF Goes, Holds
  <1>7. \A t \in Tokens : (t \in D) = Goes(f, t)
    <2> HIDE DEF f
    <2>1. ASSUME NEW t \in Tokens PROVE (t \in D) <=> Goes(f, t)
      BY <1>4, <1>5, <1>6, <2>1
    <2>2. \A t \in Tokens : (t \in D) \in BOOLEAN /\ Goes(f, t) \in BOOLEAN
      BY DEF Goes
    <2> QED BY <2>1, <2>2, Zenon
  <1>8. f = [t \in Tokens |-> Goes(f, t)]
    <2> DEFINE h == [t \in Tokens |-> Goes(f, t)]
    <2> HIDE DEF f
    <2>1. h = [t \in Tokens |-> t \in D]
      BY <1>7, Zenon
    <2> QED BY <2>1 DEF f
  <1> HIDE DEF f
  <1> QED BY <1>8

(* A fiber that is not registered goes. *)
LEMMA StrayDoomed ==
  ASSUME Rowed, NEW d, d = [t \in Tokens |-> Goes(d, t)]
  PROVE  \A t \in Tokens : Stray(t) => d[t]
  <1> DEFINE T == {t \in Tokens : Stray(t) /\ ~ d[t]}
  <1>1. \A t \in Tokens : d[t] = Goes(d, t)
    BY Zenon
  <1>2. \A t \in Tokens : Goes(d, t) => d[t]
    BY <1>1, Zenon
  <1>3. T \in SUBSET Nat
    BY Typed DEF Rowed
  <1>4. ASSUME T # {} PROVE FALSE
    <2>1. PICK t \in T : \A x \in T : t <= x
      BY <1>3, <1>4, Least
    <2>2. t \in Tokens /\ Stray(t) /\ ~ Goes(d, t)
      BY <1>2, <2>1
    <2>3. Lives(t) /\ StrayGoes(t) /\ t \in Nat
      BY <2>2, Typed DEF Rowed
    <2>4. /\ ~ fiber[t].ending /\ fiber[t].parent \in Tokens /\ Stray(fiber[t].parent)
      BY <2>2, <2>3 DEF Goes, StrayGoes
    <2>5. ~ d[fiber[t].parent]
      BY <2>2, <2>4 DEF Goes
    <2>6. fiber[t].parent \in T
      BY <2>4, <2>5
    <2>7. t <= fiber[t].parent /\ fiber[t].parent < t /\ fiber[t].parent \in Nat
      BY <2>1, <2>3, <2>6, <1>3 DEF Lives
    <2> QED BY <2>3, <2>7
  <1> QED BY <1>4

(* No fiber is forgotten: one that is not its row's record is disposed, is *)
(* being disposed, or is in a group that goes (reconcile.rs). A stray      *)
(* fiber would run on with nobody to stop it.                              *)
THEOREM NoneForgotten == Spec => []NoFiberForgotten
  <1>1. ASSUME Base PROVE NoFiberForgotten
    <2>1. PICK f : f = [t \in Tokens |-> Goes(f, t)]
      BY DoomedExists
    <2>2. PICK d : d = [t \in Tokens |-> Goes(d, t)] /\ Doomed = {t \in Tokens : d[t]}
      BY <2>1, DoomedIs
    <2>3. \A t \in Tokens : Stray(t) => d[t]
      BY <1>1, <2>2, StrayDoomed DEF Base
    <2> QED BY <2>2, <2>3 DEF NoFiberForgotten, Stray
  <1> QED BY <1>1, BaseAlways, PTL
=============================================================================
