---------------------------- MODULE LoaderProofs ----------------------------
(***************************************************************************)
(* What the loader's operations promise: the layer in use is the saved one *)
(* with the edits made since replayed over it, what runs is what the layer *)
(* says, and a caller is told what became of its edit.                     *)
(***************************************************************************)
EXTENDS LoaderRowsProofs

-----------------------------------------------------------------------------
(* Replay: the edits made one after the other *)

IsReplay(f, l, edits) ==
  f = [n \in 0 .. Len(edits) |-> IF n = 0 THEN l ELSE Apply(f[n - 1], edits[n])]

(* The layers a replay goes through. *)
LEMMA ReplaySteps ==
  ASSUME NEW l, NEW edits, Len(edits) \in Nat, NEW f, IsReplay(f, l, edits)
  PROVE  /\ f[0] = l
         /\ \A n \in 1 .. Len(edits) : f[n] = Apply(f[n - 1], edits[n])
  <1>1. 0 \in 0 .. Len(edits) /\ \A n \in 1 .. Len(edits) : n \in 0 .. Len(edits) /\ n # 0
    OBVIOUS
  <1> QED BY <1>1 DEF IsReplay

(* There is a replay of every queue, ... *)
LEMMA ReplayExists ==
  ASSUME NEW l, NEW edits \in Seq(EditType)
  PROVE  \E f : IsReplay(f, l, edits)
  <1> DEFINE m == Len(edits)
             Upto(f, k) == f = [n \in 0 .. k |-> IF n = 0 THEN l ELSE Apply(f[n - 1], edits[n])]
             T == {k \in 0 .. m : ~ \E f : Upto(f, k)}
  <1>1. m \in Nat
    OBVIOUS
  <1>2. ASSUME T # {} PROVE FALSE
    <2>1. T \in SUBSET Nat
      BY <1>1
    <2>2. PICK k \in T : \A j \in T : k <= j
      BY <1>2, <2>1, Least
    <2>3. k \in 0 .. m /\ ~ \E f : Upto(f, k)
      BY <2>2
    <2>4. CASE k = 0
      <3> DEFINE f == [n \in 0 .. 0 |-> l]
      <3>1. f = [n \in 0 .. 0 |-> IF n = 0 THEN l ELSE Apply(f[n - 1], edits[n])]
        OBVIOUS
      <3>2. Upto(f, 0)
        BY <3>1
      <3> HIDE DEF f, Upto
      <3> QED BY <2>3, <2>4, <3>2
    <2>5. CASE k # 0
      <3>1. k - 1 \in 0 .. m /\ k \in Nat /\ ~ (k <= k - 1)
        BY <1>1, <2>3, <2>5
      <3>2. k - 1 \notin T
        BY <2>2, <3>1
      <3>3. PICK g : Upto(g, k - 1)
        BY <3>1, <3>2
      <3> DEFINE f == [n \in 0 .. k |-> IF n = k THEN Apply(g[k - 1], edits[k]) ELSE g[n]]
      <3>4. \A n \in 0 .. k - 1 : g[n] = IF n = 0 THEN l ELSE Apply(g[n - 1], edits[n])
        BY <3>3
      <3>5. \A n \in 0 .. k : f[n] = IF n = 0 THEN l ELSE Apply(f[n - 1], edits[n])
        <4> TAKE n \in 0 .. k
        <4>1. CASE n = k
          <5>1. k - 1 \in 0 .. k /\ k - 1 # k /\ n # 0
            BY <2>5, <3>1, <4>1
          <5>2. f[k - 1] = g[k - 1] /\ f[n] = Apply(g[k - 1], edits[k])
            BY <4>1, <5>1
          <5> QED BY <4>1, <5>1, <5>2
        <4>2. CASE n # k
          <5>1. n \in 0 .. k - 1 /\ f[n] = g[n]
            BY <3>1, <4>2
          <5>2. n # 0 => n - 1 \in 0 .. k /\ n - 1 # k /\ f[n - 1] = g[n - 1]
            BY <3>1, <5>1
          <5> QED BY <3>4, <5>1, <5>2
        <4> QED BY <4>1, <4>2
      <3>6. Upto(f, k)
        BY <3>5
      <3> HIDE DEF f, Upto
      <3> QED BY <2>3, <3>6
    <2> QED BY <2>4, <2>5
  <1>3. m \in 0 .. m
    BY <1>1
  <1>4. \E f : Upto(f, m)
    <2> HIDE DEF Upto
    <2> QED BY <1>2, <1>3
  <1> QED BY <1>4 DEF IsReplay

ReplayTo(f, l, q, k) ==
  f[0] = l /\ \A n \in 1 .. k : f[n] = Apply(f[n - 1], q[n])

(* ... there is only one, ... *)
LEMMA ReplayUnique ==
  ASSUME NEW l, NEW q, NEW f, NEW g, NEW k \in Nat, ReplayTo(f, l, q, k), ReplayTo(g, l, q, k)
  PROVE  f[k] = g[k]
  <1> DEFINE T == {n \in 0 .. k : f[n] # g[n]}
  <1>1. ASSUME T # {} PROVE FALSE
    <2>1. T \in SUBSET Nat
      OBVIOUS
    <2>2. PICK n \in T : \A j \in T : n <= j
      BY <1>1, <2>1, Least
    <2>3. n \in 1 .. k
      BY <2>2 DEF ReplayTo
    <2>4. n - 1 \in 0 .. k /\ ~ (n <= n - 1)
      BY <2>3
    <2>5. n - 1 \notin T
      BY <2>2, <2>4
    <2>6. f[n - 1] = g[n - 1]
      BY <2>4, <2>5
    <2>7. f[n] = g[n]
      BY <2>3, <2>6 DEF ReplayTo
    <2> QED BY <2>2, <2>7
  <1> QED BY <1>1

(* ... and Replay is where it ends. *)
LEMMA ReplayIs ==
  ASSUME NEW l, NEW edits \in Seq(EditType)
  PROVE  \E f : IsReplay(f, l, edits) /\ Replay(l, edits) = f[Len(edits)]
  <1>1. PICK g : IsReplay(g, l, edits)
    BY ReplayExists
  <1> DEFINE f == CHOOSE h : h = [n \in 0 .. Len(edits) |->
                                    IF n = 0 THEN l ELSE Apply(h[n - 1], edits[n])]
  <1>2. f = [n \in 0 .. Len(edits) |-> IF n = 0 THEN l ELSE Apply(f[n - 1], edits[n])]
    BY <1>1 DEF IsReplay
  <1>3. Replay(l, edits) = f[Len(edits)]
    BY DEF Replay
  <1>4. IsReplay(f, l, edits)
    BY <1>2 DEF IsReplay
  <1> HIDE DEF f
  <1> QED BY <1>3, <1>4

(* A replay of no edit. *)
LEMMA ReplayNone ==
  ASSUME NEW l
  PROVE  Replay(l, <<>>) = l
  <1>1. <<>> \in Seq(EditType) /\ Len(<<>>) = 0
    OBVIOUS
  <1>2. PICK f : IsReplay(f, l, <<>>) /\ Replay(l, <<>>) = f[0]
    BY <1>1, ReplayIs
  <1> QED BY <1>1, <1>2, ReplaySteps

(* A replay of one more edit. *)
LEMMA ReplayLast ==
  ASSUME NEW l, NEW q \in Seq(EditType), NEW e \in EditType
  PROVE  Replay(l, Append(q, e)) = Apply(Replay(l, q), e)
  <1> DEFINE m == Len(q)
             b == Append(q, e)
  <1>1. /\ m \in Nat /\ b \in Seq(EditType) /\ Len(b) = m + 1 /\ b[m + 1] = e
        /\ \A n \in 1 .. m : b[n] = q[n]
    OBVIOUS
  <1> HIDE DEF b
  <1>2. PICK f : IsReplay(f, l, b) /\ Replay(l, b) = f[Len(b)]
    BY <1>1, ReplayIs
  <1>3. PICK g : IsReplay(g, l, q) /\ Replay(l, q) = g[m]
    BY ReplayIs
  <1>4. f[0] = l /\ \A n \in 1 .. m + 1 : f[n] = Apply(f[n - 1], b[n])
    BY <1>1, <1>2, ReplaySteps
  <1>5. g[0] = l /\ \A n \in 1 .. m : g[n] = Apply(g[n - 1], q[n])
    BY <1>1, <1>3, ReplaySteps
  <1>6. \A n \in 1 .. m : f[n] = Apply(f[n - 1], q[n])
    BY <1>1, <1>4
  <1>8. f[m] = g[m]
    <2>1. PICK k \in Nat : k = m
      BY <1>1
    <2>2. ReplayTo(f, l, q, k)
      BY <1>4, <1>6, <2>1 DEF ReplayTo
    <2>3. ReplayTo(g, l, q, k)
      BY <1>5, <2>1 DEF ReplayTo
    <2>4. f[k] = g[k]
      BY <2>2, <2>3, ReplayUnique
    <2> QED BY <2>1, <2>4
  <1>9. m + 1 \in 1 .. m + 1 /\ (m + 1) - 1 = m
    BY <1>1
  <1>10. f[m + 1] = Apply(f[m], e)
    BY <1>1, <1>4, <1>9
  <1> QED BY <1>1, <1>2, <1>3, <1>8, <1>10 DEF b

-----------------------------------------------------------------------------
(* What an operation is about while the rows follow it *)

Following ==
  \/ ReadRows \/ DropRows \/ SpawnRows \/ SettleAll
  \/ \E t \in Tokens : SendUpdate(t) \/ UpdateDone(t)

(* What an operation is about does not change while the rows follow the    *)
(* layer.                                                                  *)
LEMMA SamePlace ==
  ASSUME Base, op # NoOp, Following
  PROVE  /\ InReconcile /\ InReconcile'
         /\ op'.who = op.who /\ op'.stage = op.stage /\ op'.edit = op.edit /\ op'.base = op.base
         /\ op'.todo = op.todo /\ op'.index = op.index /\ op'.tries = op.tries
         /\ op'.current = op.current /\ op'.kept = op.kept /\ op'.error = op.error
         /\ UNCHANGED <<work, store, layer, version, queue, told, seen, saved, dropped, gaveUp>>
  <1>1. op' # NoOp /\ op'.at \in {"drop", "dispose", "update", "settle"}
    BY BaseReadRows, BaseDropRows, BaseSpawnRows, BaseSettleAll, BaseSendUpdate, BaseUpdateDone
       DEF Following
  <1>2. op \in OpType
    BY DEF Base, Typing, OpsTyped
  <1>3. op.at \in {"read", "drop", "dispose", "update"}
        /\ UNCHANGED <<work, store, layer, version, queue, told, seen, saved, dropped, gaveUp>>
    BY DEF Following, ReadRows, DropRows, SpawnRows, SettleAll, SendUpdate, UpdateDone
  <1>4. InReconcile /\ InReconcile'
    BY <1>1, <1>3 DEF InReconcile
  <1> DEFINE Same(p) ==
         /\ p.who = op.who /\ p.stage = op.stage /\ p.edit = op.edit /\ p.base = op.base
         /\ p.todo = op.todo /\ p.index = op.index /\ p.tries = op.tries
         /\ p.current = op.current /\ p.kept = op.kept /\ p.error = op.error
  <1>5. Same(op')
    <2>1. CASE ReadRows
      <3>1. op' = [op EXCEPT !.at = "drop", !.before = Failing]
        BY <2>1 DEF ReadRows
      <3> QED BY <1>2, <3>1 DEF OpType
    <2>2. CASE DropRows
      <3>1. \E w : op' = [op EXCEPT !.at = "dispose", !.wait = w]
        BY <2>2 DEF DropRows
      <3> QED BY <1>2, <3>1 DEF OpType
    <2>3. CASE SpawnRows
      <3>1. op' = [op EXCEPT !.at = "update", !.wait = {}, !.sent = NoToken, !.updates = Changed]
        BY <2>3 DEF SpawnRows
      <3> QED BY <1>2, <3>1 DEF OpType
    <2>4. CASE SettleAll
      <3>1. op' = [op EXCEPT !.at = "settle"]
        BY <2>4 DEF SettleAll
      <3> QED BY <1>2, <3>1 DEF OpType
    <2>5. ASSUME NEW t \in Tokens, SendUpdate(t) PROVE Same(op')
      <3>1. \/ op' = [op EXCEPT !.updates = @ \ {t}]
            \/ op' = [op EXCEPT !.sent = t]
        BY <2>5 DEF SendUpdate
      <3> QED BY <1>2, <3>1 DEF OpType
    <2>6. ASSUME NEW t \in Tokens, UpdateDone(t) PROVE Same(op')
      <3>1. op' = [op EXCEPT !.sent = NoToken, !.updates = @ \ {t}]
        BY <2>6 DEF UpdateDone
      <3> QED BY <1>2, <3>1 DEF OpType
    <2> HIDE DEF Same
    <2> QED BY <2>1, <2>2, <2>3, <2>4, <2>5, <2>6 DEF Following
  <1> QED BY <1>3, <1>4, <1>5

-----------------------------------------------------------------------------
(* What is saved *)

(* The pending edits, made to the content at the version, give the layer;  *)
(* while an edit is committed, the layer before it.                        *)
Replayed ==
  ~ gaveUp =>
    IF Editing /\ op.stage = "commit"
    THEN Replay(version, queue) = op.base /\ layer = Apply(op.base, op.edit)
    ELSE Replay(version, queue) = layer

(* The layer of the start is the saved one, nothing being queued. *)
LEMMA InitReplayed ==
  ASSUME Init
  PROVE  Replayed
  <1>1. Replay(Boot, <<>>) = Boot
    BY ReplayNone
  <1> QED BY <1>1 DEF Init, Replayed, Editing, InReconcile

(* The layer is the queue's replay for as long as layer, store and queue   *)
(* stay, no edit being tried.                                              *)
LEMMA ReplayedStays ==
  ASSUME Replayed, UNCHANGED <<layer, version, queue>>, gaveUp => gaveUp',
         ~ (Editing /\ op.stage = "commit"), ~ (Editing' /\ op'.stage = "commit")
  PROVE  Replayed'
  BY DEF Replayed

(* An operation that moves on keeps it so, the edit that is tried apart,   *)
(* ...                                                                     *)
LEMMA ReplayedMoves ==
  ASSUME Base, Replayed, op # NoOp, Tokens' = Tokens,
         \/ Committed \/ RollBack \/ RolledBack \/ TookLatest \/ ReplayEdit
         \/ NothingToSave \/ Save \/ Conflict \/ Load \/ SaveFails \/ LoadFails
         \/ \E c \in Callers : GiveUp(c)
  PROVE  Replayed'
  <1>1. Typing /\ queue \in Seq(EditType)
    BY DEF Base, Typing, OpsTyped
  <1>2. CASE Committed
    <2>1. /\ Editing /\ op.stage = "commit" /\ op.edit \in EditType
          /\ queue' = Append(queue, op.edit) /\ UNCHANGED <<layer, version, gaveUp>>
      BY <1>1, <1>2 DEF Committed, Reconciled, Editing, InReconcile, Typing, OpShape
    <2>2. Moves
      BY <1>1, <1>2, CommittedTyped
    <2>3. op'.at \in {"save", "replay"}
      BY <1>1, <1>2, CommittedTyped, OpFacts DEF Resumes, Typing
    <2>4. ~ Editing'
      BY <2>3 DEF Editing, InReconcile
    <2>5. Replay(version, Append(queue, op.edit)) = Apply(Replay(version, queue), op.edit)
      BY <1>1, <2>1, ReplayLast
    <2> QED BY <2>1, <2>4, <2>5 DEF Replayed
  <1>3. CASE RollBack
    <2>1. /\ Editing /\ op.stage = "commit" /\ UNCHANGED <<version, queue, gaveUp>>
      BY <1>3 DEF RollBack, Reconciled, Editing, InReconcile
    <2>2. op'.stage = "rollback" /\ layer' = op.base
      BY <1>1, <1>3, RollBackTyped
    <2> QED BY <2>1, <2>2 DEF Replayed
  <1>4. CASE RolledBack \/ TookLatest
    <2>1. /\ op.stage # "commit" /\ UNCHANGED <<layer, version, queue, gaveUp>>
      BY <1>4 DEF RolledBack, TookLatest, Reconciled
    <2>2. op' = NoOp \/ op'.at \in {"save", "replay"}
      BY <1>1, <1>4, RolledBackTyped, TookLatestTyped, OpFacts DEF Resumes, Typing
    <2>3. ~ Editing'
      BY <2>2 DEF Editing, InReconcile
    <2> QED BY <2>1, <2>3, ReplayedStays
  <1>5. CASE ReplayEdit
    <2>1. ~ Editing /\ UNCHANGED <<version, queue, gaveUp>>
      BY <1>5 DEF ReplayEdit, Editing, InReconcile
    <2>2. \/ op' # NoOp /\ Commits(Head(op.todo))
          \/ layer' = layer /\ op'.at \in {"save", "replay"}
      BY <1>1, <1>5, ReplayEditTyped DEF Resumes
    <2>3. CASE op' # NoOp /\ Commits(Head(op.todo))
      <3>1. Editing' /\ op'.stage = "commit"
        BY <2>3 DEF Commits, Editing, InReconcile
      <3> QED BY <2>1, <2>3, <3>1 DEF Replayed, Commits
    <2>4. CASE layer' = layer /\ op'.at \in {"save", "replay"}
      BY <2>1, <2>4, ReplayedStays DEF Editing, InReconcile
    <2> QED BY <2>2, <2>3, <2>4
  <1>6. CASE Save
    <2>1. ~ Editing /\ op' = NoOp /\ queue' = <<>> /\ version' = layer /\ layer' = layer
      BY <1>6 DEF Save, Saving, Editing, InReconcile, Answer
    <2> QED BY <2>1, ReplayNone DEF Replayed, Editing, InReconcile
  <1>7. CASE NothingToSave \/ SaveFails \/ LoadFails
    <2>1. ~ Editing /\ op' = NoOp /\ UNCHANGED <<layer, version, queue, gaveUp>>
      BY <1>7 DEF NothingToSave, SaveFails, LoadFails, Saving, Editing, InReconcile, Answer
    <2> QED BY <2>1, ReplayedStays DEF Editing, InReconcile
  <1>8. CASE Conflict
    <2>1. ~ Editing /\ UNCHANGED <<layer, version, queue, gaveUp>>
          /\ (op' = NoOp \/ op' = [op EXCEPT !.at = "load"])
      BY <1>8 DEF Conflict, Saving, Editing, InReconcile, Answer
    <2>2. op' = NoOp \/ op'.at = "load"
      BY <2>1, OpFacts DEF Typing, Base, OpType
    <2> QED BY <2>1, <2>2, ReplayedStays DEF Editing, InReconcile
  <1>9. CASE Load
    <2>1. op'.stage = "latest"
      BY <1>1, <1>9, LoadTyped
    <2>2. layer' = store /\ version' = store /\ queue' = <<>>
      BY <1>9 DEF Load, Latest
    <2> QED BY <2>1, <2>2, ReplayNone DEF Replayed
  <1>10. CASE \E c \in Callers : GiveUp(c)
    BY <1>10 DEF GiveUp, Replayed
  <1> QED BY <1>2, <1>3, <1>4, <1>5, <1>6, <1>7, <1>8, <1>9, <1>10

(* ... one that starts does, ... *)
LEMMA ReplayedStarts ==
  ASSUME Replayed, op = NoOp, UNCHANGED <<version, queue, gaveUp>>,
         NEW who, NEW e,
         \/ Opens(who) /\ Commits(e)
         \/ op' = NoOp /\ layer' = layer
  PROVE  Replayed'
  <1>1. ~ Editing
    BY DEF Editing, InReconcile
  <1>2. CASE Opens(who) /\ Commits(e)
    <2>1. Editing' /\ op'.stage = "commit"
      BY <1>2 DEF Opens, Commits, Editing, InReconcile
    <2> QED BY <1>1, <1>2, <2>1 DEF Replayed, Commits
  <1>3. CASE op' = NoOp /\ layer' = layer
    BY <1>1, <1>3, ReplayedStays DEF Editing, InReconcile
  <1> QED BY <1>2, <1>3

(* ... and every step does. *)
LEMMA ReplayedStep ==
  ASSUME Base, Replayed, [Next]_vars
  PROVE  Replayed'
  <1>0. Typing /\ Rowed
    BY DEF Base
  <1>1. ASSUME op # NoOp, Following PROVE Replayed'
    <2>1. /\ InReconcile /\ InReconcile'
          /\ op'.stage = op.stage /\ op'.edit = op.edit /\ op'.base = op.base
          /\ UNCHANGED <<layer, version, queue, gaveUp>>
      BY <1>1, SamePlace
    <2>2. Editing' <=> Editing
      BY <2>1 DEF Editing
    <2> QED BY <2>1, <2>2 DEF Replayed
  <1>2. ASSUME op # NoOp,
                 \/ Committed \/ RollBack \/ RolledBack \/ TookLatest \/ ReplayEdit
                 \/ NothingToSave \/ Save \/ Conflict \/ Load \/ SaveFails \/ LoadFails
                 \/ \E c \in Callers : GiveUp(c)
        PROVE  Replayed'
    <2>1. Tokens' = Tokens
      BY <1>2, BaseMoves DEF Tokens
    <2> QED BY <1>2, <2>1, ReplayedMoves
  <1>3. CASE OpSteps
    <2>1. op # NoOp
      BY <1>3 DEF OpSteps
    <2> QED BY <1>1, <1>2, <1>3, <2>1 DEF OpSteps, Following
  <1>4. ASSUME NEW c \in Callers, Starts(c) PROVE Replayed'
    <2>1. Tokens' = Tokens
      BY <1>4 DEF Starts, Edit, Flush, ReadLayers, Reconcile, tree, Tokens
    <2>2. CASE Edit(c)
      <3>1. EditOf(c) \in EditType
        BY <1>0, <2>2, JobFacts DEF Edit, Typing, OpsTyped
      <3>2. op = NoOp /\ ((Opens(c) /\ Commits(EditOf(c))) \/ (op' = NoOp /\ layer' = layer))
        <4>1. StartEdit(c, EditOf(c)) /\ c \in Callers \cup {Monitors}
          BY <2>2 DEF Edit
        <4>2. PICK e \in EditType : e = EditOf(c) /\ StartEdit(c, e)
          BY <3>1, <4>1
        <4>3. op = NoOp /\ ((Opens(c) /\ Commits(e)) \/ (op' = NoOp /\ layer' = layer))
          <5>1. Typing /\ StartEdit(c, e) /\ Tokens' = Tokens
            BY <1>0, <2>1, <4>2
          <5>2. /\ Typing'
                /\ op = NoOp
                /\ \/ Opens(c) /\ Commits(e) /\ op'.todo = <<>>
                   \/ /\ ~ Applies(layer, e) /\ Answer(c, "refused") /\ op' = NoOp
                      /\ layer' = layer /\ dropped' = dropped
            BY <5>1, <4>1, StartEditTyped
          <5> QED BY <5>2
        <4> QED BY <4>2, <4>3 DEF Commits
      <3>3. UNCHANGED <<version, queue, gaveUp>>
        BY <2>2 DEF Edit, StartEdit
      <3> QED BY <3>2, <3>3, ReplayedStarts
    <2>3. CASE Flush(c)
      <3>1. op = NoOp /\ op'.at = "save" /\ UNCHANGED <<layer, version, queue, gaveUp>>
        BY <1>0, <2>1, <2>3, FlushTyped DEF Flush
      <3> QED BY <3>1, ReplayedStays DEF Editing, InReconcile
    <2>4. CASE ReadLayers(c)
      <3>1. UNCHANGED <<op, layer, version, queue, gaveUp>>
        BY <2>4 DEF ReadLayers
      <3> QED BY <3>1 DEF Replayed, Editing, InReconcile
    <2>5. CASE Reconcile(c)
      <3>1. op'.stage = "latest" /\ layer' = seen /\ version' = seen /\ queue' = <<>>
        BY <1>0, <2>1, <2>5, ReconcileTyped DEF Reconcile
      <3> QED BY <3>1, ReplayNone DEF Replayed
    <2> QED BY <1>4, <2>2, <2>3, <2>4, <2>5 DEF Starts
  <1>5. ASSUME NEW t \in Tokens, SelfDisposed(t) PROVE Replayed'
    <2>1. Tokens' = Tokens /\ StartEdit(Monitors, Disable(fiber[t].row))
      BY <1>5 DEF SelfDisposed, Tokens
    <2>2. Disable(fiber[t].row) \in EditType
      BY <1>5, BaseSelfDisposed
    <2>3. op = NoOp /\ ((Opens(Monitors) /\ Commits(Disable(fiber[t].row))) \/ (op' = NoOp /\ layer' = layer))
      <3>1. PICK e \in EditType : e = Disable(fiber[t].row) /\ StartEdit(Monitors, e)
        BY <2>1, <2>2
      <3>2. op = NoOp /\ ((Opens(Monitors) /\ Commits(e)) \/ (op' = NoOp /\ layer' = layer))
        BY <1>0, <2>1, <3>1, StartEditTyped
      <3> QED BY <3>1, <3>2 DEF Commits
    <2>4. UNCHANGED <<version, queue, gaveUp>>
      BY <2>1 DEF StartEdit
    <2> QED BY <2>3, <2>4, ReplayedStarts
  <1>6. CASE UNCHANGED ops
    BY <1>6 DEF ops, Replayed, Editing, InReconcile
  <1>7. (\E r \in Rows : OtherWriter(r)) \/ UNCHANGED vars
        \/ (\E t \in Tokens : Kernel(t) \/ (Upsets(t) /\ UNCHANGED <<ops, store>>)) => UNCHANGED ops
    BY DEF OtherWriter, vars, Kernel
  <1> QED BY <1>2, <1>3, <1>4, <1>5, <1>6, <1>7 DEF Next

(* What is given to the store is the content at the version the loader     *)
(* expects with the pending edits made to it, in the order they were made  *)
(* (commit.rs): through conflicts, replays and roll backs no edit is lost  *)
(* and none is made twice, unless a caller gave up in the middle of one.   *)
THEOREM ItsEditsAreSaved == Spec => []SavesItsEdits
  <1>1. Init => Base /\ Replayed
    BY InitBase, InitReplayed
  <1>2. Base /\ Replayed /\ [Next]_vars => (Base /\ Replayed)'
    BY BaseStep, ReplayedStep
  <1>3. Base /\ Replayed => SavesItsEdits
    BY DEF Replayed, SavesItsEdits, Editing, InReconcile
  <1> QED BY <1>1, <1>2, <1>3, PTL DEF Spec

-----------------------------------------------------------------------------
(* What runs is what the layer says *)

(* The rows have been spawned since they were last read. *)
Fresh == op = NoOp \/ op.at \notin {"read", "drop", "dispose"}

(* An update was sent to the fiber, and is to be recorded. *)
Sending(t) == op # NoOp /\ op.at = "update" /\ op.sent = t

(* An update of the fiber is listed. *)
Listed(t) == op # NoOp /\ op.at = "update" /\ t \in op.updates /\ t # op.sent

(* The record of a leaf has the config of its fiber, or will have. *)
Recorded(r) ==
  \/ running[r].config = fiber[running[r].token].config
  \/ Sending(running[r].token)

(* The fiber of a leaf has the row's config, will have it, or goes. *)
Configured(r) ==
  \/ fiber[running[r].token].config = desired[r].config
  \/ fiber[running[r].token].ending
  \/ Listed(running[r].token)

Leaves == {r \in Rows \ Groups : IsRunning(r)}

Running ==
  ~ gaveUp =>
    /\ Fresh => NoGap
    /\ \A r \in Leaves : Recorded(r)
    /\ Fresh => \A r \in Leaves : Configured(r)

(* At the start every row of the layer runs as the layer says. *)
LEMMA InitRunning ==
  ASSUME Init
  PROVE  Running
  <1>1. InitRows(Boot)
    BY DEF Init
  <1>2. Base
    BY InitBase
  <1>3. \A r \in Rows : IsRunning(r)
    BY <1>1 DEF InitRows, IsRunning, NoRecord
  <1>4. NoGap
    BY <1>3 DEF NoGap, Gap
  <1>5. ASSUME NEW r \in Rows
        PROVE  /\ running[r].config = Boot[r].config /\ desired[r] = Boot[r]
               /\ fiber[running[r].token].config = Boot[r].config
    <2>1. running[r].config = Boot[r].config /\ desired[r] = Boot[r]
      BY <1>1 DEF InitRows
    <2>2. running[r].token \in Tokens /\ fiber[running[r].token].row = r
      BY <1>2, <1>3, Records DEF Base
    <2>3. \A t \in Tokens : fiber[t].config = Boot[fiber[t].row].config
      <3> DEFINE token == [x \in Rows |-> RootToken + CHOOSE i \in DOMAIN Tree : Tree[i] = x]
                 in(x) == IF Parent[x] = Root THEN RootToken ELSE token[Parent[x]]
                 rowOf(t) == CHOOSE x \in Rows : token[x] = t
      <3>1. fiber = [t \in Range(token) |->
             [row |-> rowOf(t), parent |-> in(rowOf(t)), st |-> "Active", ending |-> FALSE,
              restart |-> FALSE, config |-> Boot[rowOf(t)].config, self |-> FALSE, late |-> FALSE]]
        BY <1>1 DEF InitRows
      <3> HIDE DEF token, in, rowOf
      <3> QED BY <3>1 DEF Tokens
    <2> QED BY <2>1, <2>2, <2>3
  <1> QED BY <1>4, <1>5 DEF Running, Leaves, Recorded, Configured

(* A step that changes what is under way alone. *)
LEMMA RunningStays ==
  ASSUME Base, Running, UNCHANGED <<desired, running, groups, fiber>>,
         gaveUp => gaveUp', op # NoOp => op.at # "update", Fresh' => Fresh,
         \A r \in Rows : Gap(r) /\ Fresh' /\ Excused(r) => Excused(r)'
  PROVE  Running'
  <1>1. \A r : (Gap(r)' <=> Gap(r)) /\ (IsRunning(r)' <=> IsRunning(r))
    BY DEF Gap, IsRunning
  <1>2. Leaves' = Leaves
    BY <1>1 DEF Leaves
  <1>3. \A r \in Leaves : (Recorded(r) => Recorded(r)') /\ (Configured(r) => Configured(r)')
    BY DEF Recorded, Configured, Sending, Listed
  <1> QED BY <1>1, <1>2, <1>3 DEF Running, NoGap

(* Nothing has to be shown when the tree and the operation stay. *)
LEMMA RunningSame ==
  ASSUME Running, UNCHANGED <<tree, op, gaveUp>>
  PROVE  Running'
  <1>1. UNCHANGED <<desired, running, groups, fiber, disables, op, gaveUp>>
    BY DEF tree
  <1>2. \A r : /\ (Gap(r)' <=> Gap(r)) /\ (IsRunning(r)' <=> IsRunning(r))
               /\ (Excused(r)' <=> Excused(r)) /\ (Recorded(r)' <=> Recorded(r))
               /\ (Configured(r)' <=> Configured(r))
    BY <1>1 DEF Gap, IsRunning, Excused, Recorded, Configured, Sending, Listed
  <1>3. Leaves' = Leaves /\ (Fresh' <=> Fresh)
    BY <1>1, <1>2 DEF Leaves, Fresh
  <1> QED BY <1>1, <1>2, <1>3 DEF Running, NoGap

(* A row is excused by the tables alone. *)
LEMMA ExcusedSame ==
  ASSUME UNCHANGED <<running, fiber, disables>>
  PROVE  \A r : Excused(r) => Excused(r)'
  BY DEF Excused, IsRunning

(* What runs is what the layer says, from the place on where it has to be: *)
(* kept by an operation that moves on, ...                                 *)
LEMMA RunningMoves ==
  ASSUME Base, Running, op # NoOp,
         \/ Committed \/ RollBack \/ RolledBack \/ TookLatest \/ ReplayEdit
         \/ NothingToSave \/ Save \/ Conflict \/ Load \/ SaveFails \/ LoadFails
         \/ \E c \in Callers : GiveUp(c)
  PROVE  Running'
  <1>1. UNCHANGED <<desired, running, groups, fiber, disables>>
    BY BaseMoves
  <1>2. CASE \E c \in Callers : GiveUp(c)
    BY <1>2 DEF GiveUp, Running
  <1>3. CASE \/ Committed \/ RollBack \/ RolledBack \/ TookLatest \/ ReplayEdit
             \/ NothingToSave \/ Save \/ Conflict \/ Load \/ SaveFails \/ LoadFails
    <2>1. op.at \in {"settle", "replay", "save", "load"} /\ gaveUp' = gaveUp
      BY <1>3 DEF Committed, RollBack, RolledBack, TookLatest, ReplayEdit, NothingToSave, Save,
                  Conflict, Load, SaveFails, LoadFails, Reconciled, Saving
    <2>2. Fresh
      BY <2>1 DEF Fresh
    <2> QED BY <1>1, <2>1, <2>2, ExcusedSame, RunningStays
  <1> QED BY <1>2, <1>3

(* ... by one that starts, ... *)
LEMMA RunningStarts ==
  ASSUME Base, Running, NEW c \in Callers, Starts(c)
  PROVE  Running'
  <1>1. UNCHANGED tree /\ UNCHANGED <<desired, running, groups, fiber, disables>>
        /\ gaveUp' = gaveUp
    BY DEF Starts, Edit, Flush, ReadLayers, Reconcile, tree, StartEdit
  <1>2. CASE ReadLayers(c)
    BY <1>1, <1>2, RunningSame DEF ReadLayers
  <1>3. CASE Edit(c) \/ Flush(c) \/ Reconcile(c)
    <2>1. op = NoOp
      BY <1>3 DEF Edit, StartEdit, Flush, Reconcile, Free
    <2>2. Fresh
      BY <2>1 DEF Fresh
    <2> QED BY <1>1, <2>1, <2>2, ExcusedSame, RunningStays
  <1> QED BY <1>2, <1>3 DEF Starts

(* ... by a monitor that turns a row off, ... *)
LEMMA RunningSelfDisposed ==
  ASSUME Base, Running, NEW t \in Tokens, SelfDisposed(t)
  PROVE  Running'
  <1>1. /\ UNCHANGED <<desired, running, groups, fiber>> /\ disables' = disables \ {t}
        /\ \/ op' # NoOp /\ op'.at = "read"
           \/ fiber[t].row \notin DOMAIN layer
    BY BaseSelfDisposed
  <1>2. op = NoOp /\ gaveUp' = gaveUp
    BY DEF SelfDisposed, StartEdit, Free
  <1>3. desired = layer
    BY <1>2 DEF Base, Followed
  <1>4. ASSUME NEW r \in Rows, Gap(r), Fresh', Excused(r) PROVE Excused(r)'
    <2>1. fiber[t].row # r
      BY <1>1, <1>3, <1>4 DEF Gap, Fresh
    <2> QED BY <1>1, <1>4, <2>1 DEF Excused, IsRunning
  <1>5. Fresh
    BY <1>2 DEF Fresh
  <1> QED BY <1>1, <1>2, <1>4, <1>5, RunningStays

(* ... by an operation that spawns what is new, which may leave a row to   *)
(* update, ...                                                             *)
LEMMA RunningSpawnRows ==
  ASSUME Base, Running, op # NoOp, SpawnRows
  PROVE  Running'
  <1>1. /\ op' # NoOp /\ op'.at = "update" /\ op'.updates = Changed /\ op'.sent = NoToken
        /\ UNCHANGED <<desired, groups>>
        /\ \A x \in Tokens : fiber'[x] = fiber[x]
        /\ \A r \in Rows : \/ running'[r] = running[r] /\ r \notin Missing(running, groups)
                           \/ r \in Missing(running, groups) /\ Joined(r) /\ IsRunning(r)'
    BY BaseSpawnRows
  <1>2. NoGap'
    <2> SUFFICES ASSUME NEW r \in Rows, Gap(r)' PROVE FALSE
      BY DEF NoGap
    <2>1. ~ IsRunning(r)' /\ r \in DOMAIN desired /\ Wanted(desired, r) /\ groups[Parent[r]] # NoToken
      BY <1>1 DEF Gap
    <2>2. running'[r] = running[r] /\ r \notin Missing(running, groups)
      BY <1>1, <2>1
    <2> QED BY <2>1, <2>2 DEF Missing, IsRunning
  <1>3. ASSUME ~ gaveUp, NEW r \in Leaves' PROVE Recorded(r)' /\ Configured(r)'
    <2>1. r \in Rows \ Groups /\ IsRunning(r)'
      BY DEF Leaves
    <2>2. CASE Joined(r)
      BY <1>1, <2>2 DEF Joined, Recorded, Configured
    <2>3. CASE running'[r] = running[r]
      <3>1. r \in Leaves /\ IsRunning(r)
        BY <2>1, <2>3 DEF Leaves, IsRunning
      <3>2. running[r].token \in Tokens /\ running[r].token # NoToken
        BY <2>1, <3>1, Records DEF Base
      <3>3. op.at = "dispose"
        BY DEF SpawnRows
      <3>4. running[r].config = fiber[running[r].token].config
        BY <1>3, <3>1, <3>3 DEF Running, Recorded, Sending
      <3>5. Recorded(r)'
        BY <1>1, <2>3, <3>2, <3>4 DEF Recorded
      <3>6. running[r].config # desired[r].config => running[r].token \in Changed
        BY <2>1, <3>1 DEF Changed
      <3>7. Configured(r)'
        BY <1>1, <2>3, <3>2, <3>4, <3>6 DEF Configured, Listed
      <3> QED BY <3>5, <3>7
    <2> QED BY <1>1, <2>1, <2>2, <2>3
  <1>4. gaveUp' = gaveUp
    BY DEF SpawnRows
  <1> QED BY <1>2, <1>3, <1>4 DEF Running

(* ... that updates it, ... *)
LEMMA RunningSendUpdate ==
  ASSUME Base, Running, op # NoOp, NEW t \in Tokens, SendUpdate(t)
  PROVE  Running'
  <1>1. /\ op' # NoOp /\ op'.at = "update"
        /\ UNCHANGED <<desired, running, groups, disables>>
        /\ t \in op.updates /\ op.sent = NoToken
        /\ \/ /\ fiber[t].ending /\ op'.updates = op.updates \ {t} /\ op'.sent = op.sent
              /\ UNCHANGED fiber
           \/ /\ ~ fiber[t].ending /\ op'.updates = op.updates /\ op'.sent = t
              /\ \A x \in Tokens : x # t => fiber'[x] = fiber[x]
              /\ fiber'[t].st = fiber[t].st /\ fiber'[t].row = fiber[t].row
              /\ fiber'[t].config = desired[fiber[t].row].config
    BY BaseSendUpdate
  <1>2. op.at = "update" /\ gaveUp' = gaveUp
    BY DEF SendUpdate
  <1>3. Fresh
    BY <1>2 DEF Fresh
  <1>4. NoGap => NoGap'
    <2>1. \A x \in Tokens : fiber'[x].st = fiber[x].st /\ fiber'[x].row = fiber[x].row
      BY <1>1
    <2>2. \A r \in Rows : Excused(r) => Excused(r)'
      <3> TAKE r \in Rows
      <3>1. disables \subseteq Tokens
        BY Typed DEF Base, Rowed
      <3>2. \A a \in Above[r] : IsRunning(a) => running[a].token \in Tokens
        BY AboveFacts, Records DEF Base
      <3> QED BY <1>1, <2>1, <3>1, <3>2 DEF Excused, IsRunning
    <2>3. \A r : Gap(r)' => Gap(r)
      BY <1>1 DEF Gap, IsRunning
    <2> QED BY <2>2, <2>3 DEF NoGap
  <1>5. ASSUME ~ gaveUp, NEW r \in Leaves' PROVE Recorded(r)' /\ Configured(r)'
    <2>1. r \in Rows \ Groups /\ IsRunning(r) /\ r \in Leaves /\ running'[r] = running[r]
      BY <1>1 DEF Leaves, IsRunning
    <2>2. /\ running[r].token \in Tokens /\ running[r].token # NoToken
          /\ fiber[running[r].token].row = r
      BY <2>1, Records DEF Base
    <2>3. Recorded(r) /\ Configured(r)
      BY <1>3, <1>5, <2>1 DEF Running
    <2>4. running[r].config = fiber[running[r].token].config
      BY <1>1, <2>2, <2>3 DEF Recorded, Sending
    <2>5. CASE running[r].token = t
      BY <1>1, <2>1, <2>2, <2>4, <2>5 DEF Recorded, Configured, Sending, Listed
    <2>6. CASE running[r].token # t
      <3>1. fiber'[running[r].token] = fiber[running[r].token]
        BY <1>1, <2>2, <2>6
      <3>2. Listed(running[r].token) => Listed(running[r].token)'
        BY <1>1, <2>1, <2>2, <2>6 DEF Listed
      <3> QED BY <1>1, <2>1, <2>3, <2>4, <3>1, <3>2 DEF Recorded, Configured
    <2> QED BY <2>5, <2>6
  <1> QED BY <1>2, <1>3, <1>4, <1>5 DEF Running

(* ... and that records so, ... *)
LEMMA RunningUpdateDone ==
  ASSUME Base, Running, op # NoOp, NEW t \in Tokens, UpdateDone(t)
  PROVE  Running'
  <1>1. /\ op' # NoOp /\ op'.at = "update" /\ op'.updates = op.updates \ {t}
        /\ op'.sent = NoToken /\ op.sent = t
        /\ UNCHANGED <<desired, groups, fiber, disables>>
        /\ \A r \in Rows : /\ running'[r].token = running[r].token /\ (IsRunning(r)' <=> IsRunning(r))
                           /\ running'[r].inject = running[r].inject
                           /\ running'[r].config = IF IsRunning(r) /\ running[r].token = t
                                                   THEN fiber[t].config ELSE running[r].config
    BY BaseUpdateDone
  <1>2. op.at = "update" /\ gaveUp' = gaveUp
    BY DEF UpdateDone
  <1>3. Fresh
    BY <1>2 DEF Fresh
  <1>4. NoGap => NoGap'
    <2>1. \A r \in Rows : Excused(r) => Excused(r)'
      BY <1>1, AboveFacts DEF Excused
    <2>2. \A r \in Rows : Gap(r)' => Gap(r)
      BY <1>1 DEF Gap
    <2> QED BY <2>1, <2>2 DEF NoGap
  <1>5. ASSUME ~ gaveUp, NEW r \in Leaves' PROVE Recorded(r)' /\ Configured(r)'
    <2>1. r \in Rows \ Groups /\ IsRunning(r) /\ r \in Leaves
          /\ running'[r].token = running[r].token
          /\ running'[r].config = IF running[r].token = t THEN fiber[t].config ELSE running[r].config
      BY <1>1 DEF Leaves
    <2>2. running[r].token \in Tokens /\ running[r].token # NoToken
      BY <2>1, Records DEF Base
    <2>3. Recorded(r) /\ Configured(r)
      BY <1>3, <1>5, <2>1 DEF Running
    <2>4. Recorded(r)'
      BY <1>1, <2>1, <2>3 DEF Recorded, Sending
    <2>5. Listed(running[r].token) => Listed(running[r].token)'
      BY <1>1, <2>1, <2>2 DEF Listed
    <2>6. Configured(r)'
      BY <1>1, <2>1, <2>3, <2>5 DEF Configured
    <2> QED BY <2>4, <2>6
  <1> QED BY <1>2, <1>3, <1>4, <1>5 DEF Running

(* ... by one that waits until all are settled, ... *)
LEMMA RunningSettleAll ==
  ASSUME Base, Running, op # NoOp, SettleAll
  PROVE  Running'
  <1>1. /\ UNCHANGED <<desired, running, groups, fiber, disables, gaveUp>>
        /\ op.at = "update" /\ op.sent = NoToken /\ op.updates = {}
    BY DEF SettleAll, tree
  <1>2. Fresh
    BY <1>1 DEF Fresh
  <1>3. \A r : /\ (Gap(r)' <=> Gap(r)) /\ (IsRunning(r)' <=> IsRunning(r))
               /\ (Excused(r)' <=> Excused(r))
    BY <1>1 DEF Gap, IsRunning, Excused
  <1>4. Leaves' = Leaves
    BY <1>3 DEF Leaves
  <1>5. ASSUME ~ gaveUp, NEW r \in Leaves PROVE Recorded(r)' /\ Configured(r)'
    <2>1. running[r].token # NoToken
      BY Records DEF Base, Leaves
    <2> QED BY <1>1, <1>2, <1>5, <2>1 DEF Running, Recorded, Configured, Sending, Listed
  <1> QED BY <1>1, <1>2, <1>3, <1>4, <1>5 DEF Running, NoGap

(* The rows are read, or records dropped. *)
LEMMA RunningStale ==
  ASSUME Base, Running, op # NoOp, ReadRows \/ DropRows
  PROVE  Running'
  <1>1. op' # NoOp /\ op'.at \in {"drop", "dispose"} /\ op.at \in {"read", "drop"} /\ gaveUp' = gaveUp
    BY BaseReadRows, BaseDropRows DEF ReadRows, DropRows
  <1>2. \A r \in Rows : IsRunning(r)' => IsRunning(r) /\ running'[r] = running[r]
    <2>1. CASE ReadRows
      BY <2>1 DEF ReadRows, IsRunning
    <2>2. CASE DropRows
      BY <2>2, BaseDropRows, KeepsUp
    <2> QED BY <2>1, <2>2
  <1>3. \A x \in Tokens : fiber'[x].config = fiber[x].config
    <2>1. CASE ReadRows
      BY <2>1 DEF ReadRows
    <2>2. CASE DropRows
      <3> TAKE x \in Tokens
      <3>1. fiber[x] \in FiberRecord
        BY DEF Base, Rowed, Placed
      <3>2. fiber'[x] = fiber[x] \/ fiber'[x] = [fiber[x] EXCEPT !.ending = TRUE]
        BY <2>2 DEF DropRows
      <3> QED BY <3>1, <3>2 DEF FiberRecord
    <2> QED BY <2>1, <2>2
  <1>4. ~ Fresh'
    BY <1>1 DEF Fresh
  <1>5. ASSUME ~ gaveUp, NEW r \in Leaves' PROVE Recorded(r)'
    <2>1. r \in Leaves /\ IsRunning(r) /\ running'[r] = running[r] /\ r \in Rows
      BY <1>2 DEF Leaves
    <2>2. running[r].token \in Tokens
      BY <2>1, Records DEF Base
    <2>3. running[r].config = fiber[running[r].token].config
      BY <1>1, <1>5, <2>1 DEF Running, Recorded, Sending
    <2> QED BY <1>3, <2>1, <2>2, <2>3 DEF Recorded
  <1> QED BY <1>1, <1>4, <1>5 DEF Running

(* ... by the fibers and their monitors, ... *)
LEMMA RunningKernel ==
  ASSUME Base, Running, NEW t \in Tokens, FiberSteps(t) \/ Monitor(t) \/ Upsets(t),
         UNCHANGED <<ops, store>>
  PROVE  Running'
  <1>1. Follows /\ (NoGap => NoGap')
    BY BaseKernel
  <1>2. UNCHANGED <<op, gaveUp>>
    BY DEF ops
  <1>3. ASSUME ~ gaveUp, NEW r \in Leaves'
        PROVE  Recorded(r)' /\ (Fresh => Configured(r)')
    <2>1. r \in Rows \ Groups /\ IsRunning(r)'
      BY DEF Leaves
    <2>2. CASE Joined(r)
      BY <1>1, <2>2 DEF Joined, Recorded, Configured, Follows
    <2>3. CASE running'[r] = running[r]
      <3>1. r \in Leaves /\ IsRunning(r)
        BY <2>1, <2>3 DEF Leaves, IsRunning
      <3>2. running[r].token \in Tokens
        BY <2>1, <3>1, Records DEF Base
      <3>3. Recorded(r) /\ (Fresh => Configured(r))
        BY <1>3, <3>1 DEF Running
      <3>4. /\ fiber'[running[r].token].config = fiber[running[r].token].config
            /\ fiber[running[r].token].ending => fiber'[running[r].token].ending
            /\ desired' = desired
        BY <1>1, <3>2 DEF Follows
      <3> QED BY <1>2, <2>3, <3>3, <3>4 DEF Recorded, Configured, Sending, Listed
    <2> QED BY <1>1, <2>1, <2>2, <2>3 DEF Follows, IsRunning
  <1>4. Fresh' <=> Fresh
    BY <1>2 DEF Fresh
  <1> QED BY <1>1, <1>2, <1>3, <1>4 DEF Running

(* ... and so by every step. *)
LEMMA RunningStep ==
  ASSUME Base, Running, [Next]_vars
  PROVE  Running'
  <1>1. ASSUME op # NoOp, Following PROVE Running'
    BY <1>1, RunningStale, RunningSpawnRows, RunningSettleAll, RunningSendUpdate, RunningUpdateDone
       DEF Following
  <1>2. CASE OpSteps
    <2>1. op # NoOp
      BY <1>2 DEF OpSteps
    <2> QED BY <1>1, <1>2, <2>1, RunningMoves DEF OpSteps, Following
  <1>3. CASE op # NoOp /\ (SaveFails \/ LoadFails \/ \E c \in Callers : GiveUp(c))
    BY <1>3, RunningMoves
  <1>4. ASSUME NEW t \in Tokens, Kernel(t) \/ (Upsets(t) /\ UNCHANGED <<ops, store>>) PROVE Running'
    BY <1>4, RunningKernel DEF Kernel
  <1>5. CASE (\E r \in Rows : OtherWriter(r)) \/ UNCHANGED vars
    <2>1. UNCHANGED <<tree, op, gaveUp>>
      BY <1>5 DEF OtherWriter, vars, ops
    <2> QED BY <2>1, RunningSame
  <1> QED BY <1>2, <1>3, <1>4, <1>5, RunningStarts, RunningSelfDisposed DEF Next

(* With nothing under way, every record is of a fiber that runs or failed, *)
(* and a group's has its context registered.                               *)
LEMMA QuietRuns ==
  ASSUME Base, Quiet
  PROVE  \A r \in Rows : IsRunning(r) =>
           /\ fiber[running[r].token].st \in {"Active", "Failed"}
           /\ ~ fiber[running[r].token].ending
           /\ r \in Groups => groups[r] # NoToken
  <1> TAKE r \in Rows
  <1> HAVE IsRunning(r)
  <1> DEFINE t == running[r].token
  <1>1. t \in Tokens /\ t # NoToken /\ fiber[t].row = r /\ t \in watched
    BY Records DEF Base, Rowed, RecordOf
  <1>2. fiber[t].st \in {"Active", "Failed"} /\ ~ fiber[t].ending
    BY <1>1 DEF Quiet, Settled
  <1>3. r \in Groups => fiber[t].st # "Failed"
    BY <1>1 DEF Base, Rowed, Lives
  <1>4. r \in Groups => groups[r] = t
    BY <1>2, <1>3, WhenRegistered DEF Base
  <1> QED BY <1>1, <1>2, <1>4

(* Once nothing is under way, what runs is what the layer says: every row  *)
(* that is wanted, with its configuration and its scope, and no other      *)
(* (reconcile.rs), whatever failed, was rolled back or replayed before,    *)
(* unless a caller gave up in the middle.                                  *)
THEOREM RunsTheLayer == Spec => []RunsWhatTheLayerSays
  <1>1. Init => Base /\ Running
    BY InitBase, InitRunning
  <1>2. Base /\ Running /\ [Next]_vars => (Base /\ Running)'
    BY BaseStep, RunningStep
  <1>3. ASSUME Base, Running PROVE RunsWhatTheLayerSays
    <2> SUFFICES ASSUME Quiet, ~ gaveUp
                 PROVE  \A r \in Rows :
                          /\ IsRunning(r) <=> r \in DOMAIN layer /\ Wanted(layer, r)
                          /\ IsRunning(r) =>
                               /\ running[r].inject = layer[r].inject
                               /\ r \notin Groups => fiber[running[r].token].config = layer[r].config
      BY DEF RunsWhatTheLayerSays
    <2>1. op = NoOp /\ disables = {} /\ desired = layer /\ Fresh
      BY <1>3 DEF Quiet, Base, Followed, Fresh
    <2>2. \A r \in Rows : IsRunning(r) =>
           /\ fiber[running[r].token].st \in {"Active", "Failed"}
           /\ ~ fiber[running[r].token].ending
           /\ r \in Groups => groups[r] # NoToken
      BY <1>3, QuietRuns
    <2>3. \A r \in Rows : IsRunning(r) => Kept(r)
      BY <1>3, <2>1 DEF Base, Followed
    <2>4. ASSUME NEW r \in Rows \ Groups, IsRunning(r)
          PROVE  fiber[running[r].token].config = layer[r].config
      <3>1. Configured(r)
        BY <1>3, <2>1, <2>4 DEF Running, Leaves
      <3> QED BY <2>1, <2>2, <2>4, <3>1 DEF Configured, Listed
    <2>5. ASSUME NEW r \in Rows PROVE ~ Excused(r)
      <3>1. \A a \in Above[r] : a \in Rows
        BY AboveFacts
      <3> QED BY <2>1, <2>2, <3>1 DEF Excused
    <2> DEFINE S == {r \in Rows : r \in DOMAIN layer /\ Wanted(layer, r) => IsRunning(r)}
    <2>6. ASSUME NEW r \in Rows, Parent[r] \in S \cup {Root} PROVE r \in S
      <3> SUFFICES ASSUME r \in DOMAIN layer, Wanted(layer, r), ~ IsRunning(r) PROVE FALSE
        OBVIOUS
      <3>1. groups[Parent[r]] # NoToken
        <4>1. CASE Parent[r] = Root
          BY <1>3, <4>1 DEF Base, Rowed, Placed, RootToken, NoToken
        <4>2. CASE Parent[r] # Root
          <5>1. Parent[r] \in Above[r] /\ Parent[r] \in Groups /\ Parent[r] \in Rows
            BY <4>2, AboveFacts, TreeFacts
          <5>2. Parent[r] \in DOMAIN layer /\ Wanted(layer, Parent[r])
            BY <5>1, WantedUp
          <5>3. IsRunning(Parent[r])
            BY <2>6, <4>2, <5>2
          <5> QED BY <2>2, <5>1, <5>3
        <4> QED BY <4>1, <4>2
      <3>2. Gap(r)
        BY <2>1, <3>1 DEF Gap
      <3>3. NoGap
        BY <1>3, <2>1 DEF Running
      <3> QED BY <2>5, <3>2, <3>3 DEF NoGap
    <2>7. S = Rows
      <3>1. S \in SUBSET Rows
        OBVIOUS
      <3> HIDE DEF S
      <3> QED BY <2>6, <3>1, TreeInduction
    <2>8. ASSUME NEW r \in Rows PROVE r \in DOMAIN layer /\ Wanted(layer, r) => IsRunning(r)
      BY <2>7
    <2> HIDE DEF S
    <2> QED BY <2>1, <2>3, <2>4, <2>8 DEF Kept
  <1> QED BY <1>1, <1>2, <1>3, PTL DEF Spec

-----------------------------------------------------------------------------
(* Where an edit is, and what its caller is told *)

Looping ==
  op # NoOp /\ (op.at = "replay" \/ (InReconcile /\ (op.stage = "latest" \/ op.index # 0)))

Persists == op # NoOp /\ op.at \in {"save", "load"}

(* The edit an operation takes for its own is its own: in the queue it     *)
(* saves, among those it replays, in its hand, and where it was replayed.  *)
Mine ==
  /\ Persists /\ op.current \in DOMAIN queue => queue[op.current].by = op.who
  /\ Looping /\ op.current - op.index \in DOMAIN op.todo =>
       op.todo[op.current - op.index].by = op.who
  /\ Editing /\ (op.index = 0 \/ op.current = op.index) => op.edit.by = op.who
  /\ Looping => op.kept <= Len(queue) /\ (op.kept # 0 => queue[op.kept].by = op.who)

(* The callers with an edit in memory that is not saved. *)
Hand == IF Editing THEN {op.edit.by} ELSE {}
Pending == By(queue) \cup (IF op = NoOp THEN {} ELSE By(op.todo)) \cup Hand

(* The edit at place n is the only one of c. *)
Only(c, edits, n) ==
  n \in DOMAIN edits /\ \A i \in DOMAIN edits : edits[i].by = c <=> i = n

(* An edit of the caller an operation serves is committed first ... *)
First(c) ==
  /\ Editing /\ op.index = 0 /\ op.error = "ok"
  /\ op.edit.by = c /\ c \notin By(queue)

(* ... then in the queue that is saved, or refused in a replay; *)
InSave(c) ==
  /\ Persists
  /\ \/ op.error = "ok" /\ Only(c, queue, op.current)
     \/ op.error = "refused" /\ op.current = 0 /\ c \notin By(queue)

(* and in a replay still to come, ... *)
ToCome(c) ==
  /\ op.error = "ok" /\ op.index < op.current /\ op.kept = 0
  /\ c \notin By(queue) \cup Hand /\ Only(c, op.todo, op.current - op.index)

(* ... at hand, ... *)
AtHand(c) ==
  /\ op.error = "ok" /\ op.index = op.current /\ op.kept = 0
  /\ Editing /\ op.edit.by = c /\ c \notin By(queue) \cup By(op.todo)

(* ... in the queue again, ... *)
Redone(c) ==
  /\ op.error = "ok" /\ op.current <= op.index /\ (Editing => op.current # op.index)
  /\ c \notin By(op.todo) \cup Hand /\ Only(c, queue, op.kept)

(* ... or refused. *)
Lost(c) ==
  /\ op.error = "refused" /\ op.current <= op.index /\ (Editing => op.current # op.index)
  /\ op.kept = 0 /\ c \notin Pending

Replays(c) ==
  /\ Looping /\ op.tries
  /\ ToCome(c) \/ AtHand(c) \/ Redone(c) \/ Lost(c)

Served(c) == op # NoOp /\ op.who = c

Serving(c) ==
  Served(c) =>
    /\ told[c] = "none" /\ c \notin saved
    /\ First(c) \/ InSave(c) \/ Replays(c)

Answered(c) ==
  /\ told[c] # "read"
  /\ told[c] = "none" /\ ~ Served(c) => c \notin Pending \cup saved
  /\ told[c] = "ok" => c \in saved
  /\ told[c] = "refused" => c \notin Pending \cup saved
  /\ told[c] \in {"persistFailed", "conflict"} /\ ~ gaveUp =>
       c \in Pending \cup saved \cup dropped

Answers == \A c \in Callers : IsEdit(work.job[c]) => Serving(c) /\ Answered(c)

-----------------------------------------------------------------------------
(* Queues of edits *)

(* Those who made the edits of an empty queue, ... *)
LEMMA ByNone == By(<<>>) = {}
  BY DEF By

(* ... of one with an edit more, ... *)
LEMMA ByAppend ==
  ASSUME NEW q \in Seq(EditType), NEW e \in EditType
  PROVE  /\ By(Append(q, e)) = By(q) \cup {e.by}
         /\ Append(q, e)[Len(q) + 1] = e /\ \A i \in DOMAIN q : Append(q, e)[i] = q[i]
         /\ DOMAIN Append(q, e) = 1 .. Len(q) + 1 /\ DOMAIN q = 1 .. Len(q) /\ Len(q) \in Nat
  <1>1. /\ Append(q, e)[Len(q) + 1] = e /\ \A i \in DOMAIN q : Append(q, e)[i] = q[i]
        /\ DOMAIN Append(q, e) = 1 .. Len(q) + 1 /\ DOMAIN q = 1 .. Len(q) /\ Len(q) \in Nat
    OBVIOUS
  <1> DEFINE a == Append(q, e)
  <1> HIDE DEF a
  <1>2. By(a) = By(q) \cup {e.by}
    <2>1. \A i \in DOMAIN a : i = Len(q) + 1 \/ i \in DOMAIN q
      BY <1>1 DEF a
    <2>2. \A i \in DOMAIN q : i \in DOMAIN a /\ a[i] = q[i]
      BY <1>1 DEF a
    <2>3. Len(q) + 1 \in DOMAIN a /\ a[Len(q) + 1] = e
      BY <1>1 DEF a
    <2> QED BY <2>1, <2>2, <2>3 DEF By
  <1> QED BY <1>1, <1>2 DEF a

(* ... and of one with an edit less. *)
LEMMA ByTail ==
  ASSUME NEW q \in Seq(EditType), q # <<>>
  PROVE  /\ By(q) = {Head(q).by} \cup By(Tail(q))
         /\ DOMAIN q = 1 .. Len(q) /\ Len(q) \in Nat /\ Len(q) > 0
         /\ DOMAIN Tail(q) = 1 .. Len(q) - 1
         /\ \A i \in DOMAIN Tail(q) : Tail(q)[i] = q[i + 1]
         /\ Head(q) = q[1] /\ Tail(q) \in Seq(EditType) /\ Head(q) \in EditType
  <1>1. /\ DOMAIN q = 1 .. Len(q) /\ Len(q) \in Nat /\ Len(q) > 0
        /\ DOMAIN Tail(q) = 1 .. Len(q) - 1
        /\ \A i \in DOMAIN Tail(q) : Tail(q)[i] = q[i + 1]
        /\ Head(q) = q[1] /\ Tail(q) \in Seq(EditType) /\ Head(q) \in EditType
    OBVIOUS
  <1> DEFINE t == Tail(q)
  <1> HIDE DEF t
  <1>2. By(q) = {q[1].by} \cup By(t)
    <2>1. \A i \in DOMAIN q : i = 1 \/ (i - 1 \in DOMAIN t /\ t[i - 1] = q[i])
      BY <1>1 DEF t
    <2>2. \A i \in DOMAIN t : i + 1 \in DOMAIN q /\ t[i] = q[i + 1]
      BY <1>1 DEF t
    <2>3. 1 \in DOMAIN q
      BY <1>1
    <2> QED BY <2>1, <2>2, <2>3 DEF By
  <1> QED BY <1>1, <1>2 DEF t

(* An edit added to a queue without one of c. *)
LEMMA OnlyLast ==
  ASSUME NEW q \in Seq(EditType), NEW e \in EditType, NEW c, c \notin By(q), e.by = c
  PROVE  Only(c, Append(q, e), Len(q) + 1)
  BY ByAppend DEF Only, By

(* The only edit of a caller stays the only one when another's is queued,  *)
(* ...                                                                     *)
LEMMA OnlyMore ==
  ASSUME NEW q \in Seq(EditType), NEW e \in EditType, NEW c, NEW n, Only(c, q, n), e.by # c
  PROVE  Only(c, Append(q, e), n)
  BY ByAppend DEF Only

(* ... and when one before it is taken. *)
LEMMA OnlyNext ==
  ASSUME NEW q \in Seq(EditType), q # <<>>, NEW c, NEW n \in Int, Only(c, q, n), n # 1
  PROVE  /\ Only(c, Tail(q), n - 1) /\ Head(q).by # c /\ Tail(q) # <<>>
  <1>1. Only(c, Tail(q), n - 1) /\ Head(q).by # c
    BY ByTail DEF Only
  <1>2. Tail(q) # <<>>
    BY <1>1 DEF Only
  <1> QED BY <1>1, <1>2

(* Once it is taken, no edit of the caller is left. *)
LEMMA OnlyHead ==
  ASSUME NEW q \in Seq(EditType), q # <<>>, NEW c, Only(c, q, 1)
  PROVE  Head(q).by = c /\ c \notin By(Tail(q))
  BY ByTail DEF Only, By

(* The caller is one of those who made the queued edits. *)
LEMMA OnlyIn ==
  ASSUME NEW q \in Seq(EditType), NEW c, NEW n, Only(c, q, n)
  PROVE  c \in By(q) /\ q # <<>> /\ n \in DOMAIN q /\ q[n].by = c
  BY DEF Only, By

-----------------------------------------------------------------------------
(* Its own edit *)

(* After Resumes there is a replay, or a save. *)
LEMMA Resumed ==
  ASSUME NEW q, NEW i, NEW k, NEW r, Resumes(q, i, k, r)
  PROVE  /\ op' # NoOp /\ op'.who = op.who /\ ~ Editing' /\ Hand' = {}
         /\ op'.todo = q /\ op'.index = i /\ op'.error = r /\ op'.tries = op.tries
         /\ q # <<>> => Looping' /\ ~ Persists' /\ op'.current = op.current /\ op'.kept = k
         /\ q = <<>> => Persists' /\ ~ Looping' /\ op'.current = IF op.tries THEN k ELSE 0
  BY DEF Resumes, Editing, InReconcile, Hand, Looping, Persists, NoSuch

(* A replay that goes on keeps its own edit its own, ... *)
LEMMA ResumesMine ==
  ASSUME NEW q, NEW i, NEW k \in Nat, NEW r, Resumes(q, i, k, r),
         queue' \in Seq(EditType),
         k <= Len(queue'), k # 0 => queue'[k].by = op.who,
         op.current - i \in DOMAIN q => q[op.current - i].by = op.who
  PROVE  Mine'
  <1>1. DOMAIN queue' = 1 .. Len(queue')
    OBVIOUS
  <1> QED BY <1>1, Resumed DEF Mine

(* A replay has as many of its edits in the queue as it knows of. *)
LEMMA KeptIn ==
  ASSUME Typing, Mine, Looping, NEW e \in EditType
  PROVE  /\ op.kept \in Nat /\ op.kept <= Len(Append(queue, e))
         /\ op.kept # 0 => Append(queue, e)[op.kept].by = op.who
         /\ Append(queue, e)[Len(queue) + 1] = e /\ Len(Append(queue, e)) = Len(queue) + 1
         /\ Len(queue) \in Nat /\ Append(queue, e) \in Seq(EditType)
  <1>1. op # NoOp /\ OpsTyped /\ queue \in Seq(EditType)
    BY DEF Looping, InReconcile, Typing, OpsTyped
  <1>2. op.kept \in Nat
    BY <1>1, OpFacts
  <1>3. op.kept <= Len(queue) /\ (op.kept # 0 => queue[op.kept].by = op.who)
    BY DEF Mine
  <1>4. /\ Append(queue, e)[Len(queue) + 1] = e
        /\ \A i \in DOMAIN queue : Append(queue, e)[i] = queue[i]
        /\ DOMAIN queue = 1 .. Len(queue) /\ Len(queue) \in Nat
    BY <1>1, ByAppend
  <1>5. Len(Append(queue, e)) = Len(queue) + 1 /\ Append(queue, e) \in Seq(EditType)
    BY <1>1
  <1>6. op.kept # 0 => op.kept \in DOMAIN queue
    BY <1>2, <1>3, <1>4
  <1> QED BY <1>2, <1>3, <1>4, <1>5, <1>6

(* ... so does an operation whose edit the rows took, ... *)
LEMMA MineCommitted ==
  ASSUME Typing, Mine, op # NoOp, Committed, Tokens' = Tokens
  PROVE  Mine'
  <1>1. /\ Editing /\ InReconcile /\ op.edit \in EditType /\ queue \in Seq(EditType)
        /\ queue' = Append(queue, op.edit)
    BY DEF Committed, Reconciled, Editing, InReconcile, Typing, OpsTyped, OpShape
  <1>2. CASE op.index = 0
    <2>1. /\ op' # NoOp /\ op'.who = op.who /\ op'.at = "save" /\ op'.current = Len(queue) + 1
      BY <1>2, CommittedTyped
    <2>2. ~ Looping' /\ ~ Editing'
      BY <2>1 DEF Looping, Editing, InReconcile
    <2>3. op.edit.by = op.who
      BY <1>1, <1>2 DEF Mine
    <2>4. queue'[Len(queue) + 1] = op.edit
      BY <1>1, ByAppend
    <2> QED BY <2>1, <2>2, <2>3, <2>4 DEF Mine
  <1>3. CASE op.index # 0
    <2> DEFINE k == IF op.current = op.index THEN Len(queue) + 1 ELSE op.kept
    <2>1. Resumes(op.todo, op.index, k, op.error)
      BY <1>3, CommittedTyped
    <2>2. Looping
      BY <1>1, <1>3 DEF Looping
    <2>3. /\ op.kept \in Nat /\ op.kept <= Len(queue')
          /\ op.kept # 0 => queue'[op.kept].by = op.who
          /\ queue'[Len(queue) + 1] = op.edit /\ Len(queue') = Len(queue) + 1
          /\ Len(queue) \in Nat /\ queue' \in Seq(EditType)
      BY <1>1, <2>2, KeptIn
    <2>4. op.current = op.index => op.edit.by = op.who
      BY <1>1 DEF Mine
    <2>5. k \in Nat /\ k <= Len(queue') /\ (k # 0 => queue'[k].by = op.who)
      BY <2>3, <2>4
    <2>6. op.current - op.index \in DOMAIN op.todo => op.todo[op.current - op.index].by = op.who
      BY <2>2 DEF Mine
    <2> HIDE DEF k
    <2> QED BY <2>1, <2>3, <2>5, <2>6, ResumesMine
  <1> QED BY <1>2, <1>3

(* ... one that takes the layer before back, ... *)
LEMMA MineRollBack ==
  ASSUME Typing, Mine, op # NoOp, RollBack, Tokens' = Tokens
  PROVE  Mine'
  <1>1. Editing /\ InReconcile /\ queue' = queue /\ op.stage = "commit"
    BY DEF RollBack, Reconciled, Editing, InReconcile
  <1>2. /\ op' # NoOp /\ op'.at = "read" /\ op'.stage = "rollback" /\ op'.who = op.who
        /\ op'.edit = op.edit /\ op'.todo = op.todo /\ op'.index = op.index
        /\ op'.current = op.current /\ op'.kept = op.kept
    BY RollBackTyped
  <1>3. Editing' /\ ~ Persists' /\ (Looping' <=> Looping)
    BY <1>1, <1>2 DEF Editing, InReconcile, Persists, Looping
  <1> QED BY <1>1, <1>2, <1>3 DEF Mine

(* What is resumed with the queue as it is. *)
LEMMA MineResumes ==
  ASSUME Typing, Mine, Looping, NEW q, NEW i, NEW r, Resumes(q, i, op.kept, r), queue' = queue,
         op.current - i \in DOMAIN q => q[op.current - i].by = op.who
  PROVE  Mine'
  <1>1. op # NoOp /\ OpsTyped /\ queue \in Seq(EditType)
    BY DEF Looping, InReconcile, Typing, OpsTyped
  <1>2. op.kept \in Nat
    BY <1>1, OpFacts
  <1>3. op.kept <= Len(queue) /\ (op.kept # 0 => queue[op.kept].by = op.who)
    BY DEF Mine
  <1> QED BY <1>1, <1>2, <1>3, ResumesMine

(* ... or has, ... *)
LEMMA MineRolledBack ==
  ASSUME Typing, Mine, op # NoOp, RolledBack, Tokens' = Tokens
  PROVE  Mine'
  <1>1. Editing /\ InReconcile /\ queue' = queue
    BY DEF RolledBack, Reconciled, Editing, InReconcile
  <1>2. CASE op.index = 0
    <2>1. op' = NoOp
      BY <1>2, RolledBackTyped
    <2> QED BY <2>1 DEF Mine, Persists, Looping, Editing, InReconcile
  <1>3. CASE op.index # 0
    <2>1. \E r : Resumes(op.todo, op.index, op.kept, r)
      BY <1>3, RolledBackTyped
    <2>2. Looping
      BY <1>1, <1>3 DEF Looping
    <2>3. op.current - op.index \in DOMAIN op.todo => op.todo[op.current - op.index].by = op.who
      BY <2>2 DEF Mine
    <2> QED BY <1>1, <2>1, <2>2, <2>3, MineResumes
  <1> QED BY <1>2, <1>3

(* ... one that took the latest layer, ... *)
LEMMA MineTookLatest ==
  ASSUME Typing, Mine, op # NoOp, TookLatest, Tokens' = Tokens
  PROVE  Mine'
  <1>1. op' = NoOp \/ Resumes(op.todo, op.index, op.kept, op.error)
    BY TookLatestTyped
  <1>2. queue' = queue /\ Looping
    BY DEF TookLatest, Reconciled, Looping, InReconcile
  <1>3. CASE op' = NoOp
    BY <1>3 DEF Mine, Persists, Looping, Editing, InReconcile
  <1>4. CASE Resumes(op.todo, op.index, op.kept, op.error)
    <2>1. op.current - op.index \in DOMAIN op.todo => op.todo[op.current - op.index].by = op.who
      BY <1>2 DEF Mine
    <2> QED BY <1>2, <1>4, <2>1, MineResumes
  <1> QED BY <1>1, <1>3, <1>4

(* ... that replays the next edit, ... *)
LEMMA MineReplayEdit ==
  ASSUME Typing, Mine, op # NoOp, ReplayEdit, Tokens' = Tokens
  PROVE  Mine'
  <1>1. op.todo \in Seq(EditType) /\ op.todo # <<>> /\ op.index \in Nat /\ op.current \in Nat
    BY ReplayEditTyped, OpFacts DEF Typing
  <1>2. queue' = queue /\ Looping
    BY DEF ReplayEdit, Looping
  <1> DEFINE n == op.current - (op.index + 1)
  <1>3. /\ n \in DOMAIN Tail(op.todo) => Tail(op.todo)[n].by = op.who
        /\ op.current = op.index + 1 => Head(op.todo).by = op.who
    <2>1. op.current - op.index \in DOMAIN op.todo => op.todo[op.current - op.index].by = op.who
      BY <1>2 DEF Mine
    <2>2. n + 1 = op.current - op.index /\ n \in Int
      BY <1>1
    <2>3. /\ DOMAIN op.todo = 1 .. Len(op.todo) /\ Len(op.todo) \in Nat /\ Len(op.todo) > 0
          /\ DOMAIN Tail(op.todo) = 1 .. Len(op.todo) - 1
          /\ \A i \in DOMAIN Tail(op.todo) : Tail(op.todo)[i] = op.todo[i + 1]
          /\ Head(op.todo) = op.todo[1]
      BY <1>1, ByTail
    <2>4. op.current = op.index + 1 => Head(op.todo).by = op.who
      BY <1>1, <2>1, <2>3
    <2>5. ASSUME n \in DOMAIN Tail(op.todo) PROVE Tail(op.todo)[n].by = op.who
      <3>1. n + 1 \in DOMAIN op.todo /\ Tail(op.todo)[n] = op.todo[n + 1]
        BY <2>3, <2>5
      <3> QED BY <2>1, <2>2, <3>1
    <2> QED BY <2>4, <2>5
  <1>4. CASE /\ Commits(Head(op.todo)) /\ op' # NoOp /\ op'.who = op.who
             /\ op'.todo = Tail(op.todo) /\ op'.index = op.index + 1
             /\ op'.tries = op.tries /\ op'.current = op.current /\ op'.kept = op.kept
    <2>1. Editing' /\ Looping' /\ ~ Persists' /\ op'.edit = Head(op.todo)
      BY <1>1, <1>4 DEF Commits, Editing, InReconcile, Looping, Persists
    <2>2. op'.index # 0
      BY <1>1, <1>4
    <2> QED BY <1>2, <1>3, <1>4, <2>1, <2>2 DEF Mine
  <1>5. CASE \E r : Resumes(Tail(op.todo), op.index + 1, op.kept, r)
    BY <1>2, <1>3, <1>5, MineResumes
  <1> QED BY <1>4, <1>5, ReplayEditTyped

(* ... that ends, ... *)
LEMMA MineEnds ==
  ASSUME op' = NoOp
  PROVE  Mine'
  BY DEF Mine, Persists, Looping, Editing, InReconcile

(* ... that met another writer's save, ... *)
LEMMA MineConflict ==
  ASSUME Typing, Mine, op # NoOp, Conflict, ~ LastTry, Tokens' = Tokens
  PROVE  Mine' /\ op' # NoOp /\ op'.at = "load" /\ op'.who = op.who /\ op'.current = op.current
         /\ op'.error = op.error /\ op'.todo = op.todo
  <1>1. op' = [op EXCEPT !.at = "load"] /\ queue' = queue /\ op.at = "save"
    BY DEF Conflict, Saving
  <1>2. op' # NoOp /\ op'.at = "load" /\ op'.who = op.who /\ op'.current = op.current
        /\ op'.error = op.error /\ op'.todo = op.todo
    BY <1>1, OpFacts DEF Typing, OpType, NoOp
  <1>3. ~ Looping' /\ ~ Editing' /\ Persists
    BY <1>1, <1>2 DEF Looping, Editing, InReconcile, Persists
  <1> QED BY <1>1, <1>2, <1>3 DEF Mine

(* ... or has read it, ... *)
LEMMA MineLoad ==
  ASSUME Typing, Mine, op # NoOp, Load, Tokens' = Tokens
  PROVE  Mine'
  <1>1. /\ op' # NoOp /\ op'.at = "read" /\ op'.stage = "latest" /\ op'.who = op.who
        /\ op'.todo = queue /\ op'.index = 0 /\ op'.current = op.current /\ op'.kept = 0
        /\ queue' = <<>> /\ Persists /\ op.current \in Nat
    BY LoadTyped, OpFacts DEF Load, Persists, NoSuch, Typing
  <1>2. ~ Editing' /\ ~ Persists' /\ op.current - 0 = op.current /\ 0 <= Len(<<>>)
    BY <1>1 DEF Editing, Persists
  <1> QED BY <1>1, <1>2 DEF Mine

(* ... that waits for the rows, ... *)
LEMMA MineFollows ==
  ASSUME Base, Mine, op # NoOp, Following
  PROVE  Mine' /\ Looping' = Looping /\ Editing' = Editing /\ ~ Persists /\ ~ Persists'
  <1>1. /\ InReconcile /\ InReconcile'
        /\ op'.who = op.who /\ op'.stage = op.stage /\ op'.edit = op.edit
        /\ op'.todo = op.todo /\ op'.index = op.index
        /\ op'.current = op.current /\ op'.kept = op.kept /\ queue' = queue
    BY SamePlace
  <1>2. op' # NoOp /\ op.at # "replay" /\ op'.at # "replay"
    BY <1>1 DEF InReconcile
  <1>3. Looping' = Looping /\ Editing' = Editing /\ ~ Persists /\ ~ Persists'
    BY <1>1, <1>2 DEF Looping, Editing, InReconcile, Persists
  <1> QED BY <1>1, <1>3 DEF Mine

(* An operation begins. *)
LEMMA MineEdit ==
  ASSUME NEW who, NEW e, Opens(who), Commits(e), e.by = who
  PROVE  Mine'
  <1>1. Editing' /\ ~ Looping' /\ ~ Persists'
    BY DEF Opens, Commits, Editing, InReconcile, Looping, Persists
  <1> QED BY <1>1 DEF Mine, Opens, Commits

(* ... or opens; ... *)
LEMMA MineOpens ==
  ASSUME NEW who, Opens(who), queue' \in Seq(EditType), op'.todo \in Seq(EditType),
         op'.at = "save" \/ (op'.at = "read" /\ op'.stage = "latest")
  PROVE  Mine'
  <1>1. op'.current = 0 /\ op'.index = 0 /\ op'.kept = 0 /\ ~ Editing'
    BY DEF Opens, Editing, InReconcile, NoSuch
  <1>2. 0 \notin DOMAIN queue' /\ 0 - 0 \notin DOMAIN op'.todo /\ 0 <= Len(queue')
    OBVIOUS
  <1> QED BY <1>1, <1>2 DEF Mine

(* ... nothing else touches it. *)
LEMMA MineSame ==
  ASSUME Mine, UNCHANGED <<op, queue>>
  PROVE  Mine'
  BY DEF Mine, Persists, Looping, Editing, InReconcile

-----------------------------------------------------------------------------
(* What an operation does to the edits of the callers it does not serve *)

Carries ==
  /\ op' = NoOp \/ op'.who = op.who
  /\ \A x \in Callers : x # op.who => told'[x] = told[x]
  /\ Pending' \cup saved' \subseteq Pending \cup saved
  /\ \A x \in Callers : x \in Pending /\ x # op.who /\ ~ gaveUp' =>
       x \in Pending' \cup saved' \cup dropped'
  /\ saved \subseteq saved' /\ dropped \subseteq dropped' /\ (gaveUp => gaveUp')

(* An operation that carries the edits of the others leaves what these     *)
(* have been told true.                                                    *)
LEMMA CarriesOthers ==
  ASSUME Carries, op # NoOp, NEW c \in Callers, c # op.who, Answered(c)
  PROVE  Serving(c)' /\ Answered(c)'
  <1>1. ~ Served(c) /\ ~ Served(c)' /\ told'[c] = told[c]
    BY DEF Carries, Served
  <1>2. Serving(c)'
    BY <1>1 DEF Serving
  <1>3. c \in Pending' \cup saved' => c \in Pending \cup saved
    BY DEF Carries
  <1>4. c \in Pending /\ ~ gaveUp' => c \in Pending' \cup saved' \cup dropped'
    BY DEF Carries
  <1>5. saved \subseteq saved' /\ dropped \subseteq dropped' /\ (gaveUp => gaveUp')
    BY DEF Carries
  <1>6. Answered(c)'
    BY <1>1, <1>3, <1>4, <1>5 DEF Answered
  <1> QED BY <1>2, <1>6

(* The edits in memory once a replay goes on, ... *)
LEMMA ResumesPending ==
  ASSUME NEW q, NEW i, NEW k, NEW r, Resumes(q, i, k, r)
  PROVE  Pending' = By(queue') \cup By(q)
  BY Resumed DEF Pending

(* ... and once an operation has ended. *)
LEMMA EndsPending ==
  ASSUME op' = NoOp
  PROVE  Pending' = By(queue')
  BY DEF Pending, Hand, Editing, InReconcile

(* The edits of the others are carried by an operation whose edit the rows *)
(* took, ...                                                               *)
LEMMA CommittedCarries ==
  ASSUME Typing, Mine, op # NoOp, Committed, Tokens' = Tokens
  PROVE  Carries
  <1>1. /\ Editing /\ op.edit \in EditType /\ queue \in Seq(EditType)
        /\ queue' = Append(queue, op.edit)
        /\ UNCHANGED <<told, saved, dropped, gaveUp>>
        /\ op.index = 0 => op.todo = <<>>
    BY DEF Committed, Reconciled, Editing, InReconcile, Typing, OpsTyped, OpShape
  <1>2. Pending = By(queue) \cup By(op.todo) \cup {op.edit.by}
    BY <1>1 DEF Pending, Hand
  <1>3. By(queue') = By(queue) \cup {op.edit.by}
    BY <1>1, ByAppend
  <1>4. Pending' = Pending /\ op'.who = op.who
    <2>1. CASE op.index = 0
      <3>1. op' # NoOp /\ op'.todo = op.todo /\ op'.who = op.who /\ op'.at = "save"
        BY <1>1, <2>1, CommittedTyped
      <3>2. Hand' = {}
        BY <3>1 DEF Hand, Editing, InReconcile
      <3> QED BY <1>2, <1>3, <3>1, <3>2 DEF Pending
    <2>2. CASE op.index # 0
      <3>1. PICK k : Resumes(op.todo, op.index, k, op.error)
        BY <2>2, CommittedTyped
      <3>2. Pending' = By(queue') \cup By(op.todo)
        BY <3>1, ResumesPending
      <3> QED BY <1>2, <1>3, <3>1, <3>2, Resumed
    <2> QED BY <2>1, <2>2
  <1> QED BY <1>1, <1>4 DEF Carries

(* ... that takes the layer before back, ... *)
LEMMA RollBackCarries ==
  ASSUME Typing, Mine, op # NoOp, RollBack, Tokens' = Tokens
  PROVE  Carries
  <1>1. Editing /\ InReconcile /\ UNCHANGED <<queue, told, saved, dropped, gaveUp>>
    BY DEF RollBack, Reconciled, Editing, InReconcile
  <1>2. /\ op' # NoOp /\ op'.at = "read" /\ op'.stage = "rollback" /\ op'.who = op.who
        /\ op'.edit = op.edit /\ op'.todo = op.todo
    BY RollBackTyped
  <1>3. Editing'
    BY <1>2 DEF Editing, InReconcile
  <1>4. Pending' = Pending
    BY <1>1, <1>2, <1>3 DEF Pending, Hand
  <1> QED BY <1>1, <1>2, <1>4 DEF Carries

(* ... or has, ... *)
LEMMA RolledBackCarries ==
  ASSUME Typing, Mine, op # NoOp, RolledBack, Tokens' = Tokens
  PROVE  Carries
  <1>1. /\ Editing /\ OpsTyped /\ UNCHANGED <<queue, saved, gaveUp>>
        /\ op.index = 0 => op.todo = <<>>
    BY DEF RolledBack, Reconciled, Editing, InReconcile, Typing, OpShape
  <1>2. Pending = By(queue) \cup By(op.todo) \cup {op.edit.by}
    BY <1>1 DEF Pending, Hand
  <1>3. op.index = 0 \/ op.current = op.index => op.edit.by = op.who
    BY <1>1 DEF Mine
  <1>4. CASE op.index = 0
    <2>1. Answer(op.who, "refused") /\ op' = NoOp /\ dropped' = dropped
      BY <1>4, RolledBackTyped
    <2>2. \A x \in Callers : x # op.who => told'[x] = told[x]
      BY <1>1, <2>1, OpFacts, AnswerFacts
    <2>3. Pending' = By(queue) /\ By(op.todo) = {}
      BY <1>1, <1>4, <2>1, EndsPending, ByNone
    <2> QED BY <1>1, <1>2, <1>3, <1>4, <2>1, <2>2, <2>3 DEF Carries
  <1>5. CASE op.index # 0
    <2>1. /\ \E r : Resumes(op.todo, op.index, op.kept, r)
          /\ dropped' = (IF op.current = op.index THEN dropped ELSE dropped \cup {op.edit.by})
          /\ told' = told
      BY <1>5, RolledBackTyped
    <2>2. Pending' = By(queue) \cup By(op.todo) /\ op'.who = op.who
      BY <1>1, <2>1, ResumesPending, Resumed
    <2> QED BY <1>1, <1>2, <1>3, <2>1, <2>2 DEF Carries
  <1> QED BY <1>4, <1>5

(* ... that took the latest layer, ... *)
LEMMA TookLatestCarries ==
  ASSUME Typing, Mine, op # NoOp, TookLatest, Tokens' = Tokens
  PROVE  Carries
  <1>1. OpsTyped /\ ~ Editing /\ UNCHANGED <<queue, saved, dropped, gaveUp>>
    BY DEF TookLatest, Reconciled, Editing, Typing
  <1>2. Pending = By(queue) \cup By(op.todo)
    BY <1>1 DEF Pending, Hand
  <1>3. CASE op.todo = <<>> /\ Answer(op.who, "ok") /\ op' = NoOp
    <2>1. \A x \in Callers : x # op.who => told'[x] = told[x]
      BY <1>1, <1>3, OpFacts, AnswerFacts
    <2>2. Pending' = Pending
      BY <1>1, <1>2, <1>3, EndsPending, ByNone
    <2> QED BY <1>1, <1>3, <2>1, <2>2 DEF Carries
  <1>4. CASE told' = told /\ Resumes(op.todo, op.index, op.kept, op.error)
    <2>1. Pending' = Pending /\ op'.who = op.who
      BY <1>1, <1>2, <1>4, ResumesPending, Resumed
    <2> QED BY <1>1, <1>4, <2>1 DEF Carries
  <1> QED BY <1>3, <1>4, TookLatestTyped

(* ... that replays the next edit, ... *)
LEMMA ReplayEditCarries ==
  ASSUME Typing, Mine, op # NoOp, ReplayEdit, Tokens' = Tokens
  PROVE  Carries
  <1>1. /\ op.todo \in Seq(EditType) /\ op.todo # <<>> /\ op.index \in Nat /\ op.current \in Nat
        /\ ~ Editing /\ Looping /\ UNCHANGED <<queue, saved, gaveUp>>
    BY ReplayEditTyped, OpFacts DEF ReplayEdit, Editing, InReconcile, Looping, Typing
  <1>2. Pending = By(queue) \cup {Head(op.todo).by} \cup By(Tail(op.todo))
    BY <1>1, ByTail DEF Pending, Hand
  <1>3. op.current = op.index + 1 => Head(op.todo).by = op.who
    <2>1. op.current - op.index \in DOMAIN op.todo => op.todo[op.current - op.index].by = op.who
      BY <1>1 DEF Mine
    <2>2. DOMAIN op.todo = 1 .. Len(op.todo) /\ Len(op.todo) \in Nat /\ Len(op.todo) > 0
          /\ Head(op.todo) = op.todo[1]
      BY <1>1, ByTail
    <2> QED BY <1>1, <2>1, <2>2
  <1>4. CASE /\ Commits(Head(op.todo)) /\ op' # NoOp /\ op'.who = op.who
             /\ op'.todo = Tail(op.todo)
    <2>1. Editing' /\ op'.edit = Head(op.todo) /\ UNCHANGED <<told, dropped>>
      BY <1>4 DEF Commits, Editing, InReconcile
    <2>2. Pending' = Pending
      BY <1>1, <1>2, <1>4, <2>1 DEF Pending, Hand
    <2> QED BY <1>1, <1>4, <2>1, <2>2 DEF Carries
  <1>5. CASE /\ told' = told
             /\ \E r : Resumes(Tail(op.todo), op.index + 1, op.kept, r)
             /\ dropped' = (IF op.current = op.index + 1 THEN dropped
                            ELSE dropped \cup {Head(op.todo).by})
    <2>1. Pending' = By(queue) \cup By(Tail(op.todo)) /\ op'.who = op.who
      BY <1>1, <1>5, ResumesPending, Resumed
    <2> QED BY <1>1, <1>2, <1>3, <1>5, <2>1 DEF Carries
  <1> QED BY <1>4, <1>5, ReplayEditTyped

(* The end of a save, and the next try. *)
LEMMA PersistsPending ==
  ASSUME Typing, op # NoOp, op.at \in {"save", "load"}
  PROVE  Pending = By(queue) /\ Persists /\ op.todo = <<>>
  <1>1. op.todo = <<>> /\ ~ Editing
    BY DEF Typing, OpShape, Editing, InReconcile
  <1> QED BY <1>1, ByNone DEF Pending, Hand, Persists

(* ... that ends, all saved or all kept in the queue, ... *)
LEMMA EndsCarry ==
  ASSUME Typing, op # NoOp, op.at \in {"save", "load"},
         NEW a \in {"ok", "refused", "persistFailed", "conflict", "gaveUp"}, Answer(op.who, a),
         queue' = queue \/ (queue' = <<>> /\ saved' = saved \cup By(queue)),
         saved' = saved \/ saved' = saved \cup By(queue), dropped' = dropped, gaveUp => gaveUp'
  PROVE  Carries /\ op' = NoOp /\ Pending' = By(queue')
         /\ (op.who \in Callers => told'[op.who] = a)
  <1>1. /\ op' = NoOp /\ \A x \in Callers : told'[x] = IF x = op.who THEN a ELSE told[x]
    BY OpFacts, AnswerFacts DEF Typing
  <1>2. Pending = By(queue) /\ Pending' = By(queue')
    BY <1>1, PersistsPending, EndsPending
  <1>3. By(<<>>) = {}
    BY ByNone
  <1> QED BY <1>1, <1>2, <1>3 DEF Carries

(* ... that met another writer's save, ... *)
LEMMA ConflictCarries ==
  ASSUME Typing, Mine, op # NoOp, Conflict, ~ LastTry, Tokens' = Tokens
  PROVE  Carries
  <1>1. op' # NoOp /\ op'.at = "load" /\ op'.who = op.who /\ op'.todo = op.todo
    BY MineConflict
  <1>2. UNCHANGED <<queue, told, saved, dropped, gaveUp>> /\ op.at = "save"
    BY DEF Conflict, Saving
  <1>3. Pending' = Pending
    BY <1>1, <1>2 DEF Pending, Hand, Editing, InReconcile
  <1> QED BY <1>1, <1>2, <1>3 DEF Carries

(* ... or has read it, ... *)
LEMMA LoadCarries ==
  ASSUME Typing, Mine, op # NoOp, Load, Tokens' = Tokens
  PROVE  Carries
  <1>1. /\ op' # NoOp /\ op'.stage = "latest" /\ op'.who = op.who /\ op'.todo = queue
        /\ queue' = <<>> /\ UNCHANGED <<told, saved, dropped, gaveUp>> /\ op.at = "load"
    BY LoadTyped DEF Load
  <1>2. Pending = By(queue)
    BY <1>1, PersistsPending
  <1>3. Pending' = By(queue)
    BY <1>1, ByNone DEF Pending, Hand, Editing, InReconcile
  <1> QED BY <1>1, <1>2, <1>3 DEF Carries

(* ... whose caller gives up, ... *)
LEMMA GiveUpCarries ==
  ASSUME Typing, op # NoOp, NEW c \in Callers, GiveUp(c)
  PROVE  Carries /\ op' = NoOp /\ op.who = c /\ told'[c] = "gaveUp"
  <1>1. /\ op.who = c /\ gaveUp' = TRUE /\ Answer(op.who, "gaveUp")
        /\ queue' = queue /\ dropped' = dropped
        /\ saved' = saved \/ saved' = saved \cup By(queue)
    BY DEF GiveUp, Saving
  <1>2. op' = NoOp /\ \A x \in Callers : told'[x] = IF x = op.who THEN "gaveUp" ELSE told[x]
    BY <1>1, OpFacts, AnswerFacts DEF Typing
  <1>3. Pending' = By(queue) /\ By(queue) \subseteq Pending
    BY <1>1, <1>2, EndsPending DEF Pending
  <1> QED BY <1>1, <1>2, <1>3 DEF Carries

(* ... or that waits for the rows. *)
LEMMA FollowsCarries ==
  ASSUME Base, Mine, op # NoOp, Following
  PROVE  Carries /\ Pending' = Pending /\ Hand' = Hand
  <1>1. /\ op'.who = op.who /\ op'.edit = op.edit /\ op'.todo = op.todo /\ op' # NoOp
        /\ UNCHANGED <<queue, told, saved, dropped, gaveUp>>
    BY SamePlace DEF InReconcile
  <1>2. Editing' = Editing
    BY MineFollows
  <1>3. Hand' = Hand
    BY <1>1, <1>2 DEF Hand
  <1>4. Pending' = Pending
    BY <1>1, <1>3 DEF Pending
  <1> QED BY <1>1, <1>3, <1>4 DEF Carries

-----------------------------------------------------------------------------
(* What an operation does to the edit of the caller it serves *)

(* It goes on, the caller has not been told, and nothing of its was saved. *)
LEMMA ServedGoesOn ==
  ASSUME NEW c, told'[c] = "none", c \notin saved', Served(c)',
         First(c)' \/ InSave(c)' \/ Replays(c)'
  PROVE  Serving(c)' /\ Answered(c)'
  BY DEF Serving, Answered

(* A replay that goes on finds the edit of the caller it serves ahead, in  *)
(* its hand, replayed, or refused.                                         *)
LEMMA ServedResumes ==
  ASSUME NEW c \in Callers, op # NoOp, op.who = c, op.tries,
         NEW q \in Seq(EditType), NEW i, NEW k, NEW r, Resumes(q, i, k, r),
         queue' \in Seq(EditType), told'[c] = "none", c \notin saved',
         op.current - i \in Int,
         \/ r = "ok" /\ i < op.current /\ k = 0 /\ c \notin By(queue') /\ Only(c, q, op.current - i)
         \/ r = "ok" /\ op.current <= i /\ c \notin By(q) /\ Only(c, queue', k)
         \/ r = "refused" /\ op.current <= i /\ k = 0 /\ c \notin By(q) \cup By(queue')
  PROVE  Serving(c)' /\ Answered(c)'
  <1>1. /\ op' # NoOp /\ op'.who = c /\ ~ Editing' /\ Hand' = {}
        /\ op'.todo = q /\ op'.index = i /\ op'.error = r /\ op'.tries = op.tries
        /\ q # <<>> => Looping' /\ ~ Persists' /\ op'.current = op.current /\ op'.kept = k
        /\ q = <<>> => Persists' /\ ~ Looping' /\ op'.current = k
    BY Resumed
  <1>2. Pending' = By(queue') \cup By(q)
    BY ResumesPending
  <1>3. Served(c)'
    BY <1>1 DEF Served
  <1>4. CASE r = "ok" /\ i < op.current /\ k = 0 /\ c \notin By(queue') /\ Only(c, q, op.current - i)
    <2>1. q # <<>>
      BY <1>4, OnlyIn
    <2>2. Replays(c)'
      BY <1>1, <1>4, <2>1 DEF Replays, ToCome
    <2> QED BY <1>3, <2>2, ServedGoesOn
  <1>5. CASE r = "ok" /\ op.current <= i /\ c \notin By(q) /\ Only(c, queue', k)
    <2>1. q = <<>> => InSave(c)'
      BY <1>1, <1>5 DEF InSave
    <2>2. q # <<>> => Replays(c)'
      BY <1>1, <1>5 DEF Replays, Redone
    <2> QED BY <1>3, <2>1, <2>2, ServedGoesOn
  <1>6. CASE r = "refused" /\ op.current <= i /\ k = 0 /\ c \notin By(q) \cup By(queue')
    <2>1. q = <<>> => InSave(c)'
      BY <1>1, <1>6 DEF InSave
    <2>2. q # <<>> => Replays(c)'
      BY <1>1, <1>2, <1>6 DEF Replays, Lost
    <2> QED BY <1>3, <2>1, <2>2, ServedGoesOn
  <1> QED BY <1>4, <1>5, <1>6

(* Where the edit is, by what the operation does. *)
LEMMA ServedAt ==
  ASSUME Typing, NEW c \in Callers, Served(c), Serving(c)
  PROVE  /\ op # NoOp /\ op.who = c /\ told[c] = "none" /\ c \notin saved
         /\ op.index \in Nat /\ op.current \in Nat /\ op.kept \in Nat /\ op.tries \in BOOLEAN
         /\ queue \in Seq(EditType) /\ op.todo \in Seq(EditType)
         /\ Editing /\ op.index = 0 => First(c)
         /\ Persists => InSave(c)
         /\ Looping => Replays(c)
  <1>1. op # NoOp /\ op.who = c /\ told[c] = "none" /\ c \notin saved
        /\ (First(c) \/ InSave(c) \/ Replays(c))
    BY DEF Served, Serving
  <1>2. /\ op.index \in Nat /\ op.current \in Nat /\ op.kept \in Nat /\ op.tries \in BOOLEAN
        /\ queue \in Seq(EditType) /\ op.todo \in Seq(EditType)
    BY <1>1, OpFacts DEF Typing, OpsTyped
  <1>3. First(c) => Editing /\ op.index = 0
    BY DEF First
  <1>4. InSave(c) => Persists
    BY DEF InSave
  <1>5. Replays(c) => Looping
    BY DEF Replays
  <1>6. ~ (Editing /\ Persists) /\ ~ (Looping /\ Persists) /\ ~ (Editing /\ op.index = 0 /\ Looping)
    BY DEF Editing, Persists, Looping, InReconcile
  <1> QED BY <1>1, <1>2, <1>3, <1>4, <1>5, <1>6

(* The caller's edit is where it was, or becomes what the caller is told,  *)
(* when the rows took it, ...                                              *)
LEMMA ServedCommitted ==
  ASSUME Typing, NEW c \in Callers, Served(c), Serving(c), Committed, Tokens' = Tokens
  PROVE  Serving(c)' /\ Answered(c)'
  <1>1. /\ op # NoOp /\ op.who = c /\ told[c] = "none" /\ c \notin saved
        /\ op.index \in Nat /\ op.current \in Nat /\ op.kept \in Nat
        /\ queue \in Seq(EditType) /\ op.todo \in Seq(EditType)
        /\ Editing /\ op.index = 0 => First(c)
        /\ Looping => Replays(c)
    BY ServedAt
  <1>2. /\ Editing /\ op.edit \in EditType /\ queue' = Append(queue, op.edit)
        /\ UNCHANGED <<told, saved>> /\ Hand = {op.edit.by}
    BY <1>1 DEF Committed, Reconciled, Editing, InReconcile, Typing, OpsTyped, OpShape, Hand
  <1>3. /\ By(queue') = By(queue) \cup {op.edit.by}
        /\ queue' \in Seq(EditType) /\ Len(queue) + 1 \in Nat
    BY <1>1, <1>2, ByAppend
  <1>4. CASE op.index = 0
    <2>1. First(c)
      BY <1>1, <1>2, <1>4
    <2>2. /\ op' # NoOp /\ op'.who = c /\ op'.error = op.error
          /\ op'.at = "save" /\ op'.current = Len(queue) + 1
      BY <1>1, <1>4, CommittedTyped
    <2>3. Only(c, queue', Len(queue) + 1)
      BY <1>1, <1>2, <2>1, OnlyLast DEF First
    <2>4. InSave(c)'
      BY <2>1, <2>2, <2>3 DEF InSave, First, Persists
    <2>5. Served(c)'
      BY <2>2 DEF Served
    <2> QED BY <1>1, <1>2, <2>4, <2>5, ServedGoesOn
  <1>5. CASE op.index # 0
    <2> DEFINE k == IF op.current = op.index THEN Len(queue) + 1 ELSE op.kept
    <2>1. Resumes(op.todo, op.index, k, op.error)
      BY <1>1, <1>5, CommittedTyped
    <2>2. Replays(c) /\ op.tries
      BY <1>1, <1>2, <1>5 DEF Looping, Editing, Replays
    <2>3. told'[c] = "none" /\ c \notin saved' /\ op.current - op.index \in Int
      BY <1>1, <1>2
    <2>4. CASE ToCome(c)
      <3>1. k = 0 /\ op.edit.by # c
        BY <1>1, <1>2, <2>4 DEF ToCome
      <3>2. c \notin By(queue')
        BY <1>3, <2>4, <3>1 DEF ToCome
      <3> HIDE DEF k
      <3> QED BY <1>1, <1>3, <2>1, <2>2, <2>3, <2>4, <3>1, <3>2, ServedResumes DEF ToCome
    <2>5. CASE AtHand(c)
      <3>1. k = Len(queue) + 1 /\ Only(c, queue', k)
        BY <1>1, <1>2, <2>5, OnlyLast DEF AtHand
      <3> HIDE DEF k
      <3> QED BY <1>1, <1>3, <2>1, <2>2, <2>3, <2>5, <3>1, ServedResumes DEF AtHand
    <2>6. CASE Redone(c)
      <3>1. k = op.kept /\ op.edit.by # c
        BY <1>1, <1>2, <2>6 DEF Redone
      <3>2. Only(c, queue', k)
        BY <1>1, <1>2, <2>6, <3>1, OnlyMore DEF Redone
      <3> HIDE DEF k
      <3> QED BY <1>1, <1>3, <2>1, <2>2, <2>3, <2>6, <3>1, <3>2, ServedResumes DEF Redone
    <2>7. CASE Lost(c)
      <3>1. k = 0 /\ op.edit.by # c /\ c \notin By(queue) \cup By(op.todo)
        BY <1>1, <1>2, <2>7 DEF Lost, Pending
      <3> HIDE DEF k
      <3> QED BY <1>1, <1>3, <2>1, <2>2, <2>3, <2>7, <3>1, ServedResumes DEF Lost
    <2> QED BY <2>2, <2>4, <2>5, <2>6, <2>7 DEF Replays
  <1> QED BY <1>4, <1>5

(* ... when they did not, ... *)
LEMMA ServedRollBack ==
  ASSUME Typing, Mine, NEW c \in Callers, Served(c), Serving(c), RollBack, Tokens' = Tokens
  PROVE  Serving(c)' /\ Answered(c)'
  <1>1. /\ op # NoOp /\ op.who = c /\ told[c] = "none" /\ c \notin saved
        /\ Editing /\ op.index = 0 => First(c)
        /\ Looping => Replays(c)
    BY ServedAt
  <1>2. Editing /\ InReconcile /\ UNCHANGED <<queue, told, saved>> /\ op.stage = "commit"
    BY <1>1 DEF RollBack, Reconciled, Editing, InReconcile
  <1>3. /\ op' # NoOp /\ op'.at = "read" /\ op'.stage = "rollback" /\ op'.who = op.who
        /\ op'.edit = op.edit /\ op'.todo = op.todo /\ op'.index = op.index
        /\ op'.tries = op.tries /\ op'.error = op.error
        /\ op'.current = op.current /\ op'.kept = op.kept
    BY <1>1, RollBackTyped
  <1>4. Editing' /\ (Looping' <=> Looping) /\ Served(c)'
    BY <1>1, <1>2, <1>3 DEF Editing, InReconcile, Looping, Served
  <1>5. Hand' = Hand /\ Pending' = Pending
    BY <1>1, <1>2, <1>3, <1>4 DEF Hand, Pending
  <1>6. CASE op.index = 0
    <2>1. First(c)'
      BY <1>1, <1>2, <1>3, <1>4, <1>6 DEF First
    <2> QED BY <1>1, <1>2, <1>4, <2>1, ServedGoesOn
  <1>7. CASE op.index # 0
    <2>1. Replays(c)
      BY <1>1, <1>2, <1>7 DEF Looping
    <2>2. Replays(c)'
      BY <1>2, <1>3, <1>4, <1>5, <2>1 DEF Replays, ToCome, AtHand, Redone, Lost
    <2> QED BY <1>1, <1>2, <1>4, <2>2, ServedGoesOn
  <1> QED BY <1>6, <1>7

(* ... when the layer before runs again, ... *)
LEMMA ServedRolledBack ==
  ASSUME Typing, NEW c \in Callers, Served(c), Serving(c), RolledBack, Tokens' = Tokens
  PROVE  Serving(c)' /\ Answered(c)'
  <1>1. /\ op # NoOp /\ op.who = c /\ told[c] = "none" /\ c \notin saved
        /\ op.index \in Nat /\ op.current \in Nat /\ op.kept \in Nat
        /\ queue \in Seq(EditType) /\ op.todo \in Seq(EditType)
        /\ Editing /\ op.index = 0 => First(c)
        /\ Looping => Replays(c)
    BY ServedAt
  <1>2. Editing /\ UNCHANGED <<queue, saved>> /\ Hand = {op.edit.by} /\ OpsTyped
    BY <1>1 DEF RolledBack, Reconciled, Editing, InReconcile, Hand, Typing
  <1>3. CASE op.index = 0
    <2>1. First(c) /\ Answer(op.who, "refused") /\ op' = NoOp
      BY <1>1, <1>2, <1>3, RolledBackTyped
    <2>2. told'[c] = "refused"
      BY <1>1, <1>2, <2>1, AnswerFacts
    <2>3. Pending' = By(queue) /\ c \notin By(queue)
      BY <1>2, <2>1, EndsPending DEF First
    <2> QED BY <1>1, <1>2, <2>1, <2>2, <2>3 DEF Serving, Answered, Served
  <1>4. CASE op.index # 0
    <2> DEFINE r == IF op.current = op.index THEN "refused" ELSE op.error
    <2>1. Resumes(op.todo, op.index, op.kept, r) /\ told' = told
      BY <1>1, <1>4, RolledBackTyped
    <2>2. Replays(c) /\ op.tries
      BY <1>1, <1>2, <1>4 DEF Looping, Editing, Replays
    <2>3. told'[c] = "none" /\ c \notin saved' /\ op.current - op.index \in Int
          /\ queue' = queue
      BY <1>1, <1>2, <2>1
    <2>4. CASE ToCome(c)
      <3>1. r = "ok"
        BY <1>1, <2>4 DEF ToCome
      <3> HIDE DEF r
      <3> QED BY <1>1, <2>1, <2>2, <2>3, <2>4, <3>1, ServedResumes DEF ToCome
    <2>5. CASE AtHand(c)
      <3>1. r = "refused"
        BY <1>1, <2>5 DEF AtHand
      <3> HIDE DEF r
      <3> QED BY <1>1, <2>1, <2>2, <2>3, <2>5, <3>1, ServedResumes DEF AtHand
    <2>6. CASE Redone(c)
      <3>1. r = "ok"
        BY <1>1, <1>2, <2>6 DEF Redone
      <3> HIDE DEF r
      <3> QED BY <1>1, <2>1, <2>2, <2>3, <2>6, <3>1, ServedResumes DEF Redone
    <2>7. CASE Lost(c)
      <3>1. r = "refused" /\ c \notin By(queue) \cup By(op.todo)
        BY <1>1, <1>2, <2>7 DEF Lost, Pending
      <3> HIDE DEF r
      <3> QED BY <1>1, <2>1, <2>2, <2>3, <2>7, <3>1, ServedResumes DEF Lost
    <2> QED BY <2>2, <2>4, <2>5, <2>6, <2>7 DEF Replays
  <1> QED BY <1>3, <1>4

(* ... when the latest layer runs, ... *)
LEMMA ServedTookLatest ==
  ASSUME Typing, NEW c \in Callers, Served(c), Serving(c), TookLatest, Tokens' = Tokens
  PROVE  Serving(c)' /\ Answered(c)'
  <1>1. /\ op # NoOp /\ op.who = c /\ told[c] = "none" /\ c \notin saved
        /\ op.index \in Nat /\ op.current \in Nat /\ op.kept \in Nat
        /\ queue \in Seq(EditType) /\ op.todo \in Seq(EditType)
        /\ Looping => Replays(c)
    BY ServedAt
  <1>2. Looping /\ ~ Editing /\ UNCHANGED <<queue, saved>>
    BY <1>1 DEF TookLatest, Reconciled, Looping, InReconcile, Editing
  <1>3. Replays(c) /\ op.tries
    BY <1>1, <1>2 DEF Replays
  <1>4. told' = told /\ Resumes(op.todo, op.index, op.kept, op.error)
    BY <1>1, <1>3, TookLatestTyped
  <1>5. told'[c] = "none" /\ c \notin saved' /\ op.current - op.index \in Int /\ queue' = queue
    BY <1>1, <1>2, <1>4
  <1>6. CASE ToCome(c)
    BY <1>1, <1>3, <1>4, <1>5, <1>6, ServedResumes DEF ToCome
  <1>7. CASE Redone(c)
    BY <1>1, <1>3, <1>4, <1>5, <1>7, ServedResumes DEF Redone
  <1>8. CASE Lost(c)
    <2>1. c \notin By(queue) \cup By(op.todo)
      BY <1>1, <1>8 DEF Lost, Pending
    <2> QED BY <1>1, <1>3, <1>4, <1>5, <1>8, <2>1, ServedResumes DEF Lost
  <1> QED BY <1>2, <1>3, <1>6, <1>7, <1>8 DEF Replays, AtHand

(* ... when the next edit is replayed, ... *)
LEMMA ServedReplayEdit ==
  ASSUME Typing, NEW c \in Callers, Served(c), Serving(c), ReplayEdit, Tokens' = Tokens
  PROVE  Serving(c)' /\ Answered(c)'
  <1> DEFINE e == Head(op.todo)
             i == op.index + 1
             q == Tail(op.todo)
  <1>1. /\ op # NoOp /\ op.who = c /\ told[c] = "none" /\ c \notin saved
        /\ op.index \in Nat /\ op.current \in Nat /\ op.kept \in Nat
        /\ queue \in Seq(EditType) /\ op.todo \in Seq(EditType)
        /\ Looping => Replays(c)
    BY ServedAt
  <1>2. Looping /\ ~ Editing /\ UNCHANGED <<queue, saved>> /\ Hand = {} /\ op.todo # <<>>
    BY <1>1, ReplayEditTyped DEF ReplayEdit, Looping, InReconcile, Editing, Hand
  <1>3. Replays(c) /\ op.tries
    BY <1>1, <1>2 DEF Replays
  <1>4. /\ By(op.todo) = {e.by} \cup By(q) /\ q \in Seq(EditType)
        /\ i \in Nat /\ i # 0 /\ op.current - i \in Int
        /\ op.current - i = (op.current - op.index) - 1 /\ op.current - op.index \in Int
    <2>1. By(op.todo) = {e.by} \cup By(q) /\ q \in Seq(EditType)
      BY <1>1, <1>2, ByTail
    <2>2. op.index \in Nat /\ op.current \in Nat
      BY <1>1
    <2>3. /\ i \in Nat /\ i # 0 /\ op.current - i \in Int
          /\ op.current - i = (op.current - op.index) - 1 /\ op.current - op.index \in Int
      BY <2>2
    <2> HIDE DEF e, i, q
    <2> QED BY <2>1, <2>3
  <1>5. Pending = By(queue) \cup By(op.todo)
    BY <1>1, <1>2 DEF Pending
  (* Where the edit is once this one is taken from those to come. *)
  <1>6. \/ ToCome(c) /\ i < op.current /\ e.by # c /\ Only(c, q, op.current - i)
        \/ ToCome(c) /\ i = op.current /\ e.by = c /\ c \notin By(q)
        \/ Redone(c) /\ op.current < i /\ e.by # c /\ c \notin By(q)
        \/ Lost(c) /\ op.current < i /\ e.by # c /\ c \notin By(q) \cup By(queue)
    <2>1. CASE ToCome(c)
      <3>1. op.index < op.current /\ Only(c, op.todo, op.current - op.index)
        BY <2>1 DEF ToCome
      <3>2. CASE op.current - op.index = 1
        <4>1. e.by = c /\ c \notin By(q)
          BY <1>1, <1>2, <3>1, <3>2, OnlyHead
        <4> QED BY <1>1, <2>1, <3>2, <4>1
      <3>3. CASE op.current - op.index # 1
        <4>1. Only(c, q, op.current - i) /\ e.by # c
          BY <1>1, <1>2, <1>4, <3>1, <3>3, OnlyNext
        <4> QED BY <1>1, <2>1, <3>1, <3>3, <4>1
      <3> QED BY <3>2, <3>3
    <2>2. CASE Redone(c)
      BY <1>1, <1>4, <2>2 DEF Redone
    <2>3. CASE Lost(c)
      BY <1>1, <1>4, <1>5, <2>3 DEF Lost
    <2> QED BY <1>2, <1>3, <2>1, <2>2, <2>3 DEF Replays, AtHand
  <1>7. CASE /\ Commits(e) /\ op' # NoOp /\ op'.who = op.who
             /\ op'.todo = q /\ op'.index = i
             /\ op'.tries = op.tries /\ op'.current = op.current /\ op'.kept = op.kept
             /\ op'.error = op.error
    <2> HIDE DEF e, i, q
    <2>1. Editing' /\ op'.edit = e /\ told' = told
      BY <1>7 DEF Commits, Editing, InReconcile
    <2>2. Hand' = {e.by} /\ Pending' = By(queue) \cup By(q) \cup {e.by}
      BY <1>2, <1>7, <2>1 DEF Hand, Pending
    <2>3. Looping' /\ op'.tries /\ Served(c)'
      BY <1>1, <1>3, <1>4, <1>7, <2>1 DEF Looping, Editing, Served
    <2>4. \/ ToCome(c)' \/ AtHand(c)' \/ Redone(c)' \/ Lost(c)'
      <3>1. CASE ToCome(c) /\ i < op.current /\ e.by # c /\ Only(c, q, op.current - i)
        <4>1. ToCome(c)'
          BY <1>2, <1>7, <2>2, <3>1 DEF ToCome
        <4> QED BY <4>1
      <3>2. CASE ToCome(c) /\ i = op.current /\ e.by = c /\ c \notin By(q)
        <4>1. AtHand(c)'
          BY <1>2, <1>7, <2>1, <3>2 DEF ToCome, AtHand
        <4> QED BY <4>1
      <3>3. CASE Redone(c) /\ op.current < i /\ e.by # c /\ c \notin By(q)
        <4>1. Redone(c)'
          BY <1>1, <1>2, <1>4, <1>7, <2>2, <3>3 DEF Redone
        <4> QED BY <4>1
      <3>4. CASE Lost(c) /\ op.current < i /\ e.by # c /\ c \notin By(q) \cup By(queue)
        <4>1. Lost(c)'
          BY <1>1, <1>2, <1>4, <1>7, <2>2, <3>4 DEF Lost
        <4> QED BY <4>1
      <3> QED BY <1>6, <3>1, <3>2, <3>3, <3>4
    <2>5. Replays(c)'
      BY <2>3, <2>4 DEF Replays
    <2> QED BY <1>1, <1>2, <2>1, <2>3, <2>5, ServedGoesOn
  <1>8. CASE /\ told' = told
             /\ Resumes(q, i, op.kept, IF op.current = i THEN "refused" ELSE op.error)
    <2> DEFINE r == IF op.current = i THEN "refused" ELSE op.error
    <2>1. /\ Resumes(q, i, op.kept, r) /\ told'[c] = "none" /\ c \notin saved' /\ queue' = queue
      BY <1>1, <1>2, <1>8
    <2> HIDE DEF e, i, q
    <2>2. CASE ToCome(c) /\ i < op.current /\ e.by # c /\ Only(c, q, op.current - i)
      <3>1. r = "ok"
        BY <1>1, <1>4, <2>2 DEF ToCome
      <3> HIDE DEF r
      <3> QED BY <1>1, <1>3, <1>4, <2>1, <2>2, <3>1, ServedResumes DEF ToCome
    <2>3. CASE ToCome(c) /\ i = op.current /\ e.by = c /\ c \notin By(q)
      <3>1. r = "refused"
        BY <2>3
      <3> HIDE DEF r
      <3> QED BY <1>1, <1>3, <1>4, <2>1, <2>3, <3>1, ServedResumes DEF ToCome
    <2>4. CASE Redone(c) /\ op.current < i /\ e.by # c /\ c \notin By(q)
      <3>1. r = "ok"
        BY <1>1, <1>4, <2>4 DEF Redone
      <3> HIDE DEF r
      <3> QED BY <1>1, <1>3, <1>4, <2>1, <2>4, <3>1, ServedResumes DEF Redone
    <2>5. CASE Lost(c) /\ op.current < i /\ e.by # c /\ c \notin By(q) \cup By(queue)
      <3>1. r = "refused"
        BY <1>1, <1>4, <2>5 DEF Lost
      <3> HIDE DEF r
      <3> QED BY <1>1, <1>3, <1>4, <2>1, <2>5, <3>1, ServedResumes DEF Lost
    <2> QED BY <1>6, <2>2, <2>3, <2>4, <2>5
  <1> QED BY <1>1, <1>7, <1>8, ReplayEditTyped

(* ... while the rows follow, ... *)
LEMMA ServedFollows ==
  ASSUME Base, Mine, NEW c \in Callers, Served(c), Serving(c), Following
  PROVE  Serving(c)' /\ Answered(c)'
  <1>1. /\ op # NoOp /\ op.who = c /\ told[c] = "none" /\ c \notin saved
        /\ (First(c) \/ InSave(c) \/ Replays(c))
    BY DEF Served, Serving
  <1>2. /\ op'.who = op.who /\ op'.edit = op.edit /\ op'.todo = op.todo
        /\ op'.index = op.index /\ op'.tries = op.tries
        /\ op'.current = op.current /\ op'.kept = op.kept /\ op'.error = op.error
        /\ UNCHANGED <<queue, told, saved>>
    BY <1>1, SamePlace
  <1>3. /\ Looping' = Looping /\ Editing' = Editing /\ ~ Persists /\ ~ Persists'
        /\ Pending' = Pending /\ Hand' = Hand /\ op' # NoOp
    BY <1>1, MineFollows, FollowsCarries, SamePlace DEF InReconcile
  <1>4. First(c) => First(c)'
    BY <1>2, <1>3 DEF First
  <1>5. Replays(c) => Replays(c)'
    BY <1>2, <1>3 DEF Replays, ToCome, AtHand, Redone, Lost
  <1>6. ~ InSave(c) /\ Served(c)'
    BY <1>1, <1>2, <1>3 DEF InSave, Served
  <1> QED BY <1>1, <1>2, <1>4, <1>5, <1>6, ServedGoesOn

(* What became of an edit is what its caller is answered. *)
LEMMA EditOutcome ==
  ASSUME NEW c, op.who = c, IsEdit(work.job[c]), NEW a
  PROVE  Outcome(a) = IF op.error # "ok" THEN op.error ELSE a
  <1>1. work.job[op.who].set # "reconcile"
    BY DEF IsEdit, Changes
  <1> QED BY <1>1 DEF Outcome

(* A save that succeeds, fails, or is given up. *)
LEMMA ServedEnds ==
  ASSUME Typing, NEW c \in Callers, Served(c), Serving(c), op.at \in {"save", "load"},
         NEW a \in {"ok", "persistFailed", "conflict"},
         LET b == IF op.error # "ok" THEN op.error ELSE a
         IN  Answer(op.who, b),
         dropped' = dropped, gaveUp' = gaveUp,
         \/ queue' = queue /\ saved' = saved /\ (a = "ok" => queue = <<>>)
         \/ queue' = <<>> /\ saved' = saved \cup By(queue) /\ a = "ok"
  PROVE  Serving(c)' /\ Answered(c)'
  <1> DEFINE b == IF op.error # "ok" THEN op.error ELSE a
  <1>1. /\ op # NoOp /\ op.who = c /\ c \notin saved /\ queue \in Seq(EditType)
        /\ InSave(c)
    BY ServedAt DEF Persists
  <1>2. b \in {"ok", "refused", "persistFailed", "conflict", "gaveUp"}
    BY <1>1 DEF InSave
  <1>3. Answer(op.who, b)
    OBVIOUS
  <1> HIDE DEF b
  <1>4. op' = NoOp /\ Pending' = By(queue') /\ told'[c] = b
    BY <1>1, <1>2, <1>3, EndsCarry
  <1>5. CASE op.error = "ok" /\ Only(c, queue, op.current)
    <2>1. b = a /\ c \in By(queue) /\ queue # <<>>
      BY <1>1, <1>5, OnlyIn DEF b
    <2> QED BY <1>1, <1>4, <2>1 DEF Serving, Answered, Served
  <1>6. CASE op.error = "refused" /\ c \notin By(queue)
    <2>1. b = "refused" /\ By(<<>>) = {}
      BY <1>6, ByNone DEF b
    <2> QED BY <1>1, <1>4, <1>6, <2>1 DEF Serving, Answered, Served
  <1> QED BY <1>1, <1>5, <1>6 DEF InSave

(* ... when the operation ends with a save or a failed one, ... *)
LEMMA ServedSaves ==
  ASSUME Typing, NEW c \in Callers, Served(c), Serving(c), IsEdit(work.job[c]),
         NothingToSave \/ Save \/ SaveFails \/ (Conflict /\ LastTry)
           \/ (LoadFails /\ op.error = "ok")
  PROVE  Serving(c)' /\ Answered(c)'
  <1> DEFINE b(a) == IF op.error # "ok" THEN op.error ELSE a
  <1>1. op.who = c /\ work.job[op.who].set # "reconcile"
    BY DEF Served, IsEdit, Changes
  <1>2. \A a : Outcome(a) = b(a)
    BY <1>1, EditOutcome
  <1>3. CASE NothingToSave
    <2>1. /\ op.at = "save" /\ queue = <<>> /\ Answer(op.who, b("ok"))
          /\ UNCHANGED <<queue, saved, dropped, gaveUp>>
      BY <1>2, <1>3 DEF NothingToSave
    <2> QED BY <2>1, ServedEnds
  <1>4. CASE Save
    <2>1. /\ op.at = "save" /\ queue' = <<>> /\ saved' = saved \cup By(queue)
          /\ Answer(op.who, b("ok")) /\ UNCHANGED <<dropped, gaveUp>>
      BY <1>2, <1>4 DEF Save, Saving
    <2> QED BY <2>1, ServedEnds
  <1>5. CASE SaveFails
    <2>1. /\ op.at = "save" /\ Answer(op.who, b("persistFailed"))
          /\ UNCHANGED <<queue, saved, dropped, gaveUp>>
      BY <1>2, <1>5 DEF SaveFails, Saving
    <2> QED BY <2>1, ServedEnds
  <1>6. CASE Conflict /\ LastTry
    <2>1. /\ op.at = "save" /\ Answer(op.who, b("conflict"))
          /\ UNCHANGED <<queue, saved, dropped, gaveUp>>
      BY <1>2, <1>6 DEF Conflict, Saving
    <2> QED BY <2>1, ServedEnds
  <1>7. CASE LoadFails /\ op.error = "ok"
    <2>1. /\ op.at = "load" /\ Answer(op.who, b("persistFailed"))
          /\ UNCHANGED <<queue, saved, dropped, gaveUp>>
      BY <1>1, <1>7 DEF LoadFails
    <2> QED BY <2>1, ServedEnds
  <1> QED BY <1>3, <1>4, <1>5, <1>6, <1>7

(* ... when the save met another writer's, ... *)
LEMMA ServedConflict ==
  ASSUME Typing, Mine, NEW c \in Callers, Served(c), Serving(c), Conflict, ~ LastTry,
         Tokens' = Tokens
  PROVE  Serving(c)' /\ Answered(c)'
  <1>1. UNCHANGED <<queue, told, saved>> /\ op.at = "save"
    BY DEF Conflict, Saving
  <1>2. /\ op # NoOp /\ op.who = c /\ told[c] = "none" /\ c \notin saved /\ InSave(c)
    BY <1>1, ServedAt DEF Persists
  <1>3. /\ op' # NoOp /\ op'.at = "load" /\ op'.who = op.who /\ op'.current = op.current
        /\ op'.error = op.error
    BY <1>2, MineConflict
  <1>4. InSave(c)'
    BY <1>1, <1>2, <1>3 DEF InSave, Persists
  <1> QED BY <1>1, <1>2, <1>3, <1>4, ServedGoesOn DEF Served

(* ... when that one is read, ... *)
LEMMA ServedLoad ==
  ASSUME Typing, Mine, NEW c \in Callers, Served(c), Serving(c), Load, Tokens' = Tokens
  PROVE  Serving(c)' /\ Answered(c)'
  <1>1. UNCHANGED <<told, saved>> /\ op.at = "load" /\ queue' = <<>>
    BY DEF Load
  <1>2. /\ op # NoOp /\ op.who = c /\ told[c] = "none" /\ c \notin saved /\ InSave(c)
        /\ queue \in Seq(EditType) /\ op.current \in Nat
    BY <1>1, ServedAt DEF Persists
  <1>3. /\ op' # NoOp /\ op'.at = "read" /\ op'.stage = "latest" /\ op'.who = op.who
        /\ op'.todo = queue /\ op'.index = 0 /\ op'.tries
        /\ op'.current = op.current /\ op'.kept = 0 /\ op'.error = op.error
    BY <1>2, LoadTyped DEF NoSuch
  <1>4. Looping' /\ ~ Editing' /\ Hand' = {} /\ By(queue') = {} /\ Served(c)'
    BY <1>1, <1>2, <1>3, ByNone DEF Looping, Editing, InReconcile, Hand, Served
  <1>5. Pending' = By(queue)
    BY <1>3, <1>4 DEF Pending
  <1>6. CASE op.error = "ok" /\ Only(c, queue, op.current)
    <2>1. 0 < op.current /\ op.current - 0 = op.current
      BY <1>2, <1>6 DEF Only
    <2>2. ToCome(c)'
      BY <1>3, <1>4, <1>6, <2>1 DEF ToCome
    <2> QED BY <1>1, <1>2, <1>3, <1>4, <2>2, ServedGoesOn DEF Replays
  <1>7. CASE op.error = "refused" /\ op.current = 0 /\ c \notin By(queue)
    <2>1. Lost(c)'
      BY <1>3, <1>4, <1>5, <1>7 DEF Lost
    <2> QED BY <1>1, <1>2, <1>3, <1>4, <2>1, ServedGoesOn DEF Replays
  <1> QED BY <1>2, <1>6, <1>7 DEF InSave

(* ... and when the caller gives up. *)
LEMMA ServedGiveUp ==
  ASSUME Typing, NEW c \in Callers, Served(c), GiveUp(c)
  PROVE  Serving(c)' /\ Answered(c)'
  <1>1. op' = NoOp /\ told'[c] = "gaveUp"
    BY GiveUpCarries DEF Served
  <1> QED BY <1>1 DEF Serving, Answered, Served

-----------------------------------------------------------------------------
(* An operation begins *)

(* Whose edits are not touched. *)
LEMMA OpensOthers ==
  ASSUME op = NoOp, NEW d, NEW c, c # d, op' = NoOp \/ op'.who = d, told'[c] = told[c],
         saved' = saved, dropped' = dropped, gaveUp' = gaveUp,
         Pending \subseteq Pending', Pending' \subseteq Pending \cup {d}, Answered(c)
  PROVE  Serving(c)' /\ Answered(c)'
  <1>1. ~ Served(c) /\ ~ Served(c)'
    BY DEF Served
  <1> QED BY <1>1 DEF Serving, Answered

(* What does not touch the edits. *)
LEMMA AnswersKept ==
  ASSUME UNCHANGED <<queue, op, saved, dropped, gaveUp>>, NEW c, told'[c] = told[c],
         Serving(c), Answered(c)
  PROVE  Serving(c)' /\ Answered(c)'
  <1>1. Pending' = Pending /\ Hand' = Hand /\ (Served(c)' <=> Served(c))
    BY DEF Pending, Hand, Editing, InReconcile, Served
  <1>2. Answered(c)'
    BY <1>1 DEF Answered
  <1>3. First(c) => First(c)'
    BY DEF First, Editing, InReconcile
  <1>4. InSave(c) => InSave(c)'
    BY DEF InSave, Persists
  <1>5. Replays(c) => Replays(c)'
    BY <1>1 DEF Replays, Looping, ToCome, AtHand, Redone, Lost, Editing, InReconcile
  <1> QED BY <1>1, <1>2, <1>3, <1>4, <1>5 DEF Serving

(* An operation that starts for an edit has it in its hand or refused it,  *)
(* ...                                                                     *)
LEMMA StartsEdit ==
  ASSUME Typing, NEW who \in Callers \cup {Monitors}, NEW e \in EditType, e.by = who,
         StartEdit(who, e), Tokens' = Tokens
  PROVE  /\ Mine'
         /\ \A c \in Callers : Answered(c) /\ (c = who => told[c] = "none") =>
              Serving(c)' /\ Answered(c)'
  <1>1. /\ op = NoOp /\ OpsTyped
        /\ \/ Opens(who) /\ Commits(e) /\ op'.todo = <<>>
           \/ Answer(who, "refused") /\ op' = NoOp /\ dropped' = dropped
    BY StartEditTyped DEF Typing
  <1>2. UNCHANGED <<queue, saved, gaveUp>>
    BY DEF StartEdit
  <1>3. dropped' = dropped /\ Pending = By(queue) /\ (op' = NoOp \/ op'.who = who)
    BY <1>1 DEF Opens, Commits, Pending, Hand, Editing, InReconcile
  <1>4. CASE Opens(who) /\ Commits(e) /\ op'.todo = <<>>
    <2>1. /\ Editing' /\ op'.edit = e /\ told' = told /\ op'.index = 0 /\ op'.error = "ok"
          /\ op' # NoOp /\ op'.who = who
      BY <1>4 DEF Opens, Commits, Editing, InReconcile
    <2>2. Pending' = By(queue) \cup {who}
      BY <1>2, <1>4, <2>1, ByNone DEF Pending, Hand
    <2>3. Mine'
      BY <1>4, MineEdit
    <2>4. ASSUME NEW c \in Callers, Answered(c), c = who => told[c] = "none"
          PROVE  Serving(c)' /\ Answered(c)'
      <3>1. CASE c # who
        BY <1>1, <1>2, <1>3, <2>1, <2>2, <2>4, <3>1, OpensOthers
      <3>2. CASE c = who
        <4>1. c \notin Pending \cup saved
          BY <1>1, <2>4, <3>2 DEF Answered, Served
        <4>2. First(c)' /\ Served(c)'
          BY <1>2, <1>3, <2>1, <3>2, <4>1 DEF First, Served
        <4> QED BY <1>2, <2>1, <2>4, <3>2, <4>1, <4>2, ServedGoesOn
      <3> QED BY <3>1, <3>2
    <2> QED BY <2>3, <2>4
  <1>5. CASE Answer(who, "refused") /\ op' = NoOp
    <2>1. \A c \in Callers : told'[c] = IF c = who THEN "refused" ELSE told[c]
      BY <1>1, <1>5, AnswerFacts
    <2>2. Pending' = By(queue)
      BY <1>2, <1>5, EndsPending
    <2>3. Mine'
      BY <1>5, MineEnds
    <2>4. ASSUME NEW c \in Callers, Answered(c), c = who => told[c] = "none"
          PROVE  Serving(c)' /\ Answered(c)'
      <3>1. CASE c # who
        BY <1>1, <1>2, <1>3, <2>1, <2>2, <2>4, <3>1, OpensOthers
      <3>2. CASE c = who
        <4>1. c \notin Pending \cup saved
          BY <1>1, <2>4, <3>2 DEF Answered, Served
        <4> QED BY <1>2, <1>3, <1>5, <2>1, <2>2, <3>2, <4>1 DEF Serving, Answered, Served
      <3> QED BY <3>1, <3>2
    <2> QED BY <2>3, <2>4
  <1> QED BY <1>1, <1>4, <1>5

(* ... whoever starts one serves nobody yet, ... *)
LEMMA StartsCaller ==
  ASSUME Typing, Mine, NEW d \in Callers, Starts(d), Tokens' = Tokens
  PROVE  /\ Mine'
         /\ \A c \in Callers : IsEdit(work.job[c]) /\ Serving(c) /\ Answered(c) =>
              Serving(c)' /\ Answered(c)'
  <1>1. CASE Edit(d)
    <2>1. /\ told[d] = "none" /\ IsEdit(work.job[d]) /\ StartEdit(d, EditOf(d))
      BY <1>1 DEF Edit
    <2>2. EditOf(d) \in EditType /\ EditOf(d).by = d
      BY <2>1, JobFacts DEF Typing, OpsTyped, EditOf
    <2>3. PICK e \in EditType : e = EditOf(d)
      BY <2>2
    <2>4. /\ Mine'
          /\ \A c \in Callers : Answered(c) /\ (c = d => told[c] = "none") =>
               Serving(c)' /\ Answered(c)'
      BY <2>1, <2>2, <2>3, StartsEdit
    <2> QED BY <2>1, <2>4
  <1>2. CASE Flush(d)
    <2>1. /\ op = NoOp /\ op' # NoOp /\ op'.at = "save" /\ Opens(d) /\ op'.todo = <<>>
          /\ UNCHANGED <<queue, told, saved, dropped, gaveUp>> /\ queue \in Seq(EditType)
          /\ ~ IsEdit(work.job[d])
      BY <1>2, FlushTyped DEF Flush, Typing, OpsTyped, IsEdit, Changes
    <2>2. Mine'
      BY <2>1, MineOpens
    <2>3. Pending = By(queue) /\ Pending' = By(queue)
      BY <2>1, ByNone DEF Pending, Hand, Editing, InReconcile
    <2>4. op'.who = d
      BY <2>1 DEF Opens
    <2>5. ASSUME NEW c \in Callers, IsEdit(work.job[c]), Answered(c)
          PROVE  Serving(c)' /\ Answered(c)'
      BY <2>1, <2>3, <2>4, <2>5, OpensOthers
    <2> QED BY <2>2, <2>5
  <1>3. CASE ReadLayers(d)
    <2>1. /\ UNCHANGED <<queue, op, saved, dropped, gaveUp>> /\ ~ IsEdit(work.job[d])
          /\ told' = [told EXCEPT ![d] = "read"]
      BY <1>3 DEF ReadLayers, IsEdit, Changes
    <2>2. Mine'
      BY <2>1, MineSame
    <2>3. ASSUME NEW c \in Callers, IsEdit(work.job[c]), Serving(c), Answered(c)
          PROVE  Serving(c)' /\ Answered(c)'
      <3>1. told'[c] = told[c]
        BY <2>1, <2>3
      <3> QED BY <2>1, <2>3, <3>1, AnswersKept
    <2> QED BY <2>2, <2>3
  <1>4. CASE Reconcile(d)
    <2>1. /\ op = NoOp /\ op' # NoOp /\ op'.at = "read" /\ op'.stage = "latest" /\ Opens(d)
          /\ op'.todo = queue /\ queue' = <<>> /\ queue \in Seq(EditType)
          /\ UNCHANGED <<told, saved, dropped, gaveUp>> /\ told[d] = "read"
      BY <1>4, ReconcileTyped DEF Reconcile, Typing, OpsTyped
    <2>2. Mine'
      <3>1. queue' \in Seq(EditType) /\ op'.todo \in Seq(EditType)
        BY <2>1
      <3> QED BY <2>1, <3>1, MineOpens
    <2>3. Pending = By(queue) /\ Pending' = By(queue)
      BY <2>1, ByNone DEF Pending, Hand, Editing, InReconcile
    <2>4. op'.who = d
      BY <2>1 DEF Opens
    <2>5. ASSUME NEW c \in Callers, Answered(c)
          PROVE  Serving(c)' /\ Answered(c)'
      <3>1. c # d
        BY <2>1, <2>5 DEF Answered
      <3> QED BY <2>1, <2>3, <2>4, <2>5, <3>1, OpensOthers
    <2> QED BY <2>2, <2>5
  <1> QED BY <1>1, <1>2, <1>3, <1>4 DEF Starts

(* ... and a monitor's operation answers nobody. *)
LEMMA StartsMonitor ==
  ASSUME Base, NEW t \in Tokens, SelfDisposed(t)
  PROVE  /\ Mine'
         /\ \A c \in Callers : Answered(c) => Serving(c)' /\ Answered(c)'
  <1>1. Tokens' = Tokens /\ StartEdit(Monitors, Disable(fiber[t].row)) /\ Typing
    BY DEF SelfDisposed, Tokens, Base
  <1>2. Disable(fiber[t].row) \in EditType /\ Disable(fiber[t].row).by = Monitors
    BY BaseSelfDisposed DEF Disable
  <1>3. PICK e \in EditType : e = Disable(fiber[t].row)
    BY <1>2
  <1>4. /\ Mine'
        /\ \A c \in Callers : Answered(c) /\ (c = Monitors => told[c] = "none") =>
             Serving(c)' /\ Answered(c)'
    BY <1>1, <1>2, <1>3, StartsEdit
  <1> QED BY <1>4, ScenarioAssumption

-----------------------------------------------------------------------------
(* Every step *)

(* The error of a load is answered for an edit that a replay refused before *)
(* (commit.rs), so that what the answer says of the edit is not true of it: *)
(* the one case the theorem leaves out.                                     *)
NoLoadFailsAfterRefusal == op # NoOp /\ LoadFails => op.error = "ok"

(* What a caller set out to do stays. *)
LEMMA JobsKept ==
  ASSUME Typing, [Next]_vars
  PROVE  work'.job = work.job
  <1>1. work \in ScenarioType
    BY DEF Typing, OpsTyped
  <1>2. CASE work' = work
    BY <1>2
  <1>3. CASE \/ work' = [work EXCEPT !.outside = @ - 1]
             \/ work' = [work EXCEPT !.saveFails = @ - 1]
             \/ work' = [work EXCEPT !.loadFails = @ - 1]
             \/ work' = [work EXCEPT !.applyFails = @ - 1]
             \/ work' = [work EXCEPT !.giveUps = @ - 1]
             \/ work' = [work EXCEPT !.upsets = @ - 1]
    BY <1>1, <1>3 DEF ScenarioType
  <1> DEFINE Known == \/ work' = work
             \/ work' = [work EXCEPT !.outside = @ - 1]
             \/ work' = [work EXCEPT !.saveFails = @ - 1]
             \/ work' = [work EXCEPT !.loadFails = @ - 1]
             \/ work' = [work EXCEPT !.applyFails = @ - 1]
             \/ work' = [work EXCEPT !.giveUps = @ - 1]
             \/ work' = [work EXCEPT !.upsets = @ - 1]
  <1>4. OpSteps => Known
    BY DEF OpSteps, ReadRows, DropRows, SpawnRows, SettleAll, SendUpdate, UpdateDone,
           Committed, RollBack, RolledBack, TookLatest, ReplayEdit, NothingToSave, Save,
           Conflict, Load
  <1>5. (SaveFails \/ LoadFails \/ \E c \in Callers : GiveUp(c)) => Known
    BY DEF SaveFails, LoadFails, GiveUp
  <1>6. (\E c \in Callers : Starts(c)) => Known
    BY DEF Starts, Edit, StartEdit, Flush, ReadLayers, Reconcile
  <1>7. (\E t \in Tokens : SelfDisposed(t)) => Known
    BY DEF SelfDisposed, StartEdit
  <1>8. ASSUME NEW t \in Tokens, FiberSteps(t) \/ Monitor(t) \/ Upsets(t) PROVE Known
    BY <1>8 DEF FiberSteps, GroupLoads, GroupNeverLoads, RowLoads, Restarts, Ends,
       EndLate, Cleanup, Unloaded, Monitor, Upsets, DisposedOutside, GroupReloads
  <1>9. (\E r \in Rows : OtherWriter(r)) => Known
    BY DEF OtherWriter
  <1>10. UNCHANGED vars => Known
    BY DEF vars
  <1>11. Known
    <2> HIDE DEF Known
    <2> QED BY <1>4, <1>5, <1>6, <1>7, <1>8, <1>9, <1>10 DEF Next, Kernel
  <1> QED BY <1>2, <1>3, <1>11

(* A step of the operation, for the caller it serves. *)
LEMMA ServedMoves ==
  ASSUME Base, Mine, op # NoOp, NEW c \in Callers, Served(c), Serving(c), IsEdit(work.job[c]),
         NoLoadFailsAfterRefusal, Tokens' = Tokens,
         \/ Committed \/ RollBack \/ RolledBack \/ TookLatest \/ ReplayEdit
         \/ NothingToSave \/ Save \/ Conflict \/ Load \/ SaveFails \/ LoadFails
         \/ \E x \in Callers : GiveUp(x)
  PROVE  Serving(c)' /\ Answered(c)'
  <1>1. Typing
    BY DEF Base
  <1>2. CASE \/ NothingToSave \/ Save \/ SaveFails \/ LoadFails \/ (Conflict /\ LastTry)
    BY <1>1, <1>2, ServedSaves DEF NoLoadFailsAfterRefusal
  <1>3. CASE \E x \in Callers : GiveUp(x)
    <2>1. GiveUp(c)
      BY <1>3 DEF GiveUp, Served
    <2> QED BY <1>1, <2>1, ServedGiveUp
  <1> QED BY <1>1, <1>2, <1>3, ServedCommitted, ServedRollBack, ServedRolledBack,
             ServedTookLatest, ServedReplayEdit, ServedConflict, ServedLoad

(* A step of the operation, for the others. *)
LEMMA MovesCarry ==
  ASSUME Base, Mine, op # NoOp, Tokens' = Tokens,
         \/ Committed \/ RollBack \/ RolledBack \/ TookLatest \/ ReplayEdit
         \/ NothingToSave \/ Save \/ Conflict \/ Load \/ SaveFails \/ LoadFails
         \/ \E x \in Callers : GiveUp(x)
  PROVE  Mine' /\ Carries
  <1>1. Typing /\ OpsTyped
    BY DEF Base, Typing
  <1>2. CASE \/ NothingToSave \/ Save \/ SaveFails \/ LoadFails \/ (Conflict /\ LastTry)
    <2>1. \E a \in {"ok", "refused", "persistFailed", "conflict", "gaveUp"} : Answer(op.who, a)
      BY <1>1, <1>2, OutcomeTyped DEF NothingToSave, Save, SaveFails, LoadFails, Conflict
    <2>2. /\ op.at \in {"save", "load"}
          /\ queue' = queue \/ (queue' = <<>> /\ saved' = saved \cup By(queue))
          /\ saved' = saved \/ saved' = saved \cup By(queue)
          /\ dropped' = dropped /\ gaveUp' = gaveUp
      BY <1>2 DEF NothingToSave, Save, SaveFails, LoadFails, Conflict, Saving
    <2>3. Carries /\ op' = NoOp
      BY <1>1, <2>1, <2>2, EndsCarry
    <2> QED BY <2>3, MineEnds
  <1>3. CASE \E x \in Callers : GiveUp(x)
    <2>1. Carries /\ op' = NoOp
      BY <1>1, <1>3, GiveUpCarries
    <2> QED BY <2>1, MineEnds
  <1>4. CASE Conflict /\ ~ LastTry
    BY <1>1, <1>4, MineConflict, ConflictCarries
  <1>5. CASE Load
    BY <1>1, <1>5, MineLoad, LoadCarries
  <1>6. CASE Committed
    BY <1>1, <1>6, MineCommitted, CommittedCarries
  <1>7. CASE RollBack
    BY <1>1, <1>7, MineRollBack, RollBackCarries
  <1>8. CASE RolledBack
    BY <1>1, <1>8, MineRolledBack, RolledBackCarries
  <1>9. CASE TookLatest
    BY <1>1, <1>9, MineTookLatest, TookLatestCarries
  <1>10. CASE ReplayEdit
    BY <1>1, <1>10, MineReplayEdit, ReplayEditCarries
  <1> QED BY <1>2, <1>3, <1>4, <1>5, <1>6, <1>7, <1>8, <1>9, <1>10

(* Answers are kept by every step, but for the load that fails after a     *)
(* refusal.                                                                *)
LEMMA AnswersStep ==
  ASSUME Base, Mine, Answers, [Next]_vars, [NoLoadFailsAfterRefusal]_vars
  PROVE  (Mine /\ Answers)'
  <1> DEFINE Kept_ == \A c \in Callers : IsEdit(work.job[c]) => Serving(c)' /\ Answered(c)'
             Known == \A c \in Callers : IsEdit(work.job[c]) => Serving(c) /\ Answered(c)
  <1>0. Typing /\ Known
    BY DEF Base, Answers
  <1>1. ASSUME op # NoOp, Following PROVE Mine' /\ Kept_
    <2>1. Mine'
      BY <1>1, MineFollows
    <2>2. Carries
      BY <1>1, FollowsCarries
    <2>3. ASSUME NEW c \in Callers, IsEdit(work.job[c]) PROVE Serving(c)' /\ Answered(c)'
      <3>1. CASE Served(c)
        BY <1>0, <1>1, <2>3, <3>1, ServedFollows
      <3>2. CASE ~ Served(c)
        BY <1>0, <1>1, <2>2, <2>3, <3>2, CarriesOthers DEF Served
      <3> QED BY <3>1, <3>2
    <2> QED BY <2>1, <2>3
  <1>2. ASSUME op # NoOp,
               \/ Committed \/ RollBack \/ RolledBack \/ TookLatest \/ ReplayEdit
               \/ NothingToSave \/ Save \/ Conflict \/ Load \/ SaveFails \/ LoadFails
               \/ \E x \in Callers : GiveUp(x)
        PROVE  Mine' /\ Kept_
    <2>1. Tokens' = Tokens
      BY <1>2, BaseMoves DEF Tokens
    <2>2. Mine' /\ Carries
      BY <1>2, <2>1, MovesCarry
    <2>3. NoLoadFailsAfterRefusal
      <3>1. LoadFails => ~ UNCHANGED vars
        <4> SUFFICES ASSUME LoadFails, work' = work PROVE FALSE
          BY DEF vars
        <4>1. work.loadFails \in Nat /\ work' = [work EXCEPT !.loadFails = @ - 1]
              /\ work \in ScenarioType
          BY <1>0, WorkTyped DEF LoadFails, Typing, OpsTyped
        <4>2. work'.loadFails = work.loadFails - 1
          BY <4>1 DEF ScenarioType
        <4> QED BY <4>1, <4>2
      <3> QED BY <3>1 DEF NoLoadFailsAfterRefusal
    <2>4. ASSUME NEW c \in Callers, IsEdit(work.job[c]) PROVE Serving(c)' /\ Answered(c)'
      <3>1. CASE Served(c)
        BY <1>0, <1>2, <2>1, <2>3, <2>4, <3>1, ServedMoves
      <3>2. CASE ~ Served(c)
        BY <1>0, <1>2, <2>2, <2>4, <3>2, CarriesOthers DEF Served
      <3> QED BY <3>1, <3>2
    <2> QED BY <2>2, <2>4
  <1>3. ASSUME NEW d \in Callers, Starts(d) PROVE Mine' /\ Kept_
    <2>1. Tokens' = Tokens
      BY <1>3, BaseStarts DEF tree, Tokens
    <2>2. /\ Mine'
          /\ \A c \in Callers : IsEdit(work.job[c]) /\ Serving(c) /\ Answered(c) =>
               Serving(c)' /\ Answered(c)'
      BY <1>0, <1>3, <2>1, StartsCaller
    <2> QED BY <1>0, <2>2
  <1>4. ASSUME NEW t \in Tokens, SelfDisposed(t) PROVE Mine' /\ Kept_
    <2>1. /\ Mine'
          /\ \A c \in Callers : Answered(c) => Serving(c)' /\ Answered(c)'
      BY <1>4, StartsMonitor
    <2> QED BY <1>0, <2>1
  <1>5. ASSUME UNCHANGED ops PROVE Mine' /\ Kept_
    <2>1. UNCHANGED <<queue, op, told, saved, dropped, gaveUp>>
      BY <1>5 DEF ops
    <2>2. Mine'
      BY <2>1, MineSame
    <2>3. ASSUME NEW c \in Callers, IsEdit(work.job[c]) PROVE Serving(c)' /\ Answered(c)'
      BY <1>0, <2>1, <2>3, AnswersKept
    <2> QED BY <2>2, <2>3
  <1>6. Mine' /\ Kept_
    <2>1. (\E r \in Rows : OtherWriter(r)) \/ UNCHANGED vars
          \/ (\E t \in Tokens : Kernel(t) \/ (Upsets(t) /\ UNCHANGED <<ops, store>>)) => UNCHANGED ops
      BY DEF OtherWriter, vars, Kernel
    <2>2. CASE OpSteps
      <3>1. op # NoOp
        BY <2>2 DEF OpSteps
      <3>2. Following \/ Committed \/ RollBack \/ RolledBack \/ TookLatest \/ ReplayEdit
            \/ NothingToSave \/ Save \/ Conflict \/ Load
        BY <2>2 DEF OpSteps, Following
      <3> HIDE DEF Kept_
      <3> QED BY <1>1, <1>2, <3>1, <3>2
    <2> HIDE DEF Kept_
    <2> QED BY <1>2, <1>3, <1>4, <1>5, <2>1, <2>2 DEF Next
  <1>7. work'.job = work.job
    BY <1>0, JobsKept
  <1> QED BY <1>6, <1>7 DEF Answers

(* Nobody has asked for anything at the start. *)
LEMMA InitAnswers ==
  ASSUME Init
  PROVE  Mine /\ Answers
  <1>1. /\ op = NoOp /\ queue = <<>> /\ saved = {} /\ told = [c \in Callers |-> "none"]
    BY DEF Init
  <1>2. ~ Persists /\ ~ Looping /\ ~ Editing
    BY <1>1 DEF Persists, Looping, Editing, InReconcile
  <1>3. Mine
    BY <1>2 DEF Mine
  <1>4. Pending = {}
    BY <1>1, <1>2, ByNone DEF Pending, Hand
  <1>5. \A c \in Callers : Serving(c) /\ Answered(c)
    BY <1>1, <1>4 DEF Serving, Answered, Served
  <1> QED BY <1>3, <1>5 DEF Answers

(* An edit in memory is queued, being replayed, or the one in hand. *)
LEMMA PendingHeld ==
  ASSUME Typing
  PROVE  Pending \subseteq By(queue) \cup BeingReplayed /\ By(queue) \subseteq Pending
  <1>1. By(queue) \subseteq Pending
    BY DEF Pending
  <1>2. CASE op = NoOp
    BY <1>2 DEF Pending, Hand, Editing, InReconcile, BeingReplayed
  <1>3. CASE op # NoOp
    <2>1. ASSUME Editing PROVE op.edit # NoEdit
      <3>1. op.edit \in EditType
        BY <1>3, <2>1 DEF Typing, OpShape
      <3> QED BY <3>1 DEF EditType, NoEdit
    <2> QED BY <1>3, <2>1 DEF Pending, Hand, BeingReplayed
  <1> QED BY <1>1, <1>2, <1>3

(* A caller that is told its edit is saved finds it saved, one that is     *)
(* told it was refused finds it nowhere, and one told that it could not be *)
(* saved finds it pending (commit.rs). This takes one case apart, in which *)
(* the code does not keep it: a load that fails after the edit was refused *)
(* in a replay.                                                            *)
THEOREM AnswersTrue == Spec /\ [][NoLoadFailsAfterRefusal]_vars => []AnswersAreTrue
  <1>1. Init => Base /\ Mine /\ Answers
    BY InitBase, InitAnswers
  <1>2. Base /\ Mine /\ Answers /\ [Next]_vars /\ [NoLoadFailsAfterRefusal]_vars
          => (Base /\ Mine /\ Answers)'
    BY BaseStep, AnswersStep
  <1>3. ASSUME Base, Mine, Answers PROVE AnswersAreTrue
    <2>1. Pending \subseteq By(queue) \cup BeingReplayed /\ By(queue) \subseteq Pending
      BY <1>3, PendingHeld DEF Base
    <2> QED BY <1>3, <2>1 DEF Answers, Answered, AnswersAreTrue
  <1> QED BY <1>1, <1>2, <1>3, PTL DEF Spec
=============================================================================
