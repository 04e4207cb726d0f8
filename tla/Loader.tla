-------------------------------- MODULE Loader --------------------------------
(***************************************************************************)
(* The loader's operations (rutis-loader): imperative edits, flush and     *)
(* reconcile, one at a time under the operation lock.  An edit rewrites    *)
(* the editable layer, reconciles the rows with it, takes it back if rows  *)
(* newly fail, and is then saved with the edits still pending; when        *)
(* another writer changed the store first, the layer is loaded again and   *)
(* the pending edits are replayed on it.                                   *)
(*                                                                         *)
(* Between the awaits of an operation fibers load, fail and end, monitors  *)
(* see rows dispose of themselves, other programs write the store, and the *)
(* caller may give up (drop its future).                                   *)
(*                                                                         *)
(* The store (the trait Persist) compares versions and writes under a lock *)
(* of its own; rutis-dsh and rutis-host take the stored content, or its    *)
(* hash, for its version, and so a version is a content here.              *)
(***************************************************************************)
EXTENDS LoaderRows

CONSTANTS Callers, Monitors, Scenarios, Boot

VARIABLES
  layer,     \* the editable layer, in memory
  version,   \* State::version
  queue,     \* State::pending
  store,     \* the stored layer
  op,        \* the operation that holds the lock
  told,      \* what each caller was answered
  seen,      \* the layers a caller of reconcile read
  saved,     \* callers whose edit was stored
  dropped,   \* callers whose pending edit was reported dropped
  gaveUp     \* some caller gave up

ops == <<layer, version, queue, op, told, seen, saved, dropped, gaveUp>>
vars == <<tree, work, ops, store>>

CONFLICT_RETRIES == 3

NoOp == [who |-> "nobody"]
NoSuch == 0

(* What is asked of a row. *)
Changes == {"disable", "enable", "config", "inject", "remove", "create"}

ValuesFor(set) ==
  CASE set = "config" -> Configs [] set = "inject" -> Injects [] OTHER -> {0}

Job ==
  {j \in [row : Rows, to : {0} \cup Configs \cup Injects,
          set : Changes \cup {"flush", "reconcile", "nothing"}] : j.to \in ValuesFor(j.set)}

(* A scenario names the callers' jobs and says how often what may go wrong *)
(* does: the bounds of the model.                                          *)
ScenarioType ==
  [job : [Callers -> Job],
   outside : Nat, saveFails : Nat, loadFails : Nat, applyFails : Nat,
   giveUps : Nat, upsets : Nat, stuck : SUBSET Rows]

ASSUME ScenarioAssumption ==
  /\ \A x \in Scenarios : x \in ScenarioType
  /\ Boot \in [Rows -> Content] /\ \A r \in Rows : ~ Boot[r].off
  /\ Monitors \notin Callers

IsEdit(job) == job.set \in Changes

EditOf(c) == [by |-> c, row |-> work.job[c].row, set |-> work.job[c].set, to |-> work.job[c].to]

Disable(r) == [by |-> Monitors, row |-> r, set |-> "disable", to |-> 0]

NoEdit == [by |-> "nobody"]

-----------------------------------------------------------------------------
(* apply_edit *)

Applies(l, e) ==
  IF e.set = "create"
  THEN e.row \notin DOMAIN l /\ Above[e.row] \subseteq DOMAIN l
  ELSE e.row \in DOMAIN l /\ (e.set = "config" => e.row \notin Groups)

Below(r) == {x \in Rows : r \in {x} \cup Above[x]}

Apply(l, e) ==
  CASE e.set = "remove" -> [r \in DOMAIN l \ Below(e.row) |-> l[r]]
    [] e.set = "create" -> [r \in DOMAIN l \cup {e.row} |-> IF r = e.row THEN Boot[r] ELSE l[r]]
    [] e.set \in {"disable", "enable"} -> [l EXCEPT ![e.row].off = e.set = "disable"]
    [] e.set = "config" -> [l EXCEPT ![e.row].config = e.to]
    [] e.set = "inject" -> [l EXCEPT ![e.row].inject = e.to]

(* The edits of a queue made to a content, in order. *)
Replay(l, edits) ==
  LET content[n \in 0 .. Len(edits)] ==
        IF n = 0 THEN l ELSE Apply(content[n - 1], edits[n])
  IN content[Len(edits)]

-----------------------------------------------------------------------------
(* The parts of an operation *)

Free == op = NoOp

Answer(who, answer) ==
  /\ op' = NoOp
  /\ told' = IF who \in Callers THEN [told EXCEPT ![who] = answer] ELSE told

(* persist_queue(current): try to save.  current is the index of the edit  *)
(* the caller waits for, error what became of it in a replay.              *)
Persisting(o, current) ==
  [o EXCEPT !.at = "save", !.current = current, !.attempt = 0]

(* commit: the layer is rewritten, then the rows follow it. *)
Committing(o, e) ==
  [o EXCEPT !.at = "read", !.stage = "commit", !.edit = e, !.base = layer]

KeptInPlace(o) ==   \* mutant of Replaying
  CASE o.todo # <<>> -> [o EXCEPT !.at = "replay"]
    [] o.todo = <<>> /\ o.tries -> [o EXCEPT !.at = "save", !.attempt = @ + 1]
    [] OTHER -> Persisting(o, NoSuch)

(* The next edit to replay; after the last, the caller's edit is where the *)
(* replay left it, and saving starts, or is tried once more.               *)
Replaying(o) ==
  CASE o.todo # <<>> -> [o EXCEPT !.at = "replay"]
    [] o.todo = <<>> /\ o.tries -> [o EXCEPT !.at = "save", !.current = o.kept,
                                             !.attempt = @ + 1]
    [] OTHER -> Persisting(o, NoSuch)

NewOp(who) ==
  [who |-> who, at |-> "commit", stage |-> "commit", edit |-> NoEdit, base |-> Boot,
   before |-> {}, wait |-> {}, updates |-> {}, sent |-> NoToken,
   todo |-> <<>>, index |-> 0, tries |-> FALSE, current |-> NoSuch, kept |-> NoSuch,
   attempt |-> 0, error |-> "ok"]

-----------------------------------------------------------------------------
(* Taking the lock *)

(* Inner::edit.  An edit that does not apply is refused; nothing changes.  *)
(* The dry run only reads.                                                 *)
StartEdit(who, e) ==
  /\ Free
  /\ IF Applies(layer, e)
     THEN /\ op' = Committing(NewOp(who), e)
          /\ layer' = Apply(layer, e)
          /\ UNCHANGED told
     ELSE Answer(who, "refused") /\ UNCHANGED layer
  /\ UNCHANGED <<version, queue, seen, saved, dropped, gaveUp, store, work>>

Edit(c) ==
  /\ told[c] = "none" /\ IsEdit(work.job[c])
  /\ StartEdit(c, EditOf(c))
  /\ UNCHANGED tree

(* A monitor's set_disabled. *)
SelfDisposed(t) ==
  /\ t \in disables
  /\ StartEdit(Monitors, Disable(fiber[t].row))
  /\ disables' = disables \ {t}
  /\ UNCHANGED <<desired, running, groups, fiber, watched, abandoned>>

Flush(c) ==
  /\ told[c] = "none" /\ work.job[c].set = "flush"
  /\ Free
  /\ op' = Persisting(NewOp(c), NoSuch)
  /\ UNCHANGED <<tree, work, store, layer, version, queue, told, seen, saved, dropped, gaveUp>>

(* The application reads its layers, and calls reconcile with them. *)
ReadLayers(c) ==
  /\ told[c] = "none" /\ work.job[c].set = "reconcile"
  /\ told' = [told EXCEPT ![c] = "read"]
  /\ seen' = store
  /\ UNCHANGED <<tree, work, store, layer, version, queue, op, saved, dropped, gaveUp>>

Reconcile(c) ==
  /\ told[c] = "read"
  /\ Free
  /\ layer' = seen /\ version' = seen
  /\ op' = [NewOp(c) EXCEPT !.at = "read", !.stage = "latest", !.todo = queue]
  /\ queue' = <<>>
  /\ UNCHANGED <<tree, work, store, told, seen, saved, dropped, gaveUp>>

-----------------------------------------------------------------------------
(* reconcile_inner *)

(* The rows are read, and what failed before noted. *)
ReadRows ==
  /\ op.at = "read"
  /\ desired' = layer
  /\ op' = [op EXCEPT !.at = "drop", !.before = Failing]
  /\ UNCHANGED <<running, groups, fiber, watched, disables, abandoned, work, store,
                 layer, version, queue, told, seen, saved, dropped, gaveUp>>

(* A record that can stay: it runs the row it is for, in the same scope. *)
Fits(r) ==
  /\ r \in DOMAIN desired /\ Wanted(desired, r)
  /\ IsRunning(r) /\ running[r].inject = desired[r].inject

FitsItself(r) == Fits(r)   \* mutant of Keeps

Keeps(r) == \A a \in {r} \cup Above[r] : Fits(a)

(* The others go first, and with a record those of the rows below it. *)
DropRows ==
  LET rows == {r \in Rows : IsRunning(r) /\ ~ Keeps(r)}
      tokens == {running[r].token : r \in rows}
  IN
  /\ op.at = "drop"
  /\ running' = Without(rows)
  /\ groups' = Unregistered(rows)
  /\ fiber' = [t \in Tokens |->
       IF t \in tokens /\ fiber[t].st # "Disposed" THEN [fiber[t] EXCEPT !.ending = TRUE]
       ELSE fiber[t]]
  /\ op' = [op EXCEPT !.at = "dispose", !.wait = tokens]
  /\ UNCHANGED <<desired, watched, disables, abandoned, work, store,
                 layer, version, queue, told, seen, saved, dropped, gaveUp>>

ChangedWhileActive ==   \* mutant of Changed
  {running[r].token : r \in {x \in Rows \ Groups :
     /\ IsRunning(x) /\ running[x].config # desired[x].config
     /\ fiber[running[x].token].st = "Active"}}

(* The records whose config is not the row's. *)
Changed ==
  {running[r].token : r \in {x \in Rows \ Groups :
     IsRunning(x) /\ running[x].config # desired[x].config}}

(* With the old fibers gone, the missing rows start in every context there *)
(* is.  The updates are listed, and made one after the other.              *)
SpawnRows ==
  /\ op.at = "dispose"
  /\ \A t \in op.wait : fiber[t].st = "Disposed"
  /\ op' = [op EXCEPT !.at = "update", !.wait = {}, !.sent = NoToken,
            !.updates = Changed]
  /\ Spawn(Missing(running, groups), running, groups, fiber, TRUE)
  /\ UNCHANGED <<desired, groups, disables, abandoned, work, store,
                 layer, version, queue, told, seen, saved, dropped, gaveUp>>

(* FiberView::update stores the config and queues a restart. *)
SendUpdate(t) ==
  /\ op.at = "update" /\ op.sent = NoToken /\ t \in op.updates
  /\ IF fiber[t].ending
     THEN op' = [op EXCEPT !.updates = @ \ {t}] /\ UNCHANGED fiber
     ELSE /\ op' = [op EXCEPT !.sent = t]
          /\ fiber' = [fiber EXCEPT ![t].config = desired[fiber[t].row].config,
                                    ![t].restart = TRUE]
  /\ UNCHANGED <<desired, running, groups, watched, disables, abandoned, work, store,
                 layer, version, queue, told, seen, saved, dropped, gaveUp>>

(* What the kernel holds is recorded, unless the row has another record by *)
(* then.                                                                   *)
UpdateDone(t) ==
  /\ op.at = "update" /\ op.sent = t
  /\ Settled(fiber[t])
  /\ op' = [op EXCEPT !.sent = NoToken, !.updates = @ \ {t}]
  /\ running' = IF StillItsRecord(t)
                THEN [running EXCEPT ![fiber[t].row].config = fiber[t].config]
                ELSE running
  /\ UNCHANGED <<desired, groups, fiber, watched, disables, abandoned, work, store,
                 layer, version, queue, told, seen, saved, dropped, gaveUp>>

SettleAll ==
  /\ op.at = "update" /\ op.sent = NoToken /\ op.updates = {}
  /\ op' = [op EXCEPT !.at = "settle"]
  /\ UNCHANGED <<tree, work, store, layer, version, queue, told, seen, saved, dropped, gaveUp>>

NoneInTransition ==   \* mutant of AllSettled
  \A r \in Rows : IsRunning(r) => Settled(fiber[running[r].token])

(* settle: no record is in transition, but those given up on. *)
AllSettled ==
  \A r \in Rows : IsRunning(r) =>
    LET t == running[r].token IN Settled(fiber[t]) \/ t \in abandoned

Reconciled == op.at = "settle" /\ AllSettled

NewFailures == Failing \ op.before

-----------------------------------------------------------------------------
(* commit, after its reconcile *)

(* The edit is pending.  For a replayed one, its place in the new queue is *)
(* noted if it is the caller's.                                            *)
Committed ==
  /\ Reconciled /\ op.stage = "commit" /\ NewFailures = {}
  /\ queue' = Append(queue, op.edit)
  /\ op' = IF op.index = 0
           THEN Persisting(op, Len(queue) + 1)
           ELSE Replaying([op EXCEPT !.kept = IF op.current = op.index
                                              THEN Len(queue) + 1 ELSE @])
  /\ UNCHANGED <<tree, work, store, layer, version, told, seen, saved, dropped, gaveUp>>

(* Rows newly fail: back to the layer before, and reconcile again. *)
RollBack ==
  /\ Reconciled /\ op.stage = "commit" /\ NewFailures # {}
  /\ layer' = op.base
  /\ op' = [op EXCEPT !.at = "read", !.stage = "rollback"]
  /\ UNCHANGED <<tree, work, store, version, queue, told, seen, saved, dropped, gaveUp>>

(* An edit that no longer applies in a replay: the caller's own is its     *)
(* error, another is reported dropped.                                     *)
NotReplayed(o, e) ==
  /\ op' = Replaying([o EXCEPT !.error = IF o.current = o.index THEN "refused" ELSE @])
  /\ dropped' = IF o.current = o.index THEN dropped ELSE dropped \cup {e.by}
  /\ UNCHANGED told

RolledBack ==
  /\ Reconciled /\ op.stage = "rollback"
  /\ IF op.index = 0
     THEN Answer(op.who, "refused") /\ UNCHANGED dropped
     ELSE NotReplayed(op, op.edit)
  /\ UNCHANGED <<tree, work, store, layer, version, queue, seen, saved, gaveUp>>

(* The latest layer is taken as it is, whatever fails. *)
TookLatest ==
  /\ Reconciled /\ op.stage = "latest"
  /\ IF op.todo = <<>> /\ ~ op.tries
     THEN Answer(op.who, "ok")
     ELSE op' = Replaying(op) /\ UNCHANGED told
  /\ UNCHANGED <<tree, work, store, layer, version, queue, seen, saved, dropped, gaveUp>>

ReplayEdit ==
  /\ op.at = "replay"
  /\ LET e == Head(op.todo)
         o == [op EXCEPT !.todo = Tail(@), !.index = @ + 1]
     IN IF Applies(layer, e)
        THEN /\ op' = Committing(o, e)
             /\ layer' = Apply(layer, e)
             /\ UNCHANGED <<told, dropped>>
        ELSE NotReplayed(o, e) /\ UNCHANGED layer
  /\ UNCHANGED <<tree, work, store, version, queue, seen, saved, gaveUp>>

-----------------------------------------------------------------------------
(* persist_queue *)

(* reconcile discards the outcome of its save. *)
Outcome(answer) ==
  CASE op.who \in Callers /\ work.job[op.who].set = "reconcile" -> "ok"
    [] op.error # "ok" -> op.error
    [] OTHER -> answer

Saving == op.at = "save" /\ queue # <<>>

NothingToSave ==
  /\ op.at = "save" /\ queue = <<>>
  /\ Answer(op.who, Outcome("ok"))
  /\ UNCHANGED <<tree, work, store, layer, version, queue, seen, saved, dropped, gaveUp>>

By(edits) == {edits[i].by : i \in DOMAIN edits}

Save ==
  /\ Saving /\ store = version
  /\ store' = layer /\ version' = layer
  /\ queue' = <<>>
  /\ saved' = saved \cup By(queue)
  /\ Answer(op.who, Outcome("ok"))
  /\ UNCHANGED <<tree, work, layer, seen, dropped, gaveUp>>

SaveFails ==
  /\ Saving /\ work.saveFails > 0
  /\ work' = [work EXCEPT !.saveFails = @ - 1]
  /\ Answer(op.who, Outcome("persistFailed"))
  /\ UNCHANGED <<tree, store, layer, version, queue, seen, saved, dropped, gaveUp>>

LastTry == op.attempt = CONFLICT_RETRIES

Conflict ==
  /\ Saving /\ store # version
  /\ IF LastTry
     THEN Answer(op.who, Outcome("conflict"))
     ELSE op' = [op EXCEPT !.at = "load"] /\ UNCHANGED told
  /\ UNCHANGED <<tree, work, store, layer, version, queue, seen, saved, dropped, gaveUp>>

OwnRows(l) == layer   \* mutant of Latest

(* The content the replay starts from. *)
Latest(l) == l

Load ==
  /\ op.at = "load"
  /\ layer' = Latest(store) /\ version' = store
  /\ op' = [op EXCEPT !.at = "read", !.stage = "latest", !.todo = queue, !.index = 0,
            !.tries = TRUE, !.kept = NoSuch]
  /\ queue' = <<>>
  /\ UNCHANGED <<tree, work, store, told, seen, saved, dropped, gaveUp>>

(* The error of a load is answered whatever became of the edit. *)
LoadFails ==
  /\ op.at = "load" /\ work.loadFails > 0
  /\ work' = [work EXCEPT !.loadFails = @ - 1]
  /\ Answer(op.who, IF work.job[op.who].set = "reconcile" THEN "ok" ELSE "persistFailed")
  /\ UNCHANGED <<tree, store, layer, version, queue, seen, saved, dropped, gaveUp>>

-----------------------------------------------------------------------------
(* A caller drops its future at an await.  The transitions a reconcile was *)
(* waiting for are not waited for again; a save may have reached the store.*)

UnderWay ==
  {running[r].token : r \in {x \in Rows : IsRunning(x) /\
     fiber[running[x].token].st \in {"Loading", "Unloading", "Draining"}}}

GiveUp(c) ==
  /\ op.who = c /\ work.giveUps > 0
  /\ work' = [work EXCEPT !.giveUps = @ - 1]
  /\ gaveUp' = TRUE
  /\ Answer(c, "gaveUp")
  /\ \/ /\ op.at \in {"dispose", "update", "settle"}
        /\ abandoned' = abandoned \cup UnderWay
        /\ UNCHANGED <<store, saved>>
     \/ /\ op.at \in {"save", "load"}
        /\ UNCHANGED <<abandoned, store, saved>>
     \/ /\ Saving /\ store = version
        /\ store' = layer /\ saved' = saved \cup By(queue)
        /\ UNCHANGED abandoned
  /\ UNCHANGED <<desired, running, groups, fiber, watched, disables,
                 layer, version, queue, seen, dropped>>

(* Another program changes the store. *)
OtherWriter(r) ==
  /\ work.outside > 0
  /\ work' = [work EXCEPT !.outside = @ - 1]
  /\ \E e \in {[row |-> r, set |-> "remove", to |-> 0]}
         \cup {[row |-> r, set |-> "config", to |-> v] : v \in Configs} :
       /\ Applies(store, e)
       /\ store' = Apply(store, e) /\ store' # store
  /\ UNCHANGED <<tree, ops>>

-----------------------------------------------------------------------------

OpSteps ==
  /\ op # NoOp
  /\ \/ ReadRows \/ DropRows \/ SpawnRows \/ SettleAll
     \/ \E t \in Tokens : SendUpdate(t) \/ UpdateDone(t)
     \/ Committed \/ RollBack \/ RolledBack \/ TookLatest \/ ReplayEdit
     \/ NothingToSave \/ Save \/ Conflict \/ Load

Starts(c) == Edit(c) \/ Flush(c) \/ ReadLayers(c) \/ Reconcile(c)

Kernel(t) == (FiberSteps(t) \/ Monitor(t)) /\ UNCHANGED <<ops, store>>

Init ==
  /\ work \in Scenarios
  /\ InitRows(Boot)
  /\ layer = Boot /\ version = Boot /\ store = Boot
  /\ queue = <<>> /\ op = NoOp
  /\ told = [c \in Callers |-> "none"] /\ seen = Boot
  /\ saved = {} /\ dropped = {} /\ gaveUp = FALSE

Next ==
  \/ OpSteps
  \/ op # NoOp /\ (SaveFails \/ LoadFails \/ \E c \in Callers : GiveUp(c))
  \/ \E c \in Callers : Starts(c)
  \/ \E t \in Tokens : SelfDisposed(t) \/ Kernel(t)
  \/ \E t \in Tokens : Upsets(t) /\ UNCHANGED <<ops, store>>
  \/ \E r \in Rows : OtherWriter(r)

Spec == Init /\ [][Next]_vars

(* The runtime polls a held operation and the monitors, and drives the     *)
(* fibers; a lock that is free is taken by someone who waits for it.       *)
Driven == \E t \in Tokens : SelfDisposed(t) \/ Kernel(t)

FairSpec ==
  /\ Spec
  /\ WF_vars(OpSteps)
  /\ WF_vars(Driven)
  /\ \A c \in Callers : SF_vars(Starts(c))

-----------------------------------------------------------------------------
(* Properties *)

At == {"read", "drop", "dispose", "update", "settle", "replay", "save", "load"}

EditType ==
  {e \in [by : Callers \cup {Monitors}, row : Rows, set : Changes,
          to : {0} \cup Configs \cup Injects] : e.to \in ValuesFor(e.set)}

OpType ==
  [who : Callers \cup {Monitors}, at : At, stage : {"commit", "rollback", "latest"},
   edit : EditType \cup {NoEdit}, base : Layers, before : SUBSET (Rows \X Content),
   wait : SUBSET Tokens, updates : SUBSET Tokens, sent : Tokens \cup {NoToken},
   todo : Seq(EditType), index : Nat, tries : BOOLEAN, current : Nat, kept : Nat,
   attempt : 0 .. CONFLICT_RETRIES, error : {"ok", "refused"}]

(* The types of the state; and when missing rows are spawned every record  *)
(* is of a row the layers still have, which the code unwraps.              *)
TypeOK ==
  /\ RowsTypeOK
  /\ layer \in Layers /\ version \in Layers /\ store \in Layers /\ seen \in Layers
  /\ queue \in Seq(EditType)
  /\ op \in OpType \cup {NoOp}
  /\ told \in [Callers -> {"none", "read", "ok", "refused", "persistFailed", "conflict", "gaveUp"}]
  /\ saved \subseteq Callers \cup {Monitors} /\ dropped \subseteq Callers \cup {Monitors}
  /\ gaveUp \in BOOLEAN
  /\ op # NoOp /\ op.at = "dispose" => \A r \in Rows : IsRunning(r) => r \in DOMAIN desired

(* What save is given: the pending edits, made to the content at the       *)
(* version the loader expects, give the layer it writes.  A store may then *)
(* write either; a caller that gave up in the middle of an edit breaks it. *)
SavesItsEdits ==
  op # NoOp /\ op.at = "save" /\ ~ gaveUp => Replay(version, queue) = layer

(* An edit answered as done was stored, through however many conflicts and *)
(* replays; one answered with its own error was not, and is not pending;   *)
(* one not persisted stays pending until it is stored or reported dropped, *)
(* unless its caller gave up.                                              *)
BeingReplayed ==
  IF op = NoOp THEN {}
  ELSE By(op.todo) \cup (IF op.edit = NoEdit THEN {} ELSE {op.edit.by})

AnswersAreTrue ==
  \A c \in Callers : IsEdit(work.job[c]) =>
    /\ told[c] = "ok" => c \in saved
    /\ told[c] = "refused" => c \notin saved \cup By(queue)
    /\ told[c] \in {"persistFailed", "conflict"} /\ ~ gaveUp =>
         c \in saved \cup dropped \cup By(queue) \cup BeingReplayed

(* No fiber runs on without a record: one that is not its row's record is  *)
(* disposed, is being disposed, or is in a group that goes.                *)
Doomed ==
  LET d[t \in Tokens] ==
        \/ fiber[t].ending \/ fiber[t].st = "Disposed"
        \/ fiber[t].parent \in Tokens /\ (d[fiber[t].parent]
                                          \/ fiber[fiber[t].parent].st = "Unloading")
  IN {t \in Tokens : d[t]}

NoFiberForgotten ==
  \A t \in Tokens \ Doomed : running[fiber[t].row].token = t

(* The state is well typed, and the rows of a group run in the context its *)
(* present fiber registered, never in one of an earlier fiber.             *)
RowsInTheirGroup ==
  /\ TypeOK
  /\ \A r \in Rows : IsRunning(r) =>
       /\ groups[Parent[r]] = running[r].parent
       /\ Parent[r] # Root =>
            IsRunning(Parent[r]) /\ running[Parent[r]].token = running[r].parent

(* Once nothing is under way, what runs is what the layer says: every row  *)
(* that is wanted has a fiber with its config and scope, and no other has. *)
Quiet ==
  /\ op = NoOp /\ disables = {}
  /\ \A t \in Tokens : Settled(fiber[t]) /\ (fiber[t].st = "Disposed" => t \notin watched)

RunsWhatTheLayerSays ==
  Quiet /\ ~ gaveUp =>
    \A r \in Rows :
      /\ IsRunning(r) <=> r \in DOMAIN layer /\ Wanted(layer, r)
      /\ IsRunning(r) => /\ running[r].inject = layer[r].inject
                         /\ r \notin Groups => fiber[running[r].token].config = layer[r].config

(* A row is disabled on its own only if its plugin disposed itself (or was *)
(* disposed by the application), not because the loader replaced its fiber *)
(* or a group it is in went.                                               *)
OnlyItselfDisables == \A t \in disables : fiber[t].self

(* An operation returns, unless a row it waits for never finishes loading; *)
(* once the caller that waits has given up, the others return.             *)
Stuck(t) == fiber[t].st = "Loading" /\ ~ Returns(t) /\ t \notin abandoned

OperationsReturn ==
  \A c \in Callers :
    work.job[c].set # "nothing" ~>
      told[c] \notin {"none", "read"} \/ \E t \in Tokens : Stuck(t)
=============================================================================
