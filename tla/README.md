# rutis: a verification project

TLA+ modules of the rutis plugin kernel, of the sessions of its bridge and of
its loader, the TLC runs that check them on small
instances, and theorems about them that TLAPS proves for every instance.
`PROJECT.json` lists the components, the runs, the source lines every
definition models, the hazards the properties are for, and the theorems.

```
tlc -workers 2 -config MCFiberCalls.cfg MCFiber      # one run
tlapm FiberProofs.tla                                # the proofs
```

## The system

rutis runs plugins that provide services to one another, come and go while the
process runs, and may live in another process and another language.

| part | state | operations | hard behaviour | correct when |
|---|---|---|---|---|
| **fiber** (`crates/rutis/src/fiber.rs`): one plugin's life | `Trans` (state, generation, error, terminal task, pending restarts, pre-cancelled) under one lock; the current generation's token; `closing`, `alive`; the mailbox; `last_deps`; `effects` | a driver task takes intents one at a time: RefreshDeps, RefreshDepsJoin, Settle, Restart, Dispose, Shutdown; callers `dispose`, `restart`, `update`, `shutdown`, await | every call cancels and registers before its intent is queued; the driver may be anywhere, also gone | one generation at a time, cleaned up before the next; stops win over loads; every call returns, with the right result |
| **effects** (`effect.rs`, `ctx.rs`) | a record `Live`/`Draining`/`Done`; the fiber's list; kept errors; a count of registrations under way | register with a factory, `Disposer::dispose`, the unload's drain | a factory, an early disposal and the unload overlap; three separate locks | each cleanup once, last first, each error reported once |
| **registry** (`registry.rs`, `ctx.rs` `provide*`, `evict_and_finalize`) | bindings by key and scope with a `removing` flag; which fibers inject a key | provide, withdraw (mark, find consumers, cancel, join, remove), resolve, notify | a withdrawal, a load and a new provide of one slot | no consumer of a removed binding is missed; nobody waits for what is there |
| **mount and subtrees** (`ctx.rs`, `fiber.rs`) | parent, children, mount records, the admission lock | mount, cascading dispose, subtree and root shutdown | parent and child end together and wait for each other | nothing loads in a closed tree; no cycle of waits |
| **writer** (`writer.rs`), **definitions** (`definition.rs`), **bus** (`bus/`) | a mutable binding; the copies of a definition; listeners | `set`; `at`, `mounted`, `end_all`; emit, bail, waterfall | bound to a generation that may just end | stale use is refused; no copy outlives its origin |
| **bridge session** (`rutis-bridge/src/session`) | waiting, incoming and awaited calls; exports and imports with counts; the outbound queue | send, reply, cancel, release, close | two peers calling each other synchronously; late replies; a session that closes meanwhile | one answer per call; references released once; no deadlock |
| **loader** (`rutis-loader/src/loader`) | rows, running instances by token, the pending queue of edits | commit, persist, reconcile, attach, detach | its lock is released around every plugin operation; files change underneath | rows, running plugins and the file agree, or go back together |
| **host** (`rutis-host`) | restart backoff; stop deadlines | supervise, stop, connect, install | a wait, then a check | at most five restarts in five minutes |

The language SDKs, the agent and shell plugins, code generators and the CLI are
listed in `PROJECT.json` and not modelled.

*How they interact.* A call on a fiber changes its `Trans` under the lock, then
posts an intent; the driver answers through a `TransitionTask` the caller
joins. A provider that withdraws a service finds its consumers by their
`last_deps`, cancels them and joins their re-check; a provide posts a re-check
to every fiber that injects the key. A mount is an effect record of the parent,
whose drain disposes the child. The loader drives fibers through the same
calls, and the bridge stands in for plugins of other processes.

## The modules

**`Fiber`** models one fiber without children, its driver, the registry slot of
the one service it needs, and any number of callers, each making one call.
The variables are the fields of `Trans` and `FiberInner`; `pc` is where the
driver is in `drive`, `refresh_deps`, `load`, `fail_load` and `unload`, `cpc`
where a caller is in its function. There is one action per stretch of code
between two points at which another task can be seen: the driver's steps are
cut at every lock it takes and every await, a caller's at the check of `alive`,
the send, and the second check (`post_join_to`), and in a withdrawal at
`mark_removing_if`, `consumers_of`, the two halves of `pre_cancel`, the
notification and `finalize_binding_if`. `gen` counts generations, `cancelled`
is the current generation's token. An error is its origin: `start`, `cleanup`
or `panic`.

`slot` carries the binding's quadruple, who provided it and the `removing`
flag. A new provide may yield the same quadruple (the same provider generation
provides again) or another one. The provider itself is taken to stay active, as
the root or a plugin that provides and withdraws by hand does.
`cancelled` and `state` change together in `Unload` and `FailLoad`: the code
publishes the state first, and nothing the model observes lies between. Draining is one step here, because its inside is `Effects`;
so is everything `apply` registers.

The driver panics where it calls the host's error sink unguarded and this
panics: with a cleanup error at the end of a non-terminal unload (`Panic`,
`fiber.rs:1196`), and in `fail_load` with the panic of a load that was stopped,
whose effects are still held (`PanicStopped`, `fiber.rs:1096`). Recovery then
cancels, publishes Unloading (`Recover`), drains what is held itself
(`RecoverDrain`) and ends the driver Failed (`Recovered`). The other calls from
the driver into foreign code cannot panic it: `flush_status` emits on the
fiber's own bus, where an error of a listener is caught and the event's name is not a
reserved one; the sink is called under a guard by `wait_events`, by the report of
a failed start and by the recovery. The sink that `end_copies` calls during a
drain belongs to definitions, which are not modelled. `MountOrphan` is
possible in the work listed in `Orphaned`, where the parent may have stopped;
in the work listed in `Returning` apply returns in any case, elsewhere only
once it is cancelled.

**`FiberLifecycle`** is what a fiber promises whoever watches it: start from a
clean slate, register, run, stop, clean up, rest; nothing after Disposed.
`Fiber` implements it under `held <- effects`.

**`Effects`** opens the two steps above: registrations with their lease and
second check, the record's claim, cleanup and three-part finish, joins with a
wakeup armed before the state is read, the unload that waits (or gives up),
takes the list, drains it from the end and then collects the kept errors.
`Active` stands for Loading too: both accept registrations. The factory's and
the cleanups' outcomes are free.

**`Subtree`** is a tree of fibers being torn down: a dispose that cascades from
a parent's mount records to its children, the public shutdown of a subtree with
its inner result and its coordinator, the release of a transient fiber, and the
root with `Ctx::shutdown`, its own dispose and the restart after one. A driver
is as coarse here as its neighbours can tell: `Fiber` has its inside. What runs
under the admission lock is one step, and so are `post`'s check of `alive` and
its send (`Fiber` takes them apart), and a mount's registration with the first
refresh. Loads do not fail and need no service; a fiber's own cleanups are one
possible error after its children's mount records; `wait_events` is in
`Effects`.

**`Session`** is one session of the bridge from both of its ends, which run the
same code over an ordered channel. Per end: the tables of calls waiting,
incoming and awaited, the cancellation marks, the export table with its grants,
the imports, the outbound queue, and the frame whose encoding holds the queue
lock. Actions are the steps of `send`, of the reader for each kind of frame, of
the writer, of the tasks that serve calls, of a future that is dropped, of an
`Import` that is dropped, and of `close` in its two halves (the flag, the
tables). A frame has a size and each queue a limit in bytes, which one frame may
pass if the queue is empty. What the queue refuses is lost at once, and whoever
sent it closes the session in a step of its own, without the queue's lock
(`CloseBehind`). A call served is in neither table between its task's taking it
from one and entering it in the other (`Start`, `Execute`), where a cancel does
not find it. A value is data, the sender's own object under a reference, or a
reference sent home. **`RemoteCall`** is what it promises of calls (served at
most once, a result only if there is one, an end is final), and `Session`
implements it under a map from the tables of both ends.

**`LoaderRows`** has the loader's records and the fibers behind them: the rows
wanted, the record of a row's fiber with the token of its spawn, the contexts
that groups register under their token, what the kernel does to the fibers
between two steps of the loader (load, fail, restart, end, a group's children
in the order its unload takes them), and the monitors. **`Loader`** adds the
operations under the operation lock: `edit` with its rollback, `flush`,
`reconcile`, `reconcile_inner` cut at each of its awaits, `persist_queue` with
its conflicts, reloads and replays, another program that writes the store, and
the caller that drops its future at any await. An edit acts on a layer as a map
from rows to (disabled, config, inject); `inject` stands for all of a row's
scope, whose change rebuilds it. The store's version is its content, as
`rutis-dsh` (a hash of it) and `rutis-host` (the text) have it, so a store
written back to what it was is no conflict. A group's apply and what it
registers is one step. Jobs and faults are chosen at the start, in `work`.

**`WaitGraph`** is the host's table of the calls it forwarded between sessions
as a value: chains with their rebasing and decoding, the three kinds of edges
of `cycle_among` (a call made under it, the calls that keep a non-reentrant
runtime from it, what started above it on one stack), and the cycle that one
more hop would close. **`SyncWaits`** is what happens around it: runtimes with
their stack of activations, each perhaps blocked in a synchronous call, and the
calls they put aside; one ordered channel each way; the host's reader per
session, which marks a call and hands it to the thread that waits for its chain
or to a task; relays and row services, which forward synchronously or not; the
host's own calls; calls given up, and sessions that end with a reader in the
middle of a call. What waits for what *in truth* (`RealWaits`: a blocked
activation, all that is under another on one stack, a call put aside, a host
thread with what it runs and what it was handed) is defined from those, and never
from the table. `n1`, `n2` stand for Node (one stack, runs only its chain's
calls while it waits), `p` for Python (one stack, runs any call), `g` for a
runtime with a thread for each call. A task forwards at most one call, and a
host service is a task that forwards.

**`MCFiber`, `MCEffects`, `MCSubtree`, `MCSession`, `MCLoader`, `MCSyncWaits`**
give the constants values. The proofs about `Fiber` are in **`FiberProofs`**, in
three parts (types, generations and the lifecycle; intents, results and joins;
the gate against the slot); those about `Effects` in **`EffectsProofs`**; those about
`Session` in **`SessionProofs`** (calls) and **`SessionGrantProofs`**
(references), which extends it; those about `Subtree` in **`SubtreeProofs`**;
those about the loader in **`LoaderRowsProofs`** (tables, types and what the rows
follow) and **`LoaderProofs`** (edits, what runs and what callers are told), which
extends it; **`WaitGraphProofs`** has those about chains.

## The runs

| run | instance | question |
|---|---|---|
| `fiber_changes` | 3 calls: withdraw and provide with a dispose, restart, shutdown or second withdraw; two jobs under a parent that may have stopped | is a consumer ever missed, a wakeup lost, a generation started over another? is the lifecycle implemented? |
| `fiber_calls` | 3 calls: six mixes of dispose, shutdown, restart and settle, three of withdraw with them | do stops win, return, agree on one result, reach the generation they are for? does every call return, whatever the driver's end (dispose, shutdown, panic)? |
| `effects` | 2 records, 2 disposers on the first, 2 generations | once each, in order, with each error reported once; does every drain return? |
| `subtree` | the root, a child and its child, any of whose cleanups may fail; 7 meetings of 2 or 3 calls | does anything mounted outlive its parent or a shutdown, is every error heard, do dispose and shutdown of the root agree, does every stop return? |
| `session` | 2 ends, 2 calls, an object of one end, a close by one end at any time | is a frame ever taken for a breach, are grants balanced, is a call left behind by a close, is it answered once, is anybody left hanging by a far end that does not read or a session that ends? |
| `loader` | a group, a row in it and one beside it; 2 callers; 13 scenarios of jobs and faults | do rows, records, store and answers agree, is a row disabled only by itself, does every operation return? |
| `sync_waits` | `n1`, `n2`, `p`, `g`, two or three of them at a time; 8 cases of up to 3 threads of plugin code, 3 synchronous calls, and one call of another kind | does a call ever wait for itself, is one refused that could run, does anything run on a thread that waits for another chain, is the table what is in progress, does every thread come free? |
| `sync_waits_pumped` | `n1` and `p`, 3 synchronous calls and an asynchronous one | a cycle that the table does not see |
| `orphan`, `restart`, `withdraw`, `withdraw_closing` | 3 calls each | four places where the kernel does not do what its documentation says |

*Bounds.* Callers make one call each; nothing else is bounded in `Fiber`: the
number of generations, restarts and intents follows from the calls. Two calls
suffice for each race (one registers, one overtakes), a third lets the driver
be busy with somebody else's intent, or a withdrawal meet a new provide and a
stop. Two quadruples let a provide yield the old dependency set or a new one.
The unload of a generation and the load of the next happen in every job.
`Effects` needs two records for the order and for a late one beside a listed one, two
disposers on one record for a claim against a join beside the unload's, and two generations for
a registration that outlives its own (`MaxGen = 2`).
In `subtree`, two levels under the root let a stop above meet one below, and
let a mount race both. A shutdown under which a fiber sits below one that was
gone before needs a third level, which the run does not have; the theorems cover every tree. In `session`, a second call lets a reference be granted
while its first release is on its way, and lets a call of one end meet the
other's; a channel of one frame lets the queue fill up. Frames with a
value have 3 bytes, others 1; the host's limit of 2 is below one frame, so that such
a frame passes only an empty queue, and the far end's of 5 takes one and two short
ones. In
`loader`, the scenarios bound how often each fault strikes (four writes by
another program exhaust the three retries; two are needed for a replay that
loses its place), and a group with one row is enough for a group's going to be
told from a row's own end. In `sync_waits` each case says which sessions are
there and how often plugin code starts by itself, calls, gives up, and sessions
end; what follows from that is unbounded. Three synchronous calls are the
fewest that let a stack-order edge close a cycle over two runtimes, and let
three runtimes wait in a ring. Four and five calls over `n1`, `n2` and `p`, and
four over `n1`, `n2` and `g`, were tried with the invariants alone and hold,
but take too long with the liveness property. The cases with an asynchronous
call, a call given up or one back home are those small enough that the cycles
described below do not fit in them.
Types are not a run's question of their own: `TypeOK` is a conjunct of an
invariant of the run, or, for `Fiber`, proved (`TypeCorrect`).
In `Fiber` and `Effects` `CHECK_DEADLOCK` stays on: the step `Rest` is possible only when the driver
waits with an empty mailbox, or has ended, and every started call has returned. A tree
that is shut down, a closed session and a loader with no jobs left stop, so
`subtree`, `session`, `loader` and `sync_waits` say `CHECK_DEADLOCK FALSE` and have a
liveness property each.

*Fairness.* `Scheduled` asks only that the runtime polls the driver task, the
mount and a call once made (tokio runs ready tasks); making a call is never
required. How `apply` behaves is the plugin's own affair. `FairSpec`
assumes that it returns once its token is cancelled, which is what
`ctx.cancelled()` asks of plugins (D7, D27), and under this weaker assumption
every dispose and shutdown returns. In the work listed in `Returning` it is
assumed to return in any case, and `CallsReturn` is about that work: a settle
behind a start that never ends cannot return. In `Effects`,
factories and cleanups end and tasks are polled; the deadline of
`wait_events` may strike or not. In `Subtree` drivers, mount
cleanups, coordinators and joins are polled, and a load ends once cancelled. In
`Session` an end that has a frame to make or to write, a call to serve, a future
that is ready, a dropped reference or a session to end does some of it, so
handlers return; that a call is made, given up or a session closed is never
required, and neither is it that an end *reads*: `NobodyHangs` promises a call's end only
while what was sent to an open end has been read, and all the rest without it. In `Loader` a held operation, the monitors and the fibers are driven
(a row listed as stuck returns only when cancelled), and who waits for the
operation lock gets it (`SF` on a job's start: tokio's mutex is fair); faults
and giving up are never required. In `SyncWaits` something that can happen in a
runtime, a reader or a task or thread of the host does, and plugin code returns;
without the cycle check nothing more could happen while threads are blocked,
which is what `ThreadsComeFree` is about.

### What the violations show

- `orphan`. `mount_fiber` posts a `Dispose` without a terminal task when the
  parent has stopped. The driver looks for the terminal task, finds none, and
  clears `alive` later; a `dispose()` that registers in between posts into a
  mailbox that is about to be swept, whose `Dispose` carries no task, and sees
  `alive` still true. It waits for ever.
- `restart`. A restart that passed its check before the dispose, and posts
  after it, is answered by `stopped_error` or by the sweep with the dispose's
  result: `Ok` after a clean dispose, where its doc says `InactiveEffect`.
- `withdraw`. The consumer's re-check is a no-op when the key was provided
  again with the same quadruple; the withdrawal then finishes while the generation
  that it found, and cancelled, still runs.
- `withdraw_closing`. A withdrawal joins the own shutdown of a consumer that is
  closing. If the consumer begins to close after the withdrawal looked, the
  re-check it posted finds `closing` set and returns at once (`fiber.rs:845`); the
  withdrawal then removes the binding while the generation still runs, until its
  driver comes to the shutdown behind. `NoConsumerMissed`, which holds, leaves a
  closing consumer out and says so; `ConsumerStopsFirst` does not.
- `sync_waits_pumped`. A runtime, called synchronously by another, makes an
  asynchronous call of that one's relay and then a synchronous call. Both go
  to the host thread that waits for the first caller; it runs the asynchronous
  one first and forwards it synchronously. If that calls back, the call is put
  aside, because its runtime waits for the synchronous call, which waits for
  the thread: it was not forwarded yet, so the table has no hop for it.
  `docs/guarantees.en.md` (`bridge/sync-wait-cycle-refused`) says that such a
  cycle is refused. It names one exception, runtimes that do not mark their
  synchronous calls; all runtimes mark them here.

Seen while modelling, without a run of its own:

- The root restarted while Active unloads, finds no plugin to load, and stays
  Pending until it is disposed and restarted (`fiber.rs:848`, 1301-1318); the
  doc of `restart` says "Unload cleanly and load again" (`fiber.rs:1995`).
- A fiber can load before it is mounted. `load` looks only at what closes
  (`fiber.rs:905`), while a provider's notification reaches the fiber from its
  spawn on (`fiber.rs:1699`), and so does a restart through its id
  (`ctx.rs:1205`). If its parent ends in between, it runs under a parent that is
  over until `mount_fiber` disposes it (`ctx.rs:1118-1130`), where the doc of
  `plugin` says that it "unloads with the parent" (`ctx.rs:995`), and the error of its
  last cleanup goes only to the log. `NothingOutlives` and `ErrorsHeard` are
  therefore stated of mounted fibers.
- A shutdown does not wait for a fiber that is being mounted under one that was
  off its parent's list when the shutdown came: `b` is disposed while `c` is mounted in
  it, then `a`, above `b`, is shut down and returns, and `c` ends later.
  `ShutdownMeansGone` says that this is the only exception.
- A caller that gives up in `commit` leaves its edit in the layer in memory,
  neither pending nor undone, and the next save writes it as if it were part of
  another's; one that gives up in a replay loses the edits taken from the queue
  with no `PendingEditDropped`. `SavesItsEdits` and `RunsWhatTheLayerSays` are
  therefore stated of runs in which nobody gave up. `rutis-host`'s `RowsFile`
  writes only the edits (`rows_file.rs:64-85`), where `Persist` says that these
  give the patches (`persist.rs:27-28`).
- A caller that gives up during an update leaves the kernel with the new config
  and the record with the old one; a later edit back to the old one then
  changes nothing.
- After a conflict whose replay refused the caller's edit, a second conflict
  whose load fails answers `PersistFailed` and not the edit's own error
  (`commit.rs:416`): the caller takes it for live and pending, and it is
  neither. It needs two conflicts and a failing load and save in one run, which
  no scenario of `loader` has; the last part of `AnswersAreTrue` would fail.
- A call that was running when its session closed encodes its result after the
  teardown took the tables (`rpc.rs:3033`): the export it grants stays in a
  closed session, which the teardown's comment excludes (`rpc.rs:1643`).
  `ClosedKeepsNoCall` is about calls and says nothing of exports.
- The wait graph loses sight of a call in three more ways, each found by TLC
  with one more call, or thread of plugin code, than the case of `sync_waits` has. `cancel` takes the host's own
  call out of the table at once (`rpc.rs:2047`), though a reentrant far end may
  have it on top of another call's wait. `reply_target` takes a call out as its
  reply is read (`rpc.rs:2493`), before the thread that waits for it has run what
  it was handed first. And a function of the caller's own, called back on its
  chain, is not recorded (`waits.rs:198`), though a reentrant runtime may run it
  on top of a call that arrived in between. A call made there closes a cycle unseen.
- A reader that had checked `closed` before `close` ran marks its call after
  `ended` dropped the session's marks (`rpc.rs:2790`); the close that it then
  asks for returns at once, and the mark stays. `TableIsCurrent` leaves out the
  marks of sessions that ended.

## What is proved

`FiberProofs`, for every `Callers`, `Work`, `Quads`, `Orphaned`, `Returning` and `Boot`
that `FiberAssumption` allows (the named constants are distinct from the
values they stand beside, and each piece of work gives each caller an
operation):

- `TypeCorrect`: `Spec => []TypeOK`, by one lemma per group of actions;
- `StopReaches`: `Spec => []StopReachesToken`;
- `OneGenerationHeld`: `Spec => []OneGeneration`;
- `NothingAfterStop`: `Spec => NoStartAfterStop`;
- `Implements`: `Spec => Lifecycle`, the refinement of `FiberLifecycle`.

`OneGeneration` is not inductive: that no cleanup is left when the driver
publishes a resting state depends on where the driver came from. `IInv` adds
`Phases`, three facts about `pc`: which states the driver can be in at each
label (`PhaseOfState`), where a cleanup can be held (`PhaseOfEffects`) and where an
unload leads (`PhaseOfUnload`), also in the recovery of a panic, which may begin
with cleanups held. `StopReachesToken` is a conjunct of it,
since only `Load` can break it and `Load` is guarded by `Loadable` and
starts a generation cancelled when a restart waits. `Init => IInv` and
`IInv /\ [Next]_vars => IInv'` are proved group by group (`PhaseInit`,
`PhaseRefreshing`, ..., `Inductive`); the theorems follow from it. The refinement uses
`IInv` to show that each step of the driver that changes state, generation or
cleanups is one of the contract's.

Its second part, for any number of callers:

- `NoStoppedLoadFails`: `Spec => StoppedLoadNeverFails`;
- `StopsTellOneResult`: `Spec => OneResult`;
- `NobodyForgotten`: `Spec => [](op \notin Orphaned => NoJoinForgotten)`.

None of the three can be seen from the fiber's state alone: a joined caller is
safe because its intent is somewhere. `CallInv` therefore follows each intent
from the caller that registered it through the mailbox into the driver's hands
(`Mail`, `InHand`, `Unloads`), says who waits for whom and who has been
answered, and counts the restarts that are on their way against
`pendingRestarts`. The condition `op \notin Orphaned` of the third theorem is
not a convenience: without it the property is false, which is what the run
`orphan` shows.

Its third part, likewise:

- `WithdrawalSeesItsConsumer`: `Spec => []NoConsumerMissed`;
- `NothingLeftToDo`: `Spec => []Settled`.

`GateInv` binds a running generation to the binding that it passed the gate
with for as long as that is in its slot, and says of a withdrawal that has gone
past `consumers_of` that no generation runs with what it removes, unless the
fiber closes (`Withdraws`). `WakeInv` is about the other
direction: as long as no caller has still to notify the fiber and no refresh is
in the mailbox, what the driver recorded is what the slot holds. A binding is
told from a later one with equal dependencies by who provided it, so the proof
needs `Boot.by = NoTask`: the binding there at the start was provided by none
of the callers that are still to provide.

`EffectsProofs`, for every `Records`, `Disposers`, `Of` and `MaxGen`:

- `StragglersCleaned`: `Spec => []NoStragglers`;
- `CleanedOnce`: `Spec => []CleanedExactlyOnce`;
- `ErrorsReported`: `Spec => []EachErrorReportedOnce`;
- `LastFirst`: `Spec => LastRegisteredFirst`.

The invariant `IInv` says where each record of the generation is: still listed,
taken by the unload, joined by it, or past, with its error then kept or
collected and nowhere else (`Placed`). The counter of leases is the number of
registrations under way (`Counted`), which is what makes a refused registration
clean up before the unload goes on; and the list, then what was taken of it, is
in the order of registration (`Ordered`), of which a record may be missing only
when it is past. `LastFirst` is an action property that needs the last part.

`SessionProofs`, for any two ends and every `MaxCalls`, `Size`, `Limit`, `Capacity`,
`Exporter` and `Closer` (`SessionAssumption`: two ends, frames of at least a byte,
a channel that holds at least one frame):

- `ClosedEndIsEmpty`: `Spec => []ClosedKeepsNoCall`;
- `SessionServesCalls`: `Spec => IsRemoteCall`, the refinement of `RemoteCall`.

`CallInv` follows a call from the draft under its end's lock over the channel
to its handler and back. That a call made while the session closes is not left
behind rests on the lock: a draft of a call is there only while its end is not
`closed`. The refinement needs, for each step of the reader, what the frame it
reads says of both ends: a call that was made and not yet served, a reply of a
handler that has answered.

`SessionGrantProofs`, under the same assumption:

- `NothingIsRefused`: `Spec => []NothingRefused`;
- `GrantsBalance`: `Spec => []GrantsCounted`, with the types of all tables.

The balance of `GrantsCounted` holds only while both ends are open and neither
has lost a frame, and says nothing of what is read in which order, so it is not
inductive. `BookInv` adds: while an end is open, its export has at least the
grants that are owed for it, and exactly those while the other end is open too
and no frame was refused (`Owes`); a reference that is
on its way home is still exported when it is read, whatever is given back
before it (`Lasts`: the grants exceed those that are on their way out or given back
*ahead* of it, since its sender keeps the Import until the frame is queued); calls are read in
the order of their ids and there is at most one reply for each (`Ordered`); an
end that is to be answered has the waiter or the mark that it gave up
(`Expected`); and every reference in a frame, a draft or a table was given out
(`Granting`, `Holding`, `Named`, `Imported`). The sums over lists are
cardinalities of sets of pairs, so that they can be reasoned about without
induction: the first lemmas say what a number more, a number less and a prefix
do to a sum.

`SubtreeProofs`, for every tree, every `Failing` and every
sequence of calls (`SubtreeAssumption`: no fiber is above itself, and `NoTask`
is no task):

- `NoneOutlivesItsParent`: `Spec => []NothingOutlives`;
- `OneRootResult`: `Spec => []RootStopsAgree`;
- `ShutdownsEndTheirSubtree`: `Spec => []ShutdownMeansGone`;
- `NoErrorIsLost`: `Spec => []ErrorsHeard`.

Each of the first three speaks of two fibers at a distance, and is kept by what holds
between neighbours. `IInv` says which intents can be in a fiber's mailbox
(`Mail`), where its driver is with which of them and what the fiber's state
then is (`Drivers`), that a fiber lists each mount record that it has to drain
once and has none when it is over or between two generations (`Links`), and
that a record is done, and the end and the shutdown of a fiber are, only when
its driver has left, the shutdown only when those of the children it awaits
are done (`Records`). The root's part, `RootInv`, is that it leaves only for a
shutdown and gives its dispose the same result. So a fiber that runs has a
record that is not done, hence its parent is neither over nor between generations; and
a shutdown that is done leads down the awaited lists to every fiber it found. That
descent is an induction down the tree; `Above` is defined as the least set
closed under `Parent`, so that it can be made by giving the set
(`Descent`) and needs no recursive definition.

`NoErrorIsLost` follows an error until somebody is told of it, and needs to know
who asked for every end. That is `Heard`: a caller joins one task, and a task
registered for a caller is the one it joined (`Asking`); what is Disposed, or is
about to be, has an end (`Ending`), and its error is in the results of that end
and of its shutdown (`Failure`). An end that no caller registered is the
cascade of the parent, whose record then reports the error to the sink
(`Cleanup`), or belongs to a shutdown that was asked for, of the fiber or above
it (`AskedAbove`), which holds the results of all that it awaits (`Results`). A
caller whose task is done was given that result (`Told`). A restart, or the
root's dispose, that a driver handles has a caller that waits for it
(`Restarts`, `RootMail`, `RootStops`). Hence nothing drains when no caller
waits: a drain that waits for a record has a cause above it, and the climb to
that cause ends at a caller. So the record that was to report is done, and has
reported. Most steps change one or two fibers, and `Heard` is stated of one
fiber and its parent at a time; `Around` says once what such a step leaves alone.

`LoaderRowsProofs`, for every tree of rows, every set of callers, configs and
scopes, and every scenario of jobs and faults, so without the bounds of the run
(`TreeAssumption`: a row comes after its group in the file; `ScenarioAssumption`:
the rows of the start are there and on, because `Init` has them all running):

- `WellTyped`: `Spec => []TypeOK`;
- `InTheirGroup`: `Spec => []RowsInTheirGroup`;
- `OnlyItself`: `Spec => []OnlyItselfDisables`;
- `NoneForgotten`: `Spec => []NoFiberForgotten`.

None is inductive. `Rowed` relates the three tables that the loader, its
monitors and the kernel change between each other's steps: a record names a
fiber of its row, in the context that its group registers now; a context is
registered for as long as the record of its group names the fiber that
registered it; a fiber that has no record is ending, or is in a group that
unloads, whose cleanup ends it. Six of the steps drop records with all that is
below them, so `Dropping` says once what such a step must respect, and each of
them is shown to; `Spawned` does the same for the steps that spawn. `Typing` has
the types of an operation at each place, and `Followed` from which place on the
rows follow the layer that is wanted, and who is excused from it. `Base` is the
three together. `Above` (what a row is in) and `Under` (what is dropped with a
context) are defined as least sets, so that an induction along the tree is made
by giving the set; an induction over a recursive function (`Replay`, `Doomed`)
takes the least number at which it fails (`Least`).

`LoaderProofs`, under the same assumptions:

- `ItsEditsAreSaved`: `Spec => []SavesItsEdits`;
- `RunsTheLayer`: `Spec => []RunsWhatTheLayerSays`;
- `AnswersTrue`:
  `Spec /\ [][NoLoadFailsAfterRefusal]_vars => []AnswersAreTrue`.

`Replayed` says that the layer in memory is the queue made to the version the
loader expects, except while an edit is tried, where the layer to go back to is.
`Running` says what runs while no
operation is under way, or while one is past the place where the rows
follow: a row that is not as the layer says has been excused by a fiber that
ends, which another operation or a monitor has still to see. For the
answers, `Mine` says that the edit an operation takes for its own is its own,
wherever conflicts and replays have moved it, and `Answers` where the edit of a
caller that waits can be: in hand, in the queue, ahead in a replay, redone, or refused
(`First`, `InSave`, `Replays`). `Carries` is what an operation owes to the edits of
the callers it does not serve. The hypothesis of the third theorem leaves out the one
case in which the code answers what is not so, described above under *Seen while
modelling*: a second conflict whose load fails after the caller's edit was
refused (`commit.rs:416`). Every scenario of the run `loader` satisfies it.

`WaitGraphProofs`, for any sessions and any chain: `RebaseNamesTheSameCalls`
(a chain handed on to another session names the same calls there, in their
order) and `OwnCallsAreItsOwn` (it writes exactly that session's calls as its
own, so that equal numbers of two sessions are never confused). Both go by the
three cases of an entry: of the target session, of the sender's, of a third.
`NestedUnderItsWait` rests on them.

*Only model-checked:* `RestartReportsItself` and `ConsumerStopsFirst` are false
(see the violations). `SyncWaits` has no theorem: its invariants relate many
activations of several runtimes, and no inductive strengthening of them has been
written. The liveness properties (`StopReturns`, `CallsReturn`, `DrainReturns`, `StopsReturn`, `NobodyHangs`,
`OperationsReturn`, `ThreadsComeFree`) rest on fairness and ENABLED, which this
prover does not handle, so they stay with TLC.

## Not modelled, and why

In `Fiber`: `update` and `set_config` (a restart that also stores a config),
the status event queue, `watch_waiting` and the messages to the error sink. In
`Subtree`: failing loads, services, the deadline of a bounded wait. In
`Session`: the handshake, streams and events, and values refused by
`decode_args`; its calls are asynchronous. In `SyncWaits`: a Node
session opened with `answersWaiting`, as its test harness does, which while it waits
runs any synchronous call (`session.mjs:776`) where `Admissible` asks for its chain;
awaits with their origins and the claim
of queued work by a call that waits for them, calls to a runtime's own services (they do not
reach the host), a Python thread other than the loop's, event keys that hold a
call back, the host's bounded executors, and the rows named in the error. In the loader: instances of instanced groups, names that do not
resolve, configs refused without running, updates without a restart (volatile
paths), move and rename with the ownership rules, reload, and the loader's own
restart or the host's shutdown under it. In the kernel: definitions, the event
bus, writers, several services at once. The host, the runtimes' processes and
pipes, parsing and merging of row files, native libraries and the other
languages are I/O, data code or applications. The hazards of these parts are
listed in `PROJECT.json`, with the module planned for them where there is one.

## Plan

1. *(done)* `Fiber`, `FiberLifecycle`, `Effects`, `FiberProofs`.
2. *(done)* `Subtree`: cascading dispose, subtree and root shutdown.
3. *(done)* `Session` with its abstract `RemoteCall`.
4. *(done)* `LoaderRows`, `Loader`.
5. *(done)* Proofs of every safety property of `Fiber`, `Effects`, `Session`,
   `Subtree` and `Loader` that the code keeps.
6. `Services`: several fibers that provide to and need each other, several
   keys, a `ServiceWriter` bound to its generation. Abstract: a consumer's
   generation never runs past its provider's, unless the slot was taken over.
7. *(done)* `WaitGraph`, `SyncWaits`, `WaitGraphProofs`. Left of it: awaits with
   their origins; types and the soundness of the table's hops (`TableIsCurrent`
   without closing sessions) as theorems.
8. `Supervise`: the restart window and its wait; `Definition`: copies and
   origins.
