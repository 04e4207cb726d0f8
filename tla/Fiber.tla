------------------------------- MODULE Fiber -------------------------------
(***************************************************************************)
(* One plugin fiber of the kernel: its driver task, its mailbox of         *)
(* intents, and the callers that dispose, restart, await or shut it down,  *)
(* or that withdraw and provide the service it depends on.                 *)
(*                                                                         *)
(* The driver handles one intent at a time; everything a caller does is    *)
(* cut where the code releases a lock, so a caller can be overtaken        *)
(* between its check of `alive` and its send, between the registration of  *)
(* a dispose and the intent that carries it, and between finding a         *)
(* consumer and cancelling it.                                             *)
(***************************************************************************)
EXTENDS Naturals, Sequences, FiniteSets

CONSTANTS
  Callers,   \* the calls made on the fiber; each makes one, its task is named after it
  Work,      \* which operations the callers make: a set of functions on Callers
  Quads,     \* what `resolve_deps` can yield: (provider, generation, key, scope) sets
  Orphaned,  \* the work in which the mount may find its parent already stopped
  Returning, \* the work in which apply returns in any case, not only when cancelled
  Boot,      \* the binding there before any call, of none of the callers
  NoTask,    \* no TransitionTask
  NoDeps     \* no dependency set: `last_deps` is None, or a dependency is missing

Ops == {"dispose", "restart", "settle", "shutdown", "withdraw", "provide"}

VARIABLES
  (* what the transition lock guards *)
  state, gen, err, terminal, pendingRestarts, preCancelled,
  (* the rest of the fiber *)
  cancelled,   \* is the current generation's token cancelled?
  closing, alive, open, mailbox, lastDeps, effects, mount,
  (* the driver: where it is, the intent in hand, the dependencies it loads, *)
  (* where an unload leads and continues, and whether a cleanup failed       *)
  pc, cur, deps, next, then, before, dirty,
  (* the registry slot of the service the fiber needs *)
  slot,
  (* the callers: their operation, where they are, the task they join, the   *)
  (* binding they withdraw, the generation found bound to it; every task's   *)
  (* result                                                                  *)
  op, cpc, joined, mine, found, result,
  (* the binding the running generation passed the gate with *)
  gated

transition == <<state, gen, err, terminal, pendingRestarts, preCancelled>>
driver == <<pc, cur, deps, next, then, before, dirty>>
calls == <<op, cpc, joined, mine, found>>
body == <<cancelled, closing, alive, open, mailbox, lastDeps, effects, mount>>
fiber == <<transition, body, driver>>
outside == <<slot, calls, result, gated>>
vars == <<fiber, outside>>

-----------------------------------------------------------------------------
(* Values *)

States == {"Pending", "Loading", "Active", "Failed", "Disposed", "Unloading"}
Errors == {"none", "start", "cleanup", "panic"}
Results == {"running", "closed", "inactive"} \cup Errors   \* "none" is Ok(())
Kinds == {"refresh", "join", "settle", "restart", "dispose", "shutdown"}
Tasks == Callers \cup {NoTask}
Intents == [kind : Kinds, task : Tasks]
Bindings == [quad : Quads, by : Tasks, removing : BOOLEAN]

Refresh == [kind |-> "refresh", task |-> NoTask]
NoBinding == [quad |-> NoDeps, by |-> NoTask, removing |-> TRUE]

ASSUME FiberAssumption ==
  /\ NoTask \notin Callers
  /\ NoDeps \notin Quads
  /\ Work \subseteq [Callers -> Ops]
  /\ Orphaned \subseteq Work /\ Returning \subseteq Work
  /\ Boot \in Bindings \cup {NoBinding} /\ Boot.by = NoTask

(* resolve_deps, of a provider that stays active: its binding is there and  *)
(* is not being removed.                                                    *)
Resolve == IF slot.removing THEN NoDeps ELSE slot.quad

Same(b, c) == b.quad = c.quad /\ b.by = c.by

(* a call of shutdown() registers and posts under the admission lock *)
AdmissionFree ==
  \A c \in Callers : ~ (op[c] = "shutdown" /\ cpc[c] \in {"check", "send"})

Complete(t, r) == result' = IF t = NoTask THEN result ELSE [result EXCEPT ![t] = r]

-----------------------------------------------------------------------------
(* The driver: drive() and what it calls *)

Take ==
  /\ pc = "recv"
  /\ mailbox # <<>>
  /\ cur' = Head(mailbox)
  /\ mailbox' = Tail(mailbox)
  /\ pc' = IF cur'.kind \in {"refresh", "join"} THEN "refresh" ELSE cur'.kind
  /\ UNCHANGED <<transition, cancelled, closing, alive, open, lastDeps, effects,
                 mount, deps, next, then, before, dirty, outside>>

(* back to the mailbox *)
Idle == pc' = "recv" /\ cur' = Refresh

Settle ==
  /\ pc = "settle"
  /\ Idle
  /\ Complete(cur.task, IF state = "Failed" THEN err ELSE "none")
  /\ UNCHANGED <<transition, body, deps, next, then, before, dirty, slot, calls,
                 gated>>

(* Start unload(n), to continue at k. *)
UnloadTo(n, k) ==
  /\ pc' = "unload"
  /\ next' = n
  /\ then' = k

Goto(p) == pc' = p /\ UNCHANGED <<next, then>>

RefreshUnlessClosing ==   \* mutant of RefreshOpen
  /\ pc = "refresh"
  /\ Goto(IF closing THEN "refreshed" ELSE "terminal")
  /\ UNCHANGED <<transition, body, cur, deps, before, dirty, outside>>

(* refresh_deps, its early returns: a closing fiber's shutdown ends it, and *)
(* a withdrawal that joined this refresh does not wait for that.            *)
RefreshOpen ==
  /\ pc = "refresh"
  /\ Goto(IF closing \/ state = "Disposed" THEN "refreshed" ELSE "terminal")
  /\ UNCHANGED <<transition, body, cur, deps, before, dirty, outside>>

(* A registered dispose: unload_for_dispose, ahead of its queued intent. *)
RefreshTerminal ==
  /\ pc = "terminal"
  /\ IF terminal # NoTask THEN UnloadTo("Disposed", "refreshed") ELSE Goto("gate")
  /\ UNCHANGED <<transition, body, cur, deps, before, dirty, outside>>

GateMissing ==
  /\ pc = "gate"
  /\ Resolve = NoDeps
  /\ IF state = "Active" THEN UnloadTo("Pending", "refreshed") ELSE Goto("refreshed")
  /\ UNCHANGED <<transition, body, cur, deps, before, dirty, outside>>

GateUnchanged ==
  /\ pc = "gate"
  /\ Resolve # NoDeps
  /\ lastDeps = Resolve
  /\ Goto("refreshed")
  /\ UNCHANGED <<transition, body, cur, deps, before, dirty, outside>>

GateChanged ==
  /\ pc = "gate"
  /\ Resolve # NoDeps
  /\ lastDeps # Resolve
  /\ deps' = Resolve
  /\ IF state = "Pending" THEN Goto("load") ELSE UnloadTo("Pending", "load")
  /\ UNCHANGED <<transition, body, cur, before, dirty, outside>>

LoadableUnlessClosing == ~ closing   \* mutant of Loadable

(* load: refused once the fiber closes or a dispose is registered ... *)
Loadable == ~ closing /\ terminal = NoTask

LoadRefused ==
  /\ pc = "load"
  /\ AdmissionFree
  /\ ~ Loadable
  /\ Goto("refreshed")
  /\ deps' = NoDeps
  /\ UNCHANGED <<transition, body, cur, before, dirty, outside>>

StartsLive == FALSE   \* mutant of StartsCancelled

(* ... else a new generation, its token cancelled already if a restart waits. *)
StartsCancelled == pendingRestarts > 0

Load ==
  /\ pc = "load"
  /\ AdmissionFree
  /\ Loadable
  /\ preCancelled' = StartsCancelled
  /\ cancelled' = preCancelled'
  /\ gen' = gen + 1
  /\ err' = "none"
  /\ state' = "Loading"
  /\ Goto("bind")
  /\ UNCHANGED <<terminal, pendingRestarts, closing, alive, open, mailbox,
                 lastDeps, effects, mount, cur, deps, before, dirty, outside>>

(* Record the dependencies first ... *)
Bind ==
  /\ pc = "bind"
  /\ lastDeps' = deps
  /\ Goto("regate")
  /\ UNCHANGED <<transition, cancelled, closing, alive, open, mailbox, effects,
                 mount, cur, deps, before, dirty, outside>>

GateUnchecked == TRUE   \* mutant of GateHolds

(* ... then check the gate again (#620). *)
GateHolds == Resolve = deps

Regate ==
  /\ pc = "regate"
  /\ IF GateHolds
     THEN /\ Goto("build")
          /\ gated' = slot
          /\ UNCHANGED deps
     ELSE /\ UnloadTo("Pending", "refreshed")
          /\ deps' = NoDeps
          /\ UNCHANGED gated
  /\ UNCHANGED <<transition, body, cur, before, dirty, slot, calls, result>>

(* build and validate, then apply starts; what it registers is from here   *)
(* on the generation's to clean up.                                        *)
Build ==
  /\ pc = "build"
  /\ \/ Goto("fail") /\ UNCHANGED effects
     \/ Goto("apply") /\ effects' = effects \cup {gen}
  /\ UNCHANGED <<transition, cancelled, closing, alive, open, mailbox, lastDeps,
                 mount, cur, deps, before, dirty, outside>>

ApplyOk ==
  /\ pc = "apply"
  /\ IF closing THEN UnloadTo("Disposed", "refreshed") ELSE Goto("adopt")
  /\ deps' = NoDeps
  /\ UNCHANGED <<transition, body, cur, before, dirty, outside>>

ApplyErr ==
  /\ pc = "apply"
  /\ Goto("fail")
  /\ UNCHANGED <<transition, body, cur, deps, before, dirty, outside>>

(* apply reports a dependency its strict read found unavailable: it was     *)
(* withdrawn after the gate, and may be back by now.                        *)
ApplyLost ==
  /\ pc = "apply"
  /\ slot # gated
  /\ UnloadTo("Pending", "lost")
  /\ deps' = NoDeps
  /\ UNCHANGED <<transition, body, cur, before, dirty, outside>>

ApplyReturn == ApplyOk \/ ApplyErr \/ ApplyLost

(* Rolled back: if the dependency is back by now, check it again. *)
Lost ==
  /\ pc = "lost"
  /\ mailbox' = IF Resolve # NoDeps THEN Append(mailbox, Refresh) ELSE mailbox
  /\ Goto("refreshed")
  /\ UNCHANGED <<transition, cancelled, closing, alive, open, lastDeps, effects,
                 mount, cur, deps, before, dirty, outside>>

(* The dependencies may have been replaced during apply: resolve them ... *)
Adopt ==
  /\ pc = "adopt"
  /\ deps' = Resolve
  /\ Goto("adopted")
  /\ UNCHANGED <<transition, body, cur, before, dirty, outside>>

(* ... and record them, unless one is missing. *)
Adopted ==
  /\ pc = "adopted"
  /\ lastDeps' = IF deps = NoDeps THEN lastDeps ELSE deps
  /\ deps' = NoDeps
  /\ Goto("activate")
  /\ UNCHANGED <<transition, cancelled, closing, alive, open, mailbox, effects,
                 mount, cur, before, dirty, outside>>

Activate ==
  /\ pc = "activate"
  /\ err' = "none"
  /\ state' = "Active"
  /\ Goto("refreshed")
  /\ UNCHANGED <<gen, terminal, pendingRestarts, preCancelled, body, cur, deps,
                 before, dirty, outside>>

(* fail_load: a generation that is being stopped unloads instead. *)
FailStopped ==
  /\ pc = "fail"
  /\ AdmissionFree
  /\ preCancelled
  /\ UnloadTo(IF terminal # NoTask THEN "Disposed" ELSE "Pending", "refreshed")
  /\ deps' = NoDeps
  /\ UNCHANGED <<transition, body, cur, before, dirty, outside>>

FailLoad ==
  /\ pc = "fail"
  /\ AdmissionFree
  /\ ~ preCancelled
  /\ state' = "Unloading"
  /\ cancelled' = TRUE
  /\ pc' = "drain"
  /\ next' = "Failed"
  /\ then' = "refreshed"
  /\ UNCHANGED <<gen, err, terminal, pendingRestarts, preCancelled, closing,
                 alive, open, mailbox, lastDeps, effects, mount, cur, deps,
                 before, dirty, outside>>

(* unload: Unloading is published, then the token is cancelled ... *)
Unload ==
  /\ pc = "unload"
  /\ AdmissionFree
  /\ state' = "Unloading"
  /\ cancelled' = TRUE
  /\ Goto("drain")
  /\ UNCHANGED <<gen, err, terminal, pendingRestarts, preCancelled, closing,
                 alive, open, mailbox, lastDeps, effects, mount, cur, deps,
                 before, dirty, outside>>

DrainKeepingDeps ==   \* mutant of Drain
  /\ pc = "drain"
  /\ dirty' \in IF effects = {} THEN {FALSE} ELSE BOOLEAN
  /\ effects' = {}
  /\ Goto("publish")
  /\ UNCHANGED <<transition, cancelled, closing, alive, open, mailbox, lastDeps,
                 mount, cur, deps, before, outside>>

(* ... then drain_effects runs the cleanups, any of which may fail; a       *)
(* failed load keeps the dependencies it loaded with ...                    *)
Drain ==
  /\ pc = "drain"
  /\ dirty' \in IF effects = {} THEN {FALSE} ELSE BOOLEAN
  /\ effects' = {}
  /\ lastDeps' = IF next = "Failed" THEN deps ELSE NoDeps
  /\ Goto("publish")
  /\ UNCHANGED <<transition, cancelled, closing, alive, open, mailbox, mount,
                 cur, deps, before, outside>>

(* ... and the next state is published with its error. *)
Publish ==
  /\ pc = "publish"
  /\ state' = next
  /\ err' = CASE next = "Disposed" -> (IF dirty THEN "cleanup" ELSE "none")
              [] next = "Failed" -> "start"
              [] OTHER -> err
  /\ deps' = IF next = "Failed" THEN NoDeps ELSE deps
  /\ dirty' = FALSE
  /\ pc' = then
  /\ next' = "Pending"
  /\ then' = "recv"
  /\ UNCHANGED <<gen, terminal, pendingRestarts, preCancelled, body, cur,
                 before, outside>>

(* The intent behind a refresh is done. *)
RefreshedPlain ==
  /\ pc = "refreshed"
  /\ cur.kind = "refresh"
  /\ Idle
  /\ UNCHANGED <<transition, body, deps, next, then, before, dirty, outside>>

RefreshedJoin ==
  /\ pc = "refreshed"
  /\ cur.kind = "join"
  /\ Idle
  /\ Complete(cur.task, err)
  /\ UNCHANGED <<transition, body, deps, next, then, before, dirty, slot, calls,
                 gated>>

-----------------------------------------------------------------------------
(* The driver's Restart *)

RestartTaken ==
  /\ pc = "restart"
  /\ pendingRestarts' = IF pendingRestarts = 0 THEN 0 ELSE pendingRestarts - 1
  /\ IF closing
     THEN Idle /\ Complete(cur.task, "closed")
     ELSE pc' = "restartOpen" /\ UNCHANGED <<cur, result>>
  /\ UNCHANGED <<state, gen, err, terminal, preCancelled, body, deps, next,
                 then, before, dirty, slot, calls, gated>>

(* A dispose registered first wins. *)
RestartLost ==
  /\ pc = "restartOpen"
  /\ terminal # NoTask
  /\ IF state # "Disposed" THEN UnloadTo("Disposed", "inactive") ELSE Goto("inactive")
  /\ UNCHANGED <<transition, body, cur, deps, before, dirty, outside>>

RestartInactive ==
  /\ pc = "inactive"
  /\ Idle
  /\ Complete(cur.task, "inactive")
  /\ UNCHANGED <<transition, body, deps, next, then, before, dirty, slot, calls,
                 gated>>

RestartUnload ==
  /\ pc = "restartOpen"
  /\ terminal = NoTask
  /\ before' = gen
  /\ IF state # "Pending" THEN UnloadTo("Pending", "refresh") ELSE Goto("refresh")
  /\ UNCHANGED <<transition, body, cur, deps, dirty, outside>>

RestartDone ==
  /\ pc = "refreshed"
  /\ cur.kind = "restart"
  /\ Idle
  /\ before' = 0
  /\ Complete(cur.task, IF gen # before THEN err
                        ELSE IF terminal # NoTask THEN "inactive" ELSE "none")
  /\ UNCHANGED <<transition, body, deps, next, then, dirty, slot, calls, gated>>

-----------------------------------------------------------------------------
(* The driver's Dispose and Shutdown, and its exit *)

Dispose ==
  /\ pc = "dispose"
  /\ IF state # "Disposed" THEN UnloadTo("Disposed", "disposed") ELSE Goto("disposed")
  /\ UNCHANGED <<transition, body, cur, deps, before, dirty, outside>>

Disposed ==
  /\ pc = "disposed"
  /\ Complete(terminal, err)
  /\ Goto("exit")
  /\ UNCHANGED <<transition, body, cur, deps, before, dirty, slot, calls,
                 gated>>

(* A Failed fiber's error is kept, ahead of the cleanups' errors. *)
Shutdown ==
  /\ pc = "shutdown"
  /\ IF state # "Disposed"
     THEN UnloadTo("Disposed", IF state = "Failed" THEN "prior" ELSE "exit")
     ELSE Goto("exit")
  /\ UNCHANGED <<transition, body, cur, deps, before, dirty, outside>>

ShutdownPrior ==
  /\ pc = "prior"
  /\ err' = "start"
  /\ Goto("exit")
  /\ UNCHANGED <<state, gen, terminal, pendingRestarts, preCancelled, body, cur,
                 deps, before, dirty, outside>>

Exit ==
  /\ pc = "exit"
  /\ alive' = FALSE
  /\ Goto("sweep")
  /\ UNCHANGED <<transition, cancelled, closing, open, mailbox, lastDeps,
                 effects, mount, cur, deps, before, dirty, outside>>

(* What a request left in the mailbox is told. *)
SweptResult(kind) ==
  CASE cur.kind = "dispose" -> (IF kind = "settle" THEN "none" ELSE err)
    [] cur.kind = "shutdown" -> (IF kind = "settle" THEN "none"
                                 ELSE IF kind = "shutdown" THEN err ELSE "closed")
    [] OTHER -> err   \* after a panic

SweepSilently ==   \* mutant of Sweep
  /\ pc = "sweep"
  /\ mailbox # <<>>
  /\ mailbox' = Tail(mailbox)
  /\ UNCHANGED <<transition, cancelled, closing, alive, open, lastDeps, effects,
                 mount, driver, outside>>

Sweep ==
  /\ pc = "sweep"
  /\ mailbox # <<>>
  /\ Complete(Head(mailbox).task, SweptResult(Head(mailbox).kind))
  /\ mailbox' = Tail(mailbox)
  /\ UNCHANGED <<transition, cancelled, closing, alive, open, lastDeps, effects,
                 mount, driver, slot, calls, gated>>

SweepEnd ==
  /\ pc = "sweep"
  /\ mailbox = <<>>
  /\ IF cur.kind = "shutdown" THEN Complete(cur.task, err) ELSE UNCHANGED result
  /\ Goto("release")
  /\ UNCHANGED <<transition, body, cur, deps, before, dirty, slot, calls,
                 gated>>

(* release_transient, then the task ends and drops the receiver. *)
Release ==
  /\ pc = "release"
  /\ open' = FALSE
  /\ mailbox' = <<>>
  /\ pc' = "gone"
  /\ cur' = Refresh
  /\ UNCHANGED <<transition, cancelled, closing, alive, lastDeps, effects,
                 mount, deps, next, then, before, dirty, outside>>

(* A step of the driver panics: what it had in hand is gone but for its task. *)
Crash ==
  /\ pc' = "recover"
  /\ next' = "Pending"
  /\ then' = "recv"
  /\ dirty' = FALSE
  /\ deps' = NoDeps
  /\ UNCHANGED <<transition, body, cur, before, outside>>

(* The error sink may panic, called with a cleanup error ... *)
Panic ==
  /\ pc = "publish"
  /\ dirty
  /\ next # "Disposed"
  /\ Crash

(* ... or with the panic of a load that was stopped, its effects still held. *)
PanicStopped ==
  /\ pc = "fail"
  /\ AdmissionFree
  /\ preCancelled
  /\ Crash

(* recover_driver_panic: Unloading, the token cancelled, ... *)
Recover ==
  /\ pc = "recover"
  /\ AdmissionFree
  /\ cancelled' = TRUE
  /\ state' = "Unloading"
  /\ Goto("recoverDrain")
  /\ UNCHANGED <<gen, err, terminal, pendingRestarts, preCancelled, closing,
                 alive, open, mailbox, lastDeps, effects, mount, cur, deps,
                 before, dirty, outside>>

RecoverKeeping ==   \* mutant of RecoverDrain
  /\ pc = "recoverDrain"
  /\ lastDeps' = NoDeps
  /\ Goto("recovered")
  /\ UNCHANGED <<transition, cancelled, closing, alive, open, mailbox, effects,
                 mount, cur, deps, before, dirty, outside>>

(* ... what is held cleaned up ... *)
RecoverDrain ==
  /\ pc = "recoverDrain"
  /\ effects' = {}
  /\ lastDeps' = NoDeps
  /\ Goto("recovered")
  /\ UNCHANGED <<transition, cancelled, closing, alive, open, mailbox, mount,
                 cur, deps, before, dirty, outside>>

(* ... then Failed, with `alive` cleared under the same lock. *)
Recovered ==
  /\ pc = "recovered"
  /\ err' = "panic"
  /\ state' = "Failed"
  /\ alive' = FALSE
  /\ result' = [t \in Callers |-> IF t \in {cur.task, terminal} THEN "panic" ELSE result[t]]
  /\ cur' = Refresh
  /\ before' = 0
  /\ Goto("sweep")
  /\ UNCHANGED <<gen, terminal, pendingRestarts, preCancelled, cancelled,
                 closing, open, mailbox, lastDeps, effects, mount, deps, dirty,
                 slot, calls, gated>>

-----------------------------------------------------------------------------
(* Mounting: mount_fiber, after the fiber and its driver were spawned *)

MountRegister ==
  /\ mount = "spawned"
  /\ AdmissionFree
  /\ ~ closing
  /\ mount' = "registered"
  /\ UNCHANGED <<transition, cancelled, closing, alive, open, mailbox, lastDeps,
                 effects, driver, outside>>

MountPost ==
  /\ mount = "registered"
  /\ mount' = "mounted"
  /\ mailbox' = IF alive THEN Append(mailbox, Refresh) ELSE mailbox
  /\ UNCHANGED <<transition, cancelled, closing, alive, open, lastDeps, effects,
                 driver, outside>>

(* The subtree is closing: the shutdown owns the fiber's end. *)
MountClosing ==
  /\ mount = "spawned"
  /\ closing
  /\ mount' = "mounted"
  /\ UNCHANGED <<transition, cancelled, closing, alive, open, mailbox, lastDeps,
                 effects, driver, outside>>

(* The parent has stopped: the fiber is disposed and never loads. *)
MountOrphan ==
  /\ mount = "spawned"
  /\ op \in Orphaned
  /\ ~ closing
  /\ mount' = "mounted"
  /\ mailbox' = Append(mailbox, [kind |-> "dispose", task |-> NoTask])
  /\ UNCHANGED <<transition, cancelled, closing, alive, open, lastDeps, effects,
                 driver, outside>>

-----------------------------------------------------------------------------
(* The callers *)

At(c, o, p) == op[c] = o /\ cpc[c] = p

Move(c, p) == cpc' = [cpc EXCEPT ![c] = p]

Join(c, t) == Move(c, "join") /\ joined' = [joined EXCEPT ![c] = t]

FlagOnly == preCancelled' = TRUE /\ UNCHANGED cancelled   \* mutant of PreCancel

(* pre_cancel, where the lock held keeps Load out from between the two *)
PreCancel == preCancelled' = TRUE /\ cancelled' = TRUE

(* register_dispose: join the terminal task there is, or register one and  *)
(* cancel the generation, under one lock.                                  *)
DisposeJoin(c) ==
  /\ At(c, "dispose", "idle")
  /\ mount = "mounted"
  /\ terminal # NoTask
  /\ Join(c, terminal)
  /\ UNCHANGED <<fiber, slot, op, mine, found, result, gated>>

DisposeRegister(c) ==
  /\ At(c, "dispose", "idle")
  /\ mount = "mounted"
  /\ terminal = NoTask
  /\ terminal' = c
  /\ PreCancel
  /\ Move(c, "check")
  /\ joined' = [joined EXCEPT ![c] = c]
  /\ UNCHANGED <<state, gen, err, pendingRestarts, closing, alive, open,
                 mailbox, lastDeps, effects, mount, driver, slot, op, mine,
                 found, result, gated>>

RestartRefused(c) ==
  /\ At(c, "restart", "idle")
  /\ mount = "mounted"
  /\ closing \/ terminal # NoTask \/ ~ alive
  /\ Move(c, "done")
  /\ result' = [result EXCEPT ![c] = IF closing THEN "closed" ELSE "inactive"]
  /\ UNCHANGED <<fiber, slot, op, joined, mine, found, gated>>

RestartCall(c) ==
  /\ At(c, "restart", "idle")
  /\ mount = "mounted"
  /\ ~ closing
  /\ terminal = NoTask
  /\ alive
  /\ pendingRestarts' = pendingRestarts + 1
  /\ PreCancel
  /\ Move(c, "check")
  /\ joined' = [joined EXCEPT ![c] = c]
  /\ UNCHANGED <<state, gen, err, terminal, closing, alive, open, mailbox,
                 lastDeps, effects, mount, driver, slot, op, mine, found,
                 result, gated>>

SettleCall(c) ==
  /\ At(c, "settle", "idle")
  /\ mount = "mounted"
  /\ Move(c, "check")
  /\ joined' = [joined EXCEPT ![c] = c]
  /\ UNCHANGED <<fiber, slot, op, mine, found, result, gated>>

(* FiberView::shutdown and begin_subtree_shutdown_locked. *)
ShutdownCall(c) ==
  /\ At(c, "shutdown", "idle")
  /\ AdmissionFree
  /\ closing' = TRUE
  /\ PreCancel
  /\ IF terminal # NoTask
     THEN Join(c, terminal) /\ UNCHANGED terminal
     ELSE /\ terminal' = c
          /\ Move(c, "check")
          /\ joined' = [joined EXCEPT ![c] = c]
  /\ UNCHANGED <<state, gen, err, pendingRestarts, alive, open, mailbox,
                 lastDeps, effects, mount, driver, slot, op, mine, found,
                 result, gated>>

(* The intent each operation posts. *)
Posted(c) ==
  CASE op[c] = "dispose" -> [kind |-> "dispose", task |-> NoTask]
    [] op[c] = "withdraw" -> [kind |-> "join", task |-> c]
    [] OTHER -> [kind |-> op[c], task |-> c]

(* A withdrawal notifies the key before it joins its consumers. *)
AfterPost(c) == Move(c, IF op[c] = "withdraw" THEN "notify" ELSE "join")

StoppedOk == "none"   \* mutant of StoppedError

StoppedError == err

(* post_join: the driver has stopped ... *)
PostStopped(c) ==
  /\ \/ cpc[c] = "check" /\ ~ alive
     \/ cpc[c] = "send" /\ ~ open
  /\ result' = [result EXCEPT ![c] = StoppedError]
  /\ AfterPost(c)
  /\ UNCHANGED <<fiber, slot, op, joined, mine, found, gated>>

PostCheck(c) ==
  /\ cpc[c] = "check"
  /\ alive
  /\ Move(c, "send")
  /\ UNCHANGED <<fiber, slot, op, joined, mine, found, result, gated>>

(* ... or takes the intent; only a shutdown does not look at `alive` again. *)
PostSend(c) ==
  /\ cpc[c] = "send"
  /\ open
  /\ mailbox' = Append(mailbox, Posted(c))
  /\ Move(c, IF op[c] = "shutdown" THEN "join" ELSE "recheck")
  /\ UNCHANGED <<transition, cancelled, closing, alive, open, lastDeps, effects,
                 mount, driver, slot, op, joined, mine, found, result, gated>>

PostUnchecked(c) ==   \* mutant of PostRecheck
  /\ cpc[c] = "recheck"
  /\ AfterPost(c)
  /\ UNCHANGED <<fiber, slot, op, joined, mine, found, result, gated>>

PostRecheck(c) ==
  /\ cpc[c] = "recheck"
  /\ result' = IF alive THEN result ELSE [result EXCEPT ![c] = StoppedError]
  /\ AfterPost(c)
  /\ UNCHANGED <<fiber, slot, op, joined, mine, found, gated>>

(* A shutdown's public result also waits for the driver task to end. *)
Joined(c) ==
  /\ cpc[c] = "join"
  /\ result[joined[c]] # "running"
  /\ op[c] = "shutdown" => pc = "gone"
  /\ Move(c, IF op[c] = "withdraw" THEN "finalize" ELSE "done")
  /\ UNCHANGED <<fiber, slot, op, joined, mine, found, result, gated>>

-----------------------------------------------------------------------------
(* The provider's side: provide() and evict_and_finalize *)

(* insert_binding: a slot whose binding is being removed is free again. *)
Provide(c) ==
  /\ At(c, "provide", "idle")
  /\ slot.removing
  /\ \E q \in Quads : slot' = [quad |-> q, by |-> c, removing |-> FALSE]
  /\ Move(c, "notify")
  /\ UNCHANGED <<fiber, op, joined, mine, found, result, gated>>

(* notify_key_changed *)
Notify(c) ==
  /\ cpc[c] = "notify"
  /\ mailbox' = IF alive THEN Append(mailbox, Refresh) ELSE mailbox
  /\ Move(c, IF op[c] = "provide" THEN "done"
             ELSE IF joined[c] # NoTask THEN "join" ELSE "finalize")
  /\ UNCHANGED <<transition, cancelled, closing, alive, open, lastDeps, effects,
                 mount, driver, slot, op, joined, mine, found, result, gated>>

(* mark_removing_if *)
WithdrawMark(c) ==
  /\ At(c, "withdraw", "idle")
  /\ ~ slot.removing
  /\ slot' = [slot EXCEPT !.removing = TRUE]
  /\ mine' = [mine EXCEPT ![c] = slot']
  /\ Move(c, "find")
  /\ UNCHANGED <<fiber, op, joined, found, result, gated>>

(* consumers_of *)
WithdrawFind(c) ==
  /\ At(c, "withdraw", "find")
  /\ LET bound == pc # "gone" /\ lastDeps = mine[c].quad
     IN /\ Move(c, IF bound THEN "flag" ELSE "notify")
        /\ found' = [found EXCEPT ![c] = IF bound THEN gen ELSE 0]
  /\ UNCHANGED <<fiber, slot, op, joined, mine, result, gated>>

(* pre_cancel: the record under the lock, then whatever token is current. *)
WithdrawFlag(c) ==
  /\ At(c, "withdraw", "flag")
  /\ preCancelled' = TRUE
  /\ Move(c, "cancel")
  /\ UNCHANGED <<state, gen, err, terminal, pendingRestarts, body, driver, slot,
                 op, joined, mine, found, result, gated>>

WithdrawCancel(c) ==
  /\ At(c, "withdraw", "cancel")
  /\ cancelled' = TRUE
  /\ Move(c, "consumer")
  /\ UNCHANGED <<transition, closing, alive, open, mailbox, lastDeps, effects,
                 mount, driver, slot, op, joined, mine, found, result, gated>>

(* A closing consumer's own shutdown is joined, any other one re-checks. *)
WithdrawConsumer(c) ==
  /\ At(c, "withdraw", "consumer")
  /\ closing => AdmissionFree
  /\ Move(c, IF closing THEN "notify" ELSE "check")
  /\ joined' = [joined EXCEPT ![c] = IF closing THEN terminal ELSE c]
  /\ UNCHANGED <<fiber, slot, op, mine, found, result, gated>>

(* finalize_binding_if: only the binding that was marked is removed. *)
WithdrawFinalize(c) ==
  /\ At(c, "withdraw", "finalize")
  /\ slot' = IF Same(slot, mine[c]) THEN NoBinding ELSE slot
  /\ Move(c, "done")
  /\ UNCHANGED <<fiber, op, joined, mine, found, result, gated>>

-----------------------------------------------------------------------------
(* The specification *)

Init ==
  /\ state = "Pending" /\ gen = 0 /\ err = "none" /\ terminal = NoTask
  /\ pendingRestarts = 0 /\ preCancelled = FALSE /\ cancelled = FALSE
  /\ closing = FALSE /\ alive = TRUE /\ open = TRUE /\ mailbox = <<>>
  /\ lastDeps = NoDeps /\ effects = {} /\ mount = "spawned"
  /\ pc = "recv" /\ cur = Refresh /\ deps = NoDeps
  /\ next = "Pending" /\ then = "recv" /\ before = 0 /\ dirty = FALSE
  /\ slot = Boot
  /\ op \in Work
  /\ cpc = [c \in Callers |-> "idle"]
  /\ joined = [c \in Callers |-> NoTask]
  /\ mine = [c \in Callers |-> NoBinding]
  /\ found = [c \in Callers |-> 0]
  /\ result = [c \in Callers |-> "running"]
  /\ gated = NoBinding

(* The driver's own steps; apply is the plugin's. *)
Refreshing ==
  \/ RefreshOpen \/ RefreshTerminal \/ GateMissing \/ GateUnchanged \/ GateChanged
  \/ LoadRefused \/ Load \/ Bind \/ Regate \/ Build \/ Lost \/ Adopt \/ Adopted
  \/ Activate \/ FailStopped \/ FailLoad \/ RefreshedPlain \/ RefreshedJoin

Unloading == Unload \/ Drain \/ Publish \/ Panic \/ PanicStopped

Restarting ==
  RestartTaken \/ RestartLost \/ RestartInactive \/ RestartUnload \/ RestartDone

Ending ==
  \/ Dispose \/ Disposed \/ Shutdown \/ ShutdownPrior \/ Exit
  \/ Sweep \/ SweepEnd \/ Release \/ Recover \/ RecoverDrain \/ Recovered

Driver == Take \/ Settle \/ Refreshing \/ Unloading \/ Restarting \/ Ending

Mounting == MountRegister \/ MountPost \/ MountClosing \/ MountOrphan

(* A call is made, or is not ... *)
Call(c) ==
  \/ DisposeJoin(c) \/ DisposeRegister(c) \/ RestartRefused(c) \/ RestartCall(c)
  \/ SettleCall(c) \/ ShutdownCall(c) \/ Provide(c) \/ WithdrawMark(c)

(* ... and, once made, goes on. *)
Continue(c) ==
  \/ PostStopped(c) \/ PostCheck(c) \/ PostSend(c) \/ PostRecheck(c) \/ Joined(c)
  \/ Notify(c) \/ WithdrawFind(c) \/ WithdrawFlag(c) \/ WithdrawCancel(c)
  \/ WithdrawConsumer(c) \/ WithdrawFinalize(c)

(* Nothing is left to do: the driver waits or has ended, every call returned. *)
Finished ==
  /\ pc \in {"recv", "gone"}
  /\ mailbox = <<>>
  /\ mount = "mounted"
  /\ \A c \in Callers : cpc[c] \in {"idle", "done"}

Rest == Finished /\ UNCHANGED vars

Next ==
  \/ Driver
  \/ ApplyReturn
  \/ Mounting
  \/ \E c \in Callers : Call(c) \/ Continue(c)
  \/ Rest

Spec == Init /\ [][Next]_vars

(* The runtime schedules the driver task and every started call. *)
Scheduled ==
  /\ WF_vars(Driver)
  /\ WF_vars(Mounting)
  /\ \A c \in Callers : WF_vars(Continue(c))

(* An apply returns once its token is cancelled; some return in any case. *)
FairSpec ==
  Spec /\ Scheduled /\ WF_vars((cancelled \/ op \in Returning) /\ ApplyReturn)

-----------------------------------------------------------------------------
(* Properties *)

Labels ==
  {"recv", "settle", "refresh", "terminal", "gate", "load", "bind", "regate", "build",
   "apply", "adopt", "adopted", "activate", "lost", "fail", "unload", "drain", "publish",
   "refreshed", "restart", "restartOpen", "inactive", "dispose", "disposed", "shutdown",
   "prior", "exit", "sweep", "release", "gone", "recover", "recoverDrain",
   "recovered"}

CallLabels ==
  {"idle", "check", "send", "recheck", "join", "notify", "find", "flag", "cancel",
   "consumer", "finalize", "done"}

TransitionOK ==
  /\ state \in States /\ gen \in Nat /\ err \in Errors /\ terminal \in Tasks
  /\ pendingRestarts \in Nat /\ preCancelled \in BOOLEAN

BodyOK ==
  /\ cancelled \in BOOLEAN /\ closing \in BOOLEAN /\ alive \in BOOLEAN
  /\ open \in BOOLEAN /\ mailbox \in Seq(Intents) /\ effects \subseteq Nat
  /\ lastDeps \in Quads \cup {NoDeps} /\ mount \in {"spawned", "registered", "mounted"}

DriverOK ==
  /\ pc \in Labels /\ then \in Labels /\ next \in {"Pending", "Disposed", "Failed"}
  /\ cur \in Intents /\ deps \in Quads \cup {NoDeps}
  /\ before \in Nat /\ dirty \in BOOLEAN

OutsideOK ==
  /\ slot \in Bindings \cup {NoBinding} /\ gated \in Bindings \cup {NoBinding}
  /\ op \in [Callers -> Ops] /\ cpc \in [Callers -> CallLabels]
  /\ joined \in [Callers -> Tasks] /\ mine \in [Callers -> Bindings \cup {NoBinding}]
  /\ found \in [Callers -> Nat] /\ result \in [Callers -> Results]
  /\ \A c \in Callers : op[c] = "provide" => cpc[c] \in {"idle", "notify", "done"}

(* The fiber, its driver and its callers are in states the code has.        *)
TypeOK == TransitionOK /\ BodyOK /\ DriverOK /\ OutsideOK

(* Some generation is in the plugin's hands: past the gate, not yet stopped. *)
Running ==
  \/ pc \in {"build", "apply", "adopt", "adopted", "activate"}
  \/ state = "Active"

(* A restart registered with the fiber that its driver has not reached. *)
RestartWaits ==
  \E c \in Callers :
    /\ op[c] = "restart"
    /\ \/ cpc[c] \in {"check", "send"}
       \/ \E i \in 1 .. Len(mailbox) : mailbox[i] = [kind |-> "restart", task |-> c]

(* The cleanups of at most one generation are ever held, the running one's, *)
(* and none is left behind in a state a plugin can rest in but Active: no   *)
(* generation starts over another's effects, none is dropped (D6, D7).      *)
OneGeneration ==
  /\ effects \subseteq {gen}
  /\ state \in {"Pending", "Failed", "Disposed"} => effects = {}
  /\ state = "Active" => effects = {gen}

(* A restart, dispose or shutdown that reached a load before it decided to  *)
(* fail keeps it from failing: the generation unloads instead (#968, D7),   *)
(* unless the error sink panics and the driver with it.                     *)
StoppedLoadNeverFails ==
  [][pc = "fail" /\ next' = "Failed" => ~ RestartWaits /\ terminal = NoTask]_vars

(* The plugin of a fiber that a dispose, a shutdown or a waiting restart has *)
(* claimed is told to stop: the generation it runs in is cancelled, also one *)
(* that a driver on its way to load started after the call (#968).           *)
StopReachesToken ==
  /\ state \in {"Loading", "Active"}
  /\ terminal # NoTask \/ pendingRestarts > 0
  => cancelled /\ preCancelled

(* Once a dispose or a shutdown is registered no generation starts, whoever *)
(* was about to load (#619), and Disposed is never left.                    *)
NoStartAfterStop ==
  [][/\ terminal # NoTask => gen' = gen
     /\ state = "Disposed" => state' = "Disposed"]_vars

(* When the driver has ended nobody waits for a result no one will give: what *)
(* was in the mailbox was answered, what was sent too late is answered by its *)
(* sender, who looks at `alive` again (D6).                                   *)
NoJoinForgotten ==
  \A c \in Callers :
    pc = "gone" /\ cpc[c] = "join" /\ result[joined[c]] = "running"
      => cpc[joined[c]] \in {"check", "send", "recheck"}

(* All who dispose or shut down the fiber are told one result: a completed  *)
(* terminal task is never completed again with another (D6).                *)
OneResult ==
  [][\A t \in Callers :
       op[t] \in {"dispose", "shutdown"} /\ result[t] # "running"
         => result'[t] = result[t]]_vars

(* When a withdrawal removes its binding, a generation that passed the gate *)
(* with that very binding has stopped, unless a new provide took the slot   *)
(* in the meantime: the gate's second check (#620) and `last_deps` leave no *)
(* window in which the withdrawal misses a consumer (D14).  A consumer that *)
(* is closing is left out: refresh_deps returns at once for it, and its     *)
(* shutdown, not the withdrawal, ends it.  ConsumerStopsFirst says what is  *)
(* promised of that consumer too, and does not hold.                        *)
NoConsumerMissed ==
  \A c \in Callers :
    At(c, "withdraw", "finalize") /\ Running /\ Same(gated, mine[c])
      => closing \/ ~ Same(slot, mine[c])

(* Nothing is left to wake the driver: then the fiber waits only for a      *)
(* dependency that is missing (D22) and runs only with the one there is.    *)
Settled ==
  Finished /\ alive =>
    /\ state \in {"Pending", "Active", "Failed"}
    /\ state = "Pending" => Resolve = NoDeps
    /\ state = "Active" => lastDeps = Resolve

(* What its watchers see of the fiber is what FiberLifecycle promises: one   *)
(* generation after the other, each cleaned up before the fiber waits, fails *)
(* or ends, and nothing after Disposed (D6, D7).                             *)
L == INSTANCE FiberLifecycle WITH held <- effects

Lifecycle == L!Spec

InCall(c) == cpc[c] \notin {"idle", "done"}

SomeStop == \E c \in Callers : op[c] \in {"dispose", "shutdown"} /\ InCall(c)

(* Every dispose and every shutdown returns, even of a plugin whose apply   *)
(* waits for its cancellation: the call's own cancellation reaches the      *)
(* generation that keeps the driver (D7).  (A caller calls once.)           *)
StopReturns == SomeStop ~> ~ SomeStop

SomeCall == op \in Returning /\ \E c \in Callers : InCall(c)

(* Where the plugin's apply returns every call does, a withdrawal's and an  *)
(* await's too: no task is forgotten by a driver that exits (D6).           *)
CallsReturn == SomeCall ~> ~ SomeCall

-----------------------------------------------------------------------------
(* What the documentation promises and the code does not keep *)

(* A restart that finds the fiber disposed does not report the dispose's    *)
(* result as its own.                                                       *)
RestartReportsItself ==
  [][\A c \in Callers :
       /\ op[c] = "restart" /\ result[c] = "running" /\ result'[c] # "running"
       /\ state = "Disposed"
       => result'[c] \in {"closed", "inactive"}]_vars

(* A withdrawal that has found its consumer, started with the very binding  *)
(* it withdraws, removes that only once this generation has stopped: also   *)
(* when the same key was provided again meanwhile, or when the consumer     *)
(* began to shut down.                                                      *)
ConsumerStopsFirst ==
  \A c \in Callers :
    At(c, "withdraw", "finalize") /\ found[c] = gen /\ Same(gated, mine[c])
      => ~ Running
=============================================================================
