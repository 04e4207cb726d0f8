------------------------------ MODULE Effects ------------------------------
(***************************************************************************)
(* The cleanups a plugin registers: records on its fiber's effects list,   *)
(* released early by their Disposers or drained by the fiber's unload.     *)
(*                                                                         *)
(* A record is drained by whoever claims it first, in a task of its own;   *)
(* everyone else joins. The task records the result, takes itself off the  *)
(* list (leaving an error for the unload to find) and wakes the joins: the *)
(* three are apart, and the unload may take the list between any two.      *)
(***************************************************************************)
EXTENDS Naturals, Sequences, FiniteSets

CONSTANTS
  Records,     \* the calls of Ctx::effect, each with the record it makes
  Disposers,   \* the calls of Disposer::dispose
  Of,          \* the record each of them drains
  Unload,      \* the fiber's unload, a drainer too
  NoRecord,
  MaxGen       \* bound: generations of the plugin

ASSUME EffectsAssumption ==
  /\ Of \in [Disposers -> Records]
  /\ Unload \notin Disposers
  /\ NoRecord \notin Records
  /\ MaxGen \in Nat

Drainers == Disposers \cup {Unload}

VARIABLES
  state, gen,   \* the fiber: its state ("Active" stands for Loading too), its generation
  flights,      \* event_flights: registrations under way
  effects,      \* the fiber's effects list
  drained,      \* drained_errors: errors of records that left the list
  (* a record: how far its registration is, in which generation; its state, *)
  (* whether its cleanups fail; the task that drains it                     *)
  reg, from, st, failed, task,
  (* a drainer: where it is in drain(), on which record *)
  dpc, on,
  (* the unload: where it is, the records it took and has still to drain,   *)
  (* the errors it has collected                                            *)
  upc, taken, errors,
  (* history: how often a record was cleaned up, which were registered when, *)
  (* did the unload give up waiting for registrations?                       *)
  cleaned, order, late

fiber == <<state, gen>>
record == <<reg, from, st, failed>>
drain == <<dpc, on>>
unload == <<upc, taken, errors>>
history == <<cleaned, order, late>>
vars == <<fiber, flights, effects, drained, record, task, drain, unload, history>>

Elements(s) == {s[i] : i \in 1 .. Len(s)}

(* The list without a record, which is on it at most once. *)
Without(s, r) ==
  IF r \in Elements(s)
  THEN LET at == CHOOSE i \in 1 .. Len(s) : s[i] = r
       IN SubSeq(s, 1, at - 1) \o SubSeq(s, at + 1, Len(s))
  ELSE s

-----------------------------------------------------------------------------
(* Registering: register_effect_named *)

(* The check, and the lease that keeps an unload waiting ... *)
Lease(r) ==
  /\ reg[r] = "idle"
  /\ state = "Active"
  /\ reg' = [reg EXCEPT ![r] = "factory"]
  /\ from' = [from EXCEPT ![r] = gen]
  /\ flights' = flights + 1
  /\ UNCHANGED <<fiber, effects, drained, st, failed, task, drain, unload, history>>

Live(r) == from[r] = gen /\ state = "Active"

(* ... the factory has run: the record joins the list, under one lock with  *)
(* the second check ...                                                     *)
AlwaysLive(r) == TRUE   \* mutant of Current

Current(r) == Live(r)

Register(r) ==
  /\ reg[r] = "factory"
  /\ Current(r)
  /\ reg' = [reg EXCEPT ![r] = "registered"]
  /\ st' = [st EXCEPT ![r] = "live"]
  /\ effects' = Append(effects, r)
  /\ order' = Append(order, r)
  /\ flights' = flights - 1
  /\ UNCHANGED <<fiber, drained, from, failed, task, drain, unload, cleaned, late>>

RefuseReleasing(r) ==   \* mutant of Refuse
  /\ reg[r] = "factory"
  /\ ~ Current(r)
  /\ reg' = [reg EXCEPT ![r] = "refused"]
  /\ st' = [st EXCEPT ![r] = "draining"]
  /\ task' = [task EXCEPT ![r] = "clean"]
  /\ flights' = flights - 1
  /\ UNCHANGED <<fiber, effects, drained, from, failed, drain, unload, history>>

(* ... or is drained at once by a task of its own, which keeps the lease. *)
Refuse(r) ==
  /\ reg[r] = "factory"
  /\ ~ Current(r)
  /\ reg' = [reg EXCEPT ![r] = "refused"]
  /\ st' = [st EXCEPT ![r] = "draining"]
  /\ task' = [task EXCEPT ![r] = "clean"]
  /\ UNCHANGED <<fiber, flights, effects, drained, from, failed, drain, unload, history>>

(* The refused record is clean: the lease ends. *)
Refused(r) ==
  /\ reg[r] = "refused"
  /\ task[r] = "gone"
  /\ reg' = [reg EXCEPT ![r] = "over"]
  /\ flights' = flights - 1
  /\ UNCHANGED <<fiber, effects, drained, from, st, failed, task, drain, unload, history>>

-----------------------------------------------------------------------------
(* Draining: EffectRecord *)

Claims(r) == st[r] = "live"

(* drain(): claim() the record or not, then join() *)
StartDrain(p, r) ==
  /\ st' = IF Claims(r) THEN [st EXCEPT ![r] = "draining"] ELSE st
  /\ task' = IF Claims(r) THEN [task EXCEPT ![r] = "clean"] ELSE task
  /\ dpc' = [dpc EXCEPT ![p] = "arm"]
  /\ on' = [on EXCEPT ![p] = r]

Dispose(d) ==
  /\ dpc[d] = "idle"
  /\ reg[Of[d]] = "registered"
  /\ StartDrain(d, Of[d])
  /\ UNCHANGED <<fiber, flights, effects, drained, reg, from, failed, unload, history>>

(* join: the wakeup is registered ... *)
Arm(p) ==
  /\ dpc[p] = "arm"
  /\ dpc' = [dpc EXCEPT ![p] = "check"]
  /\ UNCHANGED <<fiber, flights, effects, drained, record, task, on, unload, history>>

(* ... before the state is read. *)
Check(p) ==
  /\ dpc[p] = "check"
  /\ dpc' = [dpc EXCEPT ![p] = IF st[on[p]] = "done" THEN "done" ELSE "wait"]
  /\ UNCHANGED <<fiber, flights, effects, drained, record, task, on, unload, history>>

(* The draining task: run_cleanups ... *)
Clean(r) ==
  /\ task[r] = "clean"
  /\ \E e \in BOOLEAN : failed' = [failed EXCEPT ![r] = e]
  /\ cleaned' = [cleaned EXCEPT ![r] = @ + 1]
  /\ task' = [task EXCEPT ![r] = "finish"]
  /\ UNCHANGED <<fiber, flights, effects, drained, reg, from, st, drain, unload, order,
                 late>>

(* ... finish: the result first ... *)
Finish(r) ==
  /\ task[r] = "finish"
  /\ st' = [st EXCEPT ![r] = "done"]
  /\ task' = [task EXCEPT ![r] = "detach"]
  /\ UNCHANGED <<fiber, flights, effects, drained, reg, from, failed, drain, unload,
                 history>>

(* ... then, if the record is still listed, off the list, its error kept ... *)
Keeps(r) == failed[r] /\ r \in Elements(effects)

KeepsAlways(r) == failed[r]   \* mutant of KeepsError

KeepsError(r) == Keeps(r)

Detach(r) ==
  /\ task[r] = "detach"
  /\ effects' = Without(effects, r)
  /\ drained' = IF KeepsError(r) THEN Append(drained, r) ELSE drained
  /\ task' = [task EXCEPT ![r] = "notify"]
  /\ UNCHANGED <<fiber, flights, record, drain, unload, history>>

NotifyOne(r) ==   \* mutant of Notify
  /\ task[r] = "notify"
  /\ task' = [task EXCEPT ![r] = "gone"]
  /\ LET waiting == {p \in Drainers : on[p] = r /\ dpc[p] = "wait"}
     IN IF waiting = {} THEN UNCHANGED dpc
        ELSE \E p \in waiting : dpc' = [dpc EXCEPT ![p] = "arm"]
  /\ UNCHANGED <<fiber, flights, effects, drained, record, on, unload, history>>

(* ... and last the joins are woken. *)
Notify(r) ==
  /\ task[r] = "notify"
  /\ task' = [task EXCEPT ![r] = "gone"]
  /\ dpc' = [p \in Drainers |-> IF on[p] = r /\ dpc[p] = "wait" THEN "arm" ELSE dpc[p]]
  /\ UNCHANGED <<fiber, flights, effects, drained, record, on, unload, history>>

-----------------------------------------------------------------------------
(* The fiber: unload and drain_effects *)

Stop ==
  /\ state = "Active"
  /\ state' = "Unloading"
  /\ upc' = "wait"
  /\ late' = FALSE
  /\ UNCHANGED <<gen, flights, effects, drained, record, task, drain, taken, errors,
                 cleaned, order>>

(* wait_events: for the registrations under way, until the deadline. *)
WaitEvents ==
  /\ upc = "wait"
  /\ upc' = "take"
  /\ late' = (flights > 0)
  /\ UNCHANGED <<fiber, flights, effects, drained, record, task, drain, taken, errors,
                 cleaned, order>>

Take ==
  /\ upc = "take"
  /\ taken' = effects
  /\ effects' = <<>>
  /\ upc' = "next"
  /\ UNCHANGED <<fiber, flights, drained, record, task, drain, errors, history>>

First(s) == s[1]   \* mutant of NextOf

NextOf(s) == s[Len(s)]

(* The records one at a time, the last registered first. *)
DrainNext ==
  /\ upc = "next"
  /\ taken # <<>>
  /\ StartDrain(Unload, NextOf(taken))
  /\ taken' = Without(taken, NextOf(taken))
  /\ upc' = "join"
  /\ UNCHANGED <<fiber, flights, effects, drained, reg, from, failed, errors, history>>

Joined ==
  /\ upc = "join"
  /\ dpc[Unload] = "done"
  /\ errors' = IF failed[on[Unload]] THEN Append(errors, on[Unload]) ELSE errors
  /\ dpc' = [dpc EXCEPT ![Unload] = "idle"]
  /\ on' = [on EXCEPT ![Unload] = NoRecord]
  /\ upc' = "next"
  /\ UNCHANGED <<fiber, flights, effects, drained, record, task, taken, history>>

(* What the records that had left the list kept is added last. *)
Collect ==
  /\ upc = "next"
  /\ taken = <<>>
  /\ errors' = errors \o drained
  /\ drained' = <<>>
  /\ upc' = "publish"
  /\ UNCHANGED <<fiber, flights, effects, record, task, drain, taken, history>>

Publish ==
  /\ upc = "publish"
  /\ state' = "Pending"
  /\ upc' = "idle"
  /\ UNCHANGED <<gen, flights, effects, drained, record, task, drain, taken, errors,
                 history>>

(* The next generation. *)
Load ==
  /\ state = "Pending"
  /\ gen < MaxGen
  /\ state' = "Active"
  /\ gen' = gen + 1
  /\ errors' = <<>>
  /\ UNCHANGED <<flights, effects, drained, record, task, drain, upc, taken, history>>

-----------------------------------------------------------------------------
Init ==
  /\ state = "Pending" /\ gen = 0 /\ flights = 0 /\ effects = <<>> /\ drained = <<>>
  /\ reg = [r \in Records |-> "idle"] /\ from = [r \in Records |-> 0]
  /\ st = [r \in Records |-> "none"] /\ failed = [r \in Records |-> FALSE]
  /\ task = [r \in Records |-> "off"]
  /\ dpc = [p \in Drainers |-> "idle"] /\ on = [p \in Drainers |-> NoRecord]
  /\ upc = "idle" /\ taken = <<>> /\ errors = <<>>
  /\ cleaned = [r \in Records |-> 0] /\ order = <<>> /\ late = FALSE

Registering(r) == Register(r) \/ Refuse(r) \/ Refused(r)
Running(r) == Clean(r) \/ Finish(r) \/ Detach(r) \/ Notify(r)
Joining(p) == Arm(p) \/ Check(p)
Unloading == WaitEvents \/ Take \/ DrainNext \/ Joined \/ Collect \/ Publish

(* Every generation is over, every registration and every drain has ended. *)
Finished ==
  /\ state = "Pending"
  /\ \A r \in Records : reg[r] # "factory" /\ task[r] \in {"off", "gone"}
  /\ \A p \in Drainers : dpc[p] \in {"idle", "done"}

Rest == Finished /\ UNCHANGED vars

Next ==
  \/ \E r \in Records : Lease(r) \/ Registering(r) \/ Running(r)
  \/ \E d \in Disposers : Dispose(d)
  \/ \E p \in Drainers : Joining(p)
  \/ Stop \/ Unloading \/ Load \/ Rest

(* Factories return, cleanups end, tasks are scheduled. *)
Spec == Init /\ [][Next]_vars

FairSpec ==
  /\ Spec
  /\ \A r \in Records : WF_vars(Registering(r)) /\ WF_vars(Running(r))
  /\ \A p \in Drainers : WF_vars(Joining(p))
  /\ WF_vars(Unloading)

-----------------------------------------------------------------------------
(* Properties *)

TypeOK ==
  /\ state \in {"Pending", "Active", "Unloading"} /\ gen \in 0 .. MaxGen
  /\ flights \in Nat
  /\ effects \in Seq(Records) /\ drained \in Seq(Records) /\ order \in Seq(Records)
  /\ reg \in [Records -> {"idle", "factory", "registered", "refused", "over"}]
  /\ from \in [Records -> 0 .. MaxGen]
  /\ st \in [Records -> {"none", "live", "draining", "done"}]
  /\ failed \in [Records -> BOOLEAN]
  /\ task \in [Records -> {"off", "clean", "finish", "detach", "notify", "gone"}]
  /\ dpc \in [Drainers -> {"idle", "arm", "check", "wait", "done"}]
  /\ on \in [Drainers -> Records \cup {NoRecord}]
  /\ upc \in {"idle", "wait", "take", "next", "join", "publish"}
  /\ taken \in Seq(Records) /\ errors \in Seq(Records)
  /\ cleaned \in [Records -> Nat] /\ late \in BOOLEAN

(* The cleanups of a record run once, however many drain it; and all of a   *)
(* generation's have run when the fiber is at rest (D6).                    *)
CleanedExactlyOnce ==
  /\ \A r \in Records : cleaned[r] <= 1
  /\ state = "Pending" => \A r \in Records : reg[r] = "registered" => cleaned[r] = 1

(* An unload reports each failed cleanup of its generation once: also that  *)
(* of a record a Disposer drained, whose error the unload finds either with *)
(* the record or among the kept ones, never nowhere and never twice.        *)
EachErrorReportedOnce ==
  state = "Pending" =>
    \A r \in Records :
      Cardinality({i \in 1 .. Len(errors) : errors[i] = r})
        = IF reg[r] = "registered" /\ from[r] = gen /\ failed[r] THEN 1 ELSE 0

(* Everything is well typed; and a registration that the unload overtook    *)
(* is cleaned up before the fiber is at rest, unless it outlasted the       *)
(* deadline.                                                                *)
NoStragglers ==
  /\ TypeOK
  /\ state = "Pending" /\ ~ late =>
       \A r \in Records :
         reg[r] # "factory" /\ (reg[r] \in {"refused", "over"} => st[r] = "done")

(* The unload cleans a record up only after every record registered after   *)
(* it, also one that a Disposer is just draining (D7: LIFO).                *)
LastRegisteredFirst ==
  [][\A i, j \in 1 .. Len(order) :
       i < j /\ on[Unload] # order[i] /\ on'[Unload] = order[i]
         => cleaned[order[j]] = 1]_vars

(* Whoever drains a record is told its result: no wakeup is missed between  *)
(* reading the state and waiting; and so every unload ends.                 *)
DrainReturns ==
  /\ \A d \in Disposers : dpc[d] = "arm" ~> dpc[d] = "done"
  /\ state = "Unloading" ~> state = "Pending"
=============================================================================
