---------------------------- MODULE FiberProofs ----------------------------
(***************************************************************************)
(* Fiber, for any number of callers and bindings and any work they do: it  *)
(* keeps its types, holds the cleanups of one generation at a time, never  *)
(* starts a generation after a stop was registered, tells every generation *)
(* that is to stop so, and implements FiberLifecycle.                      *)
(*                                                                         *)
(* TypeOK is inductive by itself, if only with the intents and results     *)
(* being of their kinds. The others need IInv, which ties what the driver  *)
(* is doing (pc, next, then) to what it has published (Phases), and where  *)
(* a cleanup can be held to where the driver is.                           *)
(***************************************************************************)
EXTENDS Fiber, FiniteSetTheorems, TLAPS

USE DEF transition, driver, calls, body, fiber, outside

(* The first state is well typed. *)
LEMMA TypeInit == Init => TypeOK
  <1> SUFFICES ASSUME Init PROVE TypeOK OBVIOUS
  <1> USE FiberAssumption DEF Init, TypeOK, TransitionOK, BodyOK, DriverOK, OutsideOK
  <1>1. cur \in Intents BY DEF Refresh, Intents, Kinds, Tasks
  <1>2. mailbox \in Seq(Intents) OBVIOUS
  <1>3. /\ slot \in Bindings \cup {NoBinding} /\ gated \in Bindings \cup {NoBinding}
        /\ mine \in [Callers -> Bindings \cup {NoBinding}]
    OBVIOUS
  <1>4. /\ op \in [Callers -> Ops] /\ cpc \in [Callers -> CallLabels]
        /\ joined \in [Callers -> Tasks] /\ found \in [Callers -> Nat]
        /\ result \in [Callers -> Results]
    BY DEF CallLabels, Tasks, Results
  <1> QED BY <1>1, <1>2, <1>3, <1>4 DEF States, Errors, Tasks, Labels

(* Facts on the mailbox and on intents that the type proof needs. *)
LEMMA EmptyMailbox == <<>> \in Seq(Intents)
  OBVIOUS

LEMMA RefreshIntent == Refresh \in Intents
  BY DEF Refresh, Intents, Kinds, Tasks

LEMMA Appends ==
  ASSUME TypeOK, NEW i \in Intents
  PROVE  Append(mailbox, i) \in Seq(Intents)
  BY DEF TypeOK, BodyOK

LEMMA HeadTail ==
  ASSUME TypeOK, mailbox # <<>>
  PROVE  Head(mailbox) \in Intents /\ Tail(mailbox) \in Seq(Intents)
  BY DEF TypeOK, BodyOK

LEMMA CurTyped == TypeOK => cur.task \in Tasks
  BY DEF TypeOK, DriverOK, Intents

(* Completing a task with a result leaves the results well typed. *)
LEMMA Completes ==
  ASSUME TypeOK, NEW t \in Tasks, NEW r \in Results, Complete(t, r)
  PROVE  result' \in [Callers -> Results]
  BY DEF TypeOK, OutsideOK, Complete, Tasks

(* What a swept request is told is a result; what a call posts is an intent. *)
LEMMA SweptTyped == TypeOK => \A k : SweptResult(k) \in Results
  BY DEF TypeOK, TransitionOK, SweptResult, Results, Errors

LEMMA PostedTyped == TypeOK => \A c \in Callers : cpc[c] = "send" => Posted(c) \in Intents
  BY DEF TypeOK, OutsideOK, Posted, Intents, Kinds, Tasks, Ops

(* Each group of steps keeps the types: the refresh and the load, ... *)
LEMMA TypeRefreshing == TypeOK /\ Refreshing => TypeOK'
  <1> SUFFICES ASSUME TypeOK, Refreshing PROVE TypeOK' OBVIOUS
  <1> USE DEF TypeOK, TransitionOK, BodyOK, DriverOK, OutsideOK, Labels, Goto, UnloadTo
  <1>1. CASE RefreshOpen BY <1>1 DEF RefreshOpen
  <1>2. CASE RefreshTerminal BY <1>2 DEF RefreshTerminal
  <1>3. CASE GateMissing BY <1>3 DEF GateMissing
  <1>4. CASE GateUnchanged BY <1>4 DEF GateUnchanged
  <1>5. CASE GateChanged BY <1>5 DEF GateChanged, Resolve, Bindings, NoBinding
  <1>6. CASE LoadRefused BY <1>6 DEF LoadRefused, Loadable
  <1>7. CASE Load BY <1>7 DEF Load, Loadable, StartsCancelled, States, Errors
  <1>8. CASE Bind BY <1>8 DEF Bind
  <1>9. CASE Regate BY <1>9 DEF Regate, GateHolds
  <1>10. CASE Build
    <2> USE <1>10 DEF Build
    <2>1. TransitionOK' OBVIOUS
    <2>2. BodyOK' OBVIOUS
    <2>3. DriverOK' OBVIOUS
    <2>4. OutsideOK' OBVIOUS
    <2> QED BY <2>1, <2>2, <2>3, <2>4 DEF TypeOK
  <1>11. CASE Lost BY <1>11, Appends, RefreshIntent DEF Lost
  <1>12. CASE Adopt BY <1>12 DEF Adopt, Resolve, Bindings, NoBinding
  <1>13. CASE Adopted BY <1>13 DEF Adopted
  <1>14. CASE Activate BY <1>14 DEF Activate, States, Errors
  <1>15. CASE FailStopped BY <1>15 DEF FailStopped
  <1>16. CASE FailLoad BY <1>16 DEF FailLoad, States
  <1>17. CASE RefreshedPlain BY <1>17, RefreshIntent DEF RefreshedPlain, Idle
  <1>18. CASE RefreshedJoin
    <2> USE <1>18, Completes, CurTyped, RefreshIntent DEF RefreshedJoin, Idle,
           Results
    <2>1. TransitionOK' OBVIOUS
    <2>2. BodyOK' OBVIOUS
    <2>3. DriverOK' OBVIOUS
    <2>4. OutsideOK' OBVIOUS
    <2> QED BY <2>1, <2>2, <2>3, <2>4 DEF TypeOK
  <1> QED BY <1>1, <1>2, <1>3, <1>4, <1>5, <1>6, <1>7, <1>8, <1>9, <1>10,
       <1>11, <1>12, <1>13, <1>14, <1>15, <1>16, <1>17, <1>18 DEF Refreshing

(* ... the unload, ... *)
LEMMA TypeUnloading == TypeOK /\ Unloading => TypeOK'
  <1> SUFFICES ASSUME TypeOK, Unloading PROVE TypeOK' OBVIOUS
  <1> USE DEF TypeOK, TransitionOK, BodyOK, DriverOK, OutsideOK, Labels, Goto, UnloadTo
  <1>1. CASE Unload BY <1>1 DEF Unload, States
  <1>2. CASE Drain
    <2> USE <1>2 DEF Drain
    <2>1. TransitionOK' OBVIOUS
    <2>2. BodyOK' OBVIOUS
    <2>3. DriverOK' OBVIOUS
    <2>4. OutsideOK' OBVIOUS
    <2> QED BY <2>1, <2>2, <2>3, <2>4 DEF TypeOK
  <1>3. CASE Publish
    <2> USE <1>3 DEF Publish, States, Errors
    <2>1. TransitionOK' OBVIOUS
    <2>2. BodyOK' OBVIOUS
    <2>3. DriverOK' OBVIOUS
    <2>4. OutsideOK' OBVIOUS
    <2> QED BY <2>1, <2>2, <2>3, <2>4 DEF TypeOK
  <1>4. CASE Panic BY <1>4, ZenonT(30) DEF Panic, Crash
  <1>5. CASE PanicStopped BY <1>5, ZenonT(30) DEF PanicStopped, Crash
  <1> QED BY <1>1, <1>2, <1>3, <1>4, <1>5 DEF Unloading

(* ... the restart, ... *)
LEMMA TypeRestarting == TypeOK /\ Restarting => TypeOK'
  <1> SUFFICES ASSUME TypeOK, Restarting PROVE TypeOK' OBVIOUS
  <1> USE DEF TypeOK, TransitionOK, BodyOK, DriverOK, OutsideOK, Labels, Goto, UnloadTo
  <1>1. CASE RestartTaken BY <1>1, Completes, CurTyped, RefreshIntent DEF
       RestartTaken, Idle, Results
  <1>2. CASE RestartLost BY <1>2 DEF RestartLost
  <1>3. CASE RestartInactive BY <1>3, Completes, CurTyped, RefreshIntent DEF
       RestartInactive, Idle, Results
  <1>4. CASE RestartUnload BY <1>4 DEF RestartUnload
  <1>5. CASE RestartDone BY <1>5, Completes, CurTyped, RefreshIntent DEF
       RestartDone, Idle, Results, Errors
  <1> QED BY <1>1, <1>2, <1>3, <1>4, <1>5 DEF Restarting

(* ... the end of the driver, ... *)
LEMMA TypeEnding == TypeOK /\ Ending => TypeOK'
  <1> SUFFICES ASSUME TypeOK, Ending PROVE TypeOK' OBVIOUS
  <1> USE DEF TypeOK, TransitionOK, BodyOK, DriverOK, OutsideOK, Labels, Goto, UnloadTo
  <1>1. CASE Dispose BY <1>1 DEF Dispose
  <1>2. CASE Disposed
    <2> USE <1>2, Completes DEF Disposed, Results
    <2>1. TransitionOK' OBVIOUS
    <2>2. BodyOK' OBVIOUS
    <2>3. DriverOK' OBVIOUS
    <2>4. OutsideOK' OBVIOUS
    <2> QED BY <2>1, <2>2, <2>3, <2>4 DEF TypeOK
  <1>3. CASE Shutdown BY <1>3 DEF Shutdown
  <1>4. CASE ShutdownPrior BY <1>4 DEF ShutdownPrior, Errors
  <1>5. CASE Exit
    <2> USE <1>5 DEF Exit
    <2>1. TransitionOK' OBVIOUS
    <2>2. BodyOK' OBVIOUS
    <2>3. DriverOK' OBVIOUS
    <2>4. OutsideOK' OBVIOUS
    <2> QED BY <2>1, <2>2, <2>3, <2>4 DEF TypeOK
  <1>6. CASE Sweep BY <1>6, Completes, HeadTail, SweptTyped DEF Sweep, Intents
  <1>7. CASE SweepEnd
    <2> USE <1>7, Completes, CurTyped DEF SweepEnd, Results
    <2>1. TransitionOK' OBVIOUS
    <2>2. BodyOK' OBVIOUS
    <2>3. DriverOK' OBVIOUS
    <2>4. OutsideOK' OBVIOUS
    <2> QED BY <2>1, <2>2, <2>3, <2>4 DEF TypeOK
  <1>8. CASE Release
    <2> USE <1>8, RefreshIntent, EmptyMailbox DEF Release
    <2>1. TransitionOK' OBVIOUS
    <2>2. BodyOK' OBVIOUS
    <2>3. DriverOK' OBVIOUS
    <2>4. OutsideOK' OBVIOUS
    <2> QED BY <2>1, <2>2, <2>3, <2>4 DEF TypeOK
  <1>9. CASE Recovered
    <2> USE <1>9, RefreshIntent DEF Recovered, States, Errors, Results
    <2>1. TransitionOK' OBVIOUS
    <2>2. BodyOK' OBVIOUS
    <2>3. DriverOK' OBVIOUS
    <2>4. OutsideOK' OBVIOUS
    <2> QED BY <2>1, <2>2, <2>3, <2>4 DEF TypeOK
  <1>10. CASE Recover BY <1>10 DEF Recover, States
  <1>11. CASE RecoverDrain BY <1>11 DEF RecoverDrain
  <1> QED BY <1>1, <1>2, <1>3, <1>4, <1>5, <1>6, <1>7, <1>8, <1>9, <1>10, <1>11
          DEF Ending

(* ... the plugin's apply, ... *)
LEMMA TypeApplyReturn == TypeOK /\ ApplyReturn => TypeOK'
  <1> SUFFICES ASSUME TypeOK, ApplyReturn PROVE TypeOK' OBVIOUS
  <1> USE DEF TypeOK, TransitionOK, BodyOK, DriverOK, OutsideOK, Labels, Goto, UnloadTo
  <1>1. CASE ApplyOk BY <1>1 DEF ApplyOk
  <1>2. CASE ApplyErr BY <1>2 DEF ApplyErr
  <1>3. CASE ApplyLost BY <1>3 DEF ApplyLost
  <1> QED BY <1>1, <1>2, <1>3 DEF ApplyReturn

(* ... the mount, ... *)
LEMMA TypeMounting == TypeOK /\ Mounting => TypeOK'
  <1> SUFFICES ASSUME TypeOK, Mounting PROVE TypeOK' OBVIOUS
  <1> USE DEF TypeOK, TransitionOK, BodyOK, DriverOK, OutsideOK, Labels, Goto, UnloadTo
  <1>1. CASE MountRegister BY <1>1 DEF MountRegister
  <1>2. CASE MountPost BY <1>2, Appends, RefreshIntent DEF MountPost
  <1>3. CASE MountClosing BY <1>3 DEF MountClosing
  <1>4. CASE MountOrphan BY <1>4, Appends DEF MountOrphan, Intents, Kinds, Tasks
  <1> QED BY <1>1, <1>2, <1>3, <1>4 DEF Mounting

(* ... the calls as they are made, ... *)
LEMMA TypeCall == ASSUME NEW c \in Callers, TypeOK, Call(c) PROVE TypeOK'
  <1> USE DEF TypeOK, TransitionOK, BodyOK, DriverOK, OutsideOK, CallLabels
  <1>1. CASE DisposeJoin(c) BY <1>1 DEF DisposeJoin, Join, Move, At
  <1>2. CASE DisposeRegister(c) BY <1>2 DEF DisposeRegister, PreCancel, Move,
       At, Tasks
  <1>3. CASE RestartRefused(c) BY <1>3 DEF RestartRefused, Move, At, Results
  <1>4. CASE RestartCall(c) BY <1>4 DEF RestartCall, PreCancel, Move, At, Tasks
  <1>5. CASE SettleCall(c) BY <1>5 DEF SettleCall, Move, At, Tasks
  <1>6. CASE ShutdownCall(c)
    <2> USE <1>6 DEF ShutdownCall, PreCancel, Join, Move, At, Tasks
    <2>1. TransitionOK' OBVIOUS
    <2>2. BodyOK' OBVIOUS
    <2>3. DriverOK' OBVIOUS
    <2>4. OutsideOK' BY ZenonT(30)
    <2> QED BY <2>1, <2>2, <2>3, <2>4 DEF TypeOK
  <1>7. CASE Provide(c) BY <1>7 DEF Provide, Move, At, Bindings, Tasks
  <1>8. CASE WithdrawMark(c)
    <2> USE <1>8 DEF WithdrawMark, Move, At
    <2>1. slot' \in Bindings
      <3>1. NoBinding.removing = TRUE BY DEF NoBinding
      <3>2. slot \in Bindings BY <3>1
      <3> QED BY <3>2 DEF Bindings
    <2>2. TransitionOK' /\ BodyOK' /\ DriverOK' OBVIOUS
    <2>3. OutsideOK' BY <2>1
    <2> QED BY <2>2, <2>3 DEF TypeOK
  <1> QED BY <1>1, <1>2, <1>3, <1>4, <1>5, <1>6, <1>7, <1>8 DEF Call

(* ... and as they go on, ... *)
LEMMA TypeContinue == ASSUME NEW c \in Callers, TypeOK, Continue(c) PROVE TypeOK'
  <1> USE DEF TypeOK, TransitionOK, BodyOK, DriverOK, OutsideOK, CallLabels
  <1>1. CASE PostStopped(c) BY <1>1 DEF PostStopped, StoppedError, AfterPost,
       Move, Results
  <1>2. CASE PostCheck(c) BY <1>2 DEF PostCheck, Move
  <1>3. CASE PostSend(c)
    <2> USE <1>3, Appends, PostedTyped DEF PostSend, Move
    <2>1. TransitionOK' OBVIOUS
    <2>2. BodyOK' OBVIOUS
    <2>3. DriverOK' OBVIOUS
    <2>4. OutsideOK' OBVIOUS
    <2> QED BY <2>1, <2>2, <2>3, <2>4 DEF TypeOK
  <1>4. CASE PostRecheck(c) BY <1>4 DEF PostRecheck, StoppedError, AfterPost,
       Move, Results
  <1>5. CASE Joined(c) BY <1>5 DEF Joined, Move
  <1>6. CASE Notify(c) BY <1>6, Appends, RefreshIntent DEF Notify, Move
  <1>7. CASE WithdrawFind(c) BY <1>7 DEF WithdrawFind, Move, At
  <1>8. CASE WithdrawFlag(c) BY <1>8 DEF WithdrawFlag, Move, At
  <1>9. CASE WithdrawCancel(c) BY <1>9 DEF WithdrawCancel, Move, At
  <1>10. CASE WithdrawConsumer(c) BY <1>10 DEF WithdrawConsumer, Move, At, Tasks
  <1>11. CASE WithdrawFinalize(c) BY <1>11 DEF WithdrawFinalize, Move, At,
       Same, Bindings, NoBinding
  <1> QED BY <1>1, <1>2, <1>3, <1>4, <1>5, <1>6, <1>7, <1>8, <1>9, <1>10, <1>11
       DEF Continue

(* ... and the taking of an intent. *)
LEMMA TypeTaken == TypeOK /\ (Take \/ Settle) => TypeOK'
  <1> SUFFICES ASSUME TypeOK, Take \/ Settle PROVE TypeOK' OBVIOUS
  <1> USE DEF TypeOK, TransitionOK, BodyOK, DriverOK, OutsideOK, Labels
  <1>1. CASE Take BY <1>1, HeadTail DEF Take, Kinds, Intents
  <1>2. CASE Settle
    <2> USE <1>2, Completes, CurTyped, RefreshIntent DEF Settle, Idle, Results,
           Errors
    <2>1. TransitionOK' OBVIOUS
    <2>2. BodyOK' OBVIOUS
    <2>3. DriverOK' OBVIOUS
    <2>4. OutsideOK' OBVIOUS
    <2> QED BY <2>1, <2>2, <2>3, <2>4 DEF TypeOK
  <1> QED BY <1>1, <1>2

(* So every step does. *)
LEMMA TypeStep == TypeOK /\ [Next]_vars => TypeOK'
  <1> SUFFICES ASSUME TypeOK, [Next]_vars PROVE TypeOK' OBVIOUS
  <1>1. CASE Driver
    BY <1>1, TypeTaken, TypeRefreshing, TypeUnloading, TypeRestarting, TypeEnding
       DEF Driver
  <1>2. CASE ApplyReturn BY <1>2, TypeApplyReturn
  <1>3. CASE Mounting BY <1>3, TypeMounting
  <1>4. CASE \E c \in Callers : Call(c) \/ Continue(c)
    BY <1>4, TypeCall, TypeContinue
  <1>5. CASE Rest \/ UNCHANGED vars
    <2> USE <1>5 DEF Rest, vars, TypeOK
    <2>1. TransitionOK' BY DEF TransitionOK
    <2>2. BodyOK' BY DEF BodyOK
    <2>3. DriverOK' BY DEF DriverOK
    <2>4. OutsideOK' BY DEF OutsideOK
    <2> QED BY <2>1, <2>2, <2>3, <2>4
  <1> QED BY <1>1, <1>2, <1>3, <1>4, <1>5 DEF Next

(* Every variable of the fiber, its driver and its callers stays in the     *)
(* states the code has, for any number of callers and bindings.             *)
THEOREM TypeCorrect == Spec => []TypeOK
  BY TypeInit, TypeStep, PTL DEF Spec

-----------------------------------------------------------------------------
(***************************************************************************)
(* The inductive invariant: what the driver's place says of the state and  *)
(* of the cleanups held.                                                   *)
(***************************************************************************)
(* Where the driver is, as the state it published has it. *)
Atop == {"bind", "regate", "build"}                     \* loading, nothing registered
Applying == {"apply", "adopt", "adopted", "activate"}   \* loading, effects registered
Stopping == {"unload", "drain", "publish"}
Recovering == {"recover", "recoverDrain", "recovered"}
Busy == Atop \cup Applying \cup Stopping \cup Recovering \cup {"fail"}
Ended == {"disposed", "prior", "exit", "sweep", "release", "gone"}

(* What is published at each place of the driver. *)
PhaseOfState ==
  /\ pc \in Atop \cup Applying \cup {"fail"} => state = "Loading"
  /\ pc \in {"drain", "publish", "recoverDrain", "recovered"} => state = "Unloading"
  /\ pc = "recover" => state \in {"Loading", "Unloading"}
  /\ pc \in {"terminal", "gate", "unload"} => state # "Disposed"
  /\ pc = "load" => state = "Pending"
  /\ pc = "unload" => state # "Unloading"
  /\ pc \notin Busy => state \in {"Pending", "Active", "Failed", "Disposed"}

(* Whose cleanups are held there. *)
PhaseOfEffects ==
  /\ effects \subseteq {gen}
  /\ pc \in Atop \cup {"publish", "recovered"} => effects = {}
  /\ pc \in Applying => effects = {gen}
  /\ state \in {"Pending", "Failed", "Disposed"} => effects = {}
  /\ state = "Active" => effects = {gen}

(* An unload continues where its caller said; Disposed has its reason. *)
PhaseOfUnload ==
  /\ pc \in Stopping =>
       then \in {"load", "lost", "refresh", "refreshed", "inactive"} \cup Ended
  /\ pc \in Stopping /\ then = "load" => next = "Pending"
  /\ pc \in Stopping /\ next = "Disposed" => terminal # NoTask \/ then \in Ended
  /\ state = "Disposed" => terminal # NoTask \/ pc \in Ended
  /\ closing => terminal # NoTask

Phases == PhaseOfState /\ PhaseOfEffects /\ PhaseOfUnload

(* The inductive invariant. *)
IInv == TypeOK /\ Phases /\ StopReachesToken

USE DEF Atop, Applying, Stopping, Recovering, Busy, Ended

(* The phases hold at first, with the cancellation of a claimed fiber, ... *)
LEMMA PhaseInit == Init => Phases /\ StopReachesToken
  BY DEF Init, Phases, PhaseOfState, PhaseOfEffects, PhaseOfUnload, StopReachesToken

(* ... and each group of steps keeps both. *)
LEMMA PhaseTaken ==
  ASSUME TypeOK, Phases, StopReachesToken, Take \/ Settle
  PROVE  Phases' /\ StopReachesToken'
  <1> USE DEF TypeOK, TransitionOK, DriverOK, Phases, PhaseOfState, PhaseOfEffects,
          PhaseOfUnload, StopReachesToken, Goto, UnloadTo, Labels
  <1>1. CASE Take BY <1>1, HeadTail DEF Take, Kinds, Intents
  <1>2. CASE Settle BY <1>2 DEF Settle, Idle
  <1> QED BY <1>1, <1>2

LEMMA PhaseRefreshing ==
  ASSUME TypeOK, Phases, StopReachesToken, Refreshing
  PROVE  Phases' /\ StopReachesToken'
  <1> USE DEF TypeOK, TransitionOK, DriverOK, Phases, PhaseOfState, PhaseOfEffects,
          PhaseOfUnload, StopReachesToken, Goto, UnloadTo, Labels
  <1>1. CASE RefreshOpen BY <1>1 DEF RefreshOpen
  <1>2. CASE RefreshTerminal BY <1>2 DEF RefreshTerminal
  <1>3. CASE GateMissing BY <1>3 DEF GateMissing
  <1>4. CASE GateUnchanged BY <1>4 DEF GateUnchanged
  <1>5. CASE GateChanged BY <1>5 DEF GateChanged
  <1>6. CASE LoadRefused BY <1>6 DEF LoadRefused, Loadable
  <1>7. CASE Load BY <1>7 DEF Load, Loadable, StartsCancelled
  <1>8. CASE Bind BY <1>8 DEF Bind
  <1>9. CASE Regate BY <1>9 DEF Regate, GateHolds
  <1>10. CASE Build BY <1>10 DEF Build
  <1>11. CASE Lost BY <1>11 DEF Lost
  <1>12. CASE Adopt BY <1>12 DEF Adopt
  <1>13. CASE Adopted BY <1>13 DEF Adopted
  <1>14. CASE Activate BY <1>14 DEF Activate
  <1>15. CASE FailStopped BY <1>15 DEF FailStopped
  <1>16. CASE FailLoad BY <1>16 DEF FailLoad
  <1>17. CASE RefreshedPlain BY <1>17 DEF RefreshedPlain, Idle
  <1>18. CASE RefreshedJoin BY <1>18 DEF RefreshedJoin, Idle
  <1> QED BY <1>1, <1>2, <1>3, <1>4, <1>5, <1>6, <1>7, <1>8, <1>9, <1>10,
       <1>11, <1>12, <1>13, <1>14, <1>15, <1>16, <1>17, <1>18 DEF Refreshing

LEMMA PhaseUnloading ==
  ASSUME TypeOK, Phases, StopReachesToken, Unloading
  PROVE  Phases' /\ StopReachesToken'
  <1> USE DEF TypeOK, TransitionOK, DriverOK, Phases, PhaseOfState, PhaseOfEffects,
          PhaseOfUnload, StopReachesToken, Goto, UnloadTo, Labels
  <1>1. CASE Unload BY <1>1 DEF Unload
  <1>2. CASE Drain BY <1>2 DEF Drain
  <1>3. CASE Publish BY <1>3 DEF Publish
  <1>4. CASE Panic BY <1>4 DEF Panic, Crash
  <1>5. CASE PanicStopped BY <1>5 DEF PanicStopped, Crash
  <1> QED BY <1>1, <1>2, <1>3, <1>4, <1>5 DEF Unloading

LEMMA PhaseRestarting ==
  ASSUME TypeOK, Phases, StopReachesToken, Restarting
  PROVE  Phases' /\ StopReachesToken'
  <1> USE DEF TypeOK, TransitionOK, DriverOK, Phases, PhaseOfState, PhaseOfEffects,
          PhaseOfUnload, StopReachesToken, Goto, UnloadTo, Labels
  <1>1. CASE RestartTaken BY <1>1 DEF RestartTaken, Idle
  <1>2. CASE RestartLost BY <1>2 DEF RestartLost
  <1>3. CASE RestartInactive BY <1>3 DEF RestartInactive, Idle
  <1>4. CASE RestartUnload BY <1>4 DEF RestartUnload
  <1>5. CASE RestartDone BY <1>5 DEF RestartDone, Idle
  <1> QED BY <1>1, <1>2, <1>3, <1>4, <1>5 DEF Restarting

LEMMA PhaseEnding ==
  ASSUME TypeOK, Phases, StopReachesToken, Ending
  PROVE  Phases' /\ StopReachesToken'
  <1> USE DEF TypeOK, TransitionOK, DriverOK, Phases, PhaseOfState, PhaseOfEffects,
          PhaseOfUnload, StopReachesToken, Goto, UnloadTo, Labels
  <1>1. CASE Dispose BY <1>1 DEF Dispose
  <1>2. CASE Disposed BY <1>2 DEF Disposed
  <1>3. CASE Shutdown BY <1>3 DEF Shutdown
  <1>4. CASE ShutdownPrior BY <1>4 DEF ShutdownPrior
  <1>5. CASE Exit BY <1>5 DEF Exit
  <1>6. CASE Sweep BY <1>6 DEF Sweep
  <1>7. CASE SweepEnd BY <1>7 DEF SweepEnd
  <1>8. CASE Release BY <1>8 DEF Release
  <1>9. CASE Recover BY <1>9 DEF Recover
  <1>10. CASE RecoverDrain BY <1>10 DEF RecoverDrain
  <1>11. CASE Recovered BY <1>11 DEF Recovered
  <1> QED BY <1>1, <1>2, <1>3, <1>4, <1>5, <1>6, <1>7, <1>8, <1>9, <1>10, <1>11
          DEF Ending

LEMMA PhaseApplyReturn ==
  ASSUME TypeOK, Phases, StopReachesToken, ApplyReturn
  PROVE  Phases' /\ StopReachesToken'
  <1> USE DEF TypeOK, TransitionOK, DriverOK, Phases, PhaseOfState, PhaseOfEffects,
          PhaseOfUnload, StopReachesToken, Goto, UnloadTo, Labels
  <1>1. CASE ApplyOk BY <1>1 DEF ApplyOk
  <1>2. CASE ApplyErr BY <1>2 DEF ApplyErr
  <1>3. CASE ApplyLost BY <1>3 DEF ApplyLost
  <1> QED BY <1>1, <1>2, <1>3 DEF ApplyReturn

LEMMA PhaseMounting ==
  ASSUME TypeOK, Phases, StopReachesToken, Mounting
  PROVE  Phases' /\ StopReachesToken'
  <1> USE DEF TypeOK, TransitionOK, DriverOK, Phases, PhaseOfState, PhaseOfEffects,
          PhaseOfUnload, StopReachesToken, Goto, UnloadTo, Labels
  <1>1. CASE MountRegister BY <1>1 DEF MountRegister
  <1>2. CASE MountPost BY <1>2 DEF MountPost
  <1>3. CASE MountClosing BY <1>3 DEF MountClosing
  <1>4. CASE MountOrphan BY <1>4 DEF MountOrphan
  <1> QED BY <1>1, <1>2, <1>3, <1>4 DEF Mounting

(* A call leaves the driver where it is; those that claim the fiber cancel  *)
(* its generation.                                                          *)
LEMMA PhaseCall ==
  ASSUME NEW c \in Callers, TypeOK, Phases, StopReachesToken, Call(c)
  PROVE  Phases' /\ StopReachesToken'
  <1> USE FiberAssumption DEF Phases, PhaseOfState, PhaseOfEffects, PhaseOfUnload,
          StopReachesToken
  <1>1. CASE DisposeJoin(c) BY <1>1 DEF DisposeJoin
  <1>2. CASE DisposeRegister(c) BY <1>2 DEF DisposeRegister, PreCancel
  <1>3. CASE RestartRefused(c) BY <1>3 DEF RestartRefused
  <1>4. CASE RestartCall(c) BY <1>4 DEF RestartCall, PreCancel, TypeOK, TransitionOK
  <1>5. CASE SettleCall(c) BY <1>5 DEF SettleCall
  <1>6. CASE ShutdownCall(c) BY <1>6 DEF ShutdownCall, PreCancel, Join
  <1>7. CASE Provide(c) BY <1>7 DEF Provide
  <1>8. CASE WithdrawMark(c) BY <1>8 DEF WithdrawMark
  <1> QED BY <1>1, <1>2, <1>3, <1>4, <1>5, <1>6, <1>7, <1>8 DEF Call

LEMMA PhaseContinue ==
  ASSUME NEW c \in Callers, Phases, StopReachesToken, Continue(c)
  PROVE  Phases' /\ StopReachesToken'
  <1> USE DEF Phases, PhaseOfState, PhaseOfEffects, PhaseOfUnload, StopReachesToken
  <1>1. CASE PostStopped(c) BY <1>1 DEF PostStopped
  <1>2. CASE PostCheck(c) BY <1>2 DEF PostCheck
  <1>3. CASE PostSend(c) BY <1>3 DEF PostSend
  <1>4. CASE PostRecheck(c) BY <1>4 DEF PostRecheck
  <1>5. CASE Joined(c) BY <1>5 DEF Joined
  <1>6. CASE Notify(c) BY <1>6 DEF Notify
  <1>7. CASE WithdrawFind(c) BY <1>7 DEF WithdrawFind
  <1>8. CASE WithdrawFlag(c) BY <1>8 DEF WithdrawFlag
  <1>9. CASE WithdrawCancel(c) BY <1>9 DEF WithdrawCancel
  <1>10. CASE WithdrawConsumer(c) BY <1>10 DEF WithdrawConsumer
  <1>11. CASE WithdrawFinalize(c) BY <1>11 DEF WithdrawFinalize
  <1> QED BY <1>1, <1>2, <1>3, <1>4, <1>5, <1>6, <1>7, <1>8, <1>9, <1>10, <1>11
       DEF Continue

(* So IInv is inductive ... *)
LEMMA Inductive == IInv /\ [Next]_vars => IInv'
  <1> SUFFICES ASSUME IInv, [Next]_vars PROVE IInv' OBVIOUS
  <1> USE DEF IInv
  <1>1. TypeOK' BY TypeStep
  <1>2. CASE Driver
    BY <1>1, <1>2, PhaseTaken, PhaseRefreshing, PhaseUnloading, PhaseRestarting,
       PhaseEnding DEF Driver
  <1>3. CASE ApplyReturn BY <1>1, <1>3, PhaseApplyReturn
  <1>4. CASE Mounting BY <1>1, <1>4, PhaseMounting
  <1>5. CASE \E c \in Callers : Call(c) \/ Continue(c)
    BY <1>1, <1>5, PhaseCall, PhaseContinue
  <1>6. CASE Rest \/ UNCHANGED vars
    BY <1>1, <1>6 DEF Rest, vars, Phases, PhaseOfState, PhaseOfEffects,
       PhaseOfUnload, StopReachesToken
  <1> QED BY <1>2, <1>3, <1>4, <1>5, <1>6 DEF Next

(* ... and holds throughout. *)
LEMMA Invariance == Spec => []IInv
  <1>1. Init => IInv BY TypeInit, PhaseInit DEF IInv
  <1> QED BY <1>1, Inductive, PTL DEF Spec

(* However many callers claim the fiber, at whatever step of its driver:    *)
(* the generation that runs is cancelled once one of them has.              *)
THEOREM StopReaches == Spec => []StopReachesToken
  BY Invariance, PTL DEF IInv

(* A fiber holds the cleanups of one generation at most, and of none where  *)
(* it waits, has failed or is disposed.                                     *)
THEOREM OneGenerationHeld == Spec => []OneGeneration
  <1>1. IInv => OneGeneration BY DEF IInv, Phases, PhaseOfEffects, OneGeneration
  <1> QED BY <1>1, Invariance, PTL

-----------------------------------------------------------------------------
(***************************************************************************)
(* The fiber implements FiberLifecycle: each step of the driver that moves *)
(* the state, the generation or the cleanups is one of its actions.        *)
(***************************************************************************)
(* A step of the driver or of the plugin is one of the lifecycle, or stutters; ... *)
LEMMA LifecycleDriver ==
  ASSUME IInv, Driver \/ ApplyReturn
  PROVE  [L!Next]_(L!vars)
  <1> USE DEF L!vars, L!Next, Goto, UnloadTo, IInv, Phases, TypeOK, TransitionOK,
          DriverOK
  <1>1. CASE Load BY <1>1 DEF Load, Loadable, PhaseOfState, PhaseOfEffects, L!Start
  <1>2. CASE Build BY <1>2 DEF Build, PhaseOfState, PhaseOfEffects, L!Register
  <1>3. CASE Activate BY <1>3 DEF Activate, PhaseOfState, PhaseOfEffects, L!Activate
  <1>4. CASE Unload BY <1>4 DEF Unload, PhaseOfState, L!Stop
  <1>5. CASE FailLoad BY <1>5 DEF FailLoad, PhaseOfState, L!Stop
  <1>6. CASE Drain BY <1>6 DEF Drain, PhaseOfState, L!Clean
  <1>7. CASE Publish
    BY <1>7 DEF Publish, PhaseOfState, PhaseOfEffects, L!Rest, L!Resting
  <1>8. CASE Recover \/ RecoverDrain \/ Recovered
    BY <1>8 DEF Recover, RecoverDrain, Recovered, PhaseOfState, PhaseOfEffects,
       L!Stop, L!Clean, L!Rest, L!Resting
  <1>9. CASE ApplyReturn BY <1>9 DEF ApplyReturn, ApplyOk, ApplyErr, ApplyLost
  <1>10. CASE
      \/ RefreshOpen \/ RefreshTerminal \/ GateMissing \/ GateUnchanged
      \/ GateChanged \/ LoadRefused \/ Bind \/ Regate \/ Lost \/ Adopt
      \/ Adopted \/ FailStopped \/ RefreshedPlain \/ RefreshedJoin
    BY <1>10 DEF RefreshOpen, RefreshTerminal, GateMissing, GateUnchanged,
       GateChanged, LoadRefused, Bind, Regate, Lost, Adopt, Adopted, FailStopped,
       RefreshedPlain, RefreshedJoin
  <1>11. CASE Take \/ Settle \/ Panic \/ PanicStopped \/ Restarting
    BY <1>11 DEF Take, Settle, Panic, PanicStopped, Crash, Restarting, RestartTaken,
       RestartLost,
       RestartInactive, RestartUnload, RestartDone
  <1>12. CASE
      \/ Dispose \/ Disposed \/ Shutdown \/ ShutdownPrior \/ Exit \/ Sweep
      \/ SweepEnd \/ Release
    BY <1>12 DEF Dispose, Disposed, Shutdown, ShutdownPrior, Exit, Sweep, SweepEnd,
       Release
  <1> QED BY <1>1, <1>2, <1>3, <1>4, <1>5, <1>6, <1>7, <1>8, <1>9, <1>10, <1>11,
          <1>12 DEF Driver, Refreshing, Unloading, Ending

(* ... no other step touches what is watched. *)
LEMMA LifecycleElse ==
  ASSUME Mounting \/ (\E c \in Callers : Call(c) \/ Continue(c)) \/ Rest
  PROVE  UNCHANGED L!vars
  <1> USE DEF L!vars
  <1>1. CASE Mounting
    BY <1>1 DEF Mounting, MountRegister, MountPost, MountClosing, MountOrphan
  <1>2. ASSUME NEW c \in Callers, Call(c) PROVE UNCHANGED L!vars
    BY <1>2 DEF Call, DisposeJoin, DisposeRegister, RestartRefused, RestartCall,
       SettleCall, ShutdownCall, Provide, WithdrawMark
  <1>3. ASSUME NEW c \in Callers, Continue(c) PROVE UNCHANGED L!vars
    BY <1>3 DEF Continue, PostStopped, PostCheck, PostSend, PostRecheck, Joined,
       Notify, WithdrawFind, WithdrawFlag, WithdrawCancel, WithdrawConsumer,
       WithdrawFinalize
  <1>4. CASE Rest BY <1>4 DEF Rest, vars
  <1> QED BY <1>1, <1>2, <1>3, <1>4

(* Every step of the fiber is one of the lifecycle, or stutters. *)
LEMMA LifecycleStep == IInv /\ [Next]_vars => [L!Next]_(L!vars)
  <1>1. CASE UNCHANGED vars BY <1>1 DEF vars, L!vars
  <1> QED BY <1>1, LifecycleDriver, LifecycleElse DEF Next

(* The fiber implements what it promises its watchers.                      *)
THEOREM Implements == Spec => Lifecycle
  <1>1. Init => L!Init BY DEF Init, L!Init
  <1> QED BY <1>1, LifecycleStep, Invariance, PTL DEF Spec, Lifecycle, L!Spec

(* Load is the one step that starts a generation. *)
LEMMA OnlyLoad == (Driver \/ ApplyReturn) /\ ~ Load => gen' = gen
  <1>1. CASE Take \/ Settle \/ ApplyReturn
    BY <1>1 DEF Take, Settle, ApplyReturn, ApplyOk, ApplyErr, ApplyLost
  <1>2. CASE Refreshing /\ ~ Load
    BY <1>2 DEF Refreshing, RefreshOpen, RefreshTerminal, GateMissing, GateUnchanged,
       GateChanged, LoadRefused, Bind, Regate, Build, Lost, Adopt, Adopted, Activate,
       FailStopped, FailLoad, RefreshedPlain, RefreshedJoin
  <1>3. CASE Unloading \/ Restarting
    BY <1>3 DEF Unloading, Unload, Drain, Publish, Panic, PanicStopped, Crash,
       Restarting, RestartTaken,
       RestartLost, RestartInactive, RestartUnload, RestartDone
  <1>4. CASE Ending
    BY <1>4 DEF Ending, Dispose, Disposed, Shutdown, ShutdownPrior, Exit, Sweep,
       SweepEnd, Release, Recover, RecoverDrain, Recovered
  <1> QED BY <1>1, <1>2, <1>3, <1>4 DEF Driver

(* No generation starts behind a dispose or a shutdown, and Disposed is the *)
(* end.                                                                     *)
THEOREM NothingAfterStop == Spec => NoStartAfterStop
  <1> DEFINE Step == /\ terminal # NoTask => gen' = gen
                     /\ state = "Disposed" => state' = "Disposed"
  <1>1. ASSUME IInv, [L!Next]_(L!vars)
        PROVE  state = "Disposed" => state' = "Disposed"
    BY <1>1 DEF L!Next, L!vars, L!Start, L!Register, L!Activate, L!Stop, L!Clean,
       L!Rest
  <1>2. ASSUME IInv, [Next]_vars, terminal # NoTask PROVE gen' = gen
    <2>1. CASE Driver \/ ApplyReturn BY <1>2, <2>1, OnlyLoad DEF Load, Loadable
    <2>2. CASE UNCHANGED vars BY <2>2 DEF vars
    <2> QED BY <1>2, <2>1, <2>2, LifecycleElse DEF Next, L!vars
  <1>3. IInv /\ [Next]_vars => [Step]_vars BY <1>1, <1>2, LifecycleStep
  <1> QED BY <1>3, Invariance, PTL DEF Spec, NoStartAfterStop

-----------------------------------------------------------------------------
(***************************************************************************)
(* The calls made on a fiber, for any number of callers: what becomes of   *)
(* the intents they post and of the results they wait for.                 *)
(*                                                                         *)
(* A load that a stop reached never fails, all who stop the fiber are told *)
(* one result, and no caller is left behind by the driver. The invariant   *)
(* follows every posted intent from its caller through the mailbox into    *)
(* the driver's hands, and counts the restarts that are on their way.      *)
(***************************************************************************)

(* Where the mailbox was swept, and where the result of the stop is out. *)
Over == {"sweep", "release", "gone"}
Told == {"exit"} \cup Over

(* The driver is alive until it exits, its mailbox open until it is gone. *)
Lifelines ==
  /\ alive <=> pc \notin Over
  /\ open <=> pc # "gone"

(* The kinds of intent the driver can have in hand at a place: a join or a *)
(* restart refreshes as well.                                              *)
KindsAt(p) ==
  CASE p = "settle" -> {"settle"}
    [] p \in {"restart", "restartOpen", "inactive"} -> {"restart"}
    [] p \in {"dispose", "disposed"} -> {"dispose"}
    [] p \in {"shutdown", "prior"} -> {"shutdown"}
    [] p = "exit" -> {"dispose", "shutdown"}
    [] p \in {"sweep", "release"} -> {"dispose", "shutdown", "refresh"}
    [] p \in {"recv", "gone"} -> {"refresh"}
    [] OTHER -> {"refresh", "join", "restart"}

(* The driver is where the intent in hand has led it, ... *)
InHand ==
  /\ pc \notin Stopping \cup Recovering => cur.kind \in KindsAt(pc)
  /\ pc \in Stopping => cur.kind \in KindsAt(then)
  /\ pc \in Stopping /\ then = "exit" => cur.kind = "shutdown"
  /\ pc \in Recovering => cur.kind \in {"refresh", "join", "restart"}

(* ... and an unload to where its caller said. *)
Unloads ==
  /\ pc \in Stopping => then \notin Over
  /\ pc \in Stopping /\ then \in Ended => next = "Disposed"
  /\ next = "Failed" => pc \in {"drain", "publish"}

(* An intent is in a mailbox; no task is in it twice. *)
Held(m, i) == \E k \in 1 .. Len(m) : m[k] = i

Single(m) ==
  \A j, k \in 1 .. Len(m) : m[j].task = m[k].task /\ m[j].task # NoTask => j = k

DisposeIntent == [kind |-> "dispose", task |-> NoTask]

Past == {"recheck", "join", "notify", "finalize", "done"}   \* past its send

(* An intent is a notification, a registered dispose or an orphan's, or *)
(* what a caller posted that has gone on since.                         *)
Fits(i) ==
  \/ i = Refresh
  \/ i = DisposeIntent /\ (terminal # NoTask \/ op \in Orphaned)
  \/ /\ i.task \in Callers
     /\ i = Posted(i.task)
     /\ op[i.task] \in {"restart", "settle", "shutdown", "withdraw"}
     /\ joined[i.task] = i.task
     /\ cpc[i.task] \in Past

(* What is in the mailbox and in hand fits its callers, and no task is there *)
(* twice.                                                                    *)
Mail ==
  /\ \A i \in Intents : Held(mailbox, i) => Fits(i)
  /\ Fits(cur)
  /\ Single(mailbox)
  /\ \A i \in Intents : Held(mailbox, i) /\ i.task = cur.task => i.task = NoTask

(* A caller joins its own task or the terminal one. *)
Joins ==
  \A c \in Callers :
    /\ cpc[c] \in {"idle", "find", "flag", "cancel", "consumer"} => joined[c] = NoTask
    /\ cpc[c] \in {"check", "send", "recheck"} => joined[c] = c
    /\ cpc[c] = "join" => joined[c] # NoTask
    /\ joined[c] \in {NoTask, c, terminal}

(* The terminal task is that of the one stop that joins itself. *)
Claimed ==
  /\ terminal # NoTask =>
       op[terminal] \in {"dispose", "shutdown"} /\ joined[terminal] = terminal
  /\ \A c \in Callers :
       op[c] \in {"dispose", "shutdown"} /\ (joined[c] = c \/ result[c] # "running")
         => terminal = c

(* Its result is given once the driver exits, and stays the fiber's error. *)
TerminalTold ==
  terminal # NoTask /\ result[terminal] # "running" =>
    result[terminal] = err /\ pc \in Told

(* The restarts on their way to the driver ... *)
Waiting ==
  {c \in Callers :
     op[c] = "restart" /\ \/ cpc[c] \in {"check", "send"}
                          \/ Held(mailbox, [kind |-> "restart", task |-> c])
                          \/ pc = "restart" /\ cur.task = c}

(* ... are counted by the fiber. *)
Counted == IsFiniteSet(Waiting) /\ Cardinality(Waiting) <= pendingRestarts

(* A fiber with a parent exits with its stop told, save a stop that is    *)
(* still to find out, or whose shutdown is in hand.                       *)
StopTold ==
  op \notin Orphaned /\ terminal # NoTask /\ pc \in Told /\ result[terminal] = "running"
    => \/ cpc[terminal] = "check" /\ ~ alive
       \/ pc \in {"exit", "sweep"} /\ cur = [kind |-> "shutdown", task |-> terminal]

(* Whoever joins its own task has its intent with the driver until the    *)
(* result is given, or will look again.                                   *)
Awaited ==
  op \notin Orphaned =>
    \A c \in Callers :
      /\ joined[c] = c /\ result[c] = "running"
      /\ cpc[c] \notin {"check", "send"} /\ (cpc[c] = "recheck" => alive)
      => /\ pc \notin {"release", "gone"}
         /\ Held(mailbox, Posted(c)) \/ cur = Posted(c)

PlaceInv == Lifelines /\ InHand /\ Unloads
MailInv == Mail /\ Joins /\ Claimed /\ TerminalTold
CallInv == PlaceInv /\ MailInv /\ Counted /\ StopTold /\ Awaited
-----------------------------------------------------------------------------
(* Lists of intents *)

(* What is in a mailbox after a post, ... *)
LEMMA HeldAppended ==
  ASSUME NEW m \in Seq(Intents), NEW x \in Intents, NEW i
  PROVE  Held(Append(m, x), i) <=> Held(m, i) \/ i = x
  <1>1. Len(Append(m, x)) = Len(m) + 1 /\ Len(m) \in Nat OBVIOUS
  <1>2. Append(m, x)[Len(m) + 1] = x OBVIOUS
  <1>3. \A k \in 1 .. Len(m) : Append(m, x)[k] = m[k] OBVIOUS
  <1>4. ASSUME Held(Append(m, x), i) PROVE Held(m, i) \/ i = x
    <2>1. PICK k \in 1 .. Len(m) + 1 : Append(m, x)[k] = i BY <1>1, <1>4 DEF Held
    <2>2. CASE k = Len(m) + 1 BY <1>2, <2>1, <2>2
    <2>3. CASE k # Len(m) + 1
      <3>1. k \in 1 .. Len(m) BY <1>1, <2>3
      <3> QED BY <1>3, <2>1, <3>1 DEF Held
    <2> QED BY <2>2, <2>3
  <1>5. Held(m, i) => Held(Append(m, x), i)
    <2>1. \A k \in 1 .. Len(m) : k \in 1 .. Len(m) + 1 BY <1>1
    <2> QED BY <1>1, <1>3, <2>1 DEF Held
  <1>6. Held(Append(m, x), x)
    <2>1. Len(m) + 1 \in 1 .. Len(m) + 1 BY <1>1
    <2> QED BY <1>1, <1>2, <2>1 DEF Held
  <1> QED BY <1>4, <1>5, <1>6

(* ... and after its first intent was taken. *)
LEMMA HeldTaken ==
  ASSUME NEW m \in Seq(Intents), m # <<>>, NEW i
  PROVE  Held(m, i) <=> i = Head(m) \/ Held(Tail(m), i)
  <1>1. Len(m) \in Nat /\ Len(m) >= 1 /\ Len(Tail(m)) = Len(m) - 1 OBVIOUS
  <1>2. \A k \in 1 .. Len(m) - 1 : Tail(m)[k] = m[k + 1] OBVIOUS
  <1>3. Head(m) = m[1] OBVIOUS
  <1>4. ASSUME Held(m, i) PROVE i = Head(m) \/ Held(Tail(m), i)
    <2>1. PICK k \in 1 .. Len(m) : m[k] = i BY <1>4 DEF Held
    <2>2. CASE k = 1 BY <1>3, <2>1, <2>2
    <2>3. CASE k # 1
      <3>1. k - 1 \in 1 .. Len(m) - 1 /\ (k - 1) + 1 = k BY <1>1, <2>3
      <3>2. Tail(m)[k - 1] = i BY <1>2, <2>1, <3>1
      <3> QED BY <1>1, <3>1, <3>2 DEF Held
    <2> QED BY <2>2, <2>3
  <1>5. 1 \in 1 .. Len(m) BY <1>1
  <1>6. ASSUME Held(Tail(m), i) PROVE Held(m, i)
    <2>1. PICK k \in 1 .. Len(m) - 1 : Tail(m)[k] = i BY <1>1, <1>6 DEF Held
    <2>2. k + 1 \in 1 .. Len(m) BY <1>1
    <2>3. m[k + 1] = i BY <1>2, <2>1
    <2> QED BY <2>2, <2>3 DEF Held
  <1> QED BY <1>3, <1>4, <1>5, <1>6 DEF Held

(* A post of a task that is not there keeps each task single, ... *)
LEMMA SingleAppended ==
  ASSUME NEW m \in Seq(Intents), NEW x \in Intents, Single(m),
         \A i \in Intents : Held(m, i) /\ i.task = x.task => i.task = NoTask
  PROVE  Single(Append(m, x))
  <1>1. Len(Append(m, x)) = Len(m) + 1 /\ Len(m) \in Nat OBVIOUS
  <1>2. Append(m, x)[Len(m) + 1] = x OBVIOUS
  <1>3. \A k \in 1 .. Len(m) :
          /\ Append(m, x)[k] = m[k]
          /\ m[k].task = x.task => m[k].task = NoTask
    <2>1. \A k \in 1 .. Len(m) : Append(m, x)[k] = m[k] /\ m[k] \in Intents OBVIOUS
    <2> QED BY <2>1 DEF Held
  <1>4. \A k \in 1 .. Len(m) + 1 : k \in 1 .. Len(m) \/ k = Len(m) + 1 BY <1>1
  <1> QED BY <1>1, <1>2, <1>3, <1>4 DEF Single

(* ... and so does the taking of one, of which none is left. *)
LEMMA SingleTaken ==
  ASSUME NEW m \in Seq(Intents), m # <<>>, Single(m)
  PROVE  /\ Single(Tail(m))
         /\ \A i \in Intents :
              Held(Tail(m), i) /\ i.task = Head(m).task => i.task = NoTask
  <1>1. Len(m) \in Nat /\ Len(m) >= 1 /\ Len(Tail(m)) = Len(m) - 1 OBVIOUS
  <1>2. \A k \in 1 .. Len(m) - 1 : Tail(m)[k] = m[k + 1] OBVIOUS
  <1>3. Head(m) = m[1] OBVIOUS
  <1>4. \A k \in 1 .. Len(m) - 1 : k + 1 \in 1 .. Len(m) /\ k + 1 # 1 BY <1>1
  <1>5. 1 \in 1 .. Len(m) BY <1>1
  <1>6. \A j, k \in 1 .. Len(m) - 1 : j + 1 = k + 1 => j = k BY <1>1
  <1>7. Single(Tail(m)) BY <1>1, <1>2, <1>4, <1>6 DEF Single
  <1>8. \A k \in 1 .. Len(m) - 1 :
          Tail(m)[k].task = Head(m).task => Tail(m)[k].task = NoTask
    BY <1>2, <1>3, <1>4, <1>5 DEF Single
  <1> QED BY <1>1, <1>7, <1>8 DEF Held

(* An empty mailbox holds nothing. *)
LEMMA HeldNone == Single(<<>>) /\ \A i : ~ Held(<<>>, i)
  BY DEF Held, Single

-----------------------------------------------------------------------------
(* Where the driver is, and what it has in hand there *)

(* At first it waits; ... *)
LEMMA PlaceInit == Init => PlaceInv
  BY DEF Init, PlaceInv, Lifelines, InHand, Unloads, Over, KindsAt, Refresh

(* ... its own steps lead it where its intent goes, ... *)
LEMMA PlaceDriver ==
  ASSUME IInv, PlaceInv, Driver \/ ApplyReturn
  PROVE  PlaceInv'
  <1> USE DEF PlaceInv, Lifelines, InHand, Unloads, Over, KindsAt, Goto, UnloadTo
  <1>1. CASE Take
    <2>1. cur'.kind \in Kinds BY <1>1, HeadTail DEF IInv, Take, Intents
    <2> QED BY <1>1, <2>1 DEF Take, Kinds
  <1>2. CASE Settle BY <1>2 DEF Settle, Idle, Refresh
  <1>3. CASE RefreshOpen \/ RefreshTerminal \/ GateMissing \/ GateUnchanged \/ GateChanged
    BY <1>3 DEF RefreshOpen, RefreshTerminal, GateMissing, GateUnchanged, GateChanged
  <1>4. CASE LoadRefused \/ Load \/ Bind \/ Regate \/ Build
    BY <1>4 DEF LoadRefused, Load, Bind, Regate, Build
  <1>5. CASE Lost \/ Adopt \/ Adopted \/ Activate \/ FailStopped \/ FailLoad
    BY <1>5 DEF Lost, Adopt, Adopted, Activate, FailStopped, FailLoad
  <1>6. CASE RefreshedPlain \/ RefreshedJoin
    BY <1>6 DEF RefreshedPlain, RefreshedJoin, Idle, Refresh
  <1>7. CASE Unload \/ Drain BY <1>7 DEF Unload, Drain
  <1>8. CASE Publish BY <1>8 DEF Publish, IInv, Phases, PhaseOfUnload
  <1>9. CASE Panic \/ PanicStopped
    BY <1>9 DEF Panic, PanicStopped, Crash, IInv, Phases, PhaseOfUnload
  <1>10. CASE Restarting
    BY <1>10 DEF Restarting, RestartTaken, RestartLost, RestartInactive, RestartUnload,
       RestartDone, Idle, Refresh
  <1>11. CASE Dispose \/ Disposed \/ Shutdown \/ ShutdownPrior
    BY <1>11 DEF Dispose, Disposed, Shutdown, ShutdownPrior
  <1>12. CASE Exit \/ Sweep \/ SweepEnd \/ Release \/ Recover \/ RecoverDrain \/ Recovered
    BY <1>12 DEF Exit, Sweep, SweepEnd, Release, Recover, RecoverDrain, Recovered, Refresh
  <1>13. CASE ApplyReturn BY <1>13 DEF ApplyReturn, ApplyOk, ApplyErr, ApplyLost
  <1> QED BY <1>1, <1>2, <1>3, <1>4, <1>5, <1>6, <1>7, <1>8, <1>9, <1>10, <1>11, <1>12,
          <1>13 DEF Driver, Refreshing, Unloading, Ending

(* ... and nobody else moves it. *)
LEMMA PlaceElse ==
  ASSUME Mounting \/ (\E c \in Callers : Call(c) \/ Continue(c)) \/ Rest
  PROVE  UNCHANGED <<driver, alive, open>>
  <1>1. CASE Mounting
    BY <1>1 DEF Mounting, MountRegister, MountPost, MountClosing, MountOrphan
  <1>2. ASSUME NEW c \in Callers, Call(c) PROVE UNCHANGED <<driver, alive, open>>
    BY <1>2 DEF Call, DisposeJoin, DisposeRegister, RestartRefused, RestartCall,
       SettleCall, ShutdownCall, Provide, WithdrawMark
  <1>3. ASSUME NEW c \in Callers, Continue(c) PROVE UNCHANGED <<driver, alive, open>>
    BY <1>3 DEF Continue, PostStopped, PostCheck, PostSend, PostRecheck, Joined,
       Notify, WithdrawFind, WithdrawFlag, WithdrawCancel, WithdrawConsumer,
       WithdrawFinalize
  <1>4. CASE Rest BY <1>4 DEF Rest, vars
  <1> QED BY <1>1, <1>2, <1>3, <1>4

LEMMA PlaceStep == IInv /\ PlaceInv /\ [Next]_vars => PlaceInv'
  <1>1. ASSUME PlaceInv, UNCHANGED <<driver, alive, open>> PROVE PlaceInv'
    BY <1>1 DEF PlaceInv, Lifelines, InHand, Unloads
  <1> QED BY <1>1, PlaceDriver, PlaceElse DEF Next, vars

-----------------------------------------------------------------------------
(* The intents and the results *)

(* At first nothing is posted and nothing told. *)
LEMMA MailInit == Init => MailInv /\ Counted /\ StopTold /\ Awaited
  <1> SUFFICES ASSUME Init PROVE MailInv /\ Counted /\ StopTold /\ Awaited OBVIOUS
  <1> USE FiberAssumption DEF Init
  <1>1. Mail BY HeldNone DEF Mail, Fits
  <1>2. Joins /\ Claimed /\ TerminalTold BY DEF Joins, Claimed, TerminalTold
  <1>3. Waiting = {} BY HeldNone DEF Waiting
  <1>4. Counted BY <1>3, FS_EmptySet DEF Counted
  <1>5. StopTold /\ Awaited BY DEF StopTold, Awaited
  <1> QED BY <1>1, <1>2, <1>4, <1>5 DEF MailInv

(* An intent goes on fitting its caller as that goes on. *)
LEMMA FitsOn ==
  ASSUME NEW i, Fits(i), op' = op, terminal # NoTask => terminal' # NoTask,
         \A c \in Callers : cpc[c] \in Past /\ joined[c] = c
                            => cpc'[c] \in Past /\ joined'[c] = c
  PROVE  Fits(i)'
  BY DEF Fits, Posted

(* A restart may be taken off the count at any time. *)
LEMMA CountedFewer ==
  ASSUME TypeOK, Counted, Waiting' \subseteq Waiting, UNCHANGED pendingRestarts
  PROVE  Counted'
  <1>1. pendingRestarts \in Nat BY DEF TypeOK, TransitionOK
  <1>2. IsFiniteSet(Waiting') /\ Cardinality(Waiting') <= Cardinality(Waiting)
    BY FS_Subset DEF Counted
  <1>3. Cardinality(Waiting) \in Nat /\ Cardinality(Waiting') \in Nat
    BY <1>2, FS_CardinalityType DEF Counted
  <1> QED BY <1>1, <1>2, <1>3 DEF Counted

(* A step inside the driver's work on an intent: nothing is posted, taken or *)
(* answered.                                                                 *)
Inner ==
  /\ UNCHANGED <<mailbox, cur, terminal, pendingRestarts, alive, calls, result>>
  /\ pc \notin Told \cup {"restart"}
  /\ pc' \notin Over \cup {"restart"}
  /\ pc' = "exit" => cur.kind = "shutdown"

LEMMA MailInner ==
  ASSUME TypeOK, MailInv, Counted, StopTold, Awaited, Inner
  PROVE  MailInv' /\ Counted' /\ StopTold' /\ Awaited'
  <1> USE DEF Inner, MailInv
  <1>1. Mail' BY FitsOn DEF Mail
  <1>2. Joins' BY DEF Joins
  <1>3. Claimed' BY DEF Claimed
  <1>4. TerminalTold' BY DEF TerminalTold, Told
  <1>5. Waiting' = Waiting BY DEF Waiting
  <1>6. Counted' BY <1>5, CountedFewer
  <1>7. StopTold'
    <2> SUFFICES ASSUME op \notin Orphaned, terminal # NoTask, pc' = "exit"
                 PROVE  cur = [kind |-> "shutdown", task |-> terminal]
      BY DEF StopTold, Told, Over
    <2>1. Fits(cur) /\ cur.kind = "shutdown" BY DEF Mail
    <2>2. cur # Refresh /\ cur # DisposeIntent BY <2>1 DEF Refresh, DisposeIntent
    <2>3. cur.task \in Callers /\ cur = Posted(cur.task) /\ joined[cur.task] = cur.task
      BY <2>1, <2>2 DEF Fits
    <2>4. op[cur.task] = "shutdown" BY <2>1, <2>3 DEF Posted
    <2>5. terminal = cur.task BY <2>3, <2>4 DEF Claimed
    <2> QED BY <2>3, <2>4, <2>5 DEF Posted
  <1>8. Awaited' BY DEF Awaited, Told, Over, Posted
  <1> QED BY <1>1, <1>2, <1>3, <1>4, <1>6, <1>7, <1>8

(* Most steps of the driver are inside its work, ... *)
LEMMA InnerSteps ==
  ASSUME IInv, PlaceInv, Mail,
         \/ RefreshOpen \/ RefreshTerminal \/ GateMissing \/ GateUnchanged \/ GateChanged
         \/ LoadRefused \/ Load \/ Bind \/ Regate \/ Build \/ Adopt \/ Adopted
         \/ Activate \/ FailStopped \/ FailLoad \/ RefreshedPlain \/ Unloading
         \/ RestartLost \/ RestartUnload \/ Dispose \/ Shutdown \/ ShutdownPrior
         \/ Recover \/ RecoverDrain \/ ApplyReturn
  PROVE  Inner
  <1> USE DEF Inner, PlaceInv, InHand, Unloads, Told, Over, KindsAt, Goto, UnloadTo
  <1>1. CASE RefreshOpen \/ RefreshTerminal \/ GateMissing \/ GateUnchanged \/ GateChanged
    BY <1>1 DEF RefreshOpen, RefreshTerminal, GateMissing, GateUnchanged, GateChanged
  <1>2. CASE LoadRefused \/ Load \/ Bind \/ Regate \/ Build
    BY <1>2 DEF LoadRefused, Load, Bind, Regate, Build
  <1>3. CASE Adopt \/ Adopted \/ Activate \/ FailStopped \/ FailLoad
    BY <1>3 DEF Adopt, Adopted, Activate, FailStopped, FailLoad
  <1>4. CASE RefreshedPlain
    <2>1. cur.kind = "refresh" /\ Fits(cur) BY <1>4 DEF RefreshedPlain, Mail
    <2>2. cur = Refresh
      BY <2>1 DEF Fits, Posted, DisposeIntent, IInv, TypeOK, OutsideOK, Ops
    <2> QED BY <1>4, <2>2 DEF RefreshedPlain, Idle
  <1>5. CASE Unload \/ Drain \/ Panic \/ PanicStopped
    BY <1>5 DEF Unload, Drain, Panic, PanicStopped, Crash
  <1>6. CASE Publish BY <1>6 DEF Publish, IInv, Phases, PhaseOfUnload
  <1>7. CASE RestartLost \/ RestartUnload BY <1>7 DEF RestartLost, RestartUnload
  <1>8. CASE Dispose \/ Shutdown \/ ShutdownPrior \/ Recover \/ RecoverDrain
    BY <1>8 DEF Dispose, Shutdown, ShutdownPrior, Recover, RecoverDrain
  <1>9. CASE ApplyReturn BY <1>9 DEF ApplyReturn, ApplyOk, ApplyErr, ApplyLost
  <1> QED BY <1>1, <1>2, <1>3, <1>4, <1>5, <1>6, <1>7, <1>8, <1>9 DEF Unloading

(* ... and some end it: the task in hand is told a result. *)
Answering ==
  /\ cur.kind \in {"settle", "join", "restart"}
  /\ Idle
  /\ \E r \in Results \ {"running"} : Complete(cur.task, r)
  /\ UNCHANGED <<mailbox, terminal, err, alive, calls>>
  /\ pc \notin Told

(* A posted intent of that kind is of a caller that posted it. *)
LEMMA OfCaller ==
  ASSUME NEW i, Fits(i), i.kind \in {"settle", "join", "restart", "shutdown"}
  PROVE  /\ i.task \in Callers
         /\ i = Posted(i.task)
         /\ op[i.task] \in {"restart", "settle", "shutdown", "withdraw"}
         /\ joined[i.task] = i.task
         /\ cpc[i.task] \in Past
         /\ i.kind # "join" => op[i.task] = i.kind
         /\ i.kind = "join" => op[i.task] = "withdraw"
  BY DEF Fits, Refresh, DisposeIntent, Posted

LEMMA MailAnswering ==
  ASSUME IInv, MailInv, StopTold, Awaited, Answering
  PROVE  MailInv' /\ StopTold' /\ Awaited' /\ Waiting' \subseteq Waiting
  <1> DEFINE t == cur.task
  <1> USE DEF MailInv
  <1>1. Fits(cur) /\ cur \in Intents BY DEF Mail, IInv, TypeOK, DriverOK
  <1>2. t \in Callers /\ op[t] \in {"restart", "settle", "withdraw"} /\ cur = Posted(t)
    BY <1>1, OfCaller DEF Answering
  <1>3. PICK r \in Results \ {"running"} : result' = [result EXCEPT ![t] = r]
    BY <1>2, FiberAssumption DEF Answering, Complete
  <1>4. /\ UNCHANGED <<mailbox, terminal, err, alive, calls>>
        /\ cur' = Refresh /\ pc' = "recv" /\ pc \notin Told
    BY DEF Answering, Idle
  <1>5. \A c \in Callers : result'[c] = IF c = t THEN r ELSE result[c]
    BY <1>2, <1>3 DEF IInv, TypeOK, OutsideOK
  <1> HIDE DEF t
  <1>6. Mail'
    <2>1. \A i \in Intents : Held(mailbox, i)' => Fits(i)' BY <1>4, FitsOn DEF Mail
    <2>2. Fits(cur)' BY <1>4 DEF Fits
    <2>3. \A i \in Intents : (Held(mailbox, i) /\ i.task = cur.task)' => i.task = NoTask
      BY <1>4 DEF Refresh
    <2> QED BY <1>4, <2>1, <2>2, <2>3 DEF Mail
  <1>7. Joins' BY <1>4 DEF Joins
  <1>8. Claimed' BY <1>2, <1>4, <1>5 DEF Claimed
  <1>9. TerminalTold'
    BY <1>2, <1>4, <1>5 DEF TerminalTold, Claimed, IInv, TypeOK, TransitionOK, Tasks
  <1>10. StopTold' BY <1>4 DEF StopTold, Told, Over
  <1>11. Awaited' BY <1>2, <1>4, <1>5 DEF Awaited, Posted, Told, Over
  <1>12. Waiting' \subseteq Waiting BY <1>4 DEF Waiting
  <1> QED BY <1>6, <1>7, <1>8, <1>9, <1>10, <1>11, <1>12

LEMMA AnsweringSteps ==
  ASSUME IInv, PlaceInv,
         \/ Settle \/ RefreshedJoin \/ RestartInactive \/ RestartDone
         \/ RestartTaken /\ closing
  PROVE  Answering
  <1> USE DEF Answering, PlaceInv, InHand, KindsAt, Told, Over, Results, Errors
  <1>1. state \in States /\ err \in Errors BY DEF IInv, TypeOK, TransitionOK
  <1>2. CASE Settle BY <1>1, <1>2 DEF Settle
  <1>3. CASE RefreshedJoin BY <1>1, <1>3 DEF RefreshedJoin
  <1>4. CASE RestartInactive BY <1>4 DEF RestartInactive
  <1>5. CASE RestartDone BY <1>1, <1>5 DEF RestartDone
  <1>6. CASE RestartTaken /\ closing BY <1>6 DEF RestartTaken
  <1> QED BY <1>2, <1>3, <1>4, <1>5, <1>6

(* The driver takes a restart off the count, and its caller is among those *)
(* it stood for.                                                           *)
LEMMA CountedTaken ==
  ASSUME IInv, PlaceInv, MailInv, Counted, RestartTaken, Waiting' \subseteq Waiting
  PROVE  Counted'
  <1> DEFINE t == cur.task
  <1>1. pc = "restart" /\ cur.kind = "restart" /\ Fits(cur)
    BY DEF RestartTaken, PlaceInv, InHand, KindsAt, MailInv, Mail
  <1>2. t \in Callers /\ op[t] = "restart" /\ cpc[t] \in Past /\ cur = Posted(t)
    BY <1>1, OfCaller
  <1>3. t \in Waiting BY <1>1, <1>2 DEF Waiting
  <1>4. t \notin Waiting'
    <2>1. UNCHANGED <<mailbox, calls>> /\ pc' # "restart"
      BY DEF RestartTaken, Idle
    <2>2. [kind |-> "restart", task |-> t] \in Intents BY <1>2 DEF Intents, Kinds, Tasks
    <2>3. ~ Held(mailbox, [kind |-> "restart", task |-> t])
      BY <1>2, <2>2, FiberAssumption DEF MailInv, Mail
    <2> QED BY <1>2, <2>1, <2>3 DEF Waiting, Past
  <1> HIDE DEF t
  <1>5. IsFiniteSet(Waiting \ {t}) /\ Cardinality(Waiting \ {t}) = Cardinality(Waiting) - 1
    BY <1>3, FS_RemoveElement DEF Counted
  <1>6. Waiting' \in SUBSET (Waiting \ {t}) BY <1>4
  <1>7. IsFiniteSet(Waiting') /\ Cardinality(Waiting') <= Cardinality(Waiting) - 1
    BY <1>5, <1>6, FS_Subset
  <1>8. Cardinality(Waiting) \in Nat /\ Cardinality(Waiting') \in Nat
    BY <1>7, FS_CardinalityType DEF Counted
  <1>9. Cardinality(Waiting) # 0 BY <1>3, FS_EmptySet DEF Counted
  <1>10. pendingRestarts \in Nat /\ Cardinality(Waiting) <= pendingRestarts
    BY DEF IInv, TypeOK, TransitionOK, Counted
  <1>11. pendingRestarts' = pendingRestarts - 1 BY <1>8, <1>9, <1>10 DEF RestartTaken
  <1> QED BY <1>7, <1>8, <1>10, <1>11 DEF Counted

(* The driver takes the first intent in hand. *)
LEMMA MailTake ==
  ASSUME IInv, PlaceInv, MailInv, Counted, StopTold, Awaited, Take
  PROVE  MailInv' /\ Counted' /\ StopTold' /\ Awaited'
  <1> USE DEF MailInv
  <1>1. /\ mailbox \in Seq(Intents) /\ mailbox # <<>>
        /\ cur' = Head(mailbox) /\ mailbox' = Tail(mailbox)
        /\ pc = "recv" /\ pc' \notin Told
        /\ UNCHANGED <<terminal, err, alive, pendingRestarts, calls, result>>
    <2>1. cur'.kind \in Kinds BY HeadTail DEF IInv, Take, Intents
    <2> QED BY <2>1 DEF Take, IInv, TypeOK, BodyOK, Told, Over, Kinds
  <1>2. \A i : Held(mailbox, i) <=> i = cur' \/ Held(mailbox', i)
    BY <1>1, HeldTaken
  <1>3. cur' \in Intents BY <1>1, HeadTail DEF IInv
  <1>4. cur = Refresh
    <2>1. cur.kind = "refresh" BY <1>1 DEF PlaceInv, InHand, KindsAt
    <2> QED BY <2>1 DEF Mail, Fits, DisposeIntent, Posted, IInv, TypeOK, OutsideOK, Ops
  <1>5. Mail'
    <2>1. \A i : Fits(i) => Fits(i)' BY <1>1, FitsOn
    <2>2. \A i \in Intents : Held(mailbox', i) => Fits(i)' BY <1>2, <2>1 DEF Mail
    <2>3. Fits(cur)
      BY DEF Mail
    <2>4. Fits(cur)'
      <3>1. ASSUME NEW i, i = cur' PROVE Fits(i)' BY <1>2, <1>3, <2>1, <3>1 DEF Mail
      <3> QED BY <3>1 DEF Fits
    <2>5. /\ Single(mailbox')
          /\ \A i \in Intents : Held(mailbox', i) /\ i.task = cur'.task => i.task = NoTask
      BY <1>1, SingleTaken DEF Mail
    <2> QED BY <2>2, <2>4, <2>5 DEF Mail
  <1>6. Joins' /\ Claimed' BY <1>1 DEF Joins, Claimed
  <1>7. TerminalTold' BY <1>1 DEF TerminalTold, Told, Over
  <1>8. Waiting' \subseteq Waiting
    <2> SUFFICES ASSUME NEW c \in Callers, c \in Waiting' PROVE c \in Waiting
      BY DEF Waiting
    <2>1. op[c] = "restart" BY <1>1 DEF Waiting
    <2>2. CASE cpc[c] \in {"check", "send"} BY <2>1, <2>2 DEF Waiting
    <2>3. CASE Held(mailbox', [kind |-> "restart", task |-> c])
      BY <1>2, <2>1, <2>3 DEF Waiting
    <2>4. CASE pc' = "restart" /\ cur'.task = c
      <3>1. cur'.kind = "restart" BY <2>4 DEF Take
      <3>2. cur' = [kind |-> "restart", task |-> c] BY <1>3, <2>4, <3>1 DEF Intents
      <3> QED BY <1>2, <2>1, <3>2 DEF Waiting
    <2> QED BY <1>1, <2>2, <2>3, <2>4 DEF Waiting
  <1>9. Counted' BY <1>1, <1>8, CountedFewer DEF IInv
  <1>10. StopTold' BY <1>1 DEF StopTold
  <1>11. Awaited'
    <2>1. \A c \in Callers : Posted(c) # Refresh
      BY DEF Posted, Refresh, IInv, TypeOK, OutsideOK, Ops
    <2>2. \A c \in Callers : Posted(c)' = Posted(c) BY <1>1 DEF Posted
    <2> QED BY <1>1, <1>2, <1>4, <2>1, <2>2 DEF Awaited, Told, Over
  <1> QED BY <1>5, <1>6, <1>7, <1>9, <1>10, <1>11

(* A restart is taken off the count, and answered or gone on with. *)
LEMMA MailRestartTaken ==
  ASSUME IInv, PlaceInv, MailInv, Counted, StopTold, Awaited, RestartTaken
  PROVE  MailInv' /\ Counted' /\ StopTold' /\ Awaited'
  <1>1. CASE closing
    <2>1. Answering BY <1>1, AnsweringSteps
    <2> QED BY <2>1, MailAnswering, CountedTaken
  <1>2. CASE ~ closing
    <2> USE DEF MailInv
    <2>1. /\ pc = "restart" /\ pc' = "restartOpen"
          /\ UNCHANGED <<mailbox, cur, terminal, err, alive, calls, result>>
      BY <1>2 DEF RestartTaken
    <2>2. Mail' BY <2>1, FitsOn DEF Mail
    <2>3. Joins' /\ Claimed' BY <2>1 DEF Joins, Claimed
    <2>4. TerminalTold' BY <2>1 DEF TerminalTold, Told, Over
    <2>5. Waiting' \subseteq Waiting BY <2>1 DEF Waiting
    <2>6. Counted' BY <2>5, CountedTaken
    <2>7. StopTold' BY <2>1 DEF StopTold, Told, Over
    <2>8. Awaited' BY <2>1 DEF Awaited, Posted
    <2> QED BY <2>2, <2>3, <2>4, <2>6, <2>7, <2>8
  <1> QED BY <1>1, <1>2

(* The steps of the driver's end leave the calls, the mailbox or what is in *)
(* hand as they are, or only take away from them.                           *)
LEMMA MailDisposed ==
  ASSUME IInv, PlaceInv, MailInv, Counted, StopTold, Awaited, Disposed
  PROVE  MailInv' /\ Counted' /\ StopTold' /\ Awaited'
  <1> USE DEF MailInv
  <1>1. /\ pc = "disposed" /\ pc' = "exit"
        /\ UNCHANGED <<mailbox, cur, terminal, err, alive, pendingRestarts, calls>>
    BY DEF Disposed, Goto
  <1>2. \A c \in Callers : result'[c] = IF c = terminal THEN err ELSE result[c]
    BY FiberAssumption DEF Disposed, Complete, IInv, TypeOK, OutsideOK, TransitionOK
  <1>3. err \in Errors /\ terminal \in Tasks BY DEF IInv, TypeOK, TransitionOK
  <1>4. Mail' BY <1>1, FitsOn DEF Mail
  <1>5. Joins' BY <1>1 DEF Joins
  <1>6. Claimed' BY <1>1, <1>2 DEF Claimed
  <1>7. TerminalTold' BY <1>1, <1>2, <1>3 DEF TerminalTold, Told, Tasks
  <1>8. Waiting' \subseteq Waiting BY <1>1 DEF Waiting
  <1>9. Counted' BY <1>1, <1>8, CountedFewer DEF IInv
  <1>10. StopTold' BY <1>1, <1>2, <1>3 DEF StopTold, Tasks, Errors
  <1>11. Awaited' BY <1>1, <1>2, <1>3 DEF Awaited, Posted, Errors
  <1> QED BY <1>4, <1>5, <1>6, <1>7, <1>9, <1>10, <1>11

LEMMA MailExit ==
  ASSUME IInv, PlaceInv, MailInv, Counted, StopTold, Awaited, Exit
  PROVE  MailInv' /\ Counted' /\ StopTold' /\ Awaited'
  <1> USE DEF MailInv
  <1>1. /\ pc = "exit" /\ pc' = "sweep" /\ alive' = FALSE
        /\ UNCHANGED <<mailbox, cur, terminal, err, pendingRestarts, calls, result>>
    BY DEF Exit, Goto
  <1>2. alive BY <1>1 DEF PlaceInv, Lifelines, Over
  <1>3. Mail' BY <1>1, FitsOn DEF Mail
  <1>4. Joins' /\ Claimed' BY <1>1 DEF Joins, Claimed
  <1>5. TerminalTold' BY <1>1 DEF TerminalTold, Told, Over
  <1>6. Waiting' \subseteq Waiting BY <1>1 DEF Waiting
  <1>7. Counted' BY <1>1, <1>6, CountedFewer DEF IInv
  <1>8. StopTold' BY <1>1, <1>2 DEF StopTold, Told, Over
  <1>9. Awaited' BY <1>1, <1>2 DEF Awaited, Posted
  <1> QED BY <1>3, <1>4, <1>5, <1>7, <1>8, <1>9

(* The terminal task of an intent that is a shutdown's. *)
LEMMA ShutdownIsTerminal ==
  ASSUME NEW i, Fits(i), Claimed, i.kind = "shutdown"
  PROVE  i = [kind |-> "shutdown", task |-> terminal] /\ terminal \in Callers
  <1>1. i.task \in Callers /\ i = Posted(i.task) /\ joined[i.task] = i.task
        /\ op[i.task] = "shutdown"
    BY OfCaller
  <1>2. terminal = i.task BY <1>1 DEF Claimed
  <1> QED BY <1>1, <1>2 DEF Posted

LEMMA MailSweep ==
  ASSUME IInv, PlaceInv, MailInv, Counted, StopTold, Awaited, Sweep
  PROVE  MailInv' /\ Counted' /\ StopTold' /\ Awaited'
  <1> DEFINE h == Head(mailbox)
             r == SweptResult(h.kind)
  <1> USE DEF MailInv
  <1>1. /\ pc = "sweep" /\ mailbox # <<>> /\ mailbox' = Tail(mailbox)
        /\ mailbox \in Seq(Intents) /\ h \in Intents /\ ~ alive
        /\ UNCHANGED <<pc, cur, terminal, err, alive, pendingRestarts, calls>>
    BY HeadTail DEF Sweep, IInv, TypeOK, BodyOK, PlaceInv, Lifelines, Over
  <1>2. \A i : Held(mailbox, i) <=> i = h \/ Held(mailbox', i)
    BY <1>1, HeldTaken
  <1>3. Fits(h) BY <1>1, <1>2 DEF Mail
  <1>4. cur.kind \in {"dispose", "shutdown", "refresh"}
    BY <1>1 DEF PlaceInv, InHand, KindsAt
  <1>5. r \in Results \ {"running"} /\ (h.kind = "shutdown" => r = err)
    BY <1>4 DEF SweptResult, Results, Errors, IInv, TypeOK, TransitionOK
  <1>6. \A c \in Callers : result'[c] = IF c = h.task THEN r ELSE result[c]
    BY FiberAssumption DEF Sweep, Complete, IInv, TypeOK, OutsideOK
  <1>7. h.task \in Callers => /\ h = Posted(h.task)
                              /\ op[h.task] \in {"restart", "settle", "shutdown", "withdraw"}
                              /\ joined[h.task] = h.task
                              /\ op[h.task] = "shutdown" => h.kind = "shutdown"
    BY <1>3, FiberAssumption DEF Fits, Refresh, DisposeIntent, Posted
  <1> HIDE DEF h, r
  <1>8. Mail'
    <2>1. \A i : Fits(i) => Fits(i)' BY <1>1, FitsOn
    <2>2. \A i \in Intents : Held(mailbox', i) => Fits(i)' BY <1>2, <2>1 DEF Mail
    <2>3. Single(mailbox') BY <1>1, SingleTaken DEF Mail
    <2>4. \A i \in Intents : Held(mailbox', i) /\ i.task = cur'.task => i.task = NoTask
      BY <1>1, <1>2 DEF Mail
    <2>5. Fits(cur)' BY <1>1, FitsOn DEF Mail
    <2> QED BY <2>2, <2>3, <2>4, <2>5 DEF Mail
  <1>9. Joins' BY <1>1 DEF Joins
  <1>10. Claimed' BY <1>1, <1>6, <1>7 DEF Claimed
  <1>11. TerminalTold'
    BY <1>1, <1>5, <1>6, <1>7 DEF TerminalTold, Told, Over, Claimed, IInv, TypeOK,
       TransitionOK, Tasks
  <1>12. Waiting' \subseteq Waiting BY <1>1, <1>2 DEF Waiting
  <1>13. Counted' BY <1>1, <1>12, CountedFewer DEF IInv
  <1>14. StopTold' BY <1>1, <1>5, <1>6 DEF StopTold, IInv, TypeOK, TransitionOK, Tasks
  <1>15. Awaited'
    <2> SUFFICES ASSUME op \notin Orphaned, NEW c \in Callers, joined[c] = c,
                        result'[c] = "running", cpc[c] \notin {"check", "send", "recheck"}
                 PROVE  Held(mailbox', Posted(c)) \/ cur = Posted(c)
      BY <1>1 DEF Awaited, Posted
    <2>1. c # h.task /\ result[c] = "running" BY <1>5, <1>6
    <2>2. Held(mailbox, Posted(c)) \/ cur = Posted(c) BY <1>1, <2>1 DEF Awaited
    <2>3. CASE Posted(c) = h
      <3>1. op[c] = "dispose" BY <2>1, <2>3 DEF Posted
      <3>2. terminal = c BY <3>1 DEF Claimed
      <3>3. cur = [kind |-> "shutdown", task |-> c]
        BY <1>1, <2>1, <3>2, FiberAssumption DEF StopTold, Told, Over
      <3>4. op[c] = "shutdown" BY <3>3, OfCaller DEF Mail
      <3> QED BY <3>1, <3>4
    <2> QED BY <1>2, <2>2, <2>3
  <1> QED BY <1>8, <1>9, <1>10, <1>11, <1>13, <1>14, <1>15

LEMMA MailSweepEnd ==
  ASSUME IInv, PlaceInv, MailInv, Counted, StopTold, Awaited, SweepEnd
  PROVE  MailInv' /\ Counted' /\ StopTold' /\ Awaited'
  <1> USE DEF MailInv
  <1>1. /\ pc = "sweep" /\ pc' = "release" /\ mailbox = <<>> /\ ~ alive
        /\ UNCHANGED <<mailbox, cur, terminal, err, alive, pendingRestarts, calls>>
    BY DEF SweepEnd, Goto, PlaceInv, Lifelines, Over
  <1>2. cur.kind \in {"dispose", "shutdown", "refresh"}
    BY <1>1 DEF PlaceInv, InHand, KindsAt
  <1>3. cur.kind = "shutdown" =>
          cur = [kind |-> "shutdown", task |-> terminal] /\ terminal \in Callers
    BY ShutdownIsTerminal DEF Mail
  <1>4. \A c \in Callers :
          result'[c] = IF cur.kind = "shutdown" /\ c = terminal THEN err ELSE result[c]
    BY <1>3, FiberAssumption DEF SweepEnd, Complete, IInv, TypeOK, OutsideOK
  <1>5. err \in Errors /\ terminal \in Tasks BY DEF IInv, TypeOK, TransitionOK
  <1>6. Mail' BY <1>1, FitsOn DEF Mail
  <1>7. Joins' BY <1>1 DEF Joins
  <1>8. Claimed' BY <1>1, <1>4 DEF Claimed
  <1>9. TerminalTold' BY <1>1, <1>4, <1>5 DEF TerminalTold, Told, Over, Tasks
  <1>10. Waiting' \subseteq Waiting BY <1>1 DEF Waiting
  <1>11. Counted' BY <1>1, <1>10, CountedFewer DEF IInv
  <1>12. StopTold'
    <2> SUFFICES ASSUME op \notin Orphaned, terminal # NoTask, result'[terminal] = "running"
                 PROVE  cpc[terminal] = "check"
      BY <1>1 DEF StopTold
    <2>1. cur.kind # "shutdown" /\ result[terminal] = "running"
      BY <1>4, <1>5 DEF Tasks, Errors
    <2> QED BY <1>1, <2>1 DEF StopTold, Told, Over
  <1>13. Awaited'
    <2> SUFFICES ASSUME op \notin Orphaned, NEW c \in Callers, joined[c] = c,
                        result'[c] = "running", cpc[c] \notin {"check", "send", "recheck"}
                 PROVE  FALSE
      BY <1>1 DEF Awaited, Posted
    <2>1. result[c] = "running" BY <1>4, <1>5 DEF Errors
    <2>2. cur = Posted(c) BY <1>1, <2>1, HeldNone DEF Awaited
    <2>3. CASE op[c] = "dispose"
      <3>1. terminal = c BY <2>3 DEF Claimed
      <3> QED BY <1>1, <2>1, <2>2, <2>3, <3>1, FiberAssumption DEF StopTold, Told, Over, Posted
    <2>4. CASE op[c] = "shutdown"
      <3>1. terminal = c BY <2>4 DEF Claimed
      <3>2. cur.kind = "shutdown" BY <2>2, <2>4 DEF Posted
      <3> QED BY <1>4, <1>5, <3>1, <3>2 DEF Errors
    <2>5. CASE op[c] \notin {"dispose", "shutdown"}
      <3>1. cur = [kind |-> IF op[c] = "withdraw" THEN "join" ELSE op[c], task |-> c]
        BY <2>2, <2>5 DEF Posted
      <3>2. op[c] = "refresh" BY <1>2, <2>5, <3>1
      <3> QED BY <3>2 DEF IInv, TypeOK, OutsideOK, Ops
    <2> QED BY <2>3, <2>4, <2>5
  <1> QED BY <1>6, <1>7, <1>8, <1>9, <1>11, <1>12, <1>13

LEMMA MailRelease ==
  ASSUME IInv, PlaceInv, MailInv, Counted, StopTold, Awaited, Release
  PROVE  MailInv' /\ Counted' /\ StopTold' /\ Awaited'
  <1> USE DEF MailInv
  <1>1. /\ pc = "release" /\ pc' = "gone" /\ mailbox' = <<>> /\ cur' = Refresh /\ ~ alive
        /\ UNCHANGED <<terminal, err, alive, pendingRestarts, calls, result>>
    BY DEF Release, PlaceInv, Lifelines, Over
  <1>2. Mail' BY <1>1, HeldNone DEF Mail, Fits
  <1>3. Joins' /\ Claimed' BY <1>1 DEF Joins, Claimed
  <1>4. TerminalTold' BY <1>1 DEF TerminalTold, Told, Over
  <1>5. Waiting' \subseteq Waiting BY <1>1, HeldNone DEF Waiting
  <1>6. Counted' BY <1>1, <1>5, CountedFewer DEF IInv
  <1>7. StopTold' BY <1>1 DEF StopTold, Told, Over
  <1>8. Awaited' BY <1>1 DEF Awaited
  <1> QED BY <1>2, <1>3, <1>4, <1>6, <1>7, <1>8

LEMMA MailRecovered ==
  ASSUME IInv, PlaceInv, MailInv, Counted, StopTold, Awaited, Recovered
  PROVE  MailInv' /\ Counted' /\ StopTold' /\ Awaited'
  <1> USE DEF MailInv
  <1>1. /\ pc = "recovered" /\ pc' = "sweep" /\ cur' = Refresh /\ ~ alive' /\ err' = "panic"
        /\ UNCHANGED <<mailbox, terminal, pendingRestarts, calls>>
    BY DEF Recovered, Goto
  <1>2. \A c \in Callers :
          result'[c] = IF c \in {cur.task, terminal} THEN "panic" ELSE result[c]
    BY DEF Recovered
  <1>3. terminal \in Tasks BY DEF IInv, TypeOK, TransitionOK
  <1>4. cur.kind \in {"refresh", "join", "restart"} BY <1>1 DEF PlaceInv, InHand
  <1>5. cur.task \in Callers => op[cur.task] \in {"restart", "withdraw"} /\ cur = Posted(cur.task)
    BY <1>4, FiberAssumption DEF Mail, Fits, Refresh, DisposeIntent, Posted
  <1>6. Mail'
    <2>1. \A i \in Intents : Held(mailbox, i)' => Fits(i)' BY <1>1, FitsOn DEF Mail
    <2>2. Fits(cur)' BY <1>1 DEF Fits
    <2> QED BY <1>1, <2>1, <2>2 DEF Mail, Refresh
  <1>7. Joins' BY <1>1 DEF Joins
  <1>8. Claimed' BY <1>1, <1>2, <1>5 DEF Claimed
  <1>9. TerminalTold' BY <1>1, <1>2, <1>3 DEF TerminalTold, Told, Over, Tasks
  <1>10. Waiting' \subseteq Waiting BY <1>1 DEF Waiting
  <1>11. Counted' BY <1>1, <1>10, CountedFewer DEF IInv
  <1>12. StopTold' BY <1>1, <1>2, <1>3 DEF StopTold, Tasks
  <1>13. Awaited'
    <2> SUFFICES ASSUME op \notin Orphaned, NEW c \in Callers, joined[c] = c,
                        result'[c] = "running", cpc[c] \notin {"check", "send", "recheck"}
                 PROVE  Held(mailbox, Posted(c))
      BY <1>1 DEF Awaited, Posted
    <2>1. c # cur.task /\ c # terminal /\ result[c] = "running" BY <1>2
    <2>2. Held(mailbox, Posted(c)) \/ cur = Posted(c) BY <2>1 DEF Awaited
    <2>3. op[c] # "dispose" BY <2>1 DEF Claimed
    <2>4. Posted(c).task = c BY <2>3 DEF Posted
    <2> QED BY <2>1, <2>2, <2>4
  <1> QED BY <1>6, <1>7, <1>8, <1>9, <1>11, <1>12, <1>13

(* A notification or an orphan's dispose is posted, or not as the fiber has *)
(* ended; a caller that posts one goes on.                                  *)
Notifying(i) ==
  /\ i = Refresh \/ (i = DisposeIntent /\ op \in Orphaned)
  /\ mailbox' \in {mailbox, Append(mailbox, i)}
  /\ UNCHANGED <<cur, terminal, err, alive, pendingRestarts, op, joined, result>>
  /\ pc' = pc \/ {pc, pc'} \cap (Told \cup {"restart"}) = {}
  /\ \A c \in Callers :
       \/ cpc'[c] = cpc[c]
       \/ /\ cpc[c] = "notify"
          /\ cpc'[c] \in {"join", "finalize", "done"}
          /\ cpc'[c] = "join" => joined[c] # NoTask

LEMMA MailNotifying ==
  ASSUME IInv, MailInv, Counted, StopTold, Awaited, NEW i, Notifying(i)
  PROVE  MailInv' /\ Counted' /\ StopTold' /\ Awaited'
  <1> USE DEF MailInv
  <1>1. UNCHANGED <<cur, terminal, err, alive, pendingRestarts, op, joined, result>>
    BY DEF Notifying
  <1>2. \A c \in Callers :
          \/ cpc'[c] = cpc[c]
          \/ /\ cpc[c] = "notify"
             /\ cpc'[c] \in {"join", "finalize", "done"}
             /\ cpc'[c] = "join" => joined[c] # NoTask
    BY DEF Notifying
  <1>3. i \in Intents /\ i.task = NoTask /\ mailbox \in Seq(Intents)
    BY DEF Notifying, Refresh, DisposeIntent, Intents, Kinds, Tasks, IInv, TypeOK, BodyOK
  <1>4. /\ \A j : Held(mailbox', j) => j = i \/ Held(mailbox, j)
        /\ \A j : Held(mailbox, j) => Held(mailbox', j)
    <2>1. mailbox' = mailbox \/ mailbox' = Append(mailbox, i) BY DEF Notifying
    <2>2. \A j : Held(Append(mailbox, i), j) <=> Held(mailbox, j) \/ j = i
      BY <1>3, HeldAppended
    <2> QED BY <2>1, <2>2
  <1>6. Mail'
    <2>1. \A j : Fits(j) => Fits(j)'
      <3>1. \A c \in Callers : cpc[c] \in Past => cpc'[c] \in Past BY <1>2 DEF Past
      <3> QED BY <1>1, <3>1, FitsOn
    <2>2. Fits(i) BY DEF Notifying, Fits
    <2>3. \A j \in Intents : Held(mailbox', j) => Fits(j)' BY <1>4, <2>1, <2>2 DEF Mail
    <2>4. Fits(cur)' BY <1>1, <2>1 DEF Mail, Fits
    <2>5. Single(mailbox')
      <3>1. \A j \in Intents : Held(mailbox, j) /\ j.task = i.task => j.task = NoTask
        BY <1>3
      <3> QED BY <1>3, <3>1, SingleAppended DEF Mail, Notifying
    <2>6. \A j \in Intents : Held(mailbox', j) /\ j.task = cur'.task => j.task = NoTask
      BY <1>1, <1>3, <1>4 DEF Mail
    <2> QED BY <2>3, <2>4, <2>5, <2>6 DEF Mail
  <1>7. Joins' BY <1>1, <1>2 DEF Joins
  <1>8. Claimed' BY <1>1 DEF Claimed
  <1>9. TerminalTold' BY <1>1 DEF TerminalTold, Told, Notifying
  <1>10. Waiting' \subseteq Waiting
    <2> SUFFICES ASSUME NEW c \in Callers, c \in Waiting' PROVE c \in Waiting
      BY DEF Waiting
    <2>1. [kind |-> "restart", task |-> c] # i BY <1>3, FiberAssumption
    <2>2. pc' = "restart" => pc = "restart" BY DEF Notifying
    <2>3. cpc'[c] \in {"check", "send"} => cpc[c] = cpc'[c] BY <1>2
    <2> QED BY <1>1, <1>4, <2>1, <2>2, <2>3 DEF Waiting
  <1>11. Counted' BY <1>1, <1>10, CountedFewer DEF IInv
  <1>12. StopTold'
    <2> SUFFICES ASSUME op \notin Orphaned, terminal # NoTask, pc' \in Told,
                        result[terminal] = "running"
                 PROVE  \/ cpc'[terminal] = "check" /\ ~ alive
                        \/ /\ pc' \in {"exit", "sweep"}
                           /\ cur = [kind |-> "shutdown", task |-> terminal]
      BY <1>1 DEF StopTold
    <2>1. pc' = pc BY DEF Notifying
    <2>2. terminal \in Callers BY DEF IInv, TypeOK, TransitionOK, Tasks
    <2> QED BY <1>2, <2>1, <2>2 DEF StopTold
  <1>13. Awaited'
    <2> SUFFICES ASSUME op \notin Orphaned, NEW c \in Callers, joined[c] = c,
                        result[c] = "running", cpc'[c] \notin {"check", "send"},
                        cpc'[c] = "recheck" => alive
                 PROVE  /\ pc' \notin {"release", "gone"}
                        /\ Held(mailbox', Posted(c)) \/ cur = Posted(c)
      BY <1>1 DEF Awaited, Posted
    <2>1. cpc[c] \notin {"check", "send"} /\ (cpc[c] = "recheck" => alive) BY <1>2
    <2>2. pc \notin {"release", "gone"} /\ (Held(mailbox, Posted(c)) \/ cur = Posted(c))
      BY <2>1 DEF Awaited
    <2> QED BY <1>4, <2>2 DEF Notifying, Told, Over
  <1> QED BY <1>6, <1>7, <1>8, <1>9, <1>11, <1>12, <1>13

LEMMA NotifyingSteps ==
  /\ IInv /\ (Lost \/ MountRegister \/ MountPost \/ MountClosing) => Notifying(Refresh)
  /\ MountOrphan => Notifying(DisposeIntent)
  /\ \A c \in Callers : IInv /\ Notify(c) => Notifying(Refresh)
  <1> USE DEF Notifying, Told, Over
  <1>1. IInv /\ (Lost \/ MountRegister \/ MountPost \/ MountClosing) => Notifying(Refresh)
    BY DEF Lost, Goto, MountRegister, MountPost, MountClosing
  <1>2. MountOrphan => Notifying(DisposeIntent) BY DEF MountOrphan, DisposeIntent
  <1>3. ASSUME NEW c \in Callers, IInv, Notify(c) PROVE Notifying(Refresh)
    BY <1>3 DEF Notify, Move, IInv, TypeOK, OutsideOK
  <1> QED BY <1>1, <1>2, <1>3

(* One caller goes on, and neither posts nor is told anything. *)
Moving(c) ==
  /\ UNCHANGED <<mailbox, cur, pc, terminal, err, alive, pendingRestarts, op, result>>
  /\ \A d \in Callers \ {c} : cpc'[d] = cpc[d] /\ joined'[d] = joined[d]
  /\ cpc[c] \in Past /\ joined[c] = c => cpc'[c] \in Past /\ joined'[c] = c
  /\ cpc'[c] \in {"idle", "find", "flag", "cancel", "consumer"} => joined'[c] = NoTask
  /\ cpc'[c] \in {"check", "send", "recheck"} => joined'[c] = c
  /\ cpc'[c] = "join" => joined'[c] # NoTask
  /\ joined'[c] \in {NoTask, c, terminal}
  /\ op[c] \in {"dispose", "shutdown"} => (joined[c] = c <=> joined'[c] = c)
  /\ op[c] = "restart" /\ cpc'[c] \in {"check", "send"} => cpc[c] \in {"check", "send"}
  /\ cpc[c] = "check" => alive
  /\ joined'[c] = c /\ cpc'[c] \notin {"check", "send"} =>
       /\ joined[c] = c /\ cpc[c] \notin {"check", "send"}
       /\ cpc[c] = "recheck" => alive

LEMMA MailMoving ==
  ASSUME IInv, MailInv, Counted, StopTold, Awaited, NEW c \in Callers, Moving(c)
  PROVE  MailInv' /\ Counted' /\ StopTold' /\ Awaited'
  <1> USE DEF MailInv
  <1>1. UNCHANGED <<mailbox, cur, pc, terminal, err, alive, pendingRestarts, op, result>>
    BY DEF Moving
  <1>2. Mail'
    <2>1. \A d \in Callers : cpc[d] \in Past /\ joined[d] = d =>
                               cpc'[d] \in Past /\ joined'[d] = d
      BY DEF Moving
    <2>2. \A i : Fits(i) => Fits(i)' BY <1>1, <2>1, FitsOn
    <2>3. Fits(cur)' BY <1>1, <2>1, FitsOn DEF Mail
    <2> QED BY <1>1, <2>2, <2>3 DEF Mail
  <1>3. Joins' BY DEF Joins, Moving
  <1>4. Claimed'
    <2>1. \A d \in Callers : op[d] \in {"dispose", "shutdown"} =>
                               (joined[d] = d <=> joined'[d] = d)
      BY DEF Moving
    <2> QED BY <1>1, <2>1 DEF Claimed, IInv, TypeOK, TransitionOK, Tasks
  <1>5. TerminalTold' BY <1>1 DEF TerminalTold
  <1>6. Waiting' \subseteq Waiting
    <2>1. \A d \in Callers : op[d] = "restart" /\ cpc'[d] \in {"check", "send"} =>
                               cpc[d] \in {"check", "send"}
      BY DEF Moving
    <2> QED BY <1>1, <2>1 DEF Waiting
  <1>7. Counted' BY <1>1, <1>6, CountedFewer DEF IInv
  <1>8. StopTold'
    <2>1. \A d \in Callers : cpc[d] = "check" => cpc'[d] = "check" \/ alive BY DEF Moving
    <2> QED BY <1>1, <2>1 DEF StopTold, IInv, TypeOK, TransitionOK, Tasks
  <1>9. Awaited'
    <2>1. \A d \in Callers :
            joined'[d] = d /\ cpc'[d] \notin {"check", "send"}
              /\ (cpc'[d] = "recheck" => alive) =>
            joined[d] = d /\ cpc[d] \notin {"check", "send"}
              /\ (cpc[d] = "recheck" => alive)
      BY DEF Moving
    <2>2. \A d \in Callers : Posted(d)' = Posted(d) BY <1>1 DEF Posted
    <2> QED BY <1>1, <2>1, <2>2 DEF Awaited
  <1> QED BY <1>2, <1>3, <1>4, <1>5, <1>7, <1>8, <1>9

LEMMA MovingSteps ==
  ASSUME IInv, Joins, Claimed, NEW c \in Callers
  PROVE  /\ \/ DisposeJoin(c) \/ SettleCall(c) \/ (ShutdownCall(c) /\ terminal # NoTask)
            \/ Provide(c) \/ WithdrawMark(c)
            => Moving(c)
         /\ \/ PostCheck(c) \/ (PostRecheck(c) /\ alive) \/ Joined(c) \/ WithdrawFind(c)
            \/ WithdrawFlag(c) \/ WithdrawCancel(c) \/ WithdrawConsumer(c)
            \/ WithdrawFinalize(c)
            => Moving(c)
  <1> USE FiberAssumption DEF Moving, Move, Join, Joins, Past
  <1>1. /\ cpc \in [Callers -> CallLabels] /\ joined \in [Callers -> Tasks]
        /\ terminal \in Tasks
    BY DEF IInv, TypeOK, TransitionOK, OutsideOK
  <1>2. terminal = c => joined[c] = c /\ op[c] \in {"dispose", "shutdown"} BY DEF Claimed
  <1>3. CASE DisposeJoin(c) BY <1>1, <1>2, <1>3 DEF DisposeJoin, At
  <1>4. CASE SettleCall(c) BY <1>1, <1>4 DEF SettleCall, At
  <1>5. CASE ShutdownCall(c) /\ terminal # NoTask
    BY <1>1, <1>2, <1>5 DEF ShutdownCall, At
  <1>6. CASE Provide(c) BY <1>1, <1>6 DEF Provide, At
  <1>7. CASE WithdrawMark(c) BY <1>1, <1>7 DEF WithdrawMark, At
  <1>8. CASE PostCheck(c) BY <1>1, <1>8 DEF PostCheck
  <1>9. CASE PostRecheck(c) /\ alive BY <1>1, <1>9 DEF PostRecheck, AfterPost
  <1>10. CASE Joined(c) BY <1>1, <1>10 DEF Joined
  <1>11. CASE WithdrawFind(c) \/ WithdrawFlag(c) \/ WithdrawCancel(c)
    BY <1>1, <1>11 DEF WithdrawFind, WithdrawFlag, WithdrawCancel, At
  <1>12. CASE WithdrawConsumer(c)
    BY <1>1, <1>2, <1>12 DEF WithdrawConsumer, At
  <1>13. CASE WithdrawFinalize(c) BY <1>1, <1>13 DEF WithdrawFinalize, At
  <1> QED BY <1>3, <1>4, <1>5, <1>6, <1>7, <1>8, <1>9, <1>10, <1>11, <1>12, <1>13

(* A dispose or a shutdown registers itself. *)
LEMMA MailRegistering ==
  ASSUME IInv, PlaceInv, MailInv, Counted, StopTold, Awaited, NEW c \in Callers,
         DisposeRegister(c) \/ (ShutdownCall(c) /\ terminal = NoTask)
  PROVE  MailInv' /\ Counted' /\ StopTold' /\ Awaited'
  <1> USE DEF MailInv
  <1>1. /\ UNCHANGED <<mailbox, cur, pc, err, alive, pendingRestarts, op, result>>
        /\ terminal = NoTask /\ terminal' = c /\ cpc[c] = "idle"
        /\ op[c] \in {"dispose", "shutdown"}
        /\ cpc' = [cpc EXCEPT ![c] = "check"] /\ joined' = [joined EXCEPT ![c] = c]
    BY FiberAssumption DEF DisposeRegister, ShutdownCall, At, Move
  <1>2. \A d \in Callers : /\ cpc'[d] = IF d = c THEN "check" ELSE cpc[d]
                           /\ joined'[d] = IF d = c THEN c ELSE joined[d]
    BY <1>1 DEF IInv, TypeOK, OutsideOK
  <1>3. result[c] = "running" BY <1>1, FiberAssumption DEF Claimed
  <1>4. Mail'
    <2>1. \A d \in Callers : cpc[d] \in Past /\ joined[d] = d =>
                               cpc'[d] \in Past /\ joined'[d] = d
      BY <1>1, <1>2 DEF Past
    <2>2. \A i : Fits(i) => Fits(i)' BY <1>1, <2>1, FitsOn, FiberAssumption
    <2>3. Fits(cur)' BY <1>1, <2>1, FitsOn, FiberAssumption DEF Mail
    <2> QED BY <1>1, <2>2, <2>3 DEF Mail
  <1>5. Joins' BY <1>1, <1>2, FiberAssumption DEF Joins
  <1>6. Claimed' BY <1>1, <1>2, FiberAssumption DEF Claimed
  <1>7. TerminalTold' BY <1>1, <1>3 DEF TerminalTold
  <1>8. Waiting' \subseteq Waiting BY <1>1, <1>2 DEF Waiting
  <1>9. Counted' BY <1>1, <1>8, CountedFewer DEF IInv
  <1>10. StopTold'
    <2> SUFFICES ASSUME op \notin Orphaned, pc \in Told PROVE ~ alive
      BY <1>1, <1>2 DEF StopTold
    <2>1. pc # "exit"
      <3> SUFFICES ASSUME pc = "exit" PROVE FALSE OBVIOUS
      <3>1. cur.kind \in {"dispose", "shutdown"} BY DEF PlaceInv, InHand, KindsAt
      <3>2. cur.kind = "dispose" => FALSE
        BY <1>1, OfCaller DEF Mail, Fits, Refresh, Posted, IInv, TypeOK, OutsideOK, Ops
      <3>3. cur.kind = "shutdown" => terminal \in Callers BY ShutdownIsTerminal DEF Mail
      <3> QED BY <1>1, <3>1, <3>2, <3>3, FiberAssumption
    <2> QED BY <2>1 DEF PlaceInv, Lifelines, Told
  <1>11. Awaited'
    <2>1. \A d \in Callers : Posted(d)' = Posted(d) BY <1>1 DEF Posted
    <2> QED BY <1>1, <1>2, <2>1 DEF Awaited
  <1> QED BY <1>4, <1>5, <1>6, <1>7, <1>9, <1>10, <1>11

(* A restart registers, and is counted. *)
LEMMA MailRestartCall ==
  ASSUME IInv, MailInv, Counted, StopTold, Awaited, NEW c \in Callers, RestartCall(c)
  PROVE  MailInv' /\ Counted' /\ StopTold' /\ Awaited'
  <1> USE DEF MailInv
  <1>1. /\ UNCHANGED <<mailbox, cur, pc, terminal, err, alive, op, result>>
        /\ cpc[c] = "idle" /\ op[c] = "restart" /\ pendingRestarts' = pendingRestarts + 1
        /\ cpc' = [cpc EXCEPT ![c] = "check"] /\ joined' = [joined EXCEPT ![c] = c]
    BY DEF RestartCall, At, Move
  <1>2. \A d \in Callers : /\ cpc'[d] = IF d = c THEN "check" ELSE cpc[d]
                           /\ joined'[d] = IF d = c THEN c ELSE joined[d]
    BY <1>1 DEF IInv, TypeOK, OutsideOK
  <1>3. Mail'
    <2>1. \A d \in Callers : cpc[d] \in Past /\ joined[d] = d =>
                               cpc'[d] \in Past /\ joined'[d] = d
      BY <1>1, <1>2 DEF Past
    <2>2. \A i : Fits(i) => Fits(i)' BY <1>1, <2>1, FitsOn
    <2>3. Fits(cur)' BY <1>1, <2>1, FitsOn DEF Mail
    <2> QED BY <1>1, <2>2, <2>3 DEF Mail
  <1>4. Joins' BY <1>1, <1>2, FiberAssumption DEF Joins
  <1>5. Claimed' BY <1>1, <1>2 DEF Claimed
  <1>6. TerminalTold' BY <1>1 DEF TerminalTold
  <1>7. Counted'
    <2>1. Waiting' \in SUBSET (Waiting \cup {c}) BY <1>1, <1>2 DEF Waiting
    <2>2. /\ IsFiniteSet(Waiting \cup {c})
          /\ Cardinality(Waiting \cup {c}) \in {Cardinality(Waiting), Cardinality(Waiting) + 1}
      BY FS_AddElement DEF Counted
    <2>3. /\ IsFiniteSet(Waiting')
          /\ Cardinality(Waiting') <= Cardinality(Waiting \cup {c})
      BY <2>1, <2>2, FS_Subset
    <2>4. Cardinality(Waiting) \in Nat /\ Cardinality(Waiting') \in Nat
      BY <2>3, FS_CardinalityType DEF Counted
    <2>5. pendingRestarts \in Nat /\ Cardinality(Waiting) <= pendingRestarts
      BY DEF Counted, IInv, TypeOK, TransitionOK
    <2>6. Cardinality(Waiting') <= pendingRestarts + 1 BY <2>2, <2>3, <2>4, <2>5
    <2> QED BY <1>1, <2>3, <2>6 DEF Counted
  <1>8. StopTold' BY <1>1, <1>2 DEF StopTold
  <1>9. Awaited'
    <2>1. \A d \in Callers : Posted(d)' = Posted(d) BY <1>1 DEF Posted
    <2> QED BY <1>1, <1>2, <2>1 DEF Awaited
  <1> QED BY <1>3, <1>4, <1>5, <1>6, <1>7, <1>8, <1>9

(* A caller learns without the driver what becomes of its call: that the    *)
(* fiber takes none, or that it ended before it took this one.              *)
Refused(c, r) ==
  /\ UNCHANGED <<mailbox, cur, pc, terminal, err, alive, pendingRestarts, op, joined>>
  /\ result' = [result EXCEPT ![c] = r]
  /\ r # "running"
  /\ \A d \in Callers \ {c} : cpc'[d] = cpc[d]
  /\ cpc[c] \in Past => cpc'[c] \in Past
  /\ cpc'[c] \in {"join", "notify", "done"}
  /\ cpc'[c] = "join" => joined[c] # NoTask
  /\ op[c] \in {"dispose", "shutdown"} => joined[c] = c /\ ~ alive /\ r = err

LEMMA MailRefused ==
  ASSUME IInv, PlaceInv, MailInv, Counted, StopTold, Awaited, NEW c \in Callers,
         NEW r \in Results, Refused(c, r)
  PROVE  MailInv' /\ Counted' /\ StopTold' /\ Awaited'
  <1> USE DEF MailInv
  <1>1. UNCHANGED <<mailbox, cur, pc, terminal, err, alive, pendingRestarts, op, joined>>
    BY DEF Refused
  <1>2. \A d \in Callers : result'[d] = IF d = c THEN r ELSE result[d]
    BY DEF Refused, IInv, TypeOK, OutsideOK
  <1>3. /\ \A d \in Callers \ {c} : cpc'[d] = cpc[d]
        /\ cpc[c] \in Past => cpc'[c] \in Past
        /\ cpc'[c] \in {"join", "notify", "done"}
        /\ cpc'[c] = "join" => joined[c] # NoTask
        /\ r # "running"
    BY DEF Refused
  <1>4. op[c] \in {"dispose", "shutdown"} => joined[c] = c /\ pc \in Told /\ r = err
    BY DEF Refused, PlaceInv, Lifelines, Told
  <1>5. terminal \in Tasks BY DEF IInv, TypeOK, TransitionOK
  <1>6. Mail'
    <2>1. \A d \in Callers : cpc[d] \in Past => cpc'[d] \in Past BY <1>3
    <2>2. \A i : Fits(i) => Fits(i)' BY <1>1, <2>1, FitsOn
    <2>3. Fits(cur)' BY <1>1, <2>1, FitsOn DEF Mail
    <2> QED BY <1>1, <2>2, <2>3 DEF Mail
  <1>7. Joins' BY <1>1, <1>3 DEF Joins
  <1>8. Claimed' BY <1>1, <1>2, <1>4 DEF Claimed
  <1>9. TerminalTold' BY <1>1, <1>2, <1>4, <1>5 DEF TerminalTold, Claimed, Tasks
  <1>10. Waiting' \subseteq Waiting BY <1>1, <1>3 DEF Waiting
  <1>11. Counted' BY <1>1, <1>10, CountedFewer DEF IInv
  <1>12. StopTold' BY <1>1, <1>2, <1>3, <1>5 DEF StopTold, Tasks
  <1>13. Awaited'
    <2>1. \A d \in Callers : Posted(d)' = Posted(d) BY <1>1 DEF Posted
    <2> QED BY <1>1, <1>2, <1>3, <2>1 DEF Awaited
  <1> QED BY <1>6, <1>7, <1>8, <1>9, <1>11, <1>12, <1>13

LEMMA RefusedSteps ==
  ASSUME IInv, Joins, NEW c \in Callers,
         RestartRefused(c) \/ PostStopped(c) \/ (PostRecheck(c) /\ ~ alive),
         PlaceInv
  PROVE  \E r \in Results : Refused(c, r)
  <1> USE FiberAssumption DEF Refused, Move, AfterPost, Past
  <1>1. cpc \in [Callers -> CallLabels] /\ err \in Errors
    BY DEF IInv, TypeOK, TransitionOK, OutsideOK
  <1>2. err \in Results /\ err # "running" /\ {"closed", "inactive"} \subseteq Results
    BY <1>1 DEF Results, Errors
  <1>3. open \/ ~ alive BY DEF PlaceInv, Lifelines, Over
  <1>4. CASE RestartRefused(c) BY <1>1, <1>2, <1>4 DEF RestartRefused, At
  <1>5. CASE PostStopped(c)
    <2>1. joined[c] = c /\ ~ alive BY <1>3, <1>5 DEF PostStopped, Joins
    <2>2. Refused(c, err) BY <1>1, <1>2, <1>5, <2>1 DEF PostStopped, StoppedError
    <2> QED BY <1>2, <2>2
  <1>6. CASE (PostRecheck(c) /\ ~ alive)
    <2>1. joined[c] = c BY <1>6 DEF PostRecheck, Joins
    <2>2. Refused(c, err) BY <1>1, <1>2, <1>6, <2>1 DEF PostRecheck, StoppedError
    <2> QED BY <1>2, <2>2
  <1> QED BY <1>4, <1>5, <1>6

(* A caller posts its intent. *)
LEMMA MailPostSend ==
  ASSUME IInv, PlaceInv, MailInv, Counted, StopTold, Awaited, NEW c \in Callers, PostSend(c)
  PROVE  MailInv' /\ Counted' /\ StopTold' /\ Awaited'
  <1> DEFINE x == Posted(c)
  <1> USE DEF MailInv
  <1>1. /\ UNCHANGED <<cur, pc, terminal, err, alive, pendingRestarts, op, joined, result>>
        /\ mailbox' = Append(mailbox, x) /\ mailbox \in Seq(Intents)
        /\ cpc[c] = "send" /\ joined[c] = c
    BY DEF PostSend, IInv, TypeOK, BodyOK, Joins
  <1>2. \A d \in Callers : cpc'[d] = IF d # c THEN cpc[d]
                                     ELSE IF op[c] = "shutdown" THEN "join" ELSE "recheck"
    BY DEF PostSend, Move, IInv, TypeOK, OutsideOK
  <1>3. x \in Intents BY <1>1, PostedTyped DEF IInv
  <1>4. op[c] \in {"dispose", "restart", "settle", "shutdown", "withdraw"}
    BY <1>1 DEF IInv, TypeOK, OutsideOK, Ops
  <1>5. /\ op[c] = "dispose" => x = DisposeIntent
        /\ op[c] # "dispose" => x.task = c
        /\ op[c] # "restart" => x.kind # "restart"
    BY <1>4 DEF Posted, DisposeIntent
  <1>6. op[c] \in {"dispose", "shutdown"} => terminal = c BY <1>1 DEF Claimed
  <1>7. \A i : Held(mailbox', i) <=> Held(mailbox, i) \/ i = x
    BY <1>1, <1>3, HeldAppended
  <1> HIDE DEF x
  <1>8. \A i : Fits(i) => i.task # c
    BY <1>1, FiberAssumption DEF Fits, Refresh, DisposeIntent, Past
  <1>9. Mail'
    <2>1. \A d \in Callers : cpc[d] \in Past => cpc'[d] \in Past BY <1>1, <1>2 DEF Past
    <2>2. \A i : Fits(i) => Fits(i)' BY <1>1, <2>1, FitsOn
    <2>3. ASSUME NEW i, i = x PROVE Fits(i)'
      <3>1. CASE op[c] = "dispose"
        <4>1. i = DisposeIntent /\ terminal' # NoTask
          BY <1>1, <1>5, <1>6, <2>3, <3>1, FiberAssumption
        <4> QED BY <4>1 DEF Fits
      <3>2. CASE op[c] # "dispose"
        <4>1. i = Posted(c)' /\ i.task = c BY <1>1, <1>5, <2>3, <3>2 DEF x, Posted
        <4>2. cpc'[c] \in Past BY <1>2 DEF Past
        <4>3. op'[c] \in {"restart", "settle", "shutdown", "withdraw"} /\ joined'[c] = c
          BY <1>1, <1>4, <3>2
        <4> QED BY <4>1, <4>2, <4>3 DEF Fits
      <3> QED BY <3>1, <3>2
    <2>4. \A i \in Intents : Held(mailbox', i) => Fits(i)' BY <1>7, <2>2, <2>3 DEF Mail
    <2>5. Fits(cur)' BY <1>1, <2>1, FitsOn DEF Mail
    <2>6. x.task \in {c, NoTask} BY <1>5 DEF DisposeIntent
    <2>7. \A i \in Intents : Held(mailbox, i) => i.task # c BY <1>8 DEF Mail
    <2>8. Single(mailbox')
      <3>1. \A i \in Intents : Held(mailbox, i) /\ i.task = x.task => i.task = NoTask
        BY <2>6, <2>7
      <3> QED BY <1>1, <1>3, <3>1, SingleAppended DEF Mail
    <2>9. \A i \in Intents : Held(mailbox', i) /\ i.task = cur'.task => i.task = NoTask
      <3>1. cur.task # c BY <1>8 DEF Mail
      <3> QED BY <1>1, <1>7, <2>6, <3>1 DEF Mail
    <2> QED BY <2>4, <2>5, <2>8, <2>9 DEF Mail
  <1>10. Joins' BY <1>1, <1>2, FiberAssumption DEF Joins
  <1>11. Claimed' BY <1>1 DEF Claimed
  <1>12. TerminalTold' BY <1>1 DEF TerminalTold
  <1>13. Waiting' \subseteq Waiting
    <2> SUFFICES ASSUME NEW d \in Callers, d \in Waiting' PROVE d \in Waiting
      BY DEF Waiting
    <2>1. [kind |-> "restart", task |-> d] = x => d = c /\ op[c] = "restart"
      BY <1>5
    <2>2. cpc'[d] \in {"check", "send"} => cpc[d] = cpc'[d] BY <1>2
    <2> QED BY <1>1, <1>7, <2>1, <2>2 DEF Waiting
  <1>14. Counted' BY <1>1, <1>13, CountedFewer DEF IInv
  <1>15. StopTold' BY <1>1, <1>2 DEF StopTold, IInv, TypeOK, TransitionOK, Tasks
  <1>16. Awaited'
    <2> SUFFICES ASSUME op \notin Orphaned, NEW d \in Callers, joined[d] = d,
                        result[d] = "running", cpc'[d] \notin {"check", "send"},
                        cpc'[d] = "recheck" => alive
                 PROVE  /\ pc \notin {"release", "gone"}
                        /\ Held(mailbox', Posted(d)) \/ cur = Posted(d)
      BY <1>1 DEF Awaited, Posted
    <2>1. CASE d # c BY <1>2, <1>7, <2>1 DEF Awaited
    <2>2. CASE d = c
      <3>1. Held(mailbox', Posted(d)) BY <1>7, <2>2 DEF x
      <3>2. CASE alive BY <3>1, <3>2 DEF PlaceInv, Lifelines, Over
      <3>3. CASE ~ alive
        <4>1. op[c] = "shutdown" BY <1>2, <2>2, <3>3
        <4>2. terminal = c BY <1>6, <4>1
        <4> QED BY <1>1, <2>2, <3>1, <4>2, FiberAssumption DEF StopTold, Told, Over
      <3> QED BY <3>2, <3>3
    <2> QED BY <2>1, <2>2
  <1> QED BY <1>9, <1>10, <1>11, <1>12, <1>14, <1>15, <1>16

-----------------------------------------------------------------------------
(* Every step keeps the invariant, so it holds throughout. *)
LEMMA CallStep == IInv /\ CallInv /\ [Next]_vars => CallInv'
  <1> SUFFICES ASSUME IInv, PlaceInv, MailInv, Counted, StopTold, Awaited, [Next]_vars
               PROVE  MailInv' /\ Counted' /\ StopTold' /\ Awaited'
    BY PlaceStep DEF CallInv
  <1>1. Mail /\ Joins /\ Claimed /\ TypeOK BY DEF MailInv, IInv
  <1>2. CASE Driver \/ ApplyReturn
    <2>1. CASE Inner BY <1>1, <2>1, MailInner
    <2>2. CASE Take BY <2>2, MailTake
    <2>3. CASE Lost BY <2>3, MailNotifying, NotifyingSteps
    <2>4. CASE Settle \/ RefreshedJoin \/ RestartInactive \/ RestartDone
      <3>1. Answering BY <2>4, AnsweringSteps
      <3>2. UNCHANGED pendingRestarts
        BY <2>4 DEF Settle, RefreshedJoin, RestartInactive, RestartDone
      <3> QED BY <1>1, <3>1, <3>2, MailAnswering, CountedFewer
    <2>5. CASE RestartTaken BY <2>5, MailRestartTaken
    <2>6. CASE Disposed BY <2>6, MailDisposed
    <2>7. CASE Exit BY <2>7, MailExit
    <2>8. CASE Sweep BY <2>8, MailSweep
    <2>9. CASE SweepEnd BY <2>9, MailSweepEnd
    <2>10. CASE Release BY <2>10, MailRelease
    <2>11. CASE Recovered BY <2>11, MailRecovered
    <2> QED
      BY <1>1, <1>2, <2>1, <2>2, <2>3, <2>4, <2>5, <2>6, <2>7, <2>8, <2>9, <2>10, <2>11,
         InnerSteps DEF Driver, Refreshing, Restarting, Ending
  <1>3. CASE Mounting BY <1>3, MailNotifying, NotifyingSteps DEF Mounting
  <1>4. ASSUME NEW c \in Callers, Call(c) \/ Continue(c)
        PROVE  MailInv' /\ Counted' /\ StopTold' /\ Awaited'
    <2>1. CASE Moving(c) BY <2>1, MailMoving
    <2>2. CASE DisposeRegister(c) \/ (ShutdownCall(c) /\ terminal = NoTask)
      BY <2>2, MailRegistering
    <2>3. CASE RestartCall(c) BY <2>3, MailRestartCall
    <2>4. CASE RestartRefused(c) \/ PostStopped(c) \/ (PostRecheck(c) /\ ~ alive)
      BY <1>1, <2>4, RefusedSteps, MailRefused
    <2>5. CASE PostSend(c) BY <2>5, MailPostSend
    <2>6. CASE Notify(c) BY <2>6, MailNotifying, NotifyingSteps
    <2>7. Call(c) =>
            \/ Moving(c) \/ DisposeRegister(c) \/ (ShutdownCall(c) /\ terminal = NoTask)
            \/ RestartCall(c) \/ RestartRefused(c)
      BY <1>1, MovingSteps DEF Call
    <2>8. Continue(c) =>
            \/ Moving(c) \/ PostStopped(c) \/ (PostRecheck(c) /\ ~ alive) \/ PostSend(c)
            \/ Notify(c)
      BY <1>1, MovingSteps DEF Continue
    <2> QED BY <1>4, <2>1, <2>2, <2>3, <2>4, <2>5, <2>6, <2>7, <2>8
  <1>5. CASE UNCHANGED vars
    <2> USE <1>5 DEF vars
    <2>1. \A i : Fits(i)' <=> Fits(i) BY DEF Fits, Posted
    <2>2. Fits(cur)' <=> Fits(cur) BY DEF Fits, Posted
    <2>3. MailInv' BY <2>1, <2>2 DEF MailInv, Mail, Joins, Claimed, TerminalTold
    <2>4. Counted' BY DEF Counted, Waiting
    <2>5. StopTold' /\ Awaited' BY DEF StopTold, Awaited, Posted
    <2> QED BY <2>3, <2>4, <2>5
  <1> QED BY <1>2, <1>3, <1>4, <1>5 DEF Next, Rest

LEMMA CallInvariance == Spec => [](IInv /\ CallInv)
  <1>1. Init => IInv BY TypeInit, PhaseInit DEF IInv
  <1>2. Init => CallInv BY PlaceInit, MailInit DEF CallInv
  <1> QED BY <1>1, <1>2, Inductive, CallStep, PTL DEF Spec

(* Whatever stop reaches a load before it decides to fail, however many     *)
(* restarts, disposes and shutdowns there are: the load does not fail but   *)
(* unloads.                                                                 *)
THEOREM NoStoppedLoadFails == Spec => StoppedLoadNeverFails
  <1> DEFINE Step == pc = "fail" /\ next' = "Failed" => ~ RestartWaits /\ terminal = NoTask
  <1>1. ASSUME IInv, CallInv, Next, pc = "fail", next' = "Failed"
        PROVE  ~ RestartWaits /\ terminal = NoTask
    <2>1. next # "Failed" BY <1>1 DEF CallInv, PlaceInv, Unloads
    <2>2. Driver \/ ApplyReturn BY <1>1, <2>1, PlaceElse DEF Next
    <2>3. FailLoad
      <3>1. Refreshing
        BY <1>1, <2>1, <2>2 DEF Driver, Take, Settle, Unloading, Unload, Drain, Publish,
           Panic, PanicStopped, Crash, Restarting, RestartTaken, RestartLost,
           RestartInactive, RestartUnload,
           RestartDone, Ending, Dispose, Disposed, Shutdown, ShutdownPrior, Exit, Sweep,
           SweepEnd, Release, Recover, RecoverDrain, Recovered, ApplyReturn, ApplyOk,
           ApplyErr, ApplyLost
      <3> QED
        BY <1>1, <3>1 DEF Refreshing, RefreshOpen, RefreshTerminal, GateMissing,
           GateUnchanged, GateChanged, LoadRefused, Load, Bind, Regate, Build, Lost, Adopt,
           Adopted, Activate, FailStopped, UnloadTo, RefreshedPlain, RefreshedJoin
    <2>4. ~ preCancelled BY <2>3 DEF FailLoad
    <2>5. state = "Loading" BY <1>1 DEF IInv, Phases, PhaseOfState
    <2>6. terminal = NoTask /\ pendingRestarts = 0
      BY <1>1, <2>4, <2>5 DEF IInv, StopReachesToken, TypeOK, TransitionOK
    <2>7. Waiting = {}
      <3>1. IsFiniteSet(Waiting) /\ Cardinality(Waiting) <= 0
        BY <1>1, <2>6 DEF CallInv, Counted
      <3>2. Cardinality(Waiting) \in Nat BY <3>1, FS_CardinalityType
      <3>3. Cardinality(Waiting) = 0 BY <3>1, <3>2
      <3> QED BY <3>1, <3>3, FS_EmptySet
    <2> QED BY <2>6, <2>7 DEF RestartWaits, Waiting, Held
  <1>2. IInv /\ CallInv /\ [Next]_vars => [Step]_vars BY <1>1
  <1> QED BY <1>2, CallInvariance, PTL DEF Spec, StoppedLoadNeverFails

(* What was told stays told, a registered stop registered, and the error of *)
(* a fiber whose stop was told as it is.                                    *)
LEMMA ToldStays ==
  ASSUME IInv, CallInv, [Next]_vars
  PROVE  /\ \A t \in Callers : result[t] # "running" => result'[t] # "running"
         /\ terminal # NoTask => terminal' = terminal
         /\ pc \in Told => err' = err
  <1> DEFINE Stays == /\ \A t \in Callers : result[t] # "running" => result'[t] # "running"
                      /\ terminal # NoTask => terminal' = terminal
                      /\ pc \in Told => err' = err
  <1> USE DEF CallInv, MailInv
  <1>1. /\ result \in [Callers -> Results] /\ cur.task \in Tasks /\ terminal \in Tasks
        /\ err \in Errors /\ mailbox \in Seq(Intents) /\ Joins
    BY CurTyped DEF IInv, TypeOK, OutsideOK, TransitionOK, BodyOK
  <1>2. "running" \notin Errors \cup {"closed", "inactive"} BY DEF Errors
  <1>3. ASSUME NEW t \in Tasks, NEW r, r # "running", Complete(t, r)
        PROVE  \A d \in Callers : result[d] # "running" => result'[d] # "running"
    BY <1>1, <1>3 DEF Complete, Tasks
  <1>4. CASE Inner BY <1>4 DEF Inner
  <1>5. CASE Answering BY <1>1, <1>3, <1>5 DEF Answering
  <1>6. CASE Take \/ Lost \/ Exit \/ Release \/ (RestartTaken /\ ~ closing)
    BY <1>6 DEF Take, Lost, Exit, Release, RestartTaken
  <1>7. CASE Disposed BY <1>1, <1>2, <1>3, <1>7 DEF Disposed
  <1>8. CASE Sweep
    <2>1. Head(mailbox).task \in Tasks BY <1>8, HeadTail DEF Sweep, IInv, Intents
    <2>2. SweptResult(Head(mailbox).kind) # "running" BY <1>1, <1>2 DEF SweptResult
    <2> QED BY <1>3, <1>8, <2>1, <2>2 DEF Sweep
  <1>9. CASE SweepEnd BY <1>1, <1>2, <1>3, <1>9 DEF SweepEnd
  <1>10. CASE Recovered BY <1>10 DEF Recovered, Told, Over
  <1>11. CASE Driver \/ ApplyReturn
    BY <1>4, <1>5, <1>6, <1>7, <1>8, <1>9, <1>10, <1>11, InnerSteps, AnsweringSteps
       DEF Driver, Refreshing, Restarting, Ending
  <1>12. CASE Mounting
    BY <1>12 DEF Mounting, MountRegister, MountPost, MountClosing, MountOrphan
  <1>13. ASSUME NEW c \in Callers, Call(c) \/ Continue(c) PROVE Stays
    <2>1. CASE Moving(c) BY <2>1 DEF Moving
    <2>2. CASE DisposeRegister(c) \/ (ShutdownCall(c) /\ terminal = NoTask)
      BY <2>2 DEF DisposeRegister, ShutdownCall
    <2>3. CASE RestartCall(c) BY <2>3 DEF RestartCall
    <2>4. CASE RestartRefused(c) \/ PostStopped(c) \/ (PostRecheck(c) /\ ~ alive)
      <3>1. PICK r \in Results : Refused(c, r) BY <1>1, <2>4, RefusedSteps
      <3>2. UNCHANGED <<terminal, err>> /\ result' = [result EXCEPT ![c] = r] /\ r # "running"
        BY <3>1 DEF Refused
      <3> QED BY <1>1, <3>2
    <2>5. CASE PostSend(c) \/ Notify(c) BY <2>5 DEF PostSend, Notify
    <2> QED BY <1>1, <1>13, <2>1, <2>2, <2>3, <2>4, <2>5, MovingSteps DEF Call, Continue
  <1>14. CASE UNCHANGED vars BY <1>14 DEF vars
  <1> QED BY <1>11, <1>12, <1>13, <1>14 DEF Next, Rest

(* All who dispose or shut down the fiber are told one result, however the  *)
(* stops, the restarts and the driver's end or panic interleave.            *)
THEOREM StopsTellOneResult == Spec => OneResult
  <1> DEFINE Step == \A t \in Callers :
                       op[t] \in {"dispose", "shutdown"} /\ result[t] # "running"
                         => result'[t] = result[t]
  <1>1. ASSUME IInv, CallInv, CallInv', [Next]_vars, NEW t \in Callers,
               op[t] \in {"dispose", "shutdown"}, result[t] # "running"
        PROVE  result'[t] = result[t]
    <2>1. terminal = t /\ result[t] = err /\ pc \in Told
      BY <1>1, FiberAssumption DEF CallInv, MailInv, Claimed, TerminalTold
    <2>2. terminal' = t /\ err' = err /\ result'[t] # "running"
      BY <1>1, <2>1, FiberAssumption, ToldStays
    <2>3. TerminalTold' BY <1>1 DEF CallInv, MailInv
    <2> QED BY <2>1, <2>2, <2>3, FiberAssumption DEF TerminalTold
  <1>2. IInv /\ CallInv /\ CallInv' /\ [Next]_vars => [Step]_vars BY <1>1
  <1> QED BY <1>2, CallInvariance, PTL DEF Spec, OneResult

(* When the driver of a fiber with a parent has ended, nobody waits for a   *)
(* result that no one will give.                                            *)
THEOREM NobodyForgotten == Spec => [](op \notin Orphaned => NoJoinForgotten)
  <1>1. ASSUME IInv, CallInv, op \notin Orphaned, NEW c \in Callers, pc = "gone",
               cpc[c] = "join", result[joined[c]] = "running"
        PROVE  cpc[joined[c]] \in {"check", "send", "recheck"}
    <2>1. joined[c] \in {c, terminal} /\ joined[c] # NoTask
      BY <1>1 DEF CallInv, MailInv, Joins
    <2>2. joined[c] \in Callers /\ joined[joined[c]] = joined[c]
      BY <1>1, <2>1 DEF CallInv, MailInv, Claimed, IInv, TypeOK, TransitionOK, Tasks
    <2> QED BY <1>1, <2>2 DEF CallInv, Awaited
  <1>2. IInv /\ CallInv => (op \notin Orphaned => NoJoinForgotten)
    BY <1>1 DEF NoJoinForgotten
  <1> QED BY <1>2, CallInvariance, PTL

-----------------------------------------------------------------------------
(***************************************************************************)
(* The gate of a fiber against the slot of what it depends on, for any     *)
(* number of withdrawals, provides and stops: no withdrawal misses its     *)
(* consumer, and no change of the slot is lost on the fiber.               *)
(*                                                                         *)
(* GateInv follows a binding from the gate it passed to the removal. A     *)
(* binding is never there twice, a running generation is bound to what it  *)
(* passed the gate with for as long as that is in its slot, and a          *)
(* withdrawal that is on its way to the removal has seen the generation    *)
(* stop. WakeInv follows a change of the slot to the driver: as long as    *)
(* nobody has still to wake it, the driver knows the slot as it is.        *)
(***************************************************************************)

(* A provide that is still to come is of no binding that was seen. *)
Fresh ==
  \A c \in Callers :
    op[c] = "provide" /\ cpc[c] = "idle" =>
      /\ slot.by # c /\ gated.by # c
      /\ \A d \in Callers : mine[d].by # c

(* What the driver has on the way through the gate, and behind it. *)
Gated ==
  /\ pc \in {"load", "bind", "regate"} => deps # NoDeps
  /\ pc \in Stopping /\ then = "load" => deps # NoDeps
  /\ pc = "regate" => lastDeps = deps
  /\ Running => gated.quad # NoDeps
  /\ Running /\ Same(gated, slot) => lastDeps = gated.quad
  /\ pc = "adopted" /\ Same(gated, slot) => deps \in {NoDeps, gated.quad}

(* A fiber whose driver ends is disposed, or failed by a panic. *)
Stopped ==
  /\ pc \in {"disposed", "prior", "exit"} => state = "Disposed"
  /\ pc \in Over => state \in {"Disposed", "Failed"}

(* No generation runs with the binding that a withdrawal removes. *)
Clear(c) == ~ (Running /\ Same(gated, mine[c]) /\ Same(slot, mine[c]))

(* What a withdrawal has seen, where it is. *)
Withdraws(c) ==
  /\ mine[c].quad # NoDeps
  /\ Same(slot, mine[c]) => slot.removing
  /\ cpc[c] \in {"notify", "join", "finalize", "done"} /\ joined[c] = NoTask => Clear(c)
  /\ joined[c] \notin {NoTask, c} => closing
  /\ result[c] # "running" => Clear(c) \/ closing
  /\ cur.kind = "join" /\ cur.task = c /\ pc \notin {"refresh", "terminal", "gate", "unload"}
       => Clear(c) \/ closing
  /\ cpc[c] = "finalize" => Clear(c) \/ closing

Withdrawing ==
  \A c \in Callers :
    op[c] = "withdraw" =>
      IF cpc[c] = "idle" THEN result[c] = "running" ELSE Withdraws(c)

GateInv == Fresh /\ Gated /\ Stopped /\ Withdrawing

(* At first nothing has passed the gate, and nothing is withdrawn. *)
LEMMA GateInit == Init => GateInv
  BY FiberAssumption DEF Init, GateInv, Fresh, Gated, Stopped, Withdrawing, Running, Over,
     NoBinding

-----------------------------------------------------------------------------
(* What each kind of step does to the slot, to the running generation and to *)
(* what a caller has seen                                                    *)

(* Only the driver moves itself, its dependencies and the generation; only   *)
(* the callers move the slot and what they withdraw.                         *)
LEMMA DriverApart ==
  ASSUME IInv, Driver \/ ApplyReturn
  PROVE  UNCHANGED <<slot, calls, closing>> /\ (gated' = gated \/ Regate)
  <1>1. CASE Take \/ Settle \/ ApplyReturn
    BY <1>1 DEF Take, Settle, ApplyReturn, ApplyOk, ApplyErr, ApplyLost
  <1>2. CASE Refreshing
    BY <1>2 DEF Refreshing, RefreshOpen, RefreshTerminal, GateMissing, GateUnchanged,
       GateChanged, LoadRefused, Load, Bind, Regate, Build, Lost, Adopt, Adopted, Activate,
       FailStopped, FailLoad, RefreshedPlain, RefreshedJoin
  <1>3. CASE Unloading \/ Restarting
    BY <1>3 DEF Unloading, Unload, Drain, Publish, Panic, PanicStopped, Crash,
       Restarting, RestartTaken,
       RestartLost, RestartInactive, RestartUnload, RestartDone
  <1>4. CASE Ending
    BY <1>4 DEF Ending, Dispose, Disposed, Shutdown, ShutdownPrior, Exit, Sweep,
       SweepEnd, Release, Recover, RecoverDrain, Recovered
  <1> QED BY <1>1, <1>2, <1>3, <1>4 DEF Driver

LEMMA MountingApart ==
  Mounting => UNCHANGED <<slot, calls, closing, gated, state, driver, lastDeps, result>>
  BY DEF Mounting, MountRegister, MountPost, MountClosing, MountOrphan

LEMMA CallersApart ==
  ASSUME NEW c \in Callers, Call(c) \/ Continue(c)
  PROVE  UNCHANGED <<gated, state, driver, lastDeps, op>> /\ (closing => closing')
  <1>1. CASE Call(c)
    BY <1>1 DEF Call, DisposeJoin, DisposeRegister, RestartRefused, RestartCall,
       SettleCall, ShutdownCall, Provide, WithdrawMark
  <1>2. CASE Continue(c)
    BY <1>2 DEF Continue, PostStopped, PostCheck, PostSend, PostRecheck, Joined,
       Notify, WithdrawFind, WithdrawFlag, WithdrawCancel, WithdrawConsumer,
       WithdrawFinalize
  <1> QED BY <1>1, <1>2

(* A caller leaves the slot as it is, provides, marks what it withdraws, or  *)
(* removes it; the binding it withdraws it notes once.                       *)
LEMMA CallersSlot ==
  ASSUME IInv, NEW c \in Callers, Call(c) \/ Continue(c)
  PROVE  /\ slot' = slot \/ Provide(c) \/ WithdrawMark(c) \/ slot' = NoBinding
         /\ mine' = mine \/ WithdrawMark(c)
         /\ \A d \in Callers : cpc'[d] = "idle" => cpc[d] = "idle"
         /\ \A d \in Callers \ {c} : UNCHANGED <<cpc[d], joined[d], result[d]>>
  <1> USE DEF Move, Join, AfterPost, IInv, TypeOK, OutsideOK
  <1>1. CASE Call(c)
    <2>1. CASE DisposeJoin(c) \/ DisposeRegister(c) BY <2>1 DEF DisposeJoin, DisposeRegister
    <2>2. CASE RestartRefused(c) \/ RestartCall(c) BY <2>2 DEF RestartRefused, RestartCall
    <2>3. CASE SettleCall(c) \/ ShutdownCall(c) BY <2>3 DEF SettleCall, ShutdownCall
    <2>4. CASE Provide(c) \/ WithdrawMark(c) BY <2>4 DEF Provide, WithdrawMark
    <2> QED BY <1>1, <2>1, <2>2, <2>3, <2>4 DEF Call
  <1>2. CASE Continue(c)
    <2>1. CASE PostStopped(c) \/ PostRecheck(c) BY <2>1 DEF PostStopped, PostRecheck
    <2>2. CASE PostCheck(c) \/ PostSend(c) BY <2>2 DEF PostCheck, PostSend
    <2>3. CASE Joined(c) \/ Notify(c) BY <2>3 DEF Joined, Notify
    <2>4. CASE WithdrawFind(c) \/ WithdrawFlag(c) BY <2>4 DEF WithdrawFind, WithdrawFlag
    <2>5. CASE WithdrawCancel(c) \/ WithdrawConsumer(c)
      BY <2>5 DEF WithdrawCancel, WithdrawConsumer
    <2>6. CASE WithdrawFinalize(c) BY <2>6 DEF WithdrawFinalize
    <2> QED BY <1>2, <2>1, <2>2, <2>3, <2>4, <2>5, <2>6 DEF Continue
  <1> QED BY <1>1, <1>2

(* A binding that left the slot is never there again, and one that is being  *)
(* removed stays so.                                                         *)
LEMMA SlotOn ==
  ASSUME IInv, [Next]_vars, NEW b, b.quad # NoDeps,
         \A c \in Callers : op[c] = "provide" /\ cpc[c] = "idle" => b.by # c,
         Same(slot', b)
  PROVE  Same(slot, b) /\ (slot.removing => slot'.removing)
  <1>1. ASSUME NEW c \in Callers, Call(c) \/ Continue(c)
        PROVE  Same(slot, b) /\ (slot.removing => slot'.removing)
    <2>1. CASE slot' = slot BY <2>1 DEF Same
    <2>2. CASE Provide(c) BY <2>2 DEF Provide, At, Same
    <2>3. CASE WithdrawMark(c)
      <3>1. slot \in Bindings
        BY <2>3 DEF WithdrawMark, NoBinding, IInv, TypeOK, OutsideOK
      <3>2. slot'.quad = slot.quad /\ slot'.by = slot.by /\ slot'.removing
        BY <2>3, <3>1 DEF WithdrawMark, Bindings
      <3> QED BY <3>2 DEF Same
    <2>4. CASE slot' = NoBinding BY <2>4 DEF Same, NoBinding
    <2> QED BY <1>1, <2>1, <2>2, <2>3, <2>4, CallersSlot
  <1>2. CASE UNCHANGED slot BY <1>2 DEF Same
  <1> QED BY <1>1, <1>2, DriverApart, MountingApart DEF Next, Rest, vars

(* A generation that runs ran before, with the binding it has, or passes the *)
(* gate with the one in the slot.                                            *)
LEMMA RunsOn ==
  ASSUME IInv, Gated, [Next]_vars, Running'
  PROVE  \/ Running /\ gated' = gated
         \/ Regate /\ gated' = slot /\ slot' = slot /\ ~ slot.removing /\ slot.quad = lastDeps
            /\ slot.quad # NoDeps /\ UNCHANGED lastDeps
  <1> USE DEF Running, Goto, UnloadTo
  <1>1. CASE Regate
    BY <1>1 DEF Regate, GateHolds, Resolve, Gated
  <1>2. CASE Take \/ Settle
    <2>1. CASE Take
      <3>1. cur'.kind \in Kinds BY <2>1, HeadTail DEF Take, IInv, Intents
      <3> QED BY <2>1, <3>1 DEF Take, Kinds
    <2> QED BY <1>2, <2>1 DEF Settle, Idle
  <1>3. CASE Refreshing /\ ~ Regate
    BY <1>3 DEF Refreshing, RefreshOpen, RefreshTerminal, GateMissing, GateUnchanged,
       GateChanged, LoadRefused, Load, Bind, Build, Lost, Adopt, Adopted, Activate,
       FailStopped, FailLoad, RefreshedPlain, RefreshedJoin, Idle
  <1>4. CASE ApplyReturn BY <1>4 DEF ApplyReturn, ApplyOk, ApplyErr, ApplyLost
  <1>5. CASE Unload \/ Drain \/ Panic \/ PanicStopped
    BY <1>5 DEF Unload, Drain, Panic, PanicStopped, Crash
  <1>6. CASE Publish
    BY <1>6 DEF Publish, IInv, Phases, PhaseOfUnload, TypeOK, DriverOK
  <1>7. CASE Restarting
    BY <1>7 DEF Restarting, RestartTaken, RestartLost, RestartInactive, RestartUnload,
       RestartDone, Idle
  <1>8. CASE Ending
    BY <1>8 DEF Ending, Dispose, Disposed, Shutdown, ShutdownPrior, Exit, Sweep,
       SweepEnd, Release, Recover, RecoverDrain, Recovered
  <1>9. CASE UNCHANGED <<gated, state, pc>> BY <1>9
  <1> QED
    BY <1>1, <1>2, <1>3, <1>4, <1>5, <1>6, <1>7, <1>8, <1>9, MountingApart, CallersApart
       DEF Next, Driver, Unloading, Rest, vars

(* A withdrawal that no generation with its binding is left for is not       *)
(* overtaken by a new one: the gate takes no binding that is being removed.  *)
LEMMA ClearOn ==
  ASSUME IInv, GateInv, [Next]_vars, NEW c \in Callers, op[c] = "withdraw",
         cpc[c] # "idle", mine'[c] = mine[c], Clear(c)
  PROVE  Clear(c)'
  <1> DEFINE b == mine[c]
  <1>1. /\ b.quad # NoDeps /\ (Same(slot, b) => slot.removing)
        /\ \A d \in Callers : op[d] = "provide" /\ cpc[d] = "idle" => b.by # d
    BY DEF GateInv, Withdrawing, Withdraws, Fresh
  <1> SUFFICES ASSUME Running', Same(gated', b), Same(slot', b) PROVE FALSE
    BY DEF Clear
  <1> HIDE DEF b
  <1>2. Same(slot, b) /\ slot.removing BY <1>1, SlotOn
  <1>3. Running /\ gated' = gated BY <1>2, RunsOn DEF GateInv
  <1> QED BY <1>2, <1>3 DEF Clear, b

(* A withdrawn binding stays noted, and a caller that made its call stays    *)
(* past it.                                                                  *)
LEMMA NotedOn ==
  ASSUME IInv, [Next]_vars, NEW c \in Callers, cpc[c] # "idle"
  PROVE  mine'[c] = mine[c] /\ cpc'[c] # "idle" /\ op' = op
  <1>1. ASSUME NEW d \in Callers, Call(d) \/ Continue(d)
        PROVE  mine'[c] = mine[c] /\ cpc'[c] # "idle" /\ op' = op
    <2>1. CASE WithdrawMark(d)
      BY <2>1, <1>1, CallersSlot, CallersApart DEF WithdrawMark, At, IInv, TypeOK, OutsideOK
    <2> QED BY <1>1, <2>1, CallersSlot, CallersApart
  <1> QED BY <1>1, DriverApart, MountingApart DEF Next, Rest, vars

-----------------------------------------------------------------------------
(* Each part of the invariant is kept *)

LEMMA FreshStep == IInv /\ GateInv /\ [Next]_vars => Fresh'
  <1> SUFFICES ASSUME IInv, GateInv, [Next]_vars PROVE Fresh' OBVIOUS
  <1>1. Fresh BY DEF GateInv
  <1>2. CASE Driver \/ ApplyReturn
    <2>1. gated' = gated \/ gated' = slot BY <1>2, DriverApart DEF Regate
    <2> QED BY <1>1, <1>2, <2>1, DriverApart DEF Fresh
  <1>3. CASE Mounting \/ UNCHANGED vars BY <1>1, <1>3, MountingApart DEF Fresh, vars
  <1>4. ASSUME NEW c \in Callers, Call(c) \/ Continue(c) PROVE Fresh'
    <2>1. op' = op /\ gated' = gated BY <1>4, CallersApart
    <2>2. \A d \in Callers : cpc'[d] = "idle" => cpc[d] = "idle" BY <1>4, CallersSlot
    <2>3. CASE Provide(c)
      <3>1. slot'.by = c /\ cpc'[c] = "notify" /\ mine' = mine
        BY <2>3 DEF Provide, Move, IInv, TypeOK, OutsideOK
      <3> QED BY <1>1, <2>1, <2>2, <3>1 DEF Fresh
    <2>4. CASE WithdrawMark(c)
      <3>1. slot \in Bindings
        BY <2>4 DEF WithdrawMark, NoBinding, IInv, TypeOK, OutsideOK
      <3>2. slot'.by = slot.by /\ mine' = [mine EXCEPT ![c] = slot']
        BY <2>4, <3>1 DEF WithdrawMark, Bindings
      <3>3. \A d \in Callers : mine'[d].by = mine[d].by \/ mine'[d].by = slot.by
        BY <3>2 DEF IInv, TypeOK, OutsideOK
      <3> QED BY <1>1, <2>1, <2>2, <3>2, <3>3 DEF Fresh
    <2>5. CASE mine' = mine /\ (slot' = slot \/ slot' = NoBinding)
      BY <1>1, <2>1, <2>2, <2>5, FiberAssumption DEF Fresh, NoBinding
    <2>6. CASE slot' = slot \/ slot' = NoBinding
      BY <1>4, <2>4, <2>5, <2>6, CallersSlot
    <2> QED BY <1>4, <2>3, <2>4, <2>6, CallersSlot
  <1> QED BY <1>2, <1>3, <1>4 DEF Next, Rest

LEMMA StoppedStep == IInv /\ PlaceInv /\ GateInv /\ [Next]_vars => Stopped'
  <1> SUFFICES ASSUME IInv, PlaceInv, GateInv, [Next]_vars PROVE Stopped' OBVIOUS
  <1> USE DEF GateInv, Stopped, Over, Goto, UnloadTo
  <1>1. CASE Take \/ Settle
    <2>1. CASE Take
      <3>1. cur'.kind \in Kinds BY <2>1, HeadTail DEF Take, IInv, Intents
      <3> QED BY <2>1, <3>1 DEF Take, Kinds
    <2> QED BY <1>1, <2>1 DEF Settle, Idle
  <1>2. CASE Refreshing
    BY <1>2 DEF Refreshing, RefreshOpen, RefreshTerminal, GateMissing, GateUnchanged,
       GateChanged, LoadRefused, Load, Bind, Regate, Build, Lost, Adopt, Adopted, Activate,
       FailStopped, FailLoad, RefreshedPlain, RefreshedJoin, Idle
  <1>3. CASE ApplyReturn BY <1>3 DEF ApplyReturn, ApplyOk, ApplyErr, ApplyLost
  <1>4. CASE Unload \/ Drain \/ Panic \/ PanicStopped
    BY <1>4 DEF Unload, Drain, Panic, PanicStopped, Crash
  <1>5. CASE Publish BY <1>5 DEF Publish, PlaceInv, Unloads
  <1>6. CASE Restarting
    BY <1>6 DEF Restarting, RestartTaken, RestartLost, RestartInactive, RestartUnload,
       RestartDone, Idle
  <1>7. CASE Ending
    BY <1>7 DEF Ending, Dispose, Disposed, Shutdown, ShutdownPrior, Exit, Sweep,
       SweepEnd, Release, Recover, RecoverDrain, Recovered
  <1>8. CASE UNCHANGED <<state, pc>> BY <1>8
  <1> QED
    BY <1>1, <1>2, <1>3, <1>4, <1>5, <1>6, <1>7, <1>8, MountingApart, CallersApart
       DEF Next, Driver, Unloading, Rest, vars

(* The dependencies on their way to the load, ... *)
LEMMA DepsOn ==
  ASSUME IInv, Gated, Driver \/ ApplyReturn
  PROVE  /\ pc' \in {"load", "bind", "regate"} => deps' # NoDeps
         /\ pc' \in Stopping /\ then' = "load" => deps' # NoDeps
         /\ pc' = "regate" => lastDeps' = deps'
  <1> USE DEF Gated, Goto, UnloadTo
  <1>1. CASE Take \/ Settle
    <2>1. CASE Take
      <3>1. cur'.kind \in Kinds BY <2>1, HeadTail DEF Take, IInv, Intents
      <3> QED BY <2>1, <3>1 DEF Take, Kinds
    <2> QED BY <1>1, <2>1 DEF Settle, Idle
  <1>2. CASE Refreshing
    BY <1>2 DEF Refreshing, RefreshOpen, RefreshTerminal, GateMissing, GateUnchanged,
       GateChanged, LoadRefused, Load, Bind, Regate, Build, Lost, Adopt, Adopted, Activate,
       FailStopped, FailLoad, RefreshedPlain, RefreshedJoin, Idle
  <1>3. CASE ApplyReturn BY <1>3 DEF ApplyReturn, ApplyOk, ApplyErr, ApplyLost
  <1>4. CASE Unload \/ Drain \/ Panic \/ PanicStopped
    BY <1>4 DEF Unload, Drain, Panic, PanicStopped, Crash
  <1>5. CASE Publish BY <1>5 DEF Publish, IInv, Phases, PhaseOfUnload
  <1>6. CASE Restarting
    BY <1>6 DEF Restarting, RestartTaken, RestartLost, RestartInactive, RestartUnload,
       RestartDone, Idle
  <1>7. CASE Ending
    BY <1>7 DEF Ending, Dispose, Disposed, Shutdown, ShutdownPrior, Exit, Sweep,
       SweepEnd, Release, Recover, RecoverDrain, Recovered
  <1> QED BY <1>1, <1>2, <1>3, <1>4, <1>5, <1>6, <1>7 DEF Driver, Unloading

(* ... those recorded while a generation runs, and those to adopt. *)
LEMMA LastDepsOn ==
  ASSUME IInv, Driver \/ ApplyReturn
  PROVE  /\ Running' /\ lastDeps' # lastDeps =>
              pc = "adopted" /\ deps # NoDeps /\ lastDeps' = deps
         /\ pc' = "adopted" => deps' = Resolve
  <1> USE DEF Running, Goto, UnloadTo
  <1>1. CASE Take \/ Settle
    <2>1. CASE Take
      <3>1. cur'.kind \in Kinds BY <2>1, HeadTail DEF Take, IInv, Intents
      <3> QED BY <2>1, <3>1 DEF Take, Kinds
    <2> QED BY <1>1, <2>1 DEF Settle, Idle
  <1>2. CASE Refreshing /\ ~ Bind
    BY <1>2 DEF Refreshing, RefreshOpen, RefreshTerminal, GateMissing, GateUnchanged,
       GateChanged, LoadRefused, Load, Regate, Build, Lost, Adopt, Adopted, Activate,
       FailStopped, FailLoad, RefreshedPlain, RefreshedJoin, Idle
  <1>3. CASE Bind BY <1>3 DEF Bind, IInv, Phases, PhaseOfState
  <1>4. CASE ApplyReturn BY <1>4 DEF ApplyReturn, ApplyOk, ApplyErr, ApplyLost
  <1>5. CASE Unloading
    BY <1>5 DEF Unloading, Unload, Drain, Panic, PanicStopped, Crash, Publish, IInv,
       Phases, PhaseOfState, PhaseOfUnload
  <1>6. CASE Restarting
    BY <1>6 DEF Restarting, RestartTaken, RestartLost, RestartInactive, RestartUnload,
       RestartDone, Idle
  <1>7. CASE Ending
    BY <1>7 DEF Ending, Dispose, Disposed, Shutdown, ShutdownPrior, Exit, Sweep,
       SweepEnd, Release, Recover, RecoverDrain, Recovered, IInv, Phases, PhaseOfState
  <1> QED BY <1>1, <1>2, <1>3, <1>4, <1>5, <1>6, <1>7 DEF Driver

(* What is bound as the driver passes the gate stays bound. *)
LEMMA GatedStep == IInv /\ GateInv /\ [Next]_vars => Gated'
  <1> SUFFICES ASSUME IInv, GateInv, [Next]_vars PROVE Gated' OBVIOUS
  <1>1. Gated BY DEF GateInv
  <1>2. /\ Running => gated.quad # NoDeps
        /\ \A c \in Callers : op[c] = "provide" /\ cpc[c] = "idle" => gated.by # c
    BY <1>1 DEF GateInv, Gated, Fresh
  <1>3. Driver \/ ApplyReturn \/ UNCHANGED <<gated, state, driver, lastDeps>>
    BY MountingApart, CallersApart DEF Next, Rest, vars
  <1>4. /\ pc' \in {"load", "bind", "regate"} => deps' # NoDeps
        /\ pc' \in Stopping /\ then' = "load" => deps' # NoDeps
        /\ pc' = "regate" => lastDeps' = deps'
    BY <1>1, <1>3, DepsOn DEF Gated
  <1>5. ASSUME Running' PROVE gated'.quad # NoDeps
    BY <1>1, <1>2, <1>5, RunsOn
  <1>6. ASSUME Running, gated' = gated, Same(gated', slot') PROVE Same(gated, slot)
    <2>1. Same(slot', gated) BY <1>6 DEF Same
    <2>2. Same(slot, gated) BY <1>2, <1>6, <2>1, SlotOn
    <2> QED BY <2>2 DEF Same
  <1>7. ASSUME Running', Same(gated', slot') PROVE lastDeps' = gated'.quad
    <2>1. CASE Regate /\ gated' = slot /\ UNCHANGED lastDeps /\ slot.quad = lastDeps
      BY <2>1
    <2>2. CASE Running /\ gated' = gated
      <3>1. Same(gated, slot) BY <1>6, <1>7, <2>2
      <3>2. lastDeps = gated.quad BY <1>1, <2>2, <3>1 DEF Gated
      <3>3. CASE lastDeps' = lastDeps BY <2>2, <3>2, <3>3
      <3>4. CASE pc = "adopted" /\ deps # NoDeps /\ lastDeps' = deps
        BY <1>1, <2>2, <3>1, <3>4 DEF Gated
      <3> QED BY <1>3, <1>7, <3>3, <3>4, LastDepsOn
    <2> QED BY <1>1, <1>7, <2>1, <2>2, RunsOn
  <1>8. ASSUME pc' = "adopted", Same(gated', slot') PROVE deps' \in {NoDeps, gated'.quad}
    <2>1. CASE Driver \/ ApplyReturn
      <3>1. deps' = Resolve /\ slot' = slot BY <1>8, <2>1, LastDepsOn, DriverApart
      <3> QED BY <1>8, <3>1 DEF Resolve, Same
    <2>2. CASE UNCHANGED <<gated, state, driver, lastDeps>>
      <3>1. Running BY <1>8, <2>2 DEF Running
      <3>2. Same(gated, slot) BY <1>6, <1>8, <2>2, <3>1
      <3> QED BY <1>1, <1>8, <2>2, <3>2 DEF Gated
    <2> QED BY <1>3, <2>1, <2>2
  <1> QED BY <1>4, <1>5, <1>7, <1>8 DEF Gated

-----------------------------------------------------------------------------
(* The withdrawals *)

(* A withdrawal is told a result when no generation runs, or with the join   *)
(* it posted.                                                                *)
LEMMA WithdrawalTold ==
  ASSUME IInv, CallInv, GateInv, [Next]_vars, NEW c \in Callers, op[c] = "withdraw",
         result'[c] # result[c]
  PROVE  /\ cpc[c] # "idle"
         /\ ~ Running \/ (cur.kind = "join" /\ cur.task = c /\ pc = "refreshed")
  <1> USE DEF CallInv, MailInv
  <1>1. /\ result \in [Callers -> Results] /\ terminal # c
        /\ \A i : Fits(i) /\ i.task = c => i.kind = "join" /\ cpc[c] # "idle"
    <2>1. \A i : Fits(i) /\ i.task = c => i.kind = "join" /\ cpc[c] # "idle"
      BY FiberAssumption DEF Fits, Refresh, DisposeIntent, Posted, Past
    <2> QED BY <2>1, FiberAssumption DEF Claimed, IInv, TypeOK, OutsideOK
  <1>2. \A t, r : Complete(t, r) /\ t # c => result'[c] = result[c]
    BY <1>1 DEF Complete
  <1>3. Fits(cur) BY DEF Mail
  <1>4. pc \in Over \cup Recovering => ~ Running
    BY DEF Running, GateInv, Stopped, IInv, Phases, PhaseOfState, Over
  <1>5. CASE Inner BY <1>5 DEF Inner
  <1>6. CASE Settle \/ RestartInactive \/ RestartDone \/ RestartTaken
    <2>1. cur.kind # "join"
      BY <1>6 DEF Settle, RestartInactive, RestartDone, RestartTaken, PlaceInv, InHand,
         KindsAt
    <2>2. cur.task # c BY <1>1, <1>3, <2>1
    <2> QED BY <1>2, <1>6, <2>2 DEF Settle, RestartInactive, RestartDone, RestartTaken
  <1>7. CASE RefreshedJoin
    <2>1. cur.task = c BY <1>2, <1>7 DEF RefreshedJoin
    <2> QED BY <1>1, <1>3, <1>7, <2>1 DEF RefreshedJoin
  <1>8. CASE Take \/ Lost \/ Exit \/ Release BY <1>8 DEF Take, Lost, Exit, Release
  <1>9. CASE Disposed BY <1>1, <1>2, <1>9 DEF Disposed
  <1>10. CASE Sweep
    <2>1. Head(mailbox) \in Intents /\ Held(mailbox, Head(mailbox)) /\ pc \in Over
      BY <1>10, HeadTail, HeldTaken DEF Sweep, IInv, TypeOK, BodyOK, Over
    <2>2. Head(mailbox).task = c BY <1>2, <1>10 DEF Sweep
    <2> QED BY <1>1, <1>4, <2>1, <2>2 DEF Mail
  <1>11. CASE SweepEnd
    <2>1. cur.task = c BY <1>2, <1>11 DEF SweepEnd
    <2> QED BY <1>1, <1>3, <1>4, <1>11, <2>1 DEF SweepEnd, Over
  <1>12. CASE Recovered
    <2>1. cur.task = c BY <1>1, <1>12 DEF Recovered
    <2> QED BY <1>1, <1>3, <1>4, <1>12, <2>1 DEF Recovered
  <1>13. CASE Driver \/ ApplyReturn
    BY <1>5, <1>6, <1>7, <1>8, <1>9, <1>10, <1>11, <1>12, <1>13, InnerSteps
       DEF Driver, Refreshing, Restarting, Ending
  <1>14. ASSUME NEW d \in Callers, Call(d) \/ Continue(d)
         PROVE  cpc[c] # "idle" /\ ~ Running
    <2>1. d = c BY <1>14, CallersSlot
    <2>2. CASE Moving(c) BY <2>2 DEF Moving
    <2>3. CASE PostStopped(c) \/ (PostRecheck(c) /\ ~ alive)
      <3>1. ~ alive /\ cpc[c] # "idle"
        BY <2>3 DEF PostStopped, PostRecheck, PlaceInv, Lifelines, Over
      <3> QED BY <1>4, <3>1 DEF PlaceInv, Lifelines
    <2>4. CASE DisposeRegister(c) \/ (ShutdownCall(c) /\ terminal = NoTask) \/ RestartCall(c)
            \/ PostSend(c) \/ Notify(c)
      BY <2>4 DEF DisposeRegister, ShutdownCall, RestartCall, PostSend, Notify
    <2>5. CASE RestartRefused(c) BY <2>5 DEF RestartRefused, At
    <2> QED BY <1>14, <2>1, <2>2, <2>3, <2>4, <2>5, MovingSteps DEF Call, Continue
  <1>15. CASE Mounting \/ UNCHANGED vars BY <1>15, MountingApart DEF vars
  <1> QED BY <1>13, <1>14, <1>15 DEF Next, Rest

(* A withdrawal's join goes through the gate: behind it no generation runs   *)
(* with what is withdrawn, or the fiber closes.                              *)
LEMMA JoinGoesOn ==
  ASSUME IInv, CallInv, GateInv, [Next]_vars, NEW c \in Callers, op[c] = "withdraw",
         cpc[c] # "idle", cur'.kind = "join", cur'.task = c,
         pc' \notin {"refresh", "terminal", "gate", "unload"}
  PROVE  Clear(c)' \/ closing'
  <1> USE DEF CallInv, MailInv
  <1>1. Withdraws(c) /\ mine'[c] = mine[c] BY NotedOn DEF GateInv, Withdrawing
  <1>2. Clear(c) => Clear(c)' BY <1>1, ClearOn
  <1>3. CASE UNCHANGED <<pc, cur>>
    BY <1>1, <1>2, <1>3, DriverApart, MountingApart, CallersApart
       DEF Withdraws, Next, Rest, vars
  <1>4. CASE Driver \/ ApplyReturn
    <2>1. cur' = cur
      <3>1. cur' = cur \/ Take \/ cur' = Refresh
        <4>1. CASE Inner BY <4>1 DEF Inner
        <4> QED
          BY <1>4, <4>1, InnerSteps DEF Driver, Refreshing, Restarting, Ending, Take, Settle,
             Lost, RefreshedJoin, RestartTaken, RestartInactive, RestartDone, Disposed, Exit,
             Sweep, SweepEnd, Release, Recover, RecoverDrain, Recovered, Idle
      <3> QED BY <3>1 DEF Take, Refresh
    <2>2. closing' = closing /\ slot' = slot BY <1>4, DriverApart
    <2>3. CASE pc \notin {"refresh", "terminal", "gate", "unload"}
      BY <1>1, <1>2, <2>1, <2>2, <2>3 DEF Withdraws
    <2>4. CASE pc \in {"refresh", "terminal", "gate", "unload"}
      <3>1. CASE RefreshOpen BY <1>2, <2>2, <3>1 DEF RefreshOpen, Goto, Clear, Running
      <3>2. CASE RefreshTerminal BY <3>2 DEF RefreshTerminal, Goto, UnloadTo
      <3>3. CASE GateMissing
        BY <1>2, <3>3 DEF GateMissing, Goto, UnloadTo, Clear, Running
      <3>4. CASE GateUnchanged \/ GateChanged
        <4>1. ~ slot.removing BY <3>4 DEF GateUnchanged, GateChanged, Resolve
        <4> QED BY <1>1, <1>2, <4>1 DEF Withdraws, Clear
      <3>5. CASE Unload BY <3>5 DEF Unload, Goto, Clear, Running
      <3>6. pc \notin Over \cup {"recv", "settle", "restart", "restartOpen", "inactive"} BY <2>4 DEF Over
      <3> QED
        BY <1>4, <2>4, <3>1, <3>2, <3>3, <3>4, <3>5 DEF Driver, Take, Settle, Refreshing,
           LoadRefused, Load, Bind, Regate, Build, Lost, Adopt, Adopted, Activate,
           FailStopped, FailLoad, RefreshedPlain, RefreshedJoin, Unloading, Drain, Publish,
           Panic, PanicStopped, Crash, Restarting, RestartTaken, RestartLost,
           RestartInactive, RestartUnload,
           RestartDone, Ending, Dispose, Disposed, Shutdown, ShutdownPrior, Exit, Sweep,
           SweepEnd, Release, Recover, RecoverDrain, Recovered, ApplyReturn, ApplyOk,
           ApplyErr, ApplyLost
    <2> QED BY <2>3, <2>4
  <1> QED BY <1>3, <1>4, MountingApart, CallersApart DEF Next, Rest, vars

(* A fiber that closes stays so. *)
LEMMA ClosingOn == IInv /\ [Next]_vars => (closing => closing') /\ op' = op
  BY DriverApart, MountingApart, CallersApart DEF Next, Rest, vars

(* A caller that goes on has its own place, task and result changed, and the *)
(* driver and the mounting change no place and no task.                      *)
LEMMA CallerStays ==
  ASSUME IInv, [Next]_vars, NEW c \in Callers, ~ (Call(c) \/ Continue(c))
  PROVE  UNCHANGED <<cpc[c], joined[c]>>
  BY DriverApart, MountingApart, CallersSlot DEF Next, Rest, vars

(* The withdrawal begins: it marks the binding it finds, and has not looked  *)
(* for its consumer yet.                                                     *)
LEMMA WithdrawBegins ==
  ASSUME IInv, CallInv, GateInv, [Next]_vars, NEW c \in Callers, op[c] = "withdraw",
         cpc[c] = "idle", cpc'[c] # "idle"
  PROVE  Withdraws(c)'
  <1> USE DEF CallInv, MailInv
  <1>1. WithdrawMark(c)
    <2>1. Call(c) \/ Continue(c) BY CallerStays
    <2> QED
      BY <2>1 DEF Call, Continue, At, DisposeJoin, DisposeRegister, RestartRefused,
         RestartCall, SettleCall, ShutdownCall, Provide, PostStopped, PostCheck, PostSend,
         PostRecheck, Joined, Notify, WithdrawFind, WithdrawFlag, WithdrawCancel,
         WithdrawConsumer, WithdrawFinalize
  <1>2. slot \in Bindings /\ slot' = [slot EXCEPT !.removing = TRUE]
    BY <1>1 DEF WithdrawMark, NoBinding, IInv, TypeOK, OutsideOK
  <1>3. mine'[c] = slot' /\ cpc'[c] = "find" /\ joined'[c] = joined[c] /\ result'[c] = result[c]
        /\ cur' = cur
    BY <1>1 DEF WithdrawMark, Move, IInv, TypeOK, OutsideOK
  <1>4. slot'.removing /\ mine'[c].quad # NoDeps
    BY <1>2, <1>3, FiberAssumption DEF Bindings
  <1>5. joined'[c] = NoTask BY <1>3 DEF Joins
  <1>6. result'[c] = "running" BY <1>3 DEF GateInv, Withdrawing
  <1>7. ~ (cur'.kind = "join" /\ cur'.task = c)
    BY <1>3, FiberAssumption DEF Mail, Fits, Refresh, DisposeIntent, Past
  <1> QED BY <1>3, <1>4, <1>5, <1>6, <1>7 DEF Withdraws

(* A withdrawal with no consumer to join has found none: what runs is bound  *)
(* to something else.                                                        *)
LEMMA FoundNone ==
  ASSUME IInv, CallInv, GateInv, [Next]_vars, NEW c \in Callers, op[c] = "withdraw",
         cpc[c] # "idle", joined'[c] = NoTask,
         cpc'[c] \in {"notify", "join", "finalize", "done"}
  PROVE  Clear(c)'
  <1> USE DEF CallInv, MailInv
  <1>1. Withdraws(c) /\ mine'[c] = mine[c] BY NotedOn DEF GateInv, Withdrawing
  <1>2. Clear(c) => Clear(c)' BY <1>1, ClearOn
  <1>3. cpc \in [Callers -> CallLabels] /\ joined \in [Callers -> Tasks]
    BY DEF IInv, TypeOK, OutsideOK
  <1>4. CASE cpc[c] \in {"notify", "join", "finalize", "done"} /\ joined[c] = NoTask
    BY <1>1, <1>2, <1>4 DEF Withdraws
  <1>5. CASE WithdrawFind(c)
    <2>1. pc = "gone" \/ lastDeps # mine[c].quad
      BY <1>3, <1>5 DEF WithdrawFind, Move
    <2>2. pc = "gone" => ~ Running BY DEF GateInv, Stopped, Over, Running
    <2>3. Running /\ Same(gated, slot) => lastDeps = gated.quad BY DEF GateInv, Gated
    <2> QED BY <1>2, <2>1, <2>2, <2>3 DEF Clear, Same
  <1>6. ASSUME Call(c) \/ Continue(c), ~ WithdrawFind(c)
        PROVE  cpc[c] \in {"notify", "join", "finalize", "done"} /\ joined[c] = NoTask
    <2>1. CASE WithdrawConsumer(c)
      <3>1. joined'[c] = IF closing THEN terminal ELSE c
        BY <1>3, <2>1 DEF WithdrawConsumer
      <3>2. closing => terminal # NoTask BY DEF IInv, Phases, PhaseOfUnload
      <3> QED BY <3>1, <3>2, FiberAssumption
    <2>2. CASE cpc[c] \in {"check", "send", "recheck"} /\ joined' = joined
      BY <2>2, FiberAssumption DEF Joins
    <2>3. CASE WithdrawFlag(c) \/ WithdrawCancel(c)
      BY <1>3, <2>3 DEF WithdrawFlag, WithdrawCancel, Move
    <2> QED
      BY <1>6, <2>1, <2>2, <2>3 DEF Call, Continue, At, DisposeJoin, DisposeRegister,
         RestartRefused, RestartCall, SettleCall, ShutdownCall, Provide, WithdrawMark,
         PostStopped, PostCheck, PostSend, PostRecheck, Joined, Notify, WithdrawFinalize
  <1> QED BY <1>4, <1>5, <1>6, CallerStays

(* A withdrawal goes on: what it has seen stays true until the removal. *)
LEMMA WithdrawGoesOn ==
  ASSUME IInv, CallInv, GateInv, [Next]_vars, NEW c \in Callers, op[c] = "withdraw",
         cpc[c] # "idle"
  PROVE  Withdraws(c)'
  <1> USE DEF CallInv, MailInv
  <1>1. Withdraws(c) /\ mine'[c] = mine[c] /\ cpc'[c] # "idle" /\ (closing => closing')
    BY NotedOn, ClosingOn DEF GateInv, Withdrawing
  <1>2. Clear(c) => Clear(c)' BY <1>1, ClearOn
  <1>3. cpc \in [Callers -> CallLabels] /\ joined \in [Callers -> Tasks]
    BY DEF IInv, TypeOK, OutsideOK
  <1>4. Same(slot', mine'[c]) => slot'.removing
    <2>1. mine[c].quad # NoDeps BY <1>1 DEF Withdraws
    <2>2. \A d \in Callers : op[d] = "provide" /\ cpc[d] = "idle" => mine[c].by # d
      BY DEF GateInv, Fresh
    <2>3. Same(slot', mine[c]) => Same(slot, mine[c]) /\ (slot.removing => slot'.removing)
      BY <2>1, <2>2, SlotOn
    <2> QED BY <1>1, <2>3 DEF Withdraws
  <1>5. joined'[c] \notin {NoTask, c} => closing'
    <2>1. CASE joined'[c] = joined[c] BY <1>1, <2>1 DEF Withdraws
    <2>2. CASE WithdrawConsumer(c)
      <3>1. joined'[c] = IF closing THEN terminal ELSE c
        BY <1>3, <2>2 DEF WithdrawConsumer
      <3> QED BY <1>1, <3>1
    <2>3. ASSUME Call(c) \/ Continue(c), ~ WithdrawConsumer(c) PROVE joined'[c] = joined[c]
      BY <2>3 DEF Call, Continue, At, DisposeJoin, DisposeRegister,
         RestartRefused, RestartCall, SettleCall, ShutdownCall, Provide, WithdrawMark,
         PostStopped, PostCheck, PostSend, PostRecheck, Joined, Notify, WithdrawFind,
         WithdrawFlag, WithdrawCancel, WithdrawFinalize
    <2> QED BY <2>1, <2>2, <2>3, CallerStays
  <1>6. result'[c] # "running" => Clear(c)' \/ closing'
    <2>1. CASE result'[c] = result[c] BY <1>1, <1>2, <2>1 DEF Withdraws
    <2>2. CASE result'[c] # result[c]
      <3>1. ~ Running \/ (cur.kind = "join" /\ cur.task = c /\ pc = "refreshed")
        BY <2>2, WithdrawalTold
      <3>2. Clear(c) \/ closing BY <1>1, <3>1 DEF Withdraws, Clear
      <3> QED BY <1>1, <1>2, <3>2
    <2> QED BY <2>1, <2>2
  <1>7. cpc'[c] = "finalize" => Clear(c)' \/ closing'
    <2> SUFFICES ASSUME cpc'[c] = "finalize" PROVE Clear(c) \/ closing BY <1>1, <1>2
    <2>1. CASE cpc[c] = "finalize" BY <1>1, <2>1 DEF Withdraws
    <2>2. CASE Joined(c)
      <3>1. result[joined[c]] # "running" /\ joined[c] # NoTask
        BY <2>2 DEF Joined, Joins
      <3> QED BY <1>1, <3>1 DEF Withdraws
    <2>3. CASE Notify(c) /\ joined[c] = NoTask
      BY <1>1, <2>3 DEF Notify, Withdraws
    <2>4. ASSUME Call(c) \/ Continue(c), ~ Joined(c), ~ (Notify(c) /\ joined[c] = NoTask)
          PROVE  FALSE
      BY <1>1, <1>3, <2>4 DEF Call, Continue, At, Move, AfterPost, DisposeJoin,
         DisposeRegister,
         RestartRefused, RestartCall, SettleCall, ShutdownCall, Provide, WithdrawMark,
         PostStopped, PostCheck, PostSend, PostRecheck, Notify, WithdrawFind,
         WithdrawFlag, WithdrawCancel, WithdrawConsumer, WithdrawFinalize
    <2> QED BY <2>1, <2>2, <2>3, <2>4, CallerStays
  <1>8. mine'[c].quad # NoDeps BY <1>1 DEF Withdraws
  <1>9. cpc'[c] \in {"notify", "join", "finalize", "done"} /\ joined'[c] = NoTask => Clear(c)'
    BY FoundNone
  <1>10. cur'.kind = "join" /\ cur'.task = c
         /\ pc' \notin {"refresh", "terminal", "gate", "unload"} => Clear(c)' \/ closing'
    BY JoinGoesOn
  <1> QED BY <1>4, <1>5, <1>6, <1>7, <1>8, <1>9, <1>10 DEF Withdraws

LEMMA WithdrawStep == IInv /\ CallInv /\ GateInv /\ [Next]_vars => Withdrawing'
  <1> SUFFICES ASSUME IInv, CallInv, GateInv, [Next]_vars, NEW c \in Callers,
                      op[c] = "withdraw"
               PROVE  (IF cpc[c] = "idle" THEN result[c] = "running" ELSE Withdraws(c))'
    BY ClosingOn DEF Withdrawing
  <1>1. CASE cpc[c] # "idle" BY <1>1, NotedOn, WithdrawGoesOn
  <1>2. CASE cpc[c] = "idle"
    <2>1. result'[c] = "running" BY <1>2, WithdrawalTold DEF GateInv, Withdrawing
    <2> QED BY <1>2, <2>1, WithdrawBegins
  <1> QED BY <1>1, <1>2

-----------------------------------------------------------------------------
(* No step breaks the invariant. *)
LEMMA GateStep == IInv /\ CallInv /\ GateInv /\ [Next]_vars => GateInv'
  BY FreshStep, GatedStep, StoppedStep, WithdrawStep DEF GateInv, CallInv

LEMMA GateInvariance == Spec => [](IInv /\ CallInv /\ GateInv)
  <1>1. Init /\ IInv /\ CallInv => IInv /\ CallInv /\ GateInv BY GateInit
  <1>2. (IInv /\ CallInv) /\ (IInv /\ CallInv)' /\ GateInv /\ [Next]_vars
          => (IInv /\ CallInv /\ GateInv)'
    BY GateStep
  <1> QED BY <1>1, <1>2, CallInvariance, PTL DEF Spec

(* When a withdrawal removes its binding no generation runs that passed the  *)
(* gate with it, save in a fiber that closes or a slot that was taken: from  *)
(* the gate's second check and `last_deps` the withdrawal finds its consumer *)
(* whatever the two do in between (D14, #620).                               *)
THEOREM WithdrawalSeesItsConsumer == Spec => []NoConsumerMissed
  <1>1. GateInv => NoConsumerMissed
    <2> SUFFICES ASSUME GateInv, NEW c \in Callers, op[c] = "withdraw",
                        cpc[c] = "finalize", Running, Same(gated, mine[c]), ~ closing
                 PROVE  ~ Same(slot, mine[c])
      BY DEF NoConsumerMissed, At
    <2>1. Clear(c) BY DEF GateInv, Withdrawing, Withdraws
    <2> QED BY <2>1 DEF Clear
  <1> QED BY <1>1, GateInvariance, PTL

-----------------------------------------------------------------------------
(***************************************************************************)
(* No wake-up is lost: nobody needs to look at the fiber again once the    *)
(* driver waits and every call has returned.                               *)
(***************************************************************************)
(* A caller that will still wake the driver. *)
Wakes(c) ==
  \/ op[c] = "provide" /\ cpc[c] = "notify"
  \/ /\ op[c] = "withdraw"
     /\ cpc[c] \in {"find", "flag", "cancel", "consumer", "check", "send", "recheck", "notify"}
  \/ op[c] = "restart" /\ cpc[c] \in {"check", "send"}

(* The driver will be woken, or has been. *)
Due ==
  \/ mount # "mounted"
  \/ \E i \in Intents : Held(mailbox, i) /\ i.kind # "settle"
  \/ \E c \in Callers : Wakes(c)

(* There is nothing for the driver to do. *)
Rested ==
  /\ state = "Pending" => Resolve = NoDeps
  /\ state = "Active" => lastDeps = Resolve

(* Where nothing is due the driver still knows the slot as it is. *)
UpToDate ==
  /\ pc \in {"recv", "settle", "refreshed"} => Rested
  /\ pc \in {"load", "bind", "regate"} => deps = Resolve
  /\ pc \in {"build", "apply", "adopt", "adopted", "activate"} => lastDeps = Resolve
  /\ pc = "adopted" => deps \in {NoDeps, Resolve}
  /\ pc \in Stopping /\ then = "load" => deps = Resolve
  /\ pc \in Stopping /\ then = "refreshed" /\ next = "Pending" => Resolve = NoDeps

Woken == alive /\ terminal = NoTask /\ ~ Due => UpToDate

(* Every restart that is counted is on its way, ... *)
Tracked == alive => pendingRestarts <= Cardinality(Waiting)

(* ... and a load is stopped ahead only by what will wake the driver. *)
Precancelled == alive /\ terminal = NoTask /\ preCancelled /\ state = "Loading" => Due

(* A fiber that is not loaded has no dependencies recorded. *)
Unloaded ==
  /\ state = "Pending" \/ (pc = "publish" /\ next # "Failed") => lastDeps = NoDeps
  /\ pc \in Stopping /\ then = "inactive" => next = "Disposed"
  /\ pc = "inactive" => terminal # NoTask
  /\ pc \in Stopping /\ then = "lost" => next = "Pending"
  /\ pc = "lost" => state = "Pending"

(* A join that is over was told its result. *)
DoneTold ==
  \A c \in Callers :
    /\ op[c] = "provide" => joined[c] = NoTask
    /\ cpc[c] \in {"finalize", "done"} /\ joined[c] # NoTask => result[joined[c]] # "running"

WakeInv == Woken /\ Tracked /\ Precancelled /\ Unloaded /\ DoneTold

(* At first the mount is still to wake the driver. *)
LEMMA WakeInit == Init => WakeInv
  <1> SUFFICES ASSUME Init PROVE WakeInv OBVIOUS
  <1>1. Due BY DEF Init, Due
  <1>2. Waiting = {} BY HeldNone DEF Init, Waiting
  <1>3. Tracked BY <1>2, FS_EmptySet DEF Init, Tracked
  <1> QED BY <1>1, <1>3 DEF Init, WakeInv, Woken, Precancelled, Unloaded, DoneTold

(* A driver that is alive was alive before, a fiber without a stop had none. *)
LEMMA AliveOn ==
  ASSUME IInv, CallInv, [Next]_vars
  PROVE  (alive' => alive) /\ (terminal' = NoTask => terminal = NoTask)
  <1> USE DEF CallInv, MailInv
  <1>1. CASE Driver \/ ApplyReturn
    <2>1. CASE Inner BY <2>1 DEF Inner
    <2>2. CASE Answering BY <2>2 DEF Answering
    <2>3. CASE Take \/ Lost \/ Exit \/ Release \/ (RestartTaken /\ ~ closing) \/ Disposed
                \/ Sweep \/ SweepEnd \/ Recover \/ RecoverDrain \/ Recovered
      BY <2>3 DEF Take, Lost, Exit, Release, RestartTaken, Disposed, Sweep, SweepEnd,
         Recover, RecoverDrain, Recovered
    <2> QED
      BY <1>1, <2>1, <2>2, <2>3, InnerSteps, AnsweringSteps, ToldStays
         DEF Driver, Refreshing, Restarting, Ending
  <1>2. CASE UNCHANGED vars BY <1>2 DEF vars
  <1> QED BY <1>1, <1>2, PlaceElse, ToldStays DEF Next

(* An intent stays in the mailbox of a driver that is alive until it is      *)
(* taken.                                                                    *)
LEMMA MailOn ==
  ASSUME IInv, CallInv, [Next]_vars, alive', ~ Take
  PROVE  mailbox' = mailbox \/ \E i \in Intents : mailbox' = Append(mailbox, i)
  <1> USE DEF CallInv, MailInv
  <1>1. alive /\ Refresh \in Intents /\ [kind |-> "dispose", task |-> NoTask] \in Intents
    BY AliveOn, RefreshIntent DEF Intents, Kinds, Tasks
  <1>2. CASE Driver \/ ApplyReturn
    <2>1. CASE Inner BY <2>1 DEF Inner
    <2>2. CASE Answering BY <2>2 DEF Answering
    <2>3. CASE Lost \/ (RestartTaken /\ ~ closing) \/ Disposed
      BY <1>1, <2>3 DEF Lost, RestartTaken, Disposed
    <2>4. ~ (Exit \/ Release \/ Sweep \/ SweepEnd \/ Recovered)
      BY <1>1 DEF Exit, Release, Sweep, SweepEnd, Recovered, PlaceInv, Lifelines, Over
    <2> QED
      BY <1>2, <2>1, <2>2, <2>3, <2>4, InnerSteps, AnsweringSteps
         DEF Driver, Refreshing, Restarting, Ending
  <1>3. CASE Mounting
    BY <1>1, <1>3 DEF Mounting, MountRegister, MountPost, MountClosing, MountOrphan
  <1>4. ASSUME NEW c \in Callers, Call(c) \/ Continue(c)
        PROVE  mailbox' = mailbox \/ \E i \in Intents : mailbox' = Append(mailbox, i)
    <2>1. CASE PostSend(c) BY <2>1, PostedTyped DEF PostSend, IInv
    <2>2. CASE Notify(c) BY <1>1, <2>2 DEF Notify
    <2>3. CASE UNCHANGED mailbox BY <2>3
    <2> QED
      BY <1>4, <2>1, <2>2, <2>3 DEF Call, Continue, DisposeJoin, DisposeRegister,
         RestartRefused, RestartCall, SettleCall, ShutdownCall, Provide, WithdrawMark,
         PostStopped, PostCheck, PostRecheck, Joined, WithdrawFind, WithdrawFlag,
         WithdrawCancel, WithdrawConsumer, WithdrawFinalize
  <1> QED BY <1>2, <1>3, <1>4 DEF Next, Rest, vars

(* A post wakes the driver. *)
LEMMA PostWakes ==
  ASSUME TypeOK, NEW i \in Intents, i.kind # "settle", mailbox' = Append(mailbox, i)
  PROVE  Due'
  <1>1. Held(mailbox', i) BY HeldAppended DEF TypeOK, BodyOK
  <1> QED BY <1>1 DEF Due

(* What is due stays so until the driver takes an intent. *)
LEMMA DueOn ==
  ASSUME IInv, CallInv, [Next]_vars, alive', terminal' = NoTask, Due, ~ Take
  PROVE  Due'
  <1>1. /\ TypeOK /\ alive /\ terminal = NoTask /\ ~ closing /\ Refresh \in Intents
        /\ Refresh.kind # "settle" /\ pc \notin Over
    BY AliveOn, RefreshIntent DEF IInv, Phases, PhaseOfUnload, Refresh, CallInv, PlaceInv,
       Lifelines
  <1>2. /\ DisposeIntent \in Intents /\ DisposeIntent.kind # "settle"
    BY DEF DisposeIntent, Intents, Kinds, Tasks
  <1>3. ASSUME NEW i \in Intents, Held(mailbox, i), i.kind # "settle" PROVE Due'
    <2>1. Held(mailbox', i)
      <3>1. CASE mailbox' = mailbox BY <1>3, <3>1
      <3>2. ASSUME NEW j \in Intents, mailbox' = Append(mailbox, j) PROVE Held(mailbox', i)
        BY <1>1, <1>3, <3>2, HeldAppended DEF TypeOK, BodyOK
      <3> QED BY <3>1, <3>2, MailOn
    <2> QED BY <1>3, <2>1 DEF Due
  <1>4. ASSUME NEW c \in Callers, Wakes(c) PROVE Due'
    <2>1. CASE UNCHANGED <<op, cpc>> BY <1>4, <2>1 DEF Due, Wakes
    <2>2. CASE Driver \/ ApplyReturn \/ Mounting \/ UNCHANGED vars
      BY <2>1, <2>2, DriverApart, MountingApart DEF vars
    <2>3. ASSUME NEW d \in Callers, Call(d) \/ Continue(d), d # c PROVE Due'
      BY <1>4, <2>3, CallersSlot, CallersApart DEF Due, Wakes
    <2>4. CASE Call(c) \/ Continue(c)
      <3> USE DEF Wakes, Move, AfterPost, At, IInv, TypeOK, OutsideOK
      <3>1. CASE Notify(c) BY <1>1, <3>1, PostWakes DEF Notify
      <3>2. CASE PostSend(c)
        <4>1. CASE op[c] = "withdraw"
          <5>1. Wakes(c)' BY <3>2, <4>1 DEF PostSend
          <5> QED BY <5>1 DEF Due
        <4>2. CASE op[c] = "restart"
          <5>1. Posted(c) \in Intents BY <3>2, PostedTyped DEF PostSend
          <5>2. Posted(c).kind = "restart" BY <4>2 DEF Posted
          <5> QED BY <1>1, <3>2, <5>1, <5>2, PostWakes DEF PostSend
        <4> QED BY <1>4, <3>2, <4>1, <4>2 DEF PostSend
      <3>3. CASE PostStopped(c)
        BY <1>1, <3>3 DEF PostStopped, CallInv, PlaceInv, Lifelines, Over
      <3>4. CASE PostCheck(c) \/ PostRecheck(c)
        <4>1. Wakes(c)' BY <1>4, <3>4 DEF PostCheck, PostRecheck
        <4> QED BY <4>1 DEF Due
      <3>5. CASE WithdrawFind(c) \/ WithdrawFlag(c) \/ WithdrawCancel(c)
                  \/ WithdrawConsumer(c)
        <4>1. Wakes(c)'
          BY <1>4, <3>5 DEF WithdrawFind, WithdrawFlag, WithdrawCancel, WithdrawConsumer
        <4> QED BY <4>1 DEF Due
      <3>6. ~ (Call(c) \/ Joined(c) \/ WithdrawFinalize(c))
        BY <1>4 DEF Call, DisposeJoin, DisposeRegister, RestartRefused, RestartCall,
           SettleCall, ShutdownCall, Provide, WithdrawMark, Joined, WithdrawFinalize
      <3> QED BY <2>4, <3>1, <3>2, <3>3, <3>4, <3>5, <3>6 DEF Continue
    <2> QED BY <2>2, <2>3, <2>4 DEF Next, Rest
  <1>5. CASE mount # "mounted"
    <2>1. CASE mount' = mount BY <1>5, <2>1 DEF Due
    <2>2. CASE Mounting
      BY <1>1, <1>2, <1>5, <2>2, PostWakes DEF Mounting, MountRegister, MountPost,
         MountClosing, MountOrphan, Due, DisposeIntent
    <2>3. CASE Driver \/ ApplyReturn
      BY <2>1, <2>3 DEF Driver, Take, Settle, Refreshing, RefreshOpen, RefreshTerminal,
         GateMissing, GateUnchanged, GateChanged, LoadRefused, Load, Bind, Regate, Build,
         Lost, Adopt, Adopted, Activate, FailStopped, FailLoad, RefreshedPlain,
         RefreshedJoin, Unloading, Unload, Drain, Publish, Panic, PanicStopped, Crash,
         Restarting, RestartTaken,
         RestartLost, RestartInactive, RestartUnload, RestartDone, Ending, Dispose,
         Disposed, Shutdown, ShutdownPrior, Exit, Sweep, SweepEnd, Release, Recover,
         RecoverDrain, Recovered,
         ApplyReturn, ApplyOk, ApplyErr, ApplyLost
    <2>4. ASSUME NEW c \in Callers, Call(c) \/ Continue(c) PROVE mount' = mount
      BY <2>4 DEF Call, Continue, DisposeJoin, DisposeRegister,
         RestartRefused, RestartCall, SettleCall, ShutdownCall, Provide, WithdrawMark,
         PostStopped, PostCheck, PostSend, PostRecheck, Joined, Notify, WithdrawFind,
         WithdrawFlag, WithdrawCancel, WithdrawConsumer, WithdrawFinalize
    <2> QED BY <2>1, <2>2, <2>3, <2>4 DEF Next, Rest, vars
  <1> QED BY <1>3, <1>4, <1>5 DEF Due

(* Whoever changes what the gate resolves will wake the driver: the removal  *)
(* of a binding changes nothing the mark did not.                            *)
LEMMA ResolveOn ==
  ASSUME IInv, CallInv, GateInv, [Next]_vars, ~ Due'
  PROVE  Resolve' = Resolve
  <1>1. CASE slot' = slot BY <1>1 DEF Resolve
  <1>2. ASSUME NEW c \in Callers, Provide(c) \/ WithdrawMark(c) PROVE FALSE
    <2>1. Wakes(c)'
      BY <1>2 DEF Provide, WithdrawMark, At, Move, Wakes, IInv, TypeOK, OutsideOK
    <2> QED BY <2>1 DEF Due
  <1>3. ASSUME NEW c \in Callers, WithdrawFinalize(c) PROVE Resolve' = Resolve
    <2>1. Same(slot, mine[c]) => slot.removing
      BY <1>3 DEF WithdrawFinalize, At, GateInv, Withdrawing, Withdraws
    <2> QED BY <1>3, <2>1 DEF WithdrawFinalize, Resolve, NoBinding
  <1>4. ASSUME NEW c \in Callers, Call(c) \/ Continue(c) PROVE Resolve' = Resolve
    BY <1>1, <1>2, <1>3, <1>4 DEF Call, Continue, DisposeJoin, DisposeRegister,
       RestartRefused, RestartCall, SettleCall, ShutdownCall, PostStopped, PostCheck,
       PostSend, PostRecheck, Joined, Notify, WithdrawFind, WithdrawFlag, WithdrawCancel,
       WithdrawConsumer
  <1> QED BY <1>1, <1>4, DriverApart, MountingApart DEF Next, Rest, vars

LEMMA UnloadedStep == IInv /\ CallInv /\ WakeInv /\ [Next]_vars => Unloaded'
  <1> SUFFICES ASSUME IInv, CallInv, Unloaded, [Next]_vars PROVE Unloaded' BY DEF WakeInv
  <1> USE DEF Unloaded, Goto, UnloadTo
  <1>1. CASE Take \/ Settle
    <2>1. CASE Take
      <3>1. cur'.kind \in Kinds BY <2>1, HeadTail DEF Take, IInv, Intents
      <3> QED BY <2>1, <3>1 DEF Take, Kinds
    <2> QED BY <1>1, <2>1 DEF Settle, Idle
  <1>2. CASE Refreshing
    BY <1>2 DEF Refreshing, RefreshOpen, RefreshTerminal, GateMissing, GateUnchanged,
       GateChanged, LoadRefused, Load, Bind, Regate, Build, Lost, Adopt, Adopted, Activate,
       FailStopped, FailLoad, RefreshedPlain, RefreshedJoin, Idle, IInv, Phases,
       PhaseOfState
  <1>3. CASE ApplyReturn BY <1>3 DEF ApplyReturn, ApplyOk, ApplyErr, ApplyLost
  <1>4. CASE Unload \/ Drain \/ Panic \/ PanicStopped
    BY <1>4 DEF Unload, Drain, Panic, PanicStopped, Crash, IInv, Phases, PhaseOfState
  <1>5. CASE Publish BY <1>5 DEF Publish, IInv, Phases, PhaseOfUnload
  <1>6. CASE Restarting
    BY <1>6 DEF Restarting, RestartTaken, RestartLost, RestartInactive, RestartUnload,
       RestartDone, Idle
  <1>7. CASE Ending
    BY <1>7 DEF Ending, Dispose, Disposed, Shutdown, ShutdownPrior, Exit, Sweep,
       SweepEnd, Release, Recover, RecoverDrain, Recovered
  <1>8. CASE UNCHANGED <<state, driver, lastDeps>> /\ (terminal # NoTask => terminal' # NoTask)
    BY <1>8
  <1> QED
    BY <1>1, <1>2, <1>3, <1>4, <1>5, <1>6, <1>7, <1>8, MountingApart, CallersApart, AliveOn
       DEF Next, Driver, Unloading, Rest, vars

(* A restart that waits is still there after a step that does not take it. *)
LEMMA WaitingOn ==
  ASSUME IInv, CallInv, [Next]_vars, alive', ~ RestartTaken
  PROVE  Waiting \subseteq Waiting' /\ (pendingRestarts' = pendingRestarts
           \/ \E c \in Callers : RestartCall(c))
  <1>1. alive /\ pc \notin Over BY AliveOn DEF CallInv, PlaceInv, Lifelines
  <1>2. ASSUME NEW c \in Waiting PROVE c \in Waiting'
    <2> DEFINE i == [kind |-> "restart", task |-> c]
    <2>1. c \in Callers /\ op[c] = "restart" /\ op' = op BY <1>2, ClosingOn DEF Waiting
    <2>2. i \in Intents BY <2>1 DEF Intents, Kinds, Tasks
    <2>3. CASE Held(mailbox, i)
      <3>1. CASE Take
        <4>1. CASE Held(mailbox', i) BY <2>1, <4>1 DEF Waiting
        <4>2. CASE i = cur'
          BY <2>1, <3>1, <4>2 DEF Take, Waiting
        <4> QED BY <2>3, <3>1, <4>1, <4>2, HeldTaken DEF Take, IInv, TypeOK, BodyOK
      <3>2. CASE ~ Take
        <4>1. Held(mailbox', i)
          <5>1. CASE mailbox' = mailbox BY <2>3, <5>1
          <5>2. ASSUME NEW j \in Intents, mailbox' = Append(mailbox, j)
                PROVE  Held(mailbox', i)
            BY <2>3, <5>2, HeldAppended DEF IInv, TypeOK, BodyOK
          <5> QED BY <3>2, <5>1, <5>2, MailOn
        <4> QED BY <2>1, <4>1 DEF Waiting
      <3> QED BY <3>1, <3>2
    <2>4. CASE pc = "restart" /\ cur.task = c
      <3>1. UNCHANGED <<pc, cur>>
        <4>1. ~ (Driver \/ ApplyReturn)
          BY <2>4 DEF Driver, Take, Settle, Refreshing, RefreshOpen, RefreshTerminal,
             GateMissing, GateUnchanged, GateChanged, LoadRefused, Load, Bind, Regate,
             Build, Lost, Adopt, Adopted, Activate, FailStopped, FailLoad, RefreshedPlain,
             RefreshedJoin, Unloading, Unload, Drain, Publish, Panic, PanicStopped,
             Crash, Restarting,
             RestartLost, RestartInactive, RestartUnload, RestartDone, Ending, Dispose,
             Disposed, Shutdown, ShutdownPrior, Exit, Sweep, SweepEnd, Release, Recover,
             RecoverDrain, Recovered,
             ApplyReturn, ApplyOk, ApplyErr, ApplyLost
        <4> QED BY <4>1, PlaceElse DEF Next, vars
      <3> QED BY <2>1, <2>4, <3>1 DEF Waiting
    <2>5. CASE cpc[c] \in {"check", "send"}
      <3> USE DEF IInv, TypeOK, OutsideOK, Move, At
      <3>1. CASE cpc'[c] = cpc[c] BY <2>1, <2>5, <3>1 DEF Waiting
      <3>2. CASE PostCheck(c) BY <2>1, <3>2 DEF PostCheck, Waiting
      <3>3. CASE PostSend(c)
        <4>1. Posted(c) = i /\ mailbox' = Append(mailbox, i)
          BY <2>1, <3>3 DEF PostSend, Posted
        <4>2. Held(mailbox', i) BY <2>2, <4>1, HeldAppended DEF BodyOK
        <4> QED BY <2>1, <4>2 DEF Waiting
      <3>4. CASE PostStopped(c)
        BY <1>1, <3>4 DEF PostStopped, CallInv, PlaceInv, Lifelines, Over
      <3>5. (Call(c) \/ Continue(c)) => PostCheck(c) \/ PostSend(c) \/ PostStopped(c)
        BY <2>1, <2>5 DEF Call, Continue, DisposeJoin, DisposeRegister, RestartRefused,
           RestartCall, SettleCall, ShutdownCall, Provide, WithdrawMark, PostRecheck,
           Joined, Notify, WithdrawFind, WithdrawFlag, WithdrawCancel, WithdrawConsumer,
           WithdrawFinalize
      <3> QED BY <2>1, <3>1, <3>2, <3>3, <3>4, <3>5, CallerStays
    <2> QED BY <1>2, <2>3, <2>4, <2>5 DEF Waiting
  <1>3. pendingRestarts' = pendingRestarts \/ \E c \in Callers : RestartCall(c)
    <2>1. CASE Driver \/ ApplyReturn
      BY <2>1 DEF Driver, Take, Settle, Refreshing, RefreshOpen, RefreshTerminal,
         GateMissing, GateUnchanged, GateChanged, LoadRefused, Load, Bind, Regate, Build,
         Lost, Adopt, Adopted, Activate, FailStopped, FailLoad, RefreshedPlain,
         RefreshedJoin, Unloading, Unload, Drain, Publish, Panic, PanicStopped, Crash,
         Restarting,
         RestartLost, RestartInactive, RestartUnload, RestartDone, Ending, Dispose,
         Disposed, Shutdown, ShutdownPrior, Exit, Sweep, SweepEnd, Release, Recover,
         RecoverDrain, Recovered,
         ApplyReturn, ApplyOk, ApplyErr, ApplyLost
    <2>2. CASE Mounting
      BY <2>2 DEF Mounting, MountRegister, MountPost, MountClosing, MountOrphan
    <2>3. ASSUME NEW c \in Callers, Call(c) \/ Continue(c), ~ RestartCall(c)
          PROVE  pendingRestarts' = pendingRestarts
      BY <2>3 DEF Call, Continue, DisposeJoin, DisposeRegister,
         RestartRefused, SettleCall, ShutdownCall, Provide, WithdrawMark,
         PostStopped, PostCheck, PostSend, PostRecheck, Joined, Notify, WithdrawFind,
         WithdrawFlag, WithdrawCancel, WithdrawConsumer, WithdrawFinalize
    <2> QED BY <2>1, <2>2, <2>3 DEF Next, Rest, vars
  <1> QED BY <1>2, <1>3

LEMMA TrackedStep == IInv /\ CallInv /\ CallInv' /\ WakeInv /\ [Next]_vars => Tracked'
  <1> SUFFICES ASSUME IInv, CallInv, CallInv', Tracked, [Next]_vars, alive'
               PROVE  pendingRestarts' <= Cardinality(Waiting')
    BY DEF WakeInv, Tracked
  <1> DEFINE W == Waiting
             V == Waiting'
  <1>1. alive /\ pendingRestarts <= Cardinality(W) BY AliveOn DEF Tracked
  <1>2. /\ IsFiniteSet(W) /\ IsFiniteSet(V)
        /\ Cardinality(W) \in Nat /\ Cardinality(V) \in Nat /\ pendingRestarts \in Nat
    BY FS_CardinalityType DEF CallInv, Counted, IInv, TypeOK, TransitionOK
  <1>3. CASE RestartTaken
    <2> DEFINE t == cur.task
    <2>1. pc = "restart" /\ cur.kind = "restart" /\ Fits(cur)
      BY <1>3 DEF RestartTaken, CallInv, PlaceInv, InHand, KindsAt, MailInv, Mail
    <2>2. t \in Callers /\ op[t] = "restart" BY <2>1, OfCaller
    <2>3. t \in W BY <2>1, <2>2 DEF Waiting
    <2>4. W \ {t} \subseteq V
      <3>1. UNCHANGED <<mailbox, calls>> BY <1>3 DEF RestartTaken
      <3> QED BY <3>1, <2>1 DEF Waiting
    <2> HIDE DEF W, V, t
    <2>5. IsFiniteSet(W \ {t}) /\ Cardinality(W \ {t}) = Cardinality(W) - 1
      BY <1>2, <2>3, FS_RemoveElement
    <2>6. Cardinality(W \ {t}) <= Cardinality(V) BY <1>2, <2>4, FS_Subset
    <2>7. pendingRestarts' = IF pendingRestarts = 0 THEN 0 ELSE pendingRestarts - 1
      BY <1>3 DEF RestartTaken
    <2> QED BY <1>1, <1>2, <2>5, <2>6, <2>7 DEF V
  <1>4. CASE ~ RestartTaken /\ pendingRestarts' = pendingRestarts
    <2>1. W \subseteq V BY <1>4, WaitingOn
    <2> HIDE DEF W, V
    <2>2. Cardinality(W) <= Cardinality(V) BY <1>2, <2>1, FS_Subset
    <2> QED BY <1>1, <1>2, <1>4, <2>2 DEF V
  <1>5. ASSUME NEW c \in Callers, RestartCall(c) PROVE pendingRestarts' <= Cardinality(V)
    <2>1. /\ pendingRestarts' = pendingRestarts + 1 /\ UNCHANGED <<op, mailbox, pc, cur>>
          /\ cpc' = [cpc EXCEPT ![c] = "check"] /\ op[c] = "restart" /\ cpc[c] = "idle"
      BY <1>5 DEF RestartCall, At, Move
    <2>2. \A d \in Callers : cpc'[d] = IF d = c THEN "check" ELSE cpc[d]
      BY <2>1 DEF IInv, TypeOK, OutsideOK
    <2>3. W \cup {c} \subseteq V BY <2>1, <2>2 DEF Waiting
    <2>4. c \notin W
      <3> DEFINE i == [kind |-> "restart", task |-> c]
      <3>1. ~ Fits(i)
        BY <2>1, OfCaller, FiberAssumption DEF Past
      <3>2. i \in Intents BY DEF Intents, Kinds, Tasks
      <3>3. ~ Held(mailbox, i) BY <3>1, <3>2 DEF CallInv, MailInv, Mail
      <3>4. ~ (pc = "restart" /\ cur.task = c)
        <4> SUFFICES ASSUME pc = "restart", cur.task = c PROVE FALSE OBVIOUS
        <4>1. cur.kind = "restart" /\ Fits(cur)
          BY DEF CallInv, PlaceInv, InHand, KindsAt, MailInv, Mail
        <4> QED BY <2>1, <4>1, OfCaller DEF Past
      <3> QED BY <2>1, <3>3, <3>4 DEF Waiting
    <2> HIDE DEF W, V
    <2>5. IsFiniteSet(W \cup {c}) /\ Cardinality(W \cup {c}) = Cardinality(W) + 1
      BY <1>2, <2>4, FS_AddElement
    <2>6. Cardinality(W \cup {c}) <= Cardinality(V) BY <1>2, <2>3, FS_Subset
    <2> QED BY <1>1, <1>2, <2>1, <2>5, <2>6
  <1> QED BY <1>3, <1>4, <1>5, WaitingOn

(* Only what will wake the driver stops a load ahead: a withdrawal that goes *)
(* on, or a restart on its way.                                              *)
LEMMA PrecancelledStep == IInv /\ CallInv /\ WakeInv /\ [Next]_vars => Precancelled'
  <1> SUFFICES ASSUME IInv, CallInv, WakeInv, [Next]_vars, alive', terminal' = NoTask,
                      preCancelled', state' = "Loading"
               PROVE  Due'
    BY DEF Precancelled
  <1>1. alive /\ terminal = NoTask BY AliveOn
  <1>2. CASE Load
    <2>1. pendingRestarts > 0 /\ UNCHANGED <<mailbox, calls>> /\ pc = "load"
      BY <1>2 DEF Load, StartsCancelled
    <2>2. Cardinality(Waiting) # 0
      <3>1. pendingRestarts \in Nat /\ Cardinality(Waiting) \in Nat
        BY FS_CardinalityType DEF IInv, TypeOK, TransitionOK, CallInv, Counted
      <3> QED BY <1>1, <2>1, <3>1 DEF WakeInv, Tracked
    <2>3. PICK c \in Waiting : TRUE
      <3>1. Waiting # {} BY <2>2, FS_EmptySet
      <3> QED BY <3>1
    <2>4. CASE cpc[c] \in {"check", "send"} BY <2>1, <2>3, <2>4 DEF Waiting, Due, Wakes
    <2>5. CASE Held(mailbox, [kind |-> "restart", task |-> c])
      <3>1. [kind |-> "restart", task |-> c] \in Intents
        BY <2>3 DEF Waiting, Intents, Kinds, Tasks
      <3> QED BY <2>1, <2>5, <3>1 DEF Due
    <2> QED BY <2>1, <2>3, <2>4, <2>5 DEF Waiting
  <1>3. ASSUME NEW c \in Callers, WithdrawFlag(c) \/ RestartCall(c) PROVE Due'
    <2>1. Wakes(c)'
      BY <1>3 DEF WithdrawFlag, RestartCall, At, Move, Wakes, IInv, TypeOK, OutsideOK
    <2> QED BY <2>1 DEF Due
  <1>4. CASE state = "Loading" /\ preCancelled
    <2>1. ~ Take BY <1>4 DEF Take, IInv, Phases, PhaseOfState
    <2> QED BY <1>1, <1>4, <2>1, DueOn DEF WakeInv, Precancelled
  <1>5. CASE Driver \/ ApplyReturn
    <2>1. CASE UNCHANGED <<state, preCancelled>> BY <1>4, <2>1
    <2>2. CASE Publish BY <2>2 DEF Publish, IInv, TypeOK, DriverOK
    <2> QED
      BY <1>2, <1>5, <2>1, <2>2 DEF Driver, Take, Settle, Refreshing, RefreshOpen,
         RefreshTerminal, GateMissing, GateUnchanged, GateChanged, LoadRefused, Bind,
         Regate, Build, Lost, Adopt, Adopted, Activate, FailStopped, FailLoad,
         RefreshedPlain, RefreshedJoin, Unloading, Unload, Drain, Panic, PanicStopped,
         Crash, Restarting,
         RestartTaken, RestartLost, RestartInactive, RestartUnload, RestartDone, Ending,
         Dispose, Disposed, Shutdown, ShutdownPrior, Exit, Sweep, SweepEnd, Release,
         Recover, RecoverDrain, Recovered, ApplyReturn, ApplyOk, ApplyErr, ApplyLost
  <1>6. ASSUME NEW c \in Callers, Call(c) \/ Continue(c) PROVE Due'
    <2>1. state' = state BY <1>6, CallersApart
    <2>2. CASE preCancelled' = preCancelled BY <1>4, <2>1, <2>2
    <2>3. CASE DisposeRegister(c) \/ ShutdownCall(c)
      <3>1. terminal' # NoTask
        BY <1>1, <2>3, FiberAssumption DEF DisposeRegister, ShutdownCall
      <3> QED BY <3>1
    <2> QED
      BY <1>3, <1>6, <2>2, <2>3 DEF Call, Continue, DisposeJoin,
         RestartRefused, SettleCall, Provide, WithdrawMark,
         PostStopped, PostCheck, PostSend, PostRecheck, Joined, Notify, WithdrawFind,
         WithdrawCancel, WithdrawConsumer, WithdrawFinalize
  <1>7. CASE Mounting \/ UNCHANGED vars
    BY <1>4, <1>7 DEF Mounting, MountRegister, MountPost, MountClosing, MountOrphan, vars
  <1> QED BY <1>5, <1>6, <1>7 DEF Next, Rest

(* The driver takes into account what it is woken for: it knows the slot     *)
(* whenever nobody has still to wake it.                                     *)
LEMMA WokenStep == IInv /\ CallInv /\ GateInv /\ WakeInv /\ [Next]_vars => Woken'
  <1> SUFFICES ASSUME IInv, CallInv, GateInv, WakeInv, [Next]_vars, alive',
                      terminal' = NoTask, ~ Due'
               PROVE  UpToDate'
    BY DEF Woken
  <1>1. /\ alive /\ terminal = NoTask /\ ~ closing /\ Resolve' = Resolve
        /\ Unloaded /\ Phases /\ (preCancelled /\ state = "Loading" => Due)
    BY AliveOn, ResolveOn DEF IInv, Phases, PhaseOfUnload, WakeInv, Precancelled
  <1>2. CASE Take
    <2>1. cur'.kind \in Kinds /\ cur' = Head(mailbox) /\ UNCHANGED <<state, lastDeps, cpc, op, mount>>
      BY <1>2, HeadTail DEF Take, IInv, Intents
    <2>2. CASE pc' # "settle" BY <1>2, <2>1, <2>2 DEF Take, UpToDate, Kinds
    <2>3. CASE pc' = "settle"
      <3>1. cur'.kind = "settle" BY <1>2, <2>1, <2>3 DEF Take, Kinds
      <3>2. ~ Due
        <4>1. \A i \in Intents : Held(mailbox, i) /\ i.kind # "settle" => Held(mailbox', i)
          BY <1>2, <2>1, <3>1, HeldTaken DEF Take, IInv, TypeOK, BodyOK
        <4>2. \A c \in Callers : Wakes(c)' <=> Wakes(c) BY <2>1 DEF Wakes
        <4> QED BY <2>1, <4>1, <4>2 DEF Due
      <3>3. Rested BY <1>1, <1>2, <3>2 DEF WakeInv, Woken, UpToDate, Take
      <3>4. Rested' BY <1>1, <2>1, <3>3 DEF Rested
      <3> QED BY <2>3, <3>4 DEF UpToDate
    <2> QED BY <2>2, <2>3
  <1>3. CASE ~ Take
    <2>1. UpToDate /\ ~ Due BY <1>1, <1>3, DueOn DEF WakeInv, Woken
    <2> USE DEF UpToDate, Rested, Goto, UnloadTo
    <2>2. CASE UNCHANGED <<state, driver, lastDeps>> BY <1>1, <2>1, <2>2
    <2>3. CASE Settle BY <1>1, <2>1, <2>3 DEF Settle, Idle
    <2>4. CASE RefreshOpen \/ RefreshTerminal
      BY <1>1, <2>4 DEF RefreshOpen, RefreshTerminal, Phases, PhaseOfUnload
    <2>5. CASE GateMissing \/ GateUnchanged \/ GateChanged
      BY <1>1, <2>5 DEF GateMissing, GateUnchanged, GateChanged, Unloaded
    <2>6. CASE LoadRefused BY <1>1, <2>6 DEF LoadRefused, Loadable
    <2>7. CASE Load \/ Bind \/ Build BY <1>1, <2>1, <2>7 DEF Load, Bind, Build
    <2>8. CASE Regate BY <1>1, <2>1, <2>8 DEF Regate, GateHolds, GateInv, Gated
    <2>9. CASE Lost BY <1>1, <2>1, <2>9, RefreshIntent, PostWakes DEF Lost, Unloaded, Refresh, IInv
    <2>10. CASE Adopt \/ Adopted \/ Activate
      BY <1>1, <2>1, <2>10 DEF Adopt, Adopted, Activate
    <2>11. CASE FailStopped
      <3>1. state = "Loading" /\ preCancelled BY <1>1, <2>11 DEF FailStopped, Phases, PhaseOfState
      <3> QED BY <1>1, <2>1, <3>1
    <2>12. CASE FailLoad BY <2>12 DEF FailLoad
    <2>13. CASE RefreshedPlain \/ RefreshedJoin \/ RestartDone
      BY <1>1, <2>1, <2>13 DEF RefreshedPlain, RefreshedJoin, RestartDone, Idle
    <2>14. CASE Unload \/ Drain \/ Panic \/ PanicStopped
      BY <1>1, <2>1, <2>14 DEF Unload, Drain, Panic, PanicStopped, Crash
    <2>15. CASE Publish
      <3>1. /\ then \in {"load", "lost", "refresh", "refreshed", "inactive"} \cup Ended
            /\ next \in {"Pending", "Disposed", "Failed"}
            /\ next = "Disposed" => then \in Ended
            /\ then = "load" => next = "Pending"
        BY <1>1, <2>15 DEF Publish, Phases, PhaseOfUnload, IInv, TypeOK, DriverOK
      <3>2. deps' = deps \/ next = "Failed" BY <2>15 DEF Publish
      <3> QED BY <1>1, <2>1, <2>15, <3>1, <3>2 DEF Publish
    <2>16. CASE RestartTaken \/ RestartLost \/ RestartInactive \/ RestartUnload
      BY <1>1, <2>16 DEF RestartTaken, RestartLost, RestartInactive, RestartUnload, Unloaded
    <2>17. CASE Ending
      BY <2>17 DEF Ending, Dispose, Disposed, Shutdown, ShutdownPrior, Exit, Sweep,
         SweepEnd, Release, Recover, RecoverDrain, Recovered
    <2>18. CASE ApplyReturn
      BY <1>1, <2>1, <2>18 DEF ApplyReturn, ApplyOk, ApplyErr, ApplyLost
    <2> QED
      BY <1>3, <2>2, <2>3, <2>4, <2>5, <2>6, <2>7, <2>8, <2>9, <2>10, <2>11, <2>12, <2>13,
         <2>14, <2>15, <2>16, <2>17, <2>18, MountingApart, CallersApart
         DEF Next, Driver, Refreshing, Unloading, Restarting, Rest, vars
  <1> QED BY <1>2, <1>3

LEMMA DoneToldStep == IInv /\ CallInv /\ WakeInv /\ [Next]_vars => DoneTold'
  <1> SUFFICES ASSUME IInv, CallInv, DoneTold, [Next]_vars, NEW c \in Callers
               PROVE  /\ op[c] = "provide" => joined'[c] = NoTask
                      /\ cpc'[c] \in {"finalize", "done"} /\ joined'[c] # NoTask
                           => result'[joined'[c]] # "running"
    BY ClosingOn DEF WakeInv, DoneTold
  <1>1. /\ cpc \in [Callers -> CallLabels] /\ joined \in [Callers -> Tasks]
        /\ op[c] = "provide" => cpc[c] \in {"idle", "notify", "done"}
        /\ cpc[c] = "idle" => joined[c] = NoTask
    BY DEF IInv, TypeOK, OutsideOK, CallInv, MailInv, Joins
  <1>2. \A t \in Callers : result[t] # "running" => result'[t] # "running" BY ToldStays
  <1>3. CASE joined'[c] = joined[c] /\ (cpc'[c] = cpc[c] \/ cpc'[c] \notin {"finalize", "done"})
    BY <1>1, <1>2, <1>3 DEF DoneTold, Tasks
  <1>4. CASE Call(c) \/ Continue(c)
    <2> USE DEF Move, Join, AfterPost, At
    <2>1. CASE Joined(c)
      <3>1. joined'[c] = joined[c] /\ result[joined[c]] # "running" /\ op[c] # "provide"
        BY <1>1, <2>1 DEF Joined
      <3> QED BY <1>1, <1>2, <3>1 DEF Tasks
    <2>2. CASE Notify(c) BY <1>1, <1>2, <2>2 DEF Notify, DoneTold
    <2>3. CASE WithdrawFinalize(c)
      <3>1. joined'[c] = joined[c] /\ op[c] # "provide" /\ cpc[c] = "finalize"
        BY <2>3 DEF WithdrawFinalize
      <3> QED BY <1>1, <1>2, <3>1 DEF DoneTold, Tasks
    <2>4. CASE RestartRefused(c) BY <1>1, <2>4 DEF RestartRefused
    <2>5. CASE PostStopped(c) \/ PostCheck(c) \/ PostSend(c) \/ PostRecheck(c)
      BY <1>1, <1>3, <2>5 DEF PostStopped, PostCheck, PostSend, PostRecheck
    <2>6. CASE WithdrawFind(c) \/ WithdrawFlag(c) \/ WithdrawCancel(c) \/ WithdrawConsumer(c)
      BY <1>1, <2>6 DEF WithdrawFind, WithdrawFlag, WithdrawCancel, WithdrawConsumer
    <2>7. CASE Call(c) /\ ~ RestartRefused(c)
      BY <1>1, <2>7 DEF Call, DisposeJoin, DisposeRegister, RestartCall, SettleCall,
         ShutdownCall, Provide, WithdrawMark
    <2> QED BY <1>4, <2>1, <2>2, <2>3, <2>4, <2>5, <2>6, <2>7 DEF Continue
  <1> QED BY <1>3, <1>4, CallerStays

LEMMA WakeStep == IInv /\ CallInv /\ CallInv' /\ GateInv /\ WakeInv /\ [Next]_vars => WakeInv'
  BY WokenStep, TrackedStep, PrecancelledStep, UnloadedStep, DoneToldStep DEF WakeInv

(* When the driver waits and every call has returned, the fiber waits only   *)
(* for a dependency that is missing and runs only with the one there is: no  *)
(* wake-up is lost between a slot that changes, the gate that resolves it    *)
(* and the load that records it (D22).                                       *)
THEOREM NothingLeftToDo == Spec => []Settled
  <1>1. ASSUME IInv, CallInv, WakeInv, Finished, alive
        PROVE  /\ state \in {"Pending", "Active", "Failed"}
               /\ state = "Pending" => Resolve = NoDeps
               /\ state = "Active" => lastDeps = Resolve
    <2>1. pc = "recv" BY <1>1 DEF Finished, CallInv, PlaceInv, Lifelines, Over
    <2>2. terminal = NoTask
      <3> SUFFICES ASSUME terminal # NoTask PROVE FALSE OBVIOUS
      <3>1. /\ terminal \in Callers /\ op[terminal] \in {"dispose", "shutdown"}
            /\ joined[terminal] = terminal
        BY <1>1 DEF CallInv, MailInv, Claimed, IInv, TypeOK, TransitionOK, Tasks
      <3>2. cpc[terminal] = "done"
        BY <1>1, <3>1 DEF Finished, CallInv, MailInv, Joins
      <3>3. result[terminal] # "running" BY <1>1, <3>1, <3>2 DEF WakeInv, DoneTold
      <3> QED BY <1>1, <2>1, <3>3 DEF CallInv, MailInv, TerminalTold, Told, Over
    <2>3. ~ Due BY <1>1, HeldNone DEF Finished, Due, Wakes
    <2>4. Rested BY <1>1, <2>1, <2>2, <2>3 DEF WakeInv, Woken, UpToDate
    <2>5. state \in {"Pending", "Active", "Failed"}
      BY <1>1, <2>1, <2>2 DEF IInv, Phases, PhaseOfState, PhaseOfUnload
    <2> QED BY <2>4, <2>5 DEF Rested
  <1>2. IInv /\ CallInv /\ WakeInv => Settled BY <1>1 DEF Settled
  <1>3. Init => WakeInv BY WakeInit
  <1>4. (IInv /\ CallInv /\ GateInv) /\ (IInv /\ CallInv /\ GateInv)' /\ WakeInv /\ [Next]_vars
          => WakeInv'
    BY WakeStep
  <1> QED BY <1>2, <1>3, <1>4, GateInvariance, PTL DEF Spec
=============================================================================
