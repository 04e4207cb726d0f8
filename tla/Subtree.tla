------------------------------ MODULE Subtree ------------------------------
(***************************************************************************)
(* A tree of fibers that is torn down: a dispose that cascades from a      *)
(* parent to the children it mounted, the permanent shutdown of a subtree, *)
(* and the root with its own shutdown, dispose and restart.                *)
(*                                                                         *)
(* Fiber models one driver in detail; here a driver is as coarse as its    *)
(* neighbours can tell, and what runs under the admission lock is one      *)
(* step.  Loads do not fail and need no service.                           *)
(***************************************************************************)
EXTENDS Naturals, Sequences, FiniteSets

CONSTANTS
  Node,      \* the fibers that may come to be
  Root,      \* the one there from the start
  Parent,    \* under which fiber each of the others is mounted
  Failing,   \* the fibers with a cleanup that may fail
  Calls,     \* the calls made from outside, [op, at]: sequences, one of them made
  NoTask

Ops == {"dispose", "shutdown", "restart"}

(* The fibers above each: what every set has that holds the parent of the   *)
(* fiber and of whatever it holds.                                          *)
Upward(S) == \A x \in S \ {Root} : Parent[x] \in S

Above == [n \in Node |->
  {m \in Node : \A S \in SUBSET Node :
                  Upward(S) /\ (n # Root => Parent[n] \in S) => m \in S}]

ASSUME SubtreeAssumption ==
  /\ Root \in Node
  /\ Parent \in [Node \ {Root} -> Node]
  /\ \A n \in Node : n \notin Above[n]
  /\ NoTask \notin [what : {"end", "all", "restart"}, of : Node, by : Nat]
  /\ Failing \subseteq Node
  /\ Calls \subseteq Seq([op : Ops, at : Node])

Callers == UNION {DOMAIN w : w \in Calls}

(* The tasks that are joined: the end of a fiber, by who registered it (0: *)
(* the kernel), the shutdown of a subtree, a restart.                      *)
End(n, c) == [what |-> "end", of |-> n, by |-> c]
All(n) == [what |-> "all", of |-> n, by |-> 0]
Again(n, c) == [what |-> "restart", of |-> n, by |-> c]

Intent(kind, task) == [kind |-> kind, task |-> task]
Refresh == Intent("refresh", NoTask)

VARIABLES
  (* of each fiber: what its transition lock guards, its token, whether it *)
  (* holds cleanups of its own                                             *)
  st, gen, err, terminal, cancelled, own,
  (* the tree: FiberInner::closing, Shared::closing, the children a fiber  *)
  (* lists, the mount records it holds, the fibers spawned and not yet     *)
  (* mounted, and the generation of the context that spawned them          *)
  closing, closed, kids, held, mounting, born,
  (* the drivers *)
  pc, cur, next, then, mailbox, alive,
  (* the mount records: how far, the task joined, is its error for the sink? *)
  rec, joins, loud,
  (* subtree shutdown: fibers with a shutdown_task, their shutdown_inner,  *)
  (* the children each waits for                                           *)
  begun, inner, awaits,
  (* the result of each task that is done; the fibers whose last cleanup   *)
  (* failed; the errors the sink got                                       *)
  done, failed, sink,
  (* the callers *)
  work, cpc, joined, ret

fibers == <<st, gen, err, terminal, cancelled, own>>
tree == <<closing, closed, kids, held, mounting, born>>
driver == <<pc, cur, next, then>>
drivers == <<driver, mailbox, alive>>
records == <<rec, joins, loud>>
subtree == <<begun, inner, awaits>>
results == <<done, failed, sink>>
calls == <<work, cpc, joined, ret>>
vars == <<fibers, tree, drivers, records, subtree, results, calls>>

-----------------------------------------------------------------------------
(* What the operations are built from *)

(* m and what is above it, up to n *)
Between(n, m) == {a \in {m} \cup Above[m] : n \in Above[a]}

(* n and what is below it, as the children lists say *)
In(n) == {m \in Node : \/ m = n
                       \/ n \in Above[m] /\ \A a \in Between(n, m) : a \in kids[Parent[a]]}

Stopping(n) == n \in closing \/ closed
SubtreeClosing(n) == closed \/ \E a \in {n} \cup Above[n] : a \in closing
Registered(n) == n # Root /\ terminal[n] # NoTask

(* stopped_error *)
Stopped(n) == IF err[n] # {} THEN err[n] ELSE IF closed THEN {"closed"} ELSE {}

(* Tasks complete: result says with what. *)
Complete(result) ==
  done' = [t \in DOMAIN done \cup DOMAIN result |->
             IF t \in DOMAIN result THEN result[t] ELSE done[t]]

Tasks(S) == S \ {NoTask}

(* register_dispose: the task there is, or a new one *)
EndOf(n, c) == IF terminal[n] = NoTask THEN End(n, c) ELSE terminal[n]

RegisterDispose(n, c) ==
  /\ terminal' = [terminal EXCEPT ![n] = EndOf(n, c)]
  /\ cancelled' = IF terminal[n] = NoTask THEN cancelled \cup {n} ELSE cancelled
  /\ mailbox' = IF terminal[n] = NoTask /\ n \in alive
                THEN [mailbox EXCEPT ![n] = Append(@, Intent("dispose", NoTask))] ELSE mailbox
  /\ IF terminal[n] = NoTask /\ n \notin alive
     THEN Complete([t \in {End(n, c)} |-> Stopped(n)]) ELSE UNCHANGED done

(* FiberView::shutdown: n and its descendants are marked and cancelled,     *)
(* then begin_subtree_shutdown_locked gives each of them its public task    *)
(* and joins or registers its end.                                          *)
BeginShutdown(n) ==
  LET new == In(n) \ begun
      ends == {m \in new : terminal[m] = NoTask}
  IN
  /\ closing' = closing \cup In(n)
  /\ cancelled' = cancelled \cup In(n)
  /\ begun' = begun \cup new
  /\ awaits' = [m \in Node |-> IF m \in new THEN kids[m] ELSE awaits[m]]
  /\ terminal' = [m \in Node |-> IF m \in ends THEN End(m, 0) ELSE terminal[m]]
  /\ inner' = [m \in Node |-> IF m \in new THEN terminal'[m] ELSE inner[m]]
  /\ mailbox' = [m \in Node |-> IF m \in ends \cap alive
                                THEN Append(mailbox[m], Intent("shutdown", End(m, 0)))
                                ELSE mailbox[m]]
  /\ Complete([t \in {End(m, 0) : m \in ends \ alive} |-> Stopped(t.of)])

(* Ctx::shutdown: everything is cancelled, the root is told, its unload    *)
(* disposes the rest.                                                      *)
BeginRootShutdown ==
  IF closed THEN UNCHANGED <<closed, cancelled, mailbox>>
  ELSE /\ closed' = TRUE
       /\ cancelled' = cancelled \cup In(Root)
       /\ mailbox' = [mailbox EXCEPT ![Root] = Append(@, Intent("shutdown", All(Root)))]

-----------------------------------------------------------------------------
(* The driver *)

Take(n) ==
  /\ pc[n] = "recv"
  /\ mailbox[n] # <<>>
  /\ cur' = [cur EXCEPT ![n] = Head(mailbox[n])]
  /\ mailbox' = [mailbox EXCEPT ![n] = Tail(@)]
  /\ pc' = [pc EXCEPT ![n] = Head(mailbox[n]).kind]
  /\ UNCHANGED <<fibers, tree, next, then, alive, records, subtree, results, calls>>

Goto(n, p) == pc' = [pc EXCEPT ![n] = p] /\ UNCHANGED <<cur, next, then>>

(* unload(s), to go on at p *)
UnloadTo(n, s, p) ==
  /\ pc' = [pc EXCEPT ![n] = "unload"]
  /\ next' = [next EXCEPT ![n] = s]
  /\ then' = [then EXCEPT ![n] = p]
  /\ UNCHANGED cur

(* refresh_deps: nothing to do, ... *)
RefreshNone(n) ==
  /\ pc[n] = "refresh"
  /\ \/ Stopping(n) \/ n = Root \/ st[n] = "Disposed"
     \/ st[n] = "Active" /\ ~ Registered(n)
  /\ Goto(n, "over")
  /\ UNCHANGED <<fibers, tree, mailbox, alive, records, subtree, results, calls>>

(* ... a registered dispose is served first, ... *)
RefreshTerminal(n) ==
  /\ pc[n] = "refresh"
  /\ ~ Stopping(n) /\ Registered(n) /\ st[n] # "Disposed"
  /\ UnloadTo(n, "Disposed", "over")
  /\ UNCHANGED <<fibers, tree, mailbox, alive, records, subtree, results, calls>>

(* ... or load: a new generation, cancelled already if a restart waits.    *)
Load(n) ==
  /\ pc[n] = "refresh"
  /\ n # Root
  /\ ~ Stopping(n) /\ ~ Registered(n) /\ st[n] = "Pending"
  /\ st' = [st EXCEPT ![n] = "Loading"]
  /\ gen' = [gen EXCEPT ![n] = @ + 1]
  /\ err' = [err EXCEPT ![n] = {}]
  /\ cancelled' = IF \E i \in DOMAIN mailbox[n] : mailbox[n][i].kind = "restart"
                  THEN cancelled \cup {n} ELSE cancelled \ {n}
  /\ own' = own \cup {n}
  /\ Goto(n, "apply")
  /\ UNCHANGED <<terminal, tree, mailbox, alive, records, subtree, results, calls>>

(* apply returns; a fiber that closes unloads at once. *)
ApplyEnd(n) ==
  /\ pc[n] = "apply"
  /\ IF n \in closing
     THEN UnloadTo(n, "Disposed", "started") /\ UNCHANGED st
     ELSE Goto(n, "started") /\ st' = [st EXCEPT ![n] = "Active"]
  /\ UNCHANGED <<gen, err, terminal, cancelled, own, tree, mailbox, alive, records, subtree,
                 results, calls>>

RestartRefused(n) ==
  /\ pc[n] = "restart"
  /\ Stopping(n)
  /\ Complete([t \in {cur[n].task} |-> {"closed"}])
  /\ Goto(n, "recv")
  /\ UNCHANGED <<fibers, tree, mailbox, alive, records, subtree, failed, sink, calls>>

(* A registered dispose wins; what is loaded is unloaded first. *)
Restart(n) ==
  /\ pc[n] = "restart"
  /\ ~ Stopping(n)
  /\ Registered(n) \/ st[n] # "Disposed"
  /\ IF Registered(n)
     THEN IF st[n] = "Disposed" THEN Goto(n, "over") ELSE UnloadTo(n, "Disposed", "over")
     ELSE IF st[n] = "Pending" THEN Goto(n, "refresh") ELSE UnloadTo(n, "Pending", "refresh")
  /\ UNCHANGED <<fibers, tree, mailbox, alive, records, subtree, results, calls>>

(* Only the root is Disposed here: it becomes Active again. *)
Revive(n) ==
  /\ pc[n] = "restart"
  /\ ~ Stopping(n) /\ ~ Registered(n) /\ st[n] = "Disposed"
  /\ st' = [st EXCEPT ![n] = "Active"]
  /\ err' = [err EXCEPT ![n] = {}]
  /\ terminal' = [terminal EXCEPT ![n] = NoTask]
  /\ cancelled' = cancelled \ {n}
  /\ own' = own \cup {n}
  /\ Complete([t \in {cur[n].task} |-> {}])
  /\ Goto(n, "recv")
  /\ UNCHANGED <<gen, tree, mailbox, alive, records, subtree, failed, sink, calls>>

(* The intent is handled; a restart returns what its generation came to.   *)
Handled(n) ==
  /\ pc[n] \in {"over", "started"}
  /\ Complete([t \in Tasks({cur[n].task}) |->
       IF pc[n] = "started" THEN err[n] ELSE IF Registered(n) THEN {"inactive"} ELSE {}])
  /\ Goto(n, "recv")
  /\ UNCHANGED <<fibers, tree, mailbox, alive, records, subtree, failed, sink, calls>>

(* Dispose and Shutdown *)
Terminate(n) ==
  /\ pc[n] \in {"dispose", "shutdown"}
  /\ IF st[n] = "Disposed" THEN Goto(n, "leave") ELSE UnloadTo(n, "Disposed", "leave")
  /\ UNCHANGED <<fibers, tree, mailbox, alive, records, subtree, results, calls>>

(* unload: Unloading, the token cancelled; ... *)
Unload(n) ==
  /\ pc[n] = "unload"
  /\ st' = [st EXCEPT ![n] = "Unloading"]
  /\ cancelled' = cancelled \cup {n}
  /\ Goto(n, "drain")
  /\ UNCHANGED <<gen, err, terminal, own, tree, mailbox, alive, records, subtree, results, calls>>

(* ... the mount records one at a time, the last one first, ... *)
Claim(k) == rec[k] = "live" /\ rec' = [rec EXCEPT ![k] = "claimed"]

Drain(n) ==
  /\ pc[n] = "drain"
  /\ held[n] # <<>>
  /\ Claim(held[n][Len(held[n])])
  /\ UNCHANGED <<fibers, tree, drivers, joins, loud, subtree, results, calls>>

(* ... and what the fiber cleans up itself; the next state is published.    *)
Publish(n) ==
  /\ pc[n] = "drain"
  /\ held[n] = <<>>
  /\ \E e \in {{}} \cup (IF n \in own \cap Failing THEN {{n}} ELSE {}) :
       IF next[n] = "Disposed"
       THEN /\ err' = [err EXCEPT ![n] = e]
            /\ failed' = failed \cup e
            /\ UNCHANGED sink
       ELSE /\ sink' = sink \cup e
            /\ UNCHANGED <<err, failed>>
  /\ own' = own \ {n}
  /\ st' = [st EXCEPT ![n] = next[n]]
  /\ Goto(n, then[n])
  /\ UNCHANGED <<gen, terminal, cancelled, tree, mailbox, alive, records, subtree, done, calls>>

Swept(n) == Tasks({mailbox[n][i].task : i \in DOMAIN mailbox[n]})

(* A disposed root goes on; ... *)
RootDisposed ==
  /\ pc[Root] = "leave"
  /\ cur[Root].kind = "dispose"
  /\ Complete([t \in Tasks({terminal[Root]}) |-> err[Root]])
  /\ Goto(Root, "recv")
  /\ UNCHANGED <<fibers, tree, mailbox, alive, records, subtree, failed, sink, calls>>

(* ... any other driver answers what is queued and leaves. *)
Leave(n) ==
  /\ pc[n] = "leave"
  /\ n # Root \/ cur[n].kind = "shutdown"
  /\ alive' = alive \ {n}
  /\ Complete([t \in Swept(n) \cup Tasks({terminal[n], cur[n].task}) |->
       IF t.what = "restart" /\ cur[n].kind = "shutdown" THEN {"closed"} ELSE err[n]])
  /\ mailbox' = [mailbox EXCEPT ![n] = <<>>]
  /\ Goto(n, IF n = Root THEN "gone" ELSE "release")
  /\ UNCHANGED <<fibers, tree, records, subtree, failed, sink, calls>>

(* release_transient: its own mount record is drained, if the parent has   *)
(* not, ...                                                                *)
Release(n) ==
  /\ pc[n] = "release"
  /\ Claim(n)
  /\ UNCHANGED <<fibers, tree, drivers, joins, loud, subtree, results, calls>>

(* ... and the parent forgets it. *)
Gone(n) ==
  /\ pc[n] = "release"
  /\ rec[n] \in {"none", "done"}
  /\ kids' = [kids EXCEPT ![Parent[n]] = @ \ {n}]
  /\ Goto(n, "gone")
  /\ UNCHANGED <<fibers, closing, closed, held, mounting, born, mailbox, alive, records, subtree,
                 results, calls>>

-----------------------------------------------------------------------------
(* The cleanup in a mount record *)

JoinPublic(k) == IF k \in begun THEN All(k) ELSE NoTask   \* mutant of OfShutdown

(* the child's own end, not its public shutdown: that one waits for this    *)
(* record to be gone                                                        *)
OfShutdown(k) == inner[k]

CleanupLook(k) ==
  /\ rec[k] = "claimed"
  /\ joins' = [joins EXCEPT ![k] = OfShutdown(k)]
  /\ rec' = [rec EXCEPT ![k] = IF OfShutdown(k) = NoTask THEN "cascade" ELSE "joining"]
  /\ UNCHANGED <<fibers, tree, drivers, loud, subtree, results, calls>>

Silent(k) == FALSE   \* mutant of Unheard

(* Whoever disposed a child that is Disposed by now has its error. *)
Unheard(k) == st[k] # "Disposed"

Cascade(k) ==
  /\ rec[k] = "cascade"
  /\ loud' = IF Unheard(k) THEN loud \cup {k} ELSE loud
  /\ RegisterDispose(k, 0)
  /\ joins' = [joins EXCEPT ![k] = EndOf(k, 0)]
  /\ rec' = [rec EXCEPT ![k] = "joining"]
  /\ UNCHANGED <<st, gen, err, own, tree, driver, alive, subtree, failed, sink, calls>>

(* A record that is done takes itself off the list it is on. *)
Detach(k) ==
  \E i \in DOMAIN held[Parent[k]] :
    /\ held[Parent[k]][i] = k
    /\ held' = [held EXCEPT ![Parent[k]] = SubSeq(@, 1, i - 1) \o SubSeq(@, i + 1, Len(@))]

CleanupEnd(k) ==
  /\ rec[k] = "joining"
  /\ joins[k] \in DOMAIN done
  /\ sink' = IF k \in loud THEN sink \cup (done[joins[k]] \cap Node) ELSE sink
  /\ rec' = [rec EXCEPT ![k] = "done"]
  /\ Detach(k)
  /\ UNCHANGED <<fibers, closing, closed, kids, mounting, born, drivers, joins, loud, subtree,
                 done, failed, calls>>

-----------------------------------------------------------------------------
(* The task that waits for a subtree *)

Unjoined(n) == TRUE   \* mutant of ChildrenEnded

ChildrenEnded(n) == \A k \in awaits[n] : All(k) \in DOMAIN done

Coordinate(n) ==
  /\ n \in begun
  /\ All(n) \notin DOMAIN done
  /\ inner[n] \in DOMAIN done
  /\ pc[n] = "gone"
  /\ ChildrenEnded(n)
  /\ Complete([t \in {All(n)} |->
       done[inner[n]] \cup UNION {done[All(k)] : k \in {k \in awaits[n] : All(k) \in DOMAIN done}}])
  /\ UNCHANGED <<fibers, tree, drivers, records, subtree, failed, sink, calls>>

-----------------------------------------------------------------------------
(* Mounting *)

(* spawn_fiber_inner, by code of the parent: a context that is closing gets *)
(* a fiber that ended before it began.                                      *)
Spawn(n) ==
  /\ st[n] = "unborn"
  /\ Parent[n] = Root \/ gen[Parent[n]] > 0
  /\ IF SubtreeClosing(Parent[n])
     THEN /\ st' = [st EXCEPT ![n] = "Disposed"]
          /\ err' = [err EXCEPT ![n] = {"closed"}]
          /\ terminal' = [terminal EXCEPT ![n] = End(n, 0)]
          /\ closing' = closing \cup {n}
          /\ Complete([t \in {End(n, 0)} |-> {"closed"}])
          /\ pc' = [pc EXCEPT ![n] = "gone"]
          /\ UNCHANGED <<kids, mounting, born, alive>>
     ELSE /\ st' = [st EXCEPT ![n] = "Pending"]
          /\ kids' = [kids EXCEPT ![Parent[n]] = @ \cup {n}]
          /\ mounting' = mounting \cup {n}
          /\ born' = [born EXCEPT ![n] = gen[Parent[n]]]
          /\ alive' = alive \cup {n}
          /\ UNCHANGED <<err, terminal, closing, done, pc>>
  /\ UNCHANGED <<gen, cancelled, own, closed, held, cur, next, then, mailbox, records, subtree,
                 failed, sink, calls>>

HeldAnyway(n) ==   \* mutant of Mountable
  ~ SubtreeClosing(Parent[n]) /\ n \notin closing /\ n \in alive

(* register_mount_effect *)
Mountable(n) ==
  LET p == Parent[n] IN
  /\ ~ SubtreeClosing(p) /\ n \notin closing /\ n \in alive
  /\ st[p] \notin {"Unloading", "Disposed"}
  /\ p = Root \/ (born[n] = gen[p] /\ st[p] \in {"Loading", "Active"})

Mount(n) ==
  /\ n \in mounting
  /\ Mountable(n)
  /\ mounting' = mounting \ {n}
  /\ held' = [held EXCEPT ![Parent[n]] = Append(@, n)]
  /\ rec' = [rec EXCEPT ![n] = "live"]
  /\ mailbox' = [mailbox EXCEPT ![n] = Append(@, Refresh)]
  /\ UNCHANGED <<fibers, closing, closed, kids, born, driver, alive, joins, loud, subtree,
                 results, calls>>

(* A fiber that cannot be mounted ends, unless its end is seen to already. *)
MountRefused(n) ==
  /\ n \in mounting
  /\ ~ Mountable(n)
  /\ mounting' = mounting \ {n}
  /\ IF n \notin closing /\ closed
     THEN BeginShutdown(n)
     ELSE /\ mailbox' = IF n \in closing \/ n \notin alive THEN mailbox
                        ELSE [mailbox EXCEPT ![n] = Append(@, Intent("dispose", NoTask))]
          /\ UNCHANGED <<closing, cancelled, terminal, done, subtree>>
  /\ UNCHANGED <<st, gen, err, own, closed, kids, held, born, driver, alive, records,
                 failed, sink, calls>>

-----------------------------------------------------------------------------
(* The callers *)

At(c) == work[c].at

Join(c, t) ==
  /\ cpc' = [cpc EXCEPT ![c] = "waiting"]
  /\ joined' = [joined EXCEPT ![c] = t]
  /\ UNCHANGED <<work, ret>>

Calling(c, op) ==
  c \in DOMAIN work /\ cpc[c] = "idle" /\ work[c].op = op /\ st[At(c)] # "unborn"

DisposedAnyway(n) == FALSE   \* mutant of Joins

(* The root's dispose, decided under the admission lock its shutdown takes. *)
Joins(n) == n = Root /\ closed

CallDispose(c) ==
  /\ Calling(c, "dispose")
  /\ IF Joins(At(c))
     THEN Join(c, All(Root)) /\ UNCHANGED <<terminal, cancelled, mailbox, done>>
     ELSE Join(c, EndOf(At(c), c)) /\ RegisterDispose(At(c), c)
  /\ UNCHANGED <<st, gen, err, own, tree, driver, alive, records, subtree, failed, sink>>

CallShutdown(c) ==
  /\ Calling(c, "shutdown")
  /\ Join(c, All(At(c)))
  /\ IF At(c) = Root
     THEN BeginRootShutdown /\ UNCHANGED <<closing, terminal, subtree, done>>
     ELSE BeginShutdown(At(c)) /\ UNCHANGED closed
  /\ UNCHANGED <<st, gen, err, own, kids, held, mounting, born, driver, alive, records, failed, sink>>

CallRestart(c) ==
  LET n == At(c) IN
  /\ Calling(c, "restart")
  /\ ~ Stopping(n) /\ ~ Registered(n) /\ n \in alive
  /\ cancelled' = cancelled \cup {n}
  /\ mailbox' = [mailbox EXCEPT ![n] = Append(@, Intent("restart", Again(n, c)))]
  /\ Join(c, Again(n, c))
  /\ UNCHANGED <<st, gen, err, terminal, own, tree, driver, alive, records, subtree, results>>

(* refused at the call: nothing changes but that it is over *)
CallRestartRefused(c) ==
  LET n == At(c) IN
  /\ Calling(c, "restart")
  /\ Stopping(n) \/ Registered(n) \/ n \notin alive
  /\ cpc' = [cpc EXCEPT ![c] = "returned"]
  /\ ret' = [ret EXCEPT ![c] = {IF Stopping(n) THEN "closed" ELSE "inactive"}]
  /\ UNCHANGED <<fibers, tree, drivers, records, subtree, results, work, joined>>

Return(c) ==
  /\ cpc[c] = "waiting"
  /\ joined[c] \in DOMAIN done
  /\ cpc' = [cpc EXCEPT ![c] = "returned"]
  /\ ret' = [ret EXCEPT ![c] = done[joined[c]]]
  /\ UNCHANGED <<fibers, tree, drivers, records, subtree, results, work, joined>>

-----------------------------------------------------------------------------
Init ==
  /\ st = [n \in Node |-> IF n = Root THEN "Active" ELSE "unborn"]
  /\ gen = [n \in Node |-> 0]
  /\ err = [n \in Node |-> {}]
  /\ terminal = [n \in Node |-> NoTask]
  /\ cancelled = {} /\ own = {Root}
  /\ closing = {} /\ closed = FALSE
  /\ kids = [n \in Node |-> {}]
  /\ held = [n \in Node |-> <<>>]
  /\ mounting = {} /\ born = [n \in Node |-> 0]
  /\ pc = [n \in Node |-> "recv"]
  /\ cur = [n \in Node |-> Refresh]
  /\ next = [n \in Node |-> "Pending"]
  /\ then = [n \in Node |-> "over"]
  /\ mailbox = [n \in Node |-> <<>>]
  /\ alive = {Root}
  /\ rec = [n \in Node |-> "none"]
  /\ joins = [n \in Node |-> NoTask] /\ loud = {}
  /\ begun = {}
  /\ inner = [n \in Node |-> NoTask]
  /\ awaits = [n \in Node |-> {}]
  /\ done = [t \in {} |-> {}]
  /\ failed = {} /\ sink = {}
  /\ work \in Calls
  /\ cpc = [c \in Callers |-> "idle"]
  /\ joined = [c \in Callers |-> NoTask]
  /\ ret = [c \in Callers |-> {}]

Drive(n) ==
  \/ Take(n) \/ RefreshNone(n) \/ RefreshTerminal(n) \/ Load(n)
  \/ RestartRefused(n) \/ Restart(n) \/ Revive(n) \/ Handled(n) \/ Terminate(n)
  \/ Unload(n) \/ Drain(n) \/ Publish(n) \/ Leave(n)

Detached(n) ==
  \/ Release(n) \/ Gone(n)
  \/ CleanupLook(n) \/ Cascade(n) \/ CleanupEnd(n)
  \/ Coordinate(n)
  \/ Mount(n) \/ MountRefused(n)

Call(c) == CallDispose(c) \/ CallShutdown(c) \/ CallRestart(c) \/ CallRestartRefused(c)

Next ==
  \/ \E n \in Node : Drive(n) \/ ApplyEnd(n)
  \/ RootDisposed
  \/ \E n \in Node \ {Root} : Detached(n) \/ Spawn(n)
  \/ \E c \in Callers : Call(c) \/ Return(c)

Spec == Init /\ [][Next]_vars

(* The tasks of the runtime go on.  Nobody has to mount or to call, and an  *)
(* apply is only sure to return once its generation is cancelled.           *)
Fairness ==
  /\ \A n \in Node : WF_vars(Drive(n)) /\ WF_vars(n \in cancelled /\ ApplyEnd(n))
  /\ WF_vars(RootDisposed)
  /\ \A n \in Node \ {Root} :
       /\ WF_vars(Release(n) \/ Gone(n)) /\ WF_vars(CleanupLook(n) \/ Cascade(n) \/ CleanupEnd(n))
       /\ WF_vars(Coordinate(n)) /\ WF_vars(Mount(n) \/ MountRefused(n))
  /\ \A c \in Callers : WF_vars(Return(c))

FairSpec == Spec /\ Fairness

-----------------------------------------------------------------------------
(* Properties *)

Faults == Node \cup {"closed", "inactive"}
AnyTask == {NoTask} \cup
  [what : {"end", "all", "restart"}, of : Node, by : Callers \cup {0}]

(* Every field is well typed, and a fiber lists the mount records it has    *)
(* to drain: those that are not done, each of a child of its own.           *)
TypeOK ==
  /\ st \in [Node -> {"unborn", "Pending", "Loading", "Active", "Unloading", "Disposed"}]
  /\ gen \in [Node -> Nat] /\ born \in [Node -> Nat]
  /\ err \in [Node -> SUBSET Faults]
  /\ terminal \in [Node -> AnyTask] /\ inner \in [Node -> AnyTask] /\ joins \in [Node -> AnyTask]
  /\ closed \in BOOLEAN
  /\ \A S \in {cancelled, own, closing, mounting, alive, loud, begun, failed, sink} : S \subseteq Node
  /\ kids \in [Node -> SUBSET Node] /\ awaits \in [Node -> SUBSET Node]
  /\ pc \in [Node -> {"recv", "refresh", "restart", "dispose", "shutdown", "apply", "started",
                      "over", "unload", "drain", "leave", "release", "gone"}]
  /\ \A n \in Node \ {Root} :
       /\ rec[n] \in {"none", "live", "claimed", "cascade", "joining", "done"}
       /\ (\E i \in DOMAIN held[Parent[n]] : held[Parent[n]][i] = n) <=> rec[n] \notin {"none", "done"}
  /\ DOMAIN done \subseteq AnyTask
  /\ \A t \in DOMAIN done : done[t] \subseteq Faults

(* Every field is well typed, a parent's list of mounts included, and no    *)
(* fiber runs, or has something left to clean up, under a parent that is    *)
(* over: a parent is Disposed, or Pending between two generations, only     *)
(* after all that was mounted in it has ended.  (A fiber that a restart     *)
(* loads before it is mounted is not its parent's yet.)                     *)
NothingOutlives ==
  /\ TypeOK
  /\ \A n \in own \ {Root} : rec[n] # "none" =>
       /\ st[Parent[n]] # "Disposed"
       /\ Parent[n] # Root => st[Parent[n]] # "Pending"

(* When a shutdown has returned, every fiber below it is Disposed that it   *)
(* found, also one that was being mounted when it began, and every fiber    *)
(* that is mounted; it does not wait for one that could not be mounted any  *)
(* more under a fiber that was gone before.                                 *)
ShutdownMeansGone ==
  \A n \in Node : All(n) \in DOMAIN done =>
    \A m \in Node : n \in {m} \cup Above[m] =>
      \/ st[m] \in {"unborn", "Disposed"}
      \/ /\ \E a \in Between(n, m) : rec[a] = "none"
         /\ \E a \in Between(n, m) : a \notin awaits[Parent[a]]

(* The error of a fiber's last cleanup is never lost between those who      *)
(* stopped it: a caller was told, or the error sink was.  (Of a fiber that  *)
(* never was its parent's, only the log hears.)                             *)
ErrorsHeard ==
  (\A c \in Callers : cpc[c] # "waiting") =>
    \A n \in failed :
      pc[n] \in {"gone", "recv"} /\ (\A x \in ({n} \cup Above[n]) \ {Root} : rec[x] # "none") =>
        n \in sink \/ \E c \in Callers : n \in ret[c]

(* The root's dispose and its shutdown share the one cleanup result,        *)
(* however they overlap.                                                    *)
RootStopsAgree ==
  terminal[Root] \in DOMAIN done /\ All(Root) \in DOMAIN done =>
    done[terminal[Root]] = done[All(Root)]

(* A dispose or a shutdown returns, whatever else stops a parent or a child *)
(* of it at the same time.                                                  *)
StopsReturn ==
  \A c \in Callers :
    (cpc[c] = "waiting" /\ joined[c].what # "restart") ~> cpc[c] = "returned"
=============================================================================
