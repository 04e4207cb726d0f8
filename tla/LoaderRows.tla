------------------------------ MODULE LoaderRows ------------------------------
(***************************************************************************)
(* The rows a loader runs (rutis-loader): the records it keeps of their    *)
(* fibers, the contexts their groups register, and what the kernel and the *)
(* monitors do to them outside of any operation.                           *)
(*                                                                         *)
(* A fiber has a number: the token of its spawn, which stands for its      *)
(* PluginId as well.  The loader never looks inside a fiber: what it sees  *)
(* of one (Fiber and Subtree have the rest) is whether it loads, runs,     *)
(* failed, unloads or is disposed, and in what order a group's cleanup and *)
(* its children go.                                                        *)
(*                                                                         *)
(* Left out: instances of instanced groups, the loader's own fiber (it     *)
(* runs), names that do not resolve, and configs a plugin refuses without  *)
(* running: every spawn is accepted, and a load may fail.                  *)
(***************************************************************************)
EXTENDS Integers, FiniteSets, Sequences, Functions

CONSTANTS Tree,     \* the rows, in tree order
          Parent,   \* the group of a row, or Root
          Groups,   \* the rows that are groups
          Root,     \* the loader's own context
          Configs, Injects

Rows == Range(Tree)

ASSUME TreeAssumption ==
  /\ Tree \in Seq(Rows) /\ IsInjective(Tree) /\ Root \notin Rows
  /\ Groups \subseteq Rows
  /\ Parent \in [Rows -> Groups \cup {Root}]
  /\ \A i \in DOMAIN Tree : Parent[Tree[i]] \in {Root} \cup {Tree[j] : j \in 1 .. i - 1}

(* What a layer says of a row. *)
Content == [off : BOOLEAN, config : Configs, inject : Injects]

Layers == UNION {[there -> Content] : there \in SUBSET Rows}

VARIABLES
  desired,    \* State::desired: the rows, as the last reconcile read them
  running,    \* State::running: the record of a row's fiber
  groups,     \* State::groups: the token a group's context is registered under
  fiber,      \* the fibers spawned so far
  watched,    \* those whose monitor has not seen them end
  disables,   \* those whose monitor is about to disable their row
  abandoned,  \* Inner::abandoned: transitions nobody waits for
  work        \* what may still happen: see Loader

tree == <<desired, running, groups, fiber, watched, disables, abandoned>>

RootToken == 1
NoToken == 0
NoRecord == [token |-> NoToken]

Record == [token : Nat, parent : Nat, config : Configs, inject : Injects]

FiberState == {"Loading", "Active", "Failed", "Unloading", "Draining", "Disposed"}

(* parent is the token of the context it was mounted in.  "Draining" is    *)
(* the part of an unload after a group's own cleanup ran.  A restart is    *)
(* queued by an update or a lost dependency; self marks a fiber disposed   *)
(* from outside of the loader; late one mounted in its group's context     *)
(* after the group's load.                                                 *)
FiberRecord ==
  [row : Rows, parent : Nat, st : FiberState, ending : BOOLEAN, restart : BOOLEAN,
   config : Configs, self : BOOLEAN, late : BOOLEAN]

Tokens == DOMAIN fiber

-----------------------------------------------------------------------------
(* The desired tree *)

(* The groups above a row: what every set has that holds its group, and    *)
(* the group of whatever it holds.                                         *)
Upward(S) == \A x \in S : Parent[x] \in S \cup {Root}

Above == [r \in Rows |->
  {a \in Rows : \A S \in SUBSET Rows : Upward(S) /\ Parent[r] \in S \cup {Root} => a \in S}]

(* Desired::wanted *)
Wanted(layer, r) == \A a \in {r} \cup Above[r] : a \in DOMAIN layer /\ ~ layer[a].off

IsRunning(r) == running[r] # NoRecord

(* Inner::failures: a failing copy, with its row as composed. *)
Failing ==
  {<<r, desired[r]>> : r \in {x \in DOMAIN desired :
      Wanted(desired, x) /\ IsRunning(x) /\ fiber[running[x].token].st = "Failed"}}

(* What view.await waits for. *)
Settled(f) ==
  f.st = "Disposed" \/ (f.st \in {"Active", "Failed"} /\ ~ f.ending /\ ~ f.restart)

-----------------------------------------------------------------------------
(* What the loader does to its tables, under its lock *)

(* The records below the context a group registered under a token: those   *)
(* in it, and those in the context of a group among them.                  *)
UnderOf(S, g, t) ==
  {r \in Rows : IsRunning(r) /\
     \/ Parent[r] = g /\ running[r].parent = t
     \/ Parent[r] \in S /\ running[Parent[r]].token = running[r].parent}

Under(g, t) ==
  {r \in Rows : \A S \in SUBSET Rows : UnderOf(S, g, t) \subseteq S => r \in S}

(* Drop the records of some rows, and the contexts these registered. *)
Without(rows) == [r \in Rows |-> IF r \in rows THEN NoRecord ELSE running[r]]

Unregistered(rows) ==
  [g \in Groups \cup {Root} |->
     IF g \in rows /\ groups[g] = running[g].token THEN NoToken ELSE groups[g]]

(* spawn_children: the rows to spawn in the contexts gs registers, given   *)
(* the records run.                                                        *)
Missing(run, gs) ==
  {r \in DOMAIN desired :
     run[r] = NoRecord /\ Wanted(desired, r) /\ gs[Parent[r]] # NoToken}

(* spawn_row of each, in tree order: a token, a record, a fiber, and its    *)
(* monitor.  In a context whose fiber is unloading the kernel mounts        *)
(* nothing.                                                                 *)
Spawn(new, run, gs, fs, late) ==
  LET last == RootToken + Cardinality(DOMAIN fs)
      orphan(r) == Parent[r] # Root /\ fs[gs[Parent[r]]].st \notin {"Loading", "Active"}
      mounted(r) == [row |-> r, parent |-> gs[Parent[r]],
                     st |-> IF orphan(r) THEN "Disposed" ELSE "Loading",
                     ending |-> orphan(r), restart |-> FALSE,
                     config |-> desired[r].config, self |-> FALSE, late |-> late]
  IN \E token \in [new -> last + 1 .. last + Cardinality(new)] :
     /\ \A i, j \in DOMAIN Tree :
          Tree[i] \in new /\ Tree[j] \in new /\ i < j => token[Tree[i]] < token[Tree[j]]
     /\ running' = [r \in Rows |->
          IF r \in new THEN [token |-> token[r], parent |-> gs[Parent[r]],
                             config |-> desired[r].config, inject |-> desired[r].inject]
          ELSE run[r]]
     /\ fiber' = [t \in DOMAIN fs \cup Range(token) |->
          IF t \in DOMAIN fs THEN fs[t] ELSE mounted(CHOOSE r \in new : token[r] = t)]
     /\ watched' = watched \cup Range(token)

(* Inner::attach, called by a group's apply: a fiber that is no longer the *)
(* current record of its row registers nothing.                            *)
Attach(t, fs) ==
  LET g == fs[t].row IN
  IF IsRunning(g) /\ running[g].token = t
  THEN LET gs == [groups EXCEPT ![g] = t] IN
       /\ groups' = gs
       /\ Spawn({r \in Missing(running, gs) : Parent[r] = g}, running, gs, fs, FALSE)
  ELSE fiber' = fs /\ UNCHANGED <<running, groups, watched>>

DetachAnyway(t) ==   \* mutant of Detach
  LET g == fiber[t].row IN
  /\ groups' = [groups EXCEPT ![g] = NoToken]
  /\ running' = Without({r \in Rows : IsRunning(r) /\ Parent[r] = g})

(* Inner::detach, a group's cleanup: only the fiber that registered the    *)
(* context removes it, and the records in it.                              *)
Detach(t) ==
  LET g == fiber[t].row IN
  IF groups[g] = t
  THEN LET below == Under(g, t) IN
       /\ groups' = [Unregistered(below) EXCEPT ![g] = NoToken]
       /\ running' = Without(below)
  ELSE UNCHANGED <<groups, running>>

-----------------------------------------------------------------------------
(* The fibers, as the kernel drives them *)

Becomes(t, f) ==
  /\ fiber' = [fiber EXCEPT ![t] = f]
  /\ abandoned' = abandoned \ {t}

IsGroup(t) == fiber[t].row \in Groups

(* A row whose apply returns only when it is cancelled. *)
Returns(t) == fiber[t].row \notin work.stuck \/ fiber[t].ending \/ fiber[t].restart

(* A group's apply registers its context; it does not fail.  A group that  *)
(* is disposed before its apply began ends without it.                     *)
GroupLoads(t) ==
  /\ IsGroup(t) /\ fiber[t].st = "Loading"
  /\ LET st == IF fiber[t].ending THEN "Unloading" ELSE "Active" IN
     Attach(t, [fiber EXCEPT ![t].st = st])
  /\ abandoned' = abandoned \ {t}
  /\ UNCHANGED <<desired, disables, work>>

GroupNeverLoads(t) ==
  /\ IsGroup(t) /\ fiber[t].st = "Loading" /\ fiber[t].ending
  /\ Becomes(t, [fiber[t] EXCEPT !.st = "Disposed"])
  /\ UNCHANGED <<desired, running, groups, watched, disables, work>>

(* A leaf's apply: cancelled, it unloads, or loads again for the restart.  *)
RowLoads(t) ==
  /\ ~ IsGroup(t) /\ fiber[t].st = "Loading" /\ Returns(t)
  /\ \/ /\ fiber[t].ending
        /\ Becomes(t, [fiber[t] EXCEPT !.st = "Unloading"])
        /\ UNCHANGED work
     \/ /\ ~ fiber[t].ending /\ fiber[t].restart
        /\ Becomes(t, [fiber[t] EXCEPT !.restart = FALSE])
        /\ UNCHANGED work
     \/ /\ ~ fiber[t].ending /\ ~ fiber[t].restart
        /\ \/ /\ Becomes(t, [fiber[t] EXCEPT !.st = "Active"])
              /\ UNCHANGED work
           \/ /\ work.applyFails > 0
              /\ work' = [work EXCEPT !.applyFails = @ - 1]
              /\ Becomes(t, [fiber[t] EXCEPT !.st = "Failed"])
  /\ UNCHANGED <<desired, running, groups, watched, disables>>

(* A leaf restarted by an update; a group also because of a dependency.    *)
Restarts(t) ==
  /\ fiber[t].restart /\ ~ fiber[t].ending /\ fiber[t].st \in {"Active", "Failed"}
  /\ IF IsGroup(t) THEN Becomes(t, [fiber[t] EXCEPT !.st = "Unloading"])
     ELSE Becomes(t, [fiber[t] EXCEPT !.st = "Loading", !.restart = FALSE])
  /\ UNCHANGED <<desired, running, groups, watched, disables, work>>

Ends(t) ==
  /\ fiber[t].ending /\ fiber[t].st \in {"Active", "Failed"}
  /\ Becomes(t, [fiber[t] EXCEPT !.st = "Unloading"])
  /\ UNCHANGED <<desired, running, groups, watched, disables, work>>

Children(t) == {c \in Tokens : fiber[c].parent = t}

(* An unload cleans the effects from the last one on: the children mounted *)
(* after the load, then what the load returned (detach), then the others.  *)
LateChildren(t) == {c \in Children(t) : fiber[c].late /\ fiber[c].st # "Disposed"}

EndLate(t) ==
  /\ IsGroup(t) /\ fiber[t].st = "Unloading"
  /\ \E c \in LateChildren(t) : ~ fiber[c].ending
  /\ fiber' = [c \in Tokens |->
       IF c \in LateChildren(t) THEN [fiber[c] EXCEPT !.ending = TRUE] ELSE fiber[c]]
  /\ UNCHANGED <<desired, running, groups, watched, disables, abandoned, work>>

Cleanup(t) ==
  /\ IsGroup(t) /\ fiber[t].st = "Unloading" /\ LateChildren(t) = {}
  /\ Detach(t)
  /\ fiber' = [c \in Tokens |->
       IF c = t THEN [fiber[t] EXCEPT !.st = "Draining"]
       ELSE IF c \in Children(t) THEN [fiber[c] EXCEPT !.ending = TRUE] ELSE fiber[c]]
  /\ abandoned' = abandoned \ {t}
  /\ UNCHANGED <<desired, watched, disables, work>>

Unloaded(t) ==
  /\ \/ ~ IsGroup(t) /\ fiber[t].st = "Unloading"
     \/ IsGroup(t) /\ fiber[t].st = "Draining"
        /\ \A c \in Children(t) : fiber[c].st = "Disposed"
  /\ IF fiber[t].restart /\ ~ fiber[t].ending
     THEN Becomes(t, [fiber[t] EXCEPT !.st = "Loading", !.restart = FALSE])
     ELSE Becomes(t, [fiber[t] EXCEPT !.st = "Disposed"])
  /\ UNCHANGED <<desired, running, groups, watched, disables, work>>

(* A plugin disposes itself, or the application disposes a row's fiber     *)
(* through its view.                                                       *)
DisposedOutside(t) ==
  /\ work.upsets > 0
  /\ fiber[t].st = "Active" /\ ~ fiber[t].ending
  /\ work' = [work EXCEPT !.upsets = @ - 1]
  /\ fiber' = [fiber EXCEPT ![t].ending = TRUE, ![t].self = TRUE]
  /\ UNCHANGED <<desired, running, groups, watched, disables, abandoned>>

(* A group waiting for a service (its inject) loses and regains it. *)
GroupReloads(t) ==
  /\ work.upsets > 0
  /\ IsGroup(t) /\ fiber[t].st = "Active" /\ ~ fiber[t].ending /\ ~ fiber[t].restart
  /\ work' = [work EXCEPT !.upsets = @ - 1]
  /\ fiber' = [fiber EXCEPT ![t].restart = TRUE]
  /\ UNCHANGED <<desired, running, groups, watched, disables, abandoned>>

-----------------------------------------------------------------------------
(* The monitors *)

(* Inner::cascading: a group above it is going. *)
Cascading(r) ==
  \E a \in Above[r] :
    \/ ~ IsRunning(a)
    \/ fiber[running[a].token].st \in {"Unloading", "Draining", "Disposed"}
    \/ groups[a] = NoToken

AnyRecord(t) == IsRunning(fiber[t].row)   \* mutant of StillItsRecord

StillItsRecord(t) == IsRunning(fiber[t].row) /\ running[fiber[t].row].token = t

(* watch_for_dispose: a fiber that ended while it is its row's record      *)
(* disposed itself, unless it goes with a group: its row is disabled.      *)
Monitor(t) ==
  LET r == fiber[t].row
      gone == {r} \cup Under(r, t)
  IN
  /\ t \in watched /\ fiber[t].st = "Disposed"
  /\ watched' = watched \ {t}
  /\ IF StillItsRecord(t)
     THEN /\ running' = Without(gone)
          /\ groups' = Unregistered(gone)
          /\ disables' = IF Cascading(r) THEN disables ELSE disables \cup {t}
     ELSE UNCHANGED <<running, groups, disables>>
  /\ UNCHANGED <<desired, fiber, abandoned, work>>

-----------------------------------------------------------------------------

FiberSteps(t) ==
  \/ GroupLoads(t) \/ GroupNeverLoads(t) \/ RowLoads(t) \/ Restarts(t) \/ Ends(t)
  \/ EndLate(t) \/ Cleanup(t) \/ Unloaded(t)

Upsets(t) == DisposedOutside(t) \/ GroupReloads(t)

(* Every row runs, as after the first reconcile. *)
InitRows(layer) ==
  LET token == [r \in Rows |-> RootToken + CHOOSE i \in DOMAIN Tree : Tree[i] = r]
      in(r) == IF Parent[r] = Root THEN RootToken ELSE token[Parent[r]]
  IN
  /\ desired = layer
  /\ running = [r \in Rows |-> [token |-> token[r], parent |-> in(r),
                                config |-> layer[r].config, inject |-> layer[r].inject]]
  /\ groups = [g \in Groups \cup {Root} |-> IF g = Root THEN RootToken ELSE token[g]]
  /\ fiber = [t \in Range(token) |->
       LET r == CHOOSE x \in Rows : token[x] = t IN
       [row |-> r, parent |-> in(r), st |-> "Active", ending |-> FALSE, restart |-> FALSE,
        config |-> layer[r].config, self |-> FALSE, late |-> FALSE]]
  /\ watched = Range(token)
  /\ disables = {}
  /\ abandoned = {}

RowsTypeOK ==
  /\ desired \in Layers
  /\ running \in [Rows -> Record \cup {NoRecord}]
  /\ groups \in [Groups \cup {Root} -> Nat]
  /\ \A t \in Tokens : fiber[t] \in FiberRecord
  /\ watched \subseteq Tokens /\ disables \subseteq Tokens /\ abandoned \subseteq Tokens
=============================================================================
