--------------------------- MODULE SubtreeProofs ---------------------------
(***************************************************************************)
(* Subtree, for every tree, every set of calls and whichever cleanups may  *)
(* fail: no mounted fiber outlives its parent, a shutdown that returned    *)
(* waited for its subtree, the root's stops agree, and no error of a       *)
(* mounted fiber's last cleanup is lost.                                   *)
(*                                                                         *)
(* The inductive invariant says where each driver is and with which intent *)
(* (Drivers), that the tasks and lists of a fiber are its own and a fiber  *)
(* that has records of mounts to drain is neither over nor between two     *)
(* generations (Links), and that an end, a shutdown or a record is done    *)
(* only when the driver has left (Records, RootInv).  For the errors it is *)
(* carried on by Heard, of which every step keeps what it does not touch   *)
(* (Around): who asked for each end, what each result holds, and whom it   *)
(* was told.                                                               *)
(***************************************************************************)
EXTENDS Subtree, SequenceTheorems, TLAPS

Kin == Node \ {Root}
Ends(n) == {End(n, c) : c \in Callers \cup {0}}

Known == AnyTask \ {NoTask}

(* The intents that may come to n. *)
Fit(n) ==
  {Refresh, Intent("dispose", NoTask),
   Intent("shutdown", IF n = Root THEN All(Root) ELSE End(n, 0))}
  \cup {Intent("restart", Again(n, c)) : c \in Callers}

(* The driver of n has left. *)
Over(n) == pc[n] \in {"release", "gone"}

Places == {"recv", "refresh", "restart", "dispose", "shutdown", "apply", "started",
           "over", "unload", "drain", "leave", "release", "gone"}

Types ==
  /\ st \in [Node -> {"unborn", "Pending", "Loading", "Active", "Unloading", "Disposed"}]
  /\ gen \in [Node -> Nat] /\ born \in [Node -> Nat]
  /\ err \in [Node -> SUBSET Faults]
  /\ terminal \in [Node -> AnyTask] /\ inner \in [Node -> AnyTask] /\ joins \in [Node -> AnyTask]
  /\ closed \in BOOLEAN
  /\ cancelled \subseteq Node /\ own \subseteq Node /\ closing \subseteq Node
  /\ mounting \subseteq Kin /\ alive \subseteq Node /\ loud \subseteq Node /\ begun \subseteq Kin
  /\ failed \subseteq Node /\ sink \subseteq Node
  /\ kids \in [Node -> SUBSET Kin] /\ awaits \in [Node -> SUBSET Kin]
  /\ held \in [Node -> Seq(Kin)]
  /\ pc \in [Node -> Places]
  /\ next \in [Node -> {"Pending", "Disposed"}]
  /\ then \in [Node -> {"over", "refresh", "started", "leave"}]
  /\ rec \in [Node -> {"none", "live", "claimed", "cascade", "joining", "done"}]
  /\ DOMAIN done \subseteq Known
  /\ \A t \in DOMAIN done : done[t] \subseteq Faults
  /\ work \in Calls

Intents == UNION {Fit(n) : n \in Node}

Mail ==
  /\ cur \in [Node -> Intents] /\ mailbox \in [Node -> Seq(Intents)]
  /\ \A n \in Node : cur[n] \in Fit(n) /\ mailbox[n] \in Seq(Fit(n))

(* What a driver is at goes with the intent it handles. *)
Place(n) ==
  /\ pc[n] \in {"restart", "dispose", "shutdown"} => cur[n].kind = pc[n]
  /\ pc[n] \in {"refresh", "apply", "started", "over"} => cur[n].kind \in {"refresh", "restart"}
  /\ pc[n] = "leave" => cur[n].kind \in {"dispose", "shutdown"}
  /\ pc[n] \in {"unload", "drain"} =>
       IF then[n] = "leave" THEN cur[n].kind \in {"dispose", "shutdown"} /\ next[n] = "Disposed"
       ELSE cur[n].kind \in {"refresh", "restart"}

(* A fiber whose driver leaves is Disposed and has nothing of its own; one   *)
(* that is not there yet has no driver at work and no mail.                  *)
State(n) ==
  /\ n \in own => st[n] \in {"Loading", "Active", "Unloading"}
  /\ pc[n] = "leave" \/ Over(n) => st[n] = "Disposed"
  /\ st[n] = "unborn" => /\ n # Root /\ n \notin alive /\ n \notin mounting
                         /\ pc[n] = "recv" /\ mailbox[n] = <<>>
  /\ st[n] # "unborn" /\ n \notin alive => Over(n)

Terminals(n) ==
  /\ terminal[n] \in {NoTask} \cup Ends(n)
  /\ inner[n] \in {NoTask} \cup Ends(n)

Born(n) == \A m \in kids[n] : st[m] # "unborn"

(* A fiber lists each record of a child's mount that it has to drain once,   *)
(* and has none to drain when it is over or between two generations.         *)
Mounts(n) ==
  /\ \A i \in DOMAIN held[n] : Parent[held[n][i]] = n
  /\ \A i, j \in DOMAIN held[n] : held[n][i] = held[n][j] => i = j
  /\ \A m \in Kin : Parent[m] = n =>
       ((\E i \in DOMAIN held[n] : held[n][i] = m) <=> rec[m] \notin {"none", "done"})
  /\ held[n] # <<>> => /\ st[n] \notin {"unborn", "Disposed"}
                       /\ n # Root => st[n] # "Pending"

(* A record is done, and the end and the shutdown of a fiber are, only once  *)
(* its driver left; the shutdown, once those of the children it awaits are.  *)
Record(n) ==
  /\ rec[n] # "none" => st[n] # "unborn" /\ n \notin mounting
  /\ rec[n] = "joining" => joins[n] \in Ends(n)
  /\ rec[n] = "done" => Over(n)
  /\ \A t \in Ends(n) : t \in DOMAIN done => Over(n)
  /\ All(n) \in DOMAIN done =>
       /\ pc[n] = "gone" /\ n \in begun
       /\ \A k \in awaits[n] : All(k) \in DOMAIN done

(* The root leaves only for a shutdown, and its dispose got the same result. *)
RootInv ==
  /\ st[Root] # "unborn" /\ awaits[Root] = {}
  /\ cur[Root].kind = "shutdown" => closed
  /\ \A i \in DOMAIN mailbox[Root] : mailbox[Root][i].kind = "shutdown" => closed
  /\ All(Root) \in DOMAIN done =>
       /\ closed /\ pc[Root] = "gone" /\ done[All(Root)] = err[Root]
       /\ terminal[Root] # NoTask =>
            terminal[Root] \in DOMAIN done /\ done[terminal[Root]] = err[Root]

Drivers == \A n \in Node : Place(n) /\ State(n)
Links == \A n \in Node : Terminals(n) /\ Born(n) /\ Mounts(n)
Records == \A n \in Kin : Record(n)

IInv == Types /\ Mail /\ Drivers /\ Links /\ Records /\ RootInv

-----------------------------------------------------------------------------
(* The tree *)

LEMMA AboveRoot == Above[Root] = {}
  <1>1. Upward({}) BY DEF Upward
  <1> QED BY <1>1, SubtreeAssumption DEF Above

(* What is above a fiber is its parent, and what is above that.             *)
LEMMA AboveKin ==
  ASSUME NEW n \in Kin
  PROVE  Parent[n] \in Node /\ Above[n] = {Parent[n]} \cup Above[Parent[n]]
  <1> DEFINE p == Parent[n]
  <1>1. p \in Node /\ n \in Node /\ n # Root BY SubtreeAssumption DEF Kin
  <1>2. ASSUME NEW S \in SUBSET Node, Upward(S), p \in S
        PROVE  p # Root => Parent[p] \in S
    BY <1>2 DEF Upward
  <1>3. {p} \cup Above[p] \subseteq Above[n]
    BY <1>1, <1>2 DEF Above
  <1>4. Upward({p} \cup Above[p])
    <2> SUFFICES ASSUME NEW x \in ({p} \cup Above[p]) \ {Root} PROVE Parent[x] \in Above[p]
      BY DEF Upward
    <2>1. x \in Node /\ Parent[x] \in Node BY <1>1, SubtreeAssumption DEF Above
    <2>2. ASSUME NEW S \in SUBSET Node, Upward(S), p # Root => Parent[p] \in S
          PROVE  Parent[x] \in S
      <3>1. CASE x = p BY <2>2, <3>1
      <3>2. CASE x # p
        <4>1. x \in Above[p] BY <3>2
        <4>2. x \in S BY <1>1, <2>2, <4>1 DEF Above
        <4> QED BY <2>2, <4>2 DEF Upward
      <3> QED BY <3>1, <3>2
    <2> QED BY <1>1, <2>1, <2>2 DEF Above
  <1>5. {p} \cup Above[p] \in SUBSET Node BY <1>1 DEF Above
  <1>6. Above[n] \subseteq {p} \cup Above[p]
    BY <1>1, <1>4, <1>5 DEF Above
  <1> QED BY <1>1, <1>3, <1>6

LEMMA AboveNode == ASSUME NEW n \in Node PROVE Above[n] \subseteq Node
  BY DEF Above

(* What a shutdown of n marks is n and children as their parents list them. *)
LEMMA InTree ==
  ASSUME NEW n \in Kin
  PROVE  /\ n \in In(n) /\ In(n) \subseteq Kin
         /\ \A m \in In(n) \ {n} : m \in kids[Parent[m]]
  <1>1. n \in In(n) BY DEF In, Kin
  <1>2. ASSUME NEW m \in In(n), m # n PROVE m \in Kin /\ m \in kids[Parent[m]]
    <2>1. m \in Node /\ n \in Above[m] /\ \A a \in Between(n, m) : a \in kids[Parent[a]]
      BY <1>2 DEF In
    <2> QED BY <2>1, AboveRoot DEF Between, Kin
  <1> QED BY <1>1, <1>2

(* The tasks: whose they are and what they are. *)
LEMMA CallersNumbered == Callers \subseteq Nat
  BY SubtreeAssumption DEF Callers

LEMMA TaskFacts ==
  ASSUME NEW n \in Node
  PROVE  /\ \A t \in Ends(n) : t.what = "end" /\ t.of = n /\ t \in AnyTask /\ t \in Known
         /\ All(n).what = "all" /\ All(n).of = n /\ All(n) \in Known
         /\ \A c \in Callers : /\ Again(n, c).what = "restart" /\ Again(n, c).of = n
                               /\ Again(n, c) \in Known
         /\ \A c \in Callers \cup {0} : End(n, c) \in Ends(n)
  <1>1. ASSUME NEW w \in {"end", "all", "restart"}, NEW c \in Callers \cup {0},
               NEW t, t = [what |-> w, of |-> n, by |-> c]
        PROVE  t.what = w /\ t.of = n /\ t \in AnyTask /\ t \in Known
    <2>1. c \in Nat BY CallersNumbered
    <2>2. t \in [what : {"end", "all", "restart"}, of : Node, by : Nat] BY <1>1, <2>1
    <2>3. t # NoTask BY <2>2, SubtreeAssumption
    <2> QED BY <1>1, <2>3 DEF AnyTask, Known
  <1>2. ASSUME NEW t \in Ends(n) PROVE t.what = "end" /\ t.of = n /\ t \in AnyTask /\ t \in Known
    BY <1>1, <1>2 DEF Ends, End
  <1>3. All(n).what = "all" /\ All(n).of = n /\ All(n) \in Known
    BY <1>1 DEF All
  <1>4. ASSUME NEW c \in Callers
        PROVE  /\ Again(n, c).what = "restart" /\ Again(n, c).of = n
               /\ Again(n, c) \in Known
    BY <1>1 DEF Again
  <1>5. \A c \in Callers \cup {0} : End(n, c) \in Ends(n) BY DEF Ends
  <1> QED BY <1>2, <1>3, <1>4, <1>5

(* What an intent for n completes. *)
LEMMA IntentFacts ==
  ASSUME NEW n \in Node
  PROVE  /\ Refresh \in Fit(n) /\ Refresh.kind = "refresh"
         /\ Intent("dispose", NoTask) \in Fit(n) /\ Intent("dispose", NoTask).kind = "dispose"
         /\ n # Root => Intent("shutdown", End(n, 0)) \in Fit(n)
         /\ Intent("shutdown", All(Root)) \in Fit(Root)
         /\ \A c \in Callers : /\ Intent("restart", Again(n, c)) \in Fit(n)
                               /\ Intent("restart", Again(n, c)).kind = "restart"
         /\ \A x \in Fit(n) :
              /\ x.kind \in {"refresh", "dispose", "shutdown", "restart"}
              /\ x.kind \in {"refresh", "dispose"} => x.task = NoTask
              /\ x.kind = "shutdown" => x.task = IF n = Root THEN All(Root) ELSE End(n, 0)
              /\ x.kind = "restart" => \E c \in Callers : x.task = Again(n, c)
         /\ Fit(n) \subseteq Intents
  BY DEF Fit, Refresh, Intent, Intents

LEMMA CompleteFacts ==
  ASSUME NEW r, Complete(r), Types, DOMAIN r \subseteq Known,
         \A t \in DOMAIN r : r[t] \subseteq Faults
  PROVE  /\ DOMAIN done' = DOMAIN done \cup DOMAIN r /\ DOMAIN done' \subseteq Known
         /\ \A t \in DOMAIN done' :
              done'[t] \subseteq Faults /\ done'[t] = IF t \in DOMAIN r THEN r[t] ELSE done[t]
  BY DEF Complete, Types

-----------------------------------------------------------------------------
(* The initial states *)

LEMMA Initially == Init => IInv
  <1> SUFFICES ASSUME Init PROVE IInv OBVIOUS
  <1> USE SubtreeAssumption DEF Init
  <1>1. Types
    <2>1. held \in [Node -> Seq(Kin)] /\ pc \in [Node -> Places] BY DEF Places
    <2>2. terminal \in [Node -> AnyTask] /\ inner \in [Node -> AnyTask] /\ joins \in [Node -> AnyTask]
      BY DEF AnyTask
    <2>3. DOMAIN done = {} OBVIOUS
    <2> QED BY <2>1, <2>2, <2>3 DEF Types, Kin
  <1>2. Mail
    <2>1. \A n \in Node : Refresh \in Fit(n) /\ Refresh \in Intents BY IntentFacts
    <2> QED BY <2>1 DEF Mail
  <1>3. Drivers BY DEF Drivers, Place, State, Over, Refresh, Intent
  <1>4. Links BY DEF Links, Terminals, Born, Mounts, Kin
  <1>5. Records BY DEF Records, Record, Kin
  <1>6. RootInv BY DEF RootInv, Refresh, Intent
  <1> QED BY <1>1, <1>2, <1>3, <1>4, <1>5, <1>6 DEF IInv

-----------------------------------------------------------------------------
(* What actions share *)

(* What is left of the invariant about the root when no task completes. *)
LEMMA RootFrame ==
  ASSUME RootInv, UNCHANGED <<closed, done, terminal, awaits>>,
         pc[Root] = "gone" => pc'[Root] = "gone" /\ err'[Root] = err[Root],
         st'[Root] # "unborn", cur'[Root].kind = "shutdown" => closed,
         \A i \in DOMAIN mailbox'[Root] : mailbox'[Root][i].kind = "shutdown" => closed
  PROVE  RootInv'
  BY DEF RootInv

(* A driver that handles a refresh or a restart completes restarts only. *)
LEMMA HandlersTask ==
  ASSUME IInv, NEW n \in Node
  PROVE  /\ pc[n] \in {"restart", "over", "started"} =>
              \A t \in Tasks({cur[n].task}) : t \in Known /\ t.what = "restart"
         /\ pc[n] = "restart" => cur[n].task \in Known /\ cur[n].task.what = "restart"
  <1>1. cur[n] \in Fit(n) BY DEF IInv, Mail
  <1>2. Place(n) BY DEF IInv, Drivers
  <1> QED BY <1>1, <1>2, IntentFacts, TaskFacts DEF Place, Tasks

(* Completed restarts change nothing that is known of ends and shutdowns. *)
LEMMA RestartsOnly ==
  ASSUME NEW r, Complete(r), Types,
         \A t \in DOMAIN r : t \in Known /\ t.what = "restart" /\ r[t] \subseteq Faults
  PROVE  /\ DOMAIN done' \subseteq Known /\ \A t \in DOMAIN done' : done'[t] \subseteq Faults
         /\ \A n \in Node : \A t \in Ends(n) \cup {All(n)} :
              /\ t \in DOMAIN done' <=> t \in DOMAIN done
              /\ t \in DOMAIN done => done'[t] = done[t]
  <1>1. DOMAIN r \subseteq Known OBVIOUS
  <1>2. ASSUME NEW n \in Node, NEW t \in Ends(n) \cup {All(n)} PROVE t \notin DOMAIN r
    <2>1. t.what # "restart" BY TaskFacts
    <2> QED BY <2>1
  <1> QED BY <1>1, <1>2, CompleteFacts

(* Mail that is sent fits, and goes to drivers that are there. *)
Sends ==
  /\ mailbox' = [m \in Node |-> mailbox'[m]]
  /\ \A m \in Node :
       \/ mailbox'[m] = mailbox[m]
       \/ /\ m \in alive \cup {Root}
          /\ \E x \in Fit(m) : /\ mailbox'[m] = Append(mailbox[m], x)
                               /\ m = Root /\ x.kind = "shutdown" => closed'

LEMMA SendsKeep ==
  ASSUME IInv, Sends, cur' = cur, closed => closed'
  PROVE  /\ Mail'
         /\ \A m \in Node \ (alive \cup {Root}) : mailbox'[m] = mailbox[m]
         /\ \A i \in DOMAIN mailbox'[Root] : mailbox'[Root][i].kind = "shutdown" => closed'
  <1> USE DEF IInv, Mail
  <1>1. ASSUME NEW m \in Node PROVE mailbox'[m] \in Seq(Fit(m)) /\ mailbox'[m] \in Seq(Intents)
    <2>1. CASE mailbox'[m] = mailbox[m] BY <2>1
    <2>2. CASE mailbox'[m] # mailbox[m]
      <3>1. PICK x \in Fit(m) : mailbox'[m] = Append(mailbox[m], x) BY <2>2 DEF Sends
      <3>2. x \in Intents BY <3>1 DEF Intents
      <3> QED BY <3>1, <3>2
    <2> QED BY <2>1, <2>2
  <1>2. mailbox' \in [Node -> Seq(Intents)] BY <1>1 DEF Sends
  <1>3. ASSUME NEW i \in DOMAIN mailbox'[Root], mailbox'[Root][i].kind = "shutdown" PROVE closed'
    <2>1. Root \in Node BY SubtreeAssumption
    <2>2. CASE mailbox'[Root] = mailbox[Root] BY <1>3, <2>2 DEF RootInv
    <2>3. CASE mailbox'[Root] # mailbox[Root]
      <3>1. PICK x \in Fit(Root) : /\ mailbox'[Root] = Append(mailbox[Root], x)
                                   /\ x.kind = "shutdown" => closed'
        BY <2>1, <2>3 DEF Sends
      <3>2. mailbox[Root] \in Seq(Fit(Root)) BY <2>1
      <3>3. \/ i \in DOMAIN mailbox[Root] /\ mailbox'[Root][i] = mailbox[Root][i]
            \/ mailbox'[Root][i] = x
        BY <1>3, <3>1, <3>2
      <3> QED BY <1>3, <3>1, <3>3 DEF RootInv
    <2> QED BY <2>2, <2>3
  <1> QED BY <1>1, <1>2, <1>3 DEF Sends

(* No task is undone, and of the ends and shutdowns only those in S are. *)
Finishes(S) ==
  /\ DOMAIN done' \subseteq Known /\ \A t \in DOMAIN done' : done'[t] \subseteq Faults
  /\ DOMAIN done \subseteq DOMAIN done'
  /\ \A m \in Node : \A t \in (Ends(m) \cup {All(m)}) \ S :
       /\ t \in DOMAIN done' <=> t \in DOMAIN done
       /\ t \in DOMAIN done => done'[t] = done[t]

(* What register_dispose changes. *)
LEMMA Registers ==
  ASSUME IInv, NEW n \in Node, NEW c \in Callers \cup {0}, RegisterDispose(n, c),
         closed' = closed
  PROVE  /\ EndOf(n, c) \in Ends(n)
         /\ terminal' \in [Node -> AnyTask]
         /\ \A m \in Node : terminal'[m] = IF m = n THEN EndOf(n, c) ELSE terminal[m]
         /\ cancelled' \subseteq Node
         /\ Sends
         /\ Finishes(IF n \in alive THEN {} ELSE Ends(n))
  <1> USE DEF IInv, RegisterDispose
  <1>1. EndOf(n, c) \in Ends(n) /\ EndOf(n, c) \in AnyTask
    BY TaskFacts DEF EndOf, Links, Terminals
  <1>2. Sends
    <2>1. mailbox' = [mailbox EXCEPT ![n] = Append(@, Intent("dispose", NoTask))] \/ mailbox' = mailbox
      OBVIOUS
    <2>2. mailbox' # mailbox => n \in alive OBVIOUS
    <2>3. Intent("dispose", NoTask) \in Fit(n) /\ Intent("dispose", NoTask).kind # "shutdown"
      BY IntentFacts
    <2> QED BY <2>1, <2>2, <2>3 DEF Sends, Mail
  <1>3. Finishes(IF n \in alive THEN {} ELSE Ends(n))
    <2>1. CASE terminal[n] = NoTask /\ n \notin alive
      <3> DEFINE r == [t \in {End(n, c)} |-> Stopped(n)]
      <3>1. Complete(r) BY <2>1
      <3>2. Stopped(n) \subseteq Faults BY DEF Stopped, Faults, Types
      <3>3. DOMAIN r \subseteq Known /\ (\A t \in DOMAIN r : r[t] \subseteq Faults)
            /\ DOMAIN r \subseteq Ends(n)
        BY <3>2, TaskFacts
      <3> HIDE DEF r
      <3> QED BY <2>1, <3>1, <3>3, CompleteFacts DEF Finishes
    <2>2. CASE ~ (terminal[n] = NoTask /\ n \notin alive)
      BY <2>2 DEF Finishes, Types
    <2> QED BY <2>1, <2>2
  <1>4. terminal' \in [Node -> AnyTask] /\ cancelled' \subseteq Node
    BY <1>1 DEF Types
  <1>5. \A m \in Node : terminal'[m] = IF m = n THEN EndOf(n, c) ELSE terminal[m]
    BY DEF Types
  <1> QED BY <1>1, <1>2, <1>3, <1>4, <1>5

(* What the shutdown of a subtree changes as it begins. *)
LEMMA Begins ==
  ASSUME IInv, NEW n \in Kin, st[n] # "unborn", BeginShutdown(n), closed' = closed
  PROVE  /\ closing' \subseteq Node /\ cancelled' \subseteq Node
         /\ begun' \subseteq Kin /\ begun \subseteq begun'
         /\ awaits' \in [Node -> SUBSET Kin] /\ awaits'[Root] = awaits[Root]
         /\ \A m \in begun : awaits'[m] = awaits[m]
         /\ terminal' \in [Node -> AnyTask] /\ inner' \in [Node -> AnyTask]
         /\ \A m \in Node : /\ terminal'[m] \in {NoTask} \cup Ends(m)
                            /\ inner'[m] \in {NoTask} \cup Ends(m)
         /\ terminal'[Root] = terminal[Root]
         /\ Sends
         /\ Finishes(UNION {Ends(m) : m \in {m \in Kin : Over(m)}})
  <1> DEFINE new == In(n) \ begun
             ends == {m \in new : terminal[m] = NoTask}
             r == [t \in {End(m, 0) : m \in ends \ alive} |-> Stopped(t.of)]
  <1> USE DEF IInv
  <1>0. Root \in Node /\ Root \notin new /\ ends \subseteq Kin /\ new \subseteq Kin /\ In(n) \subseteq Kin
        /\ Kin \subseteq Node
    BY InTree, SubtreeAssumption DEF Kin
  <1>1. /\ closing' = closing \cup In(n) /\ cancelled' = cancelled \cup In(n) /\ begun' = begun \cup new
        /\ awaits' = [m \in Node |-> IF m \in new THEN kids[m] ELSE awaits[m]]
        /\ terminal' = [m \in Node |-> IF m \in ends THEN End(m, 0) ELSE terminal[m]]
        /\ inner' = [m \in Node |-> IF m \in new THEN terminal'[m] ELSE inner[m]]
        /\ mailbox' = [m \in Node |-> IF m \in ends \cap alive
                                      THEN Append(mailbox[m], Intent("shutdown", End(m, 0)))
                                      ELSE mailbox[m]]
        /\ Complete(r)
    BY DEF BeginShutdown
  <1> HIDE DEF new
  <1>2. \A m \in Node : /\ End(m, 0) \in Ends(m) /\ End(m, 0) \in AnyTask
                        /\ End(m, 0) \in Known
    BY TaskFacts
  <1>3. \A m \in In(n) : st[m] # "unborn"
    <2>1. ASSUME NEW m \in In(n), m # n PROVE st[m] # "unborn"
      <3>1. m \in Kin /\ m \in kids[Parent[m]] BY <2>1, InTree
      <3>2. Parent[m] \in Node BY <3>1, AboveKin
      <3> QED BY <3>1, <3>2 DEF Links, Born
    <2> QED BY <2>1
  <1>4. \A m \in ends \ alive : m \in Kin /\ Over(m)
    BY <1>0, <1>3 DEF Drivers, State, new
  <1>5. Sends
    <2>1. ASSUME NEW m \in ends \cap alive
          PROVE  Intent("shutdown", End(m, 0)) \in Fit(m) /\ m # Root
      BY <1>0, IntentFacts DEF Kin
    <2> QED BY <1>1, <2>1 DEF Sends
  <1>6. Finishes(UNION {Ends(m) : m \in {m \in Kin : Over(m)}})
    <2>1. ASSUME NEW m \in ends \ alive PROVE End(m, 0).of = m /\ Stopped(m) \subseteq Faults
      BY <1>0, <1>2, TaskFacts DEF Stopped, Faults, Types
    <2>2. DOMAIN r = {End(m, 0) : m \in ends \ alive} OBVIOUS
    <2>3. \A t \in DOMAIN r : r[t] \subseteq Faults BY <2>1, <2>2
    <2>4. DOMAIN r \subseteq Known BY <1>0, <1>2, <2>2
    <2>5. DOMAIN r \subseteq UNION {Ends(m) : m \in {m \in Kin : Over(m)}} BY <1>0, <1>2, <1>4, <2>2
    <2> HIDE DEF r
    <2>6. /\ DOMAIN done' = DOMAIN done \cup DOMAIN r /\ DOMAIN done' \subseteq Known
          /\ \A t \in DOMAIN done' :
               done'[t] \subseteq Faults /\ done'[t] = IF t \in DOMAIN r THEN r[t] ELSE done[t]
      BY <1>1, <2>3, <2>4, CompleteFacts
    <2> QED BY <2>5, <2>6 DEF Finishes
  <1>7. /\ terminal' \in [Node -> AnyTask] /\ inner' \in [Node -> AnyTask]
        /\ \A m \in Node : /\ terminal'[m] \in {NoTask} \cup Ends(m)
                           /\ inner'[m] \in {NoTask} \cup Ends(m)
        /\ terminal'[Root] = terminal[Root]
    <2>1. \A m \in Node : /\ terminal[m] \in {NoTask} \cup Ends(m) /\ terminal[m] \in AnyTask
                          /\ inner[m] \in {NoTask} \cup Ends(m) /\ inner[m] \in AnyTask
      BY DEF Links, Terminals, Types
    <2> QED BY <1>0, <1>1, <1>2, <2>1
  <1>8. /\ awaits' \in [Node -> SUBSET Kin] /\ awaits'[Root] = awaits[Root]
        /\ \A m \in begun : awaits'[m] = awaits[m]
    BY <1>0, <1>1 DEF Types, new
  <1>9. closing' \subseteq Node /\ cancelled' \subseteq Node /\ begun' \subseteq Kin /\ begun \subseteq begun'
    BY <1>0, <1>1 DEF Types
  <1> QED BY <1>5, <1>6, <1>7, <1>8, <1>9

(* A list without the element at one place. *)
Off(s, at) == SubSeq(s, 1, at - 1) \o SubSeq(s, at + 1, Len(s))

LEMMA RemovedAt ==
  ASSUME NEW S, NEW s \in Seq(S), NEW at \in 1 .. Len(s)
  PROVE  /\ Off(s, at) \in Seq(S) /\ Len(Off(s, at)) = Len(s) - 1
         /\ \A i \in 1 .. Len(s) - 1 : Off(s, at)[i] = IF i < at THEN s[i] ELSE s[i + 1]
  <1> DEFINE a == SubSeq(s, 1, at - 1)
             b == SubSeq(s, at + 1, Len(s))
             u == Off(s, at)
  <1>1. Len(s) \in Nat /\ \A i \in 1 .. Len(s) : s[i] \in S BY LenProperties
  <1>2. a \in Seq(S) /\ Len(a) = at - 1 /\ \A i \in 1 .. at - 1 : a[i] = s[i]
    <2>1. \A i \in 1 .. at - 1 : s[i] \in S BY <1>1
    <2>2. /\ Len(a) = IF 1 <= at - 1 THEN at - 1 - 1 + 1 ELSE 0
          /\ a \in Seq(S)
          /\ \A i \in 1 .. at - 1 - 1 + 1 : a[i] = s[1 + i - 1]
      BY <1>1, <2>1, SubSeqProperties
    <2> QED BY <1>1, <2>2
  <1>3. b \in Seq(S) /\ Len(b) = Len(s) - at /\ \A i \in 1 .. Len(s) - at : b[i] = s[at + i]
    <2>1. \A i \in at + 1 .. Len(s) : s[i] \in S BY <1>1
    <2>2. /\ Len(b) = IF at + 1 <= Len(s) THEN Len(s) - (at + 1) + 1 ELSE 0
          /\ b \in Seq(S)
          /\ \A i \in 1 .. Len(s) - (at + 1) + 1 : b[i] = s[at + 1 + i - 1]
      BY <1>1, <2>1, SubSeqProperties
    <2> QED BY <1>1, <2>2
  <1>0. u = a \o b BY DEF Off
  <1> HIDE DEF a, b, u
  <1>4. /\ u \in Seq(S) /\ Len(u) = Len(a) + Len(b)
        /\ \A i \in 1 .. Len(a) + Len(b) : u[i] = IF i <= Len(a) THEN a[i] ELSE b[i - Len(a)]
    <2>1. /\ a \o b \in Seq(S) /\ Len(a \o b) = Len(a) + Len(b)
          /\ \A i \in 1 .. Len(a) + Len(b) :
               (a \o b)[i] = IF i <= Len(a) THEN a[i] ELSE b[i - Len(a)]
      BY <1>2, <1>3, ConcatProperties
    <2> QED BY <1>0, <2>1
  <1>5. ASSUME NEW i \in 1 .. Len(s) - 1 PROVE u[i] = IF i < at THEN s[i] ELSE s[i + 1]
    <2>1. CASE i < at
      <3>1. i \in 1 .. at - 1 /\ i \in 1 .. Len(a) + Len(b) /\ i <= Len(a)
        BY <1>1, <1>2, <1>3, <2>1
      <3> QED BY <1>2, <1>4, <2>1, <3>1
    <2>2. CASE ~ i < at
      <3>1. i - Len(a) \in 1 .. Len(s) - at /\ at + (i - Len(a)) = i + 1
        BY <1>1, <1>2, <1>3, <2>2
      <3>2. i \in 1 .. Len(a) + Len(b) /\ ~ i <= Len(a) BY <1>1, <1>2, <1>3, <2>2
      <3> QED BY <1>3, <1>4, <2>2, <3>1, <3>2
    <2> QED BY <2>1, <2>2
  <1>6. u \in Seq(S) /\ Len(u) = Len(s) - 1 BY <1>1, <1>2, <1>3, <1>4
  <1> QED BY <1>5, <1>6 DEF u

(* The shutdown of a subtree, begun by a call or by a mount that came late. *)
LEMMA BeginKeeps ==
  ASSUME IInv, NEW n \in Kin, st[n] # "unborn", BeginShutdown(n),
         mounting' \subseteq mounting,
         UNCHANGED <<st, gen, err, own, closed, kids, held, born, driver, alive, records, failed, sink, work>>
  PROVE  IInv'
  <1> USE DEF IInv, driver, records
  <1>0. Root \in Node /\ Kin \subseteq Node BY SubtreeAssumption DEF Kin
  <1>2. /\ closing' \subseteq Node /\ cancelled' \subseteq Node
        /\ begun' \subseteq Kin /\ begun \subseteq begun'
        /\ awaits' \in [Node -> SUBSET Kin] /\ awaits'[Root] = awaits[Root]
        /\ \A m \in begun : awaits'[m] = awaits[m]
        /\ terminal' \in [Node -> AnyTask] /\ inner' \in [Node -> AnyTask]
        /\ \A m \in Node : /\ terminal'[m] \in {NoTask} \cup Ends(m)
                           /\ inner'[m] \in {NoTask} \cup Ends(m)
        /\ terminal'[Root] = terminal[Root]
        /\ Sends
        /\ Finishes(UNION {Ends(m) : m \in {m \in Kin : Over(m)}})
    BY Begins
  <1>3. /\ Mail' /\ \A m \in Node \ (alive \cup {Root}) : mailbox'[m] = mailbox[m]
        /\ \A i \in DOMAIN mailbox'[Root] : mailbox'[Root][i].kind = "shutdown" => closed'
    BY <1>2, SendsKeep
  <1>4. Types' BY <1>2 DEF Types, Finishes
  <1>5. Drivers' BY <1>3 DEF Drivers, Place, State, Over
  <1>6. Links'
    <2>1. ASSUME NEW m \in Node PROVE Terminals(m)' /\ Born(m)' BY <1>2 DEF Links, Terminals, Born
    <2>2. ASSUME NEW m \in Node PROVE Mounts(m)' BY DEF Links, Mounts
    <2> QED BY <2>1, <2>2 DEF Links
  <1>7. Records'
    <2> SUFFICES ASSUME NEW m \in Kin PROVE Record(m)' BY DEF Records
    <2> DEFINE S == UNION {Ends(k) : k \in {k \in Kin : Over(k)}}
    <2>1. All(m) \notin S BY <1>0, TaskFacts
    <2>2. \A t \in Ends(m) : t \in S => Over(m) BY <1>0, TaskFacts
    <2> HIDE DEF S
    <2>3. Finishes(S) BY <1>2 DEF S
    <2>4. All(m) \in DOMAIN done' <=> All(m) \in DOMAIN done BY <1>0, <2>1, <2>3 DEF Finishes
    <2>5. \A t \in Ends(m) : t \in DOMAIN done' => t \in DOMAIN done \/ Over(m)
      BY <1>0, <2>2, <2>3 DEF Finishes
    <2>6. DOMAIN done \subseteq DOMAIN done' BY <2>3 DEF Finishes
    <2> QED BY <1>2, <2>4, <2>5, <2>6 DEF Records, Record, Over
  <1>8. RootInv'
    <2> DEFINE S == UNION {Ends(k) : k \in {k \in Kin : Over(k)}}
    <2>1. \A t \in Ends(Root) \cup {All(Root)} : t \notin S
      BY <1>0, TaskFacts DEF Kin
    <2> HIDE DEF S
    <2>2. Finishes(S) BY <1>2 DEF S
    <2>3. \A t \in Ends(Root) \cup {All(Root)} :
            (t \in DOMAIN done' <=> t \in DOMAIN done) /\ (t \in DOMAIN done => done'[t] = done[t])
      BY <1>0, <2>1, <2>2 DEF Finishes
    <2>4. Terminals(Root) BY <1>0 DEF Links
    <2> QED BY <1>2, <1>3, <2>3, <2>4 DEF RootInv, Terminals
  <1> QED BY <1>3, <1>4, <1>5, <1>6, <1>7, <1>8

(* Mail that changes nothing else of what the invariant is about. *)
LEMMA MailKeeps ==
  ASSUME IInv, Sends, mounting' \subseteq mounting, cancelled' \subseteq Node,
         closed' \in BOOLEAN, closed => closed',
         UNCHANGED <<st, gen, err, terminal, own, closing, kids, held, born, driver, alive, records,
                     subtree, results, work>>
  PROVE  IInv'
  <1> USE DEF IInv, driver, records, subtree, results
  <1>1. /\ Mail' /\ \A m \in Node \ (alive \cup {Root}) : mailbox'[m] = mailbox[m]
        /\ \A i \in DOMAIN mailbox'[Root] : mailbox'[Root][i].kind = "shutdown" => closed'
    BY SendsKeep
  <1>2. Types' BY DEF Types
  <1>3. Drivers' BY <1>1 DEF Drivers, Place, State, Over
  <1>4. Links' BY DEF Links, Terminals, Born, Mounts
  <1>5. Records' BY DEF Records, Record, Over
  <1>6. RootInv' BY <1>1 DEF RootInv
  <1> QED BY <1>1, <1>2, <1>3, <1>4, <1>5, <1>6

(* A call is made at a fiber that is there. *)
LEMMA CalledAt ==
  ASSUME IInv, NEW c \in Callers, NEW op, Calling(c, op)
  PROVE  At(c) \in Node /\ st[At(c)] # "unborn"
  <1>1. work \in Seq([op : Ops, at : Node]) /\ c \in DOMAIN work
    BY SubtreeAssumption DEF IInv, Types, Calling
  <1>2. work[c] \in [op : Ops, at : Node]
    <2> DEFINE S == [op : Ops, at : Node]
    <2> HIDE DEF S
    <2>1. work \in Seq(S) /\ c \in DOMAIN work BY <1>1 DEF S
    <2>2. work[c] \in S BY <2>1
    <2> QED BY <2>2 DEF S
  <1> QED BY <1>2 DEF Calling, At

LEMMA StutterKeeps ==
  ASSUME IInv, UNCHANGED <<fibers, tree, drivers, records, subtree, results, work>>
  PROVE  IInv'
  <1> USE DEF IInv, fibers, tree, driver, drivers, records, subtree, results
  <1>1. Types' /\ Mail' BY DEF Types, Mail
  <1>2. Drivers' BY DEF Drivers, Place, State, Over
  <1>3. Links' BY DEF Links, Terminals, Born, Mounts
  <1>4. Records' /\ RootInv' BY DEF Records, Record, Over, RootInv
  <1> QED BY <1>1, <1>2, <1>3, <1>4

-----------------------------------------------------------------------------
(* The driver: each of its steps keeps the invariant. *)

LEMMA TakeKeeps == ASSUME IInv, NEW n \in Node, Take(n) PROVE IInv'
  <1> USE DEF IInv, Take, fibers, tree, driver, drivers, records, subtree, results, calls
  <1>0. /\ cur'[n] \in Fit(n) /\ pc'[n] = cur'[n].kind /\ Head(mailbox[n]) = cur'[n]
        /\ \A i \in DOMAIN Tail(mailbox[n]) : Tail(mailbox[n])[i] = mailbox[n][i + 1]
                                               /\ i + 1 \in DOMAIN mailbox[n]
    BY DEF Mail, Types
  <1>1. Types'
    <2>1. pc'[n] \in Places BY <1>0, IntentFacts DEF Places
    <2> QED BY <2>1 DEF Types
  <1>2. Mail' BY DEF Mail
  <1>3. Drivers'
    <2>1. pc'[n] \in {"refresh", "dispose", "shutdown", "restart"} BY <1>0, IntentFacts
    <2>2. Place(n)' BY <1>0, <2>1 DEF Place
    <2>3. State(n)' BY <2>1 DEF Drivers, State, Over, Types
    <2> QED BY <2>2, <2>3 DEF Drivers, Place, State, Over, Types
  <1>4. Links' BY DEF Links, Terminals, Born, Mounts, Types
  <1>5. Records' BY DEF Records, Record, Over, Kin, Types
  <1>6. RootInv'
    <2>1. UNCHANGED <<closed, done, terminal, awaits>> OBVIOUS
    <2>2. /\ pc[Root] = "gone" => pc'[Root] = "gone" /\ err'[Root] = err[Root]
          /\ st'[Root] # "unborn" /\ (cur'[Root].kind = "shutdown" => closed)
          /\ \A i \in DOMAIN mailbox'[Root] : mailbox'[Root][i].kind = "shutdown" => closed
      
      <3>1. CASE n # Root BY <3>1, SubtreeAssumption DEF RootInv, Types, Mail
      <3>2. CASE n = Root
        <4>1. 1 \in DOMAIN mailbox[Root] /\ cur'[Root] = mailbox[Root][1]
          BY <3>2 DEF Mail, Types
        <4>2. mailbox'[Root] = Tail(mailbox[Root]) BY <3>2 DEF Mail
        <4> QED BY <1>0, <3>2, <4>1, <4>2 DEF RootInv
      <3> QED BY <3>1, <3>2
    <2> QED BY <2>1, <2>2, RootFrame
  <1> QED BY <1>1, <1>2, <1>3, <1>4, <1>5, <1>6

LEMMA RefreshNoneKeeps == ASSUME IInv, NEW n \in Node, RefreshNone(n) PROVE IInv'
  <1> USE DEF IInv, RefreshNone, Goto, fibers, tree, driver, drivers, records, subtree, results, calls
  <1>1. Types' BY DEF Types, Places
  <1>2. Mail' BY DEF Mail
  <1>3. Drivers' BY DEF Drivers, Place, State, Over, Types
  <1>4. Links' BY DEF Links, Terminals, Born, Mounts, Types
  <1>5. Records' BY DEF Records, Record, Over, Kin, Types
  <1>6. RootInv' BY DEF RootInv, Types
  <1> QED BY <1>1, <1>2, <1>3, <1>4, <1>5, <1>6

LEMMA RefreshTerminalKeeps == ASSUME IInv, NEW n \in Node, RefreshTerminal(n) PROVE IInv'
  <1> USE DEF IInv, RefreshTerminal, UnloadTo, fibers, tree, driver, drivers, records, subtree, results, calls
  <1>1. Types' BY DEF Types, Places
  <1>2. Mail' BY DEF Mail
  <1>3. Drivers' BY DEF Drivers, Place, State, Over, Types
  <1>4. Links' BY DEF Links, Terminals, Born, Mounts, Types
  <1>5. Records' BY DEF Records, Record, Over, Kin, Types
  <1>6. RootInv' BY DEF RootInv, Types
  <1> QED BY <1>1, <1>2, <1>3, <1>4, <1>5, <1>6

LEMMA LoadKeeps == ASSUME IInv, NEW n \in Node, Load(n) PROVE IInv'
  <1> USE DEF IInv, Load, Goto, fibers, tree, driver, drivers, records, subtree, results, calls
  <1>1. Types' BY DEF Types, Places
  <1>2. Mail' BY DEF Mail
  <1>3. Drivers' BY DEF Drivers, Place, State, Over, Types
  <1>4. Links' BY DEF Links, Terminals, Born, Mounts, Types
  <1>5. Records' BY DEF Records, Record, Over, Kin, Types
  <1>6. RootInv' BY DEF RootInv, Types
  <1> QED BY <1>1, <1>2, <1>3, <1>4, <1>5, <1>6

LEMMA ApplyEndKeeps == ASSUME IInv, NEW n \in Node, ApplyEnd(n) PROVE IInv'
  <1> USE DEF IInv, ApplyEnd, UnloadTo, Goto, fibers, tree, driver, drivers, records, subtree, results, calls
  <1>1. Types' BY DEF Types, Places
  <1>2. Mail' BY DEF Mail
  <1>0. /\ pc[n] = "apply" /\ cur'[n] = cur[n] /\ pc'[n] \in {"unload", "started"}
        /\ pc'[n] = "unload" => then'[n] = "started"
        /\ st'[n] \in {st[n], "Active"} /\ (n \in own => st[n] # "unborn")
        /\ \A m \in Node \ {n} : /\ st'[m] = st[m] /\ pc'[m] = pc[m] /\ cur'[m] = cur[m]
                                 /\ next'[m] = next[m] /\ then'[m] = then[m]
    <2>1. CASE n \in closing BY <2>1 DEF Types, Drivers, State
    <2>2. CASE n \notin closing BY <2>2 DEF Types, Drivers, State
    <2> QED BY <2>1, <2>2
  <1>3. Drivers'
    <2>1. Place(n)' BY <1>0 DEF Drivers, Place
    <2>2. State(n)'  BY <1>0 DEF Drivers, State, Over
    <2>3. ASSUME NEW m \in Node \ {n} PROVE Place(m)' /\ State(m)'
      BY <1>0 DEF Drivers, Place, State, Over
    <2> QED BY <2>1, <2>2, <2>3 DEF Drivers
  <1>4. Links'
    <2>1. \A m \in Node : st'[m] = st[m] \/ st'[m] = "Active" BY <1>0
    <2>2. ASSUME NEW m \in Node PROVE Terminals(m)' /\ Born(m)' BY <2>1 DEF Links, Terminals, Born, Types, Kin
    <2>3. ASSUME NEW m \in Node PROVE Mounts(m)' BY <2>1 DEF Links, Mounts
    <2> QED BY <2>2, <2>3 DEF Links
  <1>5. Records' BY DEF Records, Record, Over, Kin, Types
  <1>6. RootInv'
    <2>1. UNCHANGED <<closed, done, terminal, awaits>> OBVIOUS
    <2>2. /\ pc[Root] = "gone" => pc'[Root] = "gone" /\ err'[Root] = err[Root]
          /\ st'[Root] # "unborn" /\ (cur'[Root].kind = "shutdown" => closed)
          /\ \A i \in DOMAIN mailbox'[Root] : mailbox'[Root][i].kind = "shutdown" => closed
      BY SubtreeAssumption DEF RootInv, Types
    <2> QED BY <2>1, <2>2, RootFrame
  <1> QED BY <1>1, <1>2, <1>3, <1>4, <1>5, <1>6

LEMMA RestartRefusedKeeps == ASSUME IInv, NEW n \in Node, RestartRefused(n) PROVE IInv'
  <1>0. /\ DOMAIN done' \subseteq Known /\ \A t \in DOMAIN done' : done'[t] \subseteq Faults
        /\ \A m \in Node : \A t \in Ends(m) \cup {All(m)} :
             /\ t \in DOMAIN done' <=> t \in DOMAIN done
             /\ t \in DOMAIN done => done'[t] = done[t]
    <2> DEFINE r == [t \in {cur[n].task} |-> {"closed"}]
    <2>1. \A t \in DOMAIN r : t \in Known /\ t.what = "restart" /\ r[t] \subseteq Faults
      BY HandlersTask DEF Faults, RestartRefused
    <2>2. Complete(r) BY DEF RestartRefused, Goto
    <2> QED BY <2>1, <2>2, RestartsOnly DEF IInv
  <1> USE DEF IInv, RestartRefused, Goto, fibers, tree, driver, drivers, records, subtree, results, calls
  <1>1. Types' BY <1>0 DEF Types, Places
  <1>2. Mail' BY DEF Mail
  <1>3. Drivers' BY DEF Drivers, Place, State, Over, Types
  <1>4. Links' BY DEF Links, Terminals, Born, Mounts, Types
  <1>5. Records' BY <1>0 DEF Records, Record, Over, Kin, Types
  <1>6. RootInv'
    <2>1. pc[Root] # "gone" \/ n # Root OBVIOUS
    <2> QED BY <1>0, <2>1, SubtreeAssumption DEF RootInv, Types, Links, Terminals
  <1> QED BY <1>1, <1>2, <1>3, <1>4, <1>5, <1>6

LEMMA RestartKeeps == ASSUME IInv, NEW n \in Node, Restart(n) PROVE IInv'
  <1> USE DEF IInv, Restart, Goto, UnloadTo, fibers, tree, driver, drivers, records, subtree, results, calls
  <1>1. Types' BY ZenonT(30) DEF Types, Places
  <1>2. Mail' BY DEF Mail
  <1>3. Drivers' BY DEF Drivers, Place, State, Over, Types
  <1>4. Links' BY DEF Links, Terminals, Born, Mounts, Types
  <1>5. Records' BY DEF Records, Record, Over, Kin, Types
  <1>6. RootInv'
    <2>1. UNCHANGED <<closed, done, terminal, awaits>> OBVIOUS
    <2>2. /\ pc[Root] = "gone" => pc'[Root] = "gone" /\ err'[Root] = err[Root]
          /\ st'[Root] # "unborn" /\ (cur'[Root].kind = "shutdown" => closed)
          /\ \A i \in DOMAIN mailbox'[Root] : mailbox'[Root][i].kind = "shutdown" => closed
      BY SubtreeAssumption DEF RootInv, Types
    <2> QED BY <2>1, <2>2, RootFrame
  <1> QED BY <1>1, <1>2, <1>3, <1>4, <1>5, <1>6

LEMMA ReviveKeeps == ASSUME IInv, NEW n \in Node, Revive(n) PROVE IInv'
  <1>0. /\ DOMAIN done' \subseteq Known /\ \A t \in DOMAIN done' : done'[t] \subseteq Faults
        /\ \A m \in Node : \A t \in Ends(m) \cup {All(m)} :
             /\ t \in DOMAIN done' <=> t \in DOMAIN done
             /\ t \in DOMAIN done => done'[t] = done[t]
    <2> DEFINE r == [t \in {cur[n].task} |-> {}]
    <2>1. \A t \in DOMAIN r : t \in Known /\ t.what = "restart" /\ r[t] \subseteq Faults
      BY HandlersTask DEF Revive
    <2>2. Complete(r) BY DEF Revive, Goto
    <2> QED BY <2>1, <2>2, RestartsOnly DEF IInv
  <1> USE DEF IInv, Revive, Goto, fibers, tree, driver, drivers, records, subtree, results, calls
  <1>1. Types' BY <1>0 DEF Types, Places, AnyTask
  <1>2. Mail' BY DEF Mail
  <1>3. Drivers' BY DEF Drivers, Place, State, Over, Types
  <1>4. Links' BY DEF Links, Terminals, Born, Mounts, Types
  <1>5. Records' BY <1>0 DEF Records, Record, Over, Kin, Types
  <1>6. RootInv'
    <2>1. pc[Root] # "gone" \/ n # Root OBVIOUS
    <2> QED BY <1>0, <2>1, SubtreeAssumption DEF RootInv, Types, Links, Terminals, Stopping
  <1> QED BY <1>1, <1>2, <1>3, <1>4, <1>5, <1>6

LEMMA HandledKeeps == ASSUME IInv, NEW n \in Node, Handled(n) PROVE IInv'
  <1>0. /\ DOMAIN done' \subseteq Known /\ \A t \in DOMAIN done' : done'[t] \subseteq Faults
        /\ \A m \in Node : \A t \in Ends(m) \cup {All(m)} :
             /\ t \in DOMAIN done' <=> t \in DOMAIN done
             /\ t \in DOMAIN done => done'[t] = done[t]
    <2> DEFINE r == [t \in Tasks({cur[n].task}) |->
                       IF pc[n] = "started" THEN err[n] ELSE IF Registered(n) THEN {"inactive"} ELSE {}]
    <2>1. \A t \in DOMAIN r : t \in Known /\ t.what = "restart" /\ r[t] \subseteq Faults
      <3>1. err[n] \subseteq Faults BY DEF IInv, Types
      <3>2. \A t \in DOMAIN r : t \in Tasks({cur[n].task}) /\ r[t] \subseteq Faults
        BY <3>1 DEF Faults
      <3> QED BY <3>2, HandlersTask DEF Handled
    <2>2. Complete(r) BY DEF Handled, Goto
    <2> QED BY <2>1, <2>2, RestartsOnly DEF IInv
  <1> USE DEF IInv, Handled, Goto, fibers, tree, driver, drivers, records, subtree, results, calls
  <1>1. Types' BY <1>0 DEF Types, Places
  <1>2. Mail' BY DEF Mail
  <1>3. Drivers' BY DEF Drivers, Place, State, Over, Types
  <1>4. Links' BY DEF Links, Terminals, Born, Mounts, Types
  <1>5. Records' BY <1>0 DEF Records, Record, Over, Kin, Types
  <1>6. RootInv'
    <2>1. pc[Root] # "gone" \/ n # Root OBVIOUS
    <2> QED BY <1>0, <2>1, SubtreeAssumption DEF RootInv, Types, Links, Terminals
  <1> QED BY <1>1, <1>2, <1>3, <1>4, <1>5, <1>6

LEMMA TerminateKeeps == ASSUME IInv, NEW n \in Node, Terminate(n) PROVE IInv'
  <1> USE DEF IInv, Terminate, Goto, UnloadTo, fibers, tree, driver, drivers, records, subtree, results, calls
  <1>1. Types' BY DEF Types, Places
  <1>2. Mail' BY DEF Mail
  <1>3. Drivers' BY DEF Drivers, Place, State, Over, Types
  <1>4. Links' BY DEF Links, Terminals, Born, Mounts, Types
  <1>5. Records' BY DEF Records, Record, Over, Kin, Types
  <1>6. RootInv'
    <2>1. UNCHANGED <<closed, done, terminal, awaits>> OBVIOUS
    <2>2. /\ pc[Root] = "gone" => pc'[Root] = "gone" /\ err'[Root] = err[Root]
          /\ st'[Root] # "unborn" /\ (cur'[Root].kind = "shutdown" => closed)
          /\ \A i \in DOMAIN mailbox'[Root] : mailbox'[Root][i].kind = "shutdown" => closed
      BY SubtreeAssumption DEF RootInv, Types
    <2> QED BY <2>1, <2>2, RootFrame
  <1> QED BY <1>1, <1>2, <1>3, <1>4, <1>5, <1>6

LEMMA UnloadKeeps == ASSUME IInv, NEW n \in Node, Unload(n) PROVE IInv'
  <1> USE DEF IInv, Unload, Goto, fibers, tree, driver, drivers, records, subtree, results, calls
  <1>1. Types' BY DEF Types, Places
  <1>2. Mail' BY DEF Mail
  <1>3. Drivers' BY DEF Drivers, Place, State, Over, Types
  <1>4. Links' BY DEF Links, Terminals, Born, Mounts, Types
  <1>5. Records' BY DEF Records, Record, Over, Kin, Types
  <1>6. RootInv' BY DEF RootInv, Types
  <1> QED BY <1>1, <1>2, <1>3, <1>4, <1>5, <1>6

LEMMA DrainKeeps == ASSUME IInv, NEW n \in Node, Drain(n) PROVE IInv'
  <1> USE DEF IInv, Drain, Claim, fibers, tree, driver, drivers, records, subtree, results, calls
  <1>1. Types' BY DEF Types, Places
  <1>2. Mail' BY DEF Mail
  <1>3. Drivers' BY DEF Drivers, Place, State, Over, Types
  <1>4. Links' BY DEF Links, Terminals, Born, Mounts, Types
  <1>5. Records' BY DEF Records, Record, Over, Kin, Types
  <1>6. RootInv' BY DEF RootInv, Types
  <1> QED BY <1>1, <1>2, <1>3, <1>4, <1>5, <1>6

LEMMA PublishKeeps == ASSUME IInv, NEW n \in Node, Publish(n) PROVE IInv'
  <1> USE DEF IInv, Publish, Goto, fibers, tree, driver, drivers, records, subtree, results, calls
  <1>1. Types'
    <2>1. PICK e \in {{}, {n}} :
            /\ e \subseteq Node /\ e \subseteq Faults
            /\ \/ err' = [err EXCEPT ![n] = e] /\ failed' = failed \cup e /\ sink' = sink
               \/ sink' = sink \cup e /\ err' = err /\ failed' = failed
      BY DEF Faults
    <2>2. err' \in [Node -> SUBSET Faults] /\ failed' \subseteq Node /\ sink' \subseteq Node
      BY <2>1 DEF Types
    <2> QED BY <2>2 DEF Types, Places
  <1>2. Mail' BY DEF Mail
  <1>3. Drivers' BY DEF Drivers, Place, State, Over, Types
  <1>4. Links' BY DEF Links, Terminals, Born, Mounts, Types
  <1>5. Records' BY DEF Records, Record, Over, Kin, Types
  <1>6. RootInv'
    <2>1. UNCHANGED <<closed, done, terminal, awaits>> OBVIOUS
    <2>2. /\ pc[Root] = "gone" => pc'[Root] = "gone" /\ err'[Root] = err[Root]
          /\ st'[Root] # "unborn" /\ (cur'[Root].kind = "shutdown" => closed)
          /\ \A i \in DOMAIN mailbox'[Root] : mailbox'[Root][i].kind = "shutdown" => closed
      BY SubtreeAssumption DEF RootInv, Types
    <2> QED BY <2>1, <2>2, RootFrame
  <1> QED BY <1>1, <1>2, <1>3, <1>4, <1>5, <1>6

LEMMA RootDisposedKeeps == ASSUME IInv, RootDisposed PROVE IInv'
  <1> DEFINE r == [t \in Tasks({terminal[Root]}) |-> err[Root]]
  <1>a. /\ pc[Root] = "leave" /\ Complete(r) /\ pc' = [pc EXCEPT ![Root] = "recv"]
        /\ UNCHANGED <<fibers, tree, cur, next, then, mailbox, alive, records, subtree, failed, sink, calls>>
    BY DEF RootDisposed, Goto
  <1> USE DEF IInv, fibers, tree, driver, drivers, records, subtree, results, calls
  <1>0. Root \in Node /\ Terminals(Root) BY SubtreeAssumption DEF Links
  <1>1. /\ DOMAIN r \subseteq Ends(Root) /\ DOMAIN r \subseteq Known
        /\ \A t \in DOMAIN r : r[t] \subseteq Faults
    BY <1>0, TaskFacts DEF Terminals, Tasks, Types
  <1> HIDE DEF r
  <1>2. Finishes(Ends(Root)) BY <1>a, <1>1, CompleteFacts DEF Finishes
  <1>3. Types' BY <1>a, <1>2 DEF Types, Places, Finishes
  <1>4. Mail' BY <1>a DEF Mail
  <1>5. Drivers' BY <1>0, <1>a DEF Drivers, Place, State, Over, Types
  <1>6. Links' BY <1>a DEF Links, Terminals, Born, Mounts, Types
  <1>7. Records'
    <2> SUFFICES ASSUME NEW m \in Kin PROVE Record(m)' BY DEF Records
    <2>1. m \in Node /\ m # Root /\ pc'[m] = pc[m] BY <1>a DEF Kin, Types
    <2>2. Ends(m) \cap Ends(Root) = {} /\ All(m) \notin Ends(Root) BY <1>0, <2>1, TaskFacts
    <2>3. \A t \in Ends(m) \cup {All(m)} : t \in DOMAIN done' <=> t \in DOMAIN done
      BY <1>2, <2>1, <2>2 DEF Finishes
    <2>4. DOMAIN done \subseteq DOMAIN done' BY <1>2 DEF Finishes
    <2> QED BY <1>a, <2>1, <2>3, <2>4 DEF Records, Record, Over
  <1>8. RootInv'
    <2>1. All(Root) \notin Ends(Root) BY <1>0, TaskFacts
    <2>2. All(Root) \notin DOMAIN done' BY <1>0, <1>a, <1>2, <2>1 DEF RootInv, Finishes
    <2> QED BY <1>a, <2>2 DEF RootInv
  <1> QED BY <1>3, <1>4, <1>5, <1>6, <1>7, <1>8

LEMMA LeaveKeeps == ASSUME IInv, NEW n \in Node, Leave(n) PROVE IInv'
  <1> DEFINE r == [t \in Swept(n) \cup Tasks({terminal[n], cur[n].task}) |->
                     IF t.what = "restart" /\ cur[n].kind = "shutdown" THEN {"closed"} ELSE err[n]]
  <1>a. /\ pc[n] = "leave" /\ Complete(r) /\ (n = Root => cur[n].kind = "shutdown")
        /\ alive' = alive \ {n} /\ mailbox' = [mailbox EXCEPT ![n] = <<>>]
        /\ pc' = [pc EXCEPT ![n] = IF n = Root THEN "gone" ELSE "release"]
    BY DEF Leave, Goto
  <1>b. UNCHANGED <<fibers, tree, cur, next, then, records, subtree, failed, sink, calls>>
    BY DEF Leave, Goto
  <1> USE DEF IInv, fibers, tree, driver, drivers, records, subtree, results, calls
  <1>0. ASSUME NEW t \in DOMAIN r
        PROVE  /\ t \in Known /\ r[t] \subseteq Faults
               /\ t \in Ends(n) \/ t.what = "restart" \/ (n = Root /\ t = All(Root))
               /\ t.what # "restart" => r[t] = err[n]
    <2>1. t \in Swept(n) \cup Tasks({terminal[n], cur[n].task}) OBVIOUS
    <2>2. t # NoTask BY <2>1 DEF Swept, Tasks
    <2>3. r[t] \subseteq Faults /\ (t.what # "restart" => r[t] = err[n]) BY <2>1 DEF Faults, Types
    <2> HIDE DEF r
    <2>4. CASE t = terminal[n]
      <3>1. t \in Ends(n) BY <2>2, <2>4 DEF Links, Terminals
      <3> QED BY <2>3, <3>1, TaskFacts
    <2>5. CASE t # terminal[n]
      <3>1. \E x \in Fit(n) : t = x.task
        BY <2>1, <2>5 DEF Swept, Tasks, Mail
      <3>2. \/ (n = Root /\ t = All(Root)) \/ (n # Root /\ t = End(n, 0))
            \/ \E c \in Callers : t = Again(n, c)
        <4>1. PICK x \in Fit(n) : t = x.task BY <3>1
        <4>2. /\ x.kind \in {"refresh", "dispose", "shutdown", "restart"}
              /\ x.kind \in {"refresh", "dispose"} => x.task = NoTask
              /\ x.kind = "shutdown" => x.task = IF n = Root THEN All(Root) ELSE End(n, 0)
              /\ x.kind = "restart" => \E c \in Callers : x.task = Again(n, c)
          BY IntentFacts
        <4> QED BY <2>2, <4>1, <4>2
      <3>3. CASE n = Root /\ t = All(Root) BY <2>3, <3>3, TaskFacts
      <3>4. CASE n # Root /\ t = End(n, 0)
        <4>1. t \in Ends(n) BY <3>4, TaskFacts
        <4> QED BY <2>3, <4>1, TaskFacts
      <3>5. CASE \E c \in Callers : t = Again(n, c) BY <2>3, <3>5, TaskFacts
      <3> QED BY <3>2, <3>3, <3>4, <3>5
    <2> QED BY <2>4, <2>5
  <1>1. /\ DOMAIN done' = DOMAIN done \cup DOMAIN r /\ DOMAIN done' \subseteq Known
        /\ \A t \in DOMAIN done' :
             done'[t] \subseteq Faults /\ done'[t] = IF t \in DOMAIN r THEN r[t] ELSE done[t]
    <2>1. DOMAIN r \subseteq Known /\ \A t \in DOMAIN r : r[t] \subseteq Faults BY <1>0
    <2> HIDE DEF r
    <2> QED BY <1>a, <2>1, CompleteFacts
  <1>2. n = Root =>
        /\ cur[Root].task = All(Root) /\ All(Root) \in DOMAIN r /\ closed
        /\ terminal[Root] # NoTask => terminal[Root] \in DOMAIN r
        /\ \A t \in {All(Root), terminal[Root]} : t \in DOMAIN r => r[t] = err[Root]
    <2> SUFFICES ASSUME n = Root
                 PROVE  /\ cur[Root].task = All(Root) /\ All(Root) \in DOMAIN r /\ closed
                        /\ terminal[Root] # NoTask => terminal[Root] \in DOMAIN r
                        /\ \A t \in {All(Root), terminal[Root]} : t \in DOMAIN r => r[t] = err[Root]
      OBVIOUS
    <2>1. cur[Root].task = All(Root) /\ closed BY <1>a, IntentFacts DEF Mail, RootInv
    <2>2. All(Root) # NoTask /\ All(Root).what # "restart" BY TaskFacts DEF Known
    <2>3. DOMAIN r = Swept(Root) \cup Tasks({terminal[Root], All(Root)}) BY <2>1
    <2>4. terminal[Root] # NoTask => terminal[Root].what # "restart" BY TaskFacts DEF Links, Terminals
    <2>5. \A t \in DOMAIN r : t.what # "restart" => r[t] = err[Root] BY <1>0
    <2>6. NoTask \notin DOMAIN r BY <2>3 DEF Swept, Tasks
    <2> HIDE DEF r
    <2> QED BY <2>1, <2>2, <2>3, <2>4, <2>5, <2>6 DEF Tasks
  <1> HIDE DEF r
  <1>3. Types' BY <1>a, <1>b, <1>1 DEF Types, Places
  <1>4. Mail' BY <1>a, <1>b DEF Mail
  <1>5. Drivers' BY <1>a, <1>b DEF Drivers, Place, State, Over, Types
  <1>6. Links' BY <1>a, <1>b DEF Links, Terminals, Born, Mounts, Types
  <1>7. Records'
    <2> SUFFICES ASSUME NEW m \in Kin PROVE Record(m)' BY DEF Records
    <2>1. m \in Node /\ m # Root BY DEF Kin
    <2>2. All(m) \in DOMAIN done' => All(m) \in DOMAIN done
      BY <1>0, <1>1, <2>1, TaskFacts
    <2>3. \A t \in Ends(m) : t \in DOMAIN done' => t \in DOMAIN done \/ m = n
      BY <1>0, <1>1, <2>1, TaskFacts
    <2>4. Over(m) => Over(m)' BY <1>a DEF Over, Types
    <2>5. m = n => Over(m)' BY <1>a, <2>1 DEF Over, Types
    <2>6. pc[m] = "gone" => pc'[m] = "gone" BY <1>a DEF Types
    <2>7. Record(m) BY DEF Records
    <2> QED BY <1>1, <1>b, <2>2, <2>3, <2>4, <2>5, <2>6, <2>7 DEF Record
  <1>8. RootInv'
    <2>1. CASE n = Root
      <3>1. pc'[Root] = "gone" /\ cur' = cur /\ mailbox'[Root] = <<>> BY <1>a, <1>b, <2>1 DEF Types, Mail
      <3> QED BY <1>b, <1>1, <1>2, <2>1, <3>1 DEF RootInv
    <2>2. CASE n # Root
      <3>1. \A t \in Ends(Root) \cup {All(Root)} : t \notin DOMAIN r
        BY <1>0, <2>2, SubtreeAssumption, TaskFacts
      <3>2. pc'[Root] = pc[Root] /\ mailbox'[Root] = mailbox[Root]
        BY <1>a, <2>2, SubtreeAssumption DEF Types, Mail
      <3>3. Terminals(Root) BY SubtreeAssumption DEF Links
      <3> QED BY <1>b, <1>1, <3>1, <3>2, <3>3 DEF RootInv, Terminals
    <2> QED BY <2>1, <2>2
  <1> QED BY <1>3, <1>4, <1>5, <1>6, <1>7, <1>8

LEMMA ReleaseKeeps == ASSUME IInv, NEW n \in Kin, Release(n) PROVE IInv'
  <1> USE DEF IInv, Release, Claim, fibers, tree, driver, drivers, records, subtree, results, calls
  <1>1. Types' BY DEF Types, Places
  <1>2. Mail' BY DEF Mail
  <1>3. Drivers' BY DEF Drivers, Place, State, Over, Types
  <1>4. Links' BY DEF Links, Terminals, Born, Mounts, Types
  <1>5. Records' BY DEF Records, Record, Over, Kin, Types
  <1>6. RootInv' BY DEF RootInv, Types
  <1> QED BY <1>1, <1>2, <1>3, <1>4, <1>5, <1>6

LEMMA GoneKeeps == ASSUME IInv, NEW n \in Kin, Gone(n) PROVE IInv'
  <1> USE DEF IInv, Gone, Goto, fibers, tree, driver, drivers, records, subtree, results, calls
  <1>1. Types' BY DEF Types, Places
  <1>2. Mail' BY DEF Mail
  <1>3. Drivers' BY DEF Drivers, Place, State, Over, Types
  <1>4. Links' BY DEF Links, Terminals, Born, Mounts, Types
  <1>5. Records' BY DEF Records, Record, Over, Kin, Types
  <1>6. RootInv' BY DEF RootInv, Types
  <1> QED BY <1>1, <1>2, <1>3, <1>4, <1>5, <1>6

-----------------------------------------------------------------------------
(* Mount records, subtree shutdown, spawning and mounting keep it. *)

LEMMA CleanupLookKeeps == ASSUME IInv, NEW n \in Kin, CleanupLook(n) PROVE IInv'
  <1> USE DEF IInv, CleanupLook, OfShutdown, fibers, tree, driver, drivers, records, subtree, results, calls
  <1>1. Types' BY DEF Types, Places
  <1>2. Mail' BY DEF Mail
  <1>3. Drivers' BY DEF Drivers, Place, State, Over, Types
  <1>4. Links' BY DEF Links, Terminals, Born, Mounts, Types
  <1>5. Records'
    <2>1. joins'[n] = inner[n] /\ inner[n] \in {NoTask} \cup Ends(n) /\ n \in Node
      BY DEF Types, Kin, Links, Terminals
    <2> QED BY <2>1 DEF Records, Record, Over, Kin, Types
  <1>6. RootInv' BY DEF RootInv, Types
  <1> QED BY <1>1, <1>2, <1>3, <1>4, <1>5, <1>6

LEMMA CascadeKeeps == ASSUME IInv, NEW k \in Kin, Cascade(k) PROVE IInv'
  <1> USE DEF IInv, fibers, tree, driver, drivers, records, subtree, results, calls
  <1>0. k \in Node /\ k # Root /\ Root \in Node BY SubtreeAssumption DEF Kin
  <1>1. /\ rec[k] = "cascade" /\ loud' \subseteq Node /\ joins' = [joins EXCEPT ![k] = EndOf(k, 0)]
        /\ rec' = [rec EXCEPT ![k] = "joining"] /\ RegisterDispose(k, 0)
        /\ UNCHANGED <<st, gen, err, own, tree, driver, alive, subtree, failed, sink, calls>>
    BY <1>0 DEF Cascade, Types
  <1>2. /\ EndOf(k, 0) \in Ends(k) /\ terminal' \in [Node -> AnyTask]
        /\ \A m \in Node : terminal'[m] = IF m = k THEN EndOf(k, 0) ELSE terminal[m]
        /\ cancelled' \subseteq Node /\ Sends
        /\ Finishes(IF k \in alive THEN {} ELSE Ends(k))
    BY <1>0, <1>1, Registers
  <1>3. /\ Mail' /\ \A m \in Node \ (alive \cup {Root}) : mailbox'[m] = mailbox[m]
        /\ \A i \in DOMAIN mailbox'[Root] : mailbox'[Root][i].kind = "shutdown" => closed'
    BY <1>1, <1>2, SendsKeep
  <1>4. EndOf(k, 0) \in AnyTask BY <1>0, <1>2, TaskFacts
  <1>5. st[k] # "unborn" /\ (k \notin alive => Over(k)) BY <1>0, <1>1 DEF Records, Record, Drivers, State
  <1>6. Types' BY <1>1, <1>2, <1>4 DEF Types, Finishes
  <1>7. Drivers' BY <1>1, <1>3 DEF Drivers, Place, State, Over
  <1>8. Links'
    <2>1. ASSUME NEW n \in Node PROVE Terminals(n)' /\ Born(n)' BY <1>1, <1>2 DEF Links, Terminals, Born
    <2>2. ASSUME NEW n \in Node PROVE Mounts(n)' BY <1>1 DEF Links, Mounts, Types
    <2> QED BY <2>1, <2>2 DEF Links
  <1>9. Records'
    <2> SUFFICES ASSUME NEW m \in Kin PROVE Record(m)' BY DEF Records
    <2>1. m \in Node BY DEF Kin
    <2>2. All(m) \notin Ends(k) /\ (m # k => Ends(m) \cap Ends(k) = {}) BY <1>0, <2>1, TaskFacts
    <2>3. All(m) \in DOMAIN done' <=> All(m) \in DOMAIN done BY <1>2, <2>1, <2>2 DEF Finishes
    <2>4. \A t \in Ends(m) : t \in DOMAIN done' => t \in DOMAIN done \/ (m = k /\ Over(k))
      BY <1>2, <1>5, <2>1, <2>2 DEF Finishes
    <2>5. DOMAIN done \subseteq DOMAIN done' BY <1>2 DEF Finishes
    <2> QED BY <1>1, <1>2, <2>3, <2>4, <2>5 DEF Records, Record, Over, Types, Kin
  <1>10. RootInv'
    <2>1. All(Root) \notin Ends(k) /\ Ends(Root) \cap Ends(k) = {} BY <1>0, TaskFacts
    <2>2. \A t \in Ends(Root) \cup {All(Root)} :
            (t \in DOMAIN done' <=> t \in DOMAIN done) /\ (t \in DOMAIN done => done'[t] = done[t])
      BY <1>0, <1>2, <2>1 DEF Finishes
    <2>3. Terminals(Root) /\ terminal'[Root] = terminal[Root] BY <1>0, <1>2 DEF Links
    <2> QED BY <1>1, <1>3, <2>2, <2>3 DEF RootInv, Terminals
  <1> QED BY <1>3, <1>6, <1>7, <1>8, <1>9, <1>10

LEMMA CleanupEndKeeps == ASSUME IInv, NEW k \in Kin, CleanupEnd(k) PROVE IInv'
  <1> DEFINE p == Parent[k]
             s == held[p]
  <1> USE DEF IInv, fibers, tree, driver, drivers, records, subtree, results, calls
  <1>0. k \in Node /\ k # Root /\ p \in Node /\ Kin \subseteq Node BY AboveKin DEF Kin
  <1>1. /\ rec[k] = "joining" /\ joins[k] \in DOMAIN done /\ rec' = [rec EXCEPT ![k] = "done"]
        /\ sink' \subseteq Node
        /\ UNCHANGED <<fibers, closing, closed, kids, mounting, born, drivers, joins, loud, subtree,
                       done, failed, calls>>
    BY DEF CleanupEnd, Types
  <1>2. PICK at \in 1 .. Len(s) : /\ s[at] = k
                                 /\ held' = [held EXCEPT ![p] = Off(s, at)]
    <2>1. s \in Seq(Kin) BY <1>0 DEF Types
    <2>2. DOMAIN s = 1 .. Len(s) BY <2>1
    <2> QED BY <2>2 DEF CleanupEnd, Detach, Off
  <1> DEFINE u == Off(s, at)
  <1>3. /\ s \in Seq(Kin) /\ Len(s) \in Nat /\ DOMAIN s = 1 .. Len(s)
        /\ u \in Seq(Kin) /\ Len(u) = Len(s) - 1 /\ DOMAIN u = 1 .. Len(u)
        /\ \A i \in 1 .. Len(u) : u[i] = IF i < at THEN s[i] ELSE s[i + 1]
    <2>1. s \in Seq(Kin) BY <1>0 DEF Types
    <2>2. /\ u \in Seq(Kin) /\ Len(u) = Len(s) - 1
          /\ \A i \in 1 .. Len(s) - 1 : u[i] = IF i < at THEN s[i] ELSE s[i + 1]
      BY <2>1, RemovedAt
    <2> HIDE DEF s, u
    <2> QED BY <2>1, <2>2, LenProperties
  <1>4. held'[p] = u /\ held' \in [Node -> Seq(Kin)] /\ \A n \in Node \ {p} : held'[n] = held[n]
    BY <1>0, <1>2, <1>3 DEF Types
  <1> HIDE DEF u
  <1>5. Mounts(p)
    BY <1>0 DEF Links
  <1>6. Types' BY <1>1, <1>4 DEF Types
  <1>7. Mail' BY <1>1 DEF Mail
  <1>8. Drivers' BY <1>1 DEF Drivers, Place, State, Over
  <1>9. Links'
    <2>1. ASSUME NEW n \in Node PROVE Terminals(n)' /\ Born(n)' BY <1>1 DEF Links, Terminals, Born
    <2>2. ASSUME NEW n \in Node, n # p PROVE Mounts(n)'
      <3>1. \A m \in Kin : Parent[m] = n => rec'[m] = rec[m] BY <1>1, <2>2 DEF Types
      <3>2. held'[n] = held[n] /\ st' = st BY <1>1, <1>4, <2>2
      <3> QED BY <3>1, <3>2 DEF Links, Mounts
    <2>3. Mounts(p)'
      <3>1. ASSUME NEW i \in DOMAIN u PROVE Parent[u[i]] = p
        <4>1. \A x \in DOMAIN s : Parent[s[x]] = p BY <1>5 DEF Mounts
        <4> DEFINE was == IF i < at THEN i ELSE i + 1
        <4>2. was \in DOMAIN s /\ u[i] = s[was] BY <1>3
        <4> HIDE DEF was, s
        <4> QED BY <4>1, <4>2
      <3>2. ASSUME NEW i \in DOMAIN u, NEW j \in DOMAIN u, u[i] = u[j] PROVE i = j
        <4> DEFINE was(x) == IF x < at THEN x ELSE x + 1
        <4>1. ASSUME NEW x \in DOMAIN u PROVE was(x) \in DOMAIN s /\ u[x] = s[was(x)]
          <5>1. x \in 1 .. Len(u) BY <1>3
          <5>2. /\ Len(s) \in Nat /\ Len(u) = Len(s) - 1 /\ DOMAIN s = 1 .. Len(s)
                /\ u[x] = IF x < at THEN s[x] ELSE s[x + 1]
            BY <1>3, <5>1
          <5> HIDE DEF s
          <5> QED BY <5>1, <5>2
        <4>2. ASSUME NEW x \in DOMAIN s, NEW y \in DOMAIN s, s[x] = s[y] PROVE x = y
          BY <1>5, <4>2 DEF Mounts
        <4>3. was(i) = was(j) BY <3>2, <4>1, <4>2
        <4> QED BY <1>3, <4>3
      <3>3. ASSUME NEW m \in Kin, Parent[m] = p
            PROVE  (\E i \in DOMAIN u : u[i] = m) <=> rec'[m] \notin {"none", "done"}
        <4>1. CASE m = k
          <5>1. rec'[m] = "done" BY <1>0, <1>1, <4>1 DEF Types
          <5>2. ASSUME NEW i \in DOMAIN u, u[i] = k PROVE FALSE
            <6>1. CASE i < at BY <1>2, <1>3, <1>5, <5>2, <6>1 DEF Mounts
            <6>2. CASE ~ i < at
              <7>1. i + 1 \in DOMAIN s /\ at \in DOMAIN s /\ s[i + 1] = s[at] BY <1>2, <1>3, <5>2, <6>2
              <7>2. i + 1 = at BY <1>5, <7>1 DEF Mounts
              <7> QED BY <1>3, <6>2, <7>2
            <6> QED BY <6>1, <6>2
          <5> QED BY <4>1, <5>1, <5>2
        <4>2. CASE m # k
          <5>1. rec'[m] = rec[m] BY <1>0, <1>1, <4>2 DEF Types
          <5>2. (\E i \in DOMAIN s : s[i] = m) <=> rec[m] \notin {"none", "done"}
            BY <1>5, <3>3 DEF Mounts
          <5>3. ASSUME NEW i \in DOMAIN s, s[i] = m PROVE \E j \in DOMAIN u : u[j] = m
            <6>1. CASE i < at BY <1>3, <5>3, <6>1
            <6>2. CASE i > at
              <7>1. i - 1 \in DOMAIN u /\ u[i - 1] = s[(i - 1) + 1] BY <1>3, <6>2
              <7> QED BY <1>3, <5>3, <7>1
            <6>3. i # at BY <1>2, <4>2, <5>3
            <6> QED BY <1>3, <6>1, <6>2, <6>3
          <5>4. ASSUME NEW j \in DOMAIN u, u[j] = m PROVE \E i \in DOMAIN s : s[i] = m
            BY <1>3, <5>4
          <5> QED BY <5>1, <5>2, <5>3, <5>4
        <4> QED BY <4>1, <4>2
      <3>4. held'[p] # <<>> => held[p] # <<>> BY <1>2, <1>3
      <3> QED BY <1>1, <1>4, <1>5, <3>1, <3>2, <3>3, <3>4 DEF Mounts
    <2> QED BY <2>1, <2>2, <2>3 DEF Links
  <1>10. Records'
    <2> SUFFICES ASSUME NEW m \in Kin PROVE Record(m)' BY DEF Records
    <2>1. m # k => rec'[m] = rec[m] BY <1>1 DEF Types, Kin
    <2>2. rec'[k] = "done" BY <1>0, <1>1 DEF Types
    <2>3. Over(k) BY <1>1 DEF Records, Record
    <2> QED BY <1>1, <2>1, <2>2, <2>3 DEF Records, Record, Over
  <1>11. RootInv' BY <1>1 DEF RootInv
  <1> QED BY <1>6, <1>7, <1>8, <1>9, <1>10, <1>11

LEMMA CoordinateKeeps == ASSUME IInv, NEW n \in Kin, Coordinate(n) PROVE IInv'
  <1> DEFINE r == [t \in {All(n)} |->
       done[inner[n]] \cup UNION {done[All(k)] : k \in {k \in awaits[n] : All(k) \in DOMAIN done}}]
  <1>a. /\ n \in begun /\ inner[n] \in DOMAIN done /\ pc[n] = "gone" /\ ChildrenEnded(n)
        /\ Complete(r)
        /\ UNCHANGED <<fibers, tree, drivers, records, subtree, failed, sink, calls>>
    BY DEF Coordinate
  <1> USE DEF IInv, fibers, tree, driver, drivers, records, subtree, results, calls
  <1>0. n \in Node /\ n # Root /\ Root \in Node BY SubtreeAssumption DEF Kin
  <1>1. DOMAIN r = {All(n)} /\ DOMAIN r \subseteq Known /\ \A t \in DOMAIN r : r[t] \subseteq Faults
    <2>1. done[inner[n]] \subseteq Faults
          /\ \A k \in {k \in awaits[n] : All(k) \in DOMAIN done} : done[All(k)] \subseteq Faults
      BY <1>a DEF Types
    <2>2. r[All(n)] \subseteq Faults BY <2>1
    <2> QED BY <1>0, <2>2, TaskFacts
  <1> HIDE DEF r
  <1>2. Finishes({All(n)}) BY <1>a, <1>1, CompleteFacts DEF Finishes
  <1>3. Types' BY <1>a, <1>2 DEF Types, Places, Finishes
  <1>4. Mail' BY <1>a DEF Mail
  <1>5. Drivers' BY <1>0, <1>a DEF Drivers, Place, State, Over, Types
  <1>6. Links' BY <1>a DEF Links, Terminals, Born, Mounts, Types
  <1>7. Records'
    <2> SUFFICES ASSUME NEW m \in Kin PROVE Record(m)' BY DEF Records
    <2>1. m \in Node /\ DOMAIN done \subseteq DOMAIN done' BY <1>2 DEF Kin, Finishes
    <2>2. All(n) \notin Ends(m) /\ (m # n => All(m) # All(n)) BY <1>0, <2>1, TaskFacts
    <2>3. \A t \in Ends(m) : t \in DOMAIN done' <=> t \in DOMAIN done
      BY <1>2, <2>1, <2>2 DEF Finishes
    <2>4. m # n => (All(m) \in DOMAIN done' <=> All(m) \in DOMAIN done)
      BY <1>2, <2>1, <2>2 DEF Finishes
    <2>5. \A k \in awaits[n] : All(k) \in DOMAIN done BY <1>a DEF ChildrenEnded
    <2> QED BY <1>a, <2>1, <2>3, <2>4, <2>5 DEF Records, Record, Over
  <1>8. RootInv'
    <2>1. All(Root) # All(n) /\ All(n) \notin Ends(Root) BY <1>0, TaskFacts
    <2>2. \A t \in Ends(Root) \cup {All(Root)} :
            (t \in DOMAIN done' <=> t \in DOMAIN done) /\ (t \in DOMAIN done => done'[t] = done[t])
      BY <1>0, <1>2, <2>1 DEF Finishes
    <2>3. Terminals(Root) BY <1>0 DEF Links
    <2> QED BY <1>a, <2>2, <2>3 DEF RootInv, Terminals
  <1> QED BY <1>3, <1>4, <1>5, <1>6, <1>7, <1>8

LEMMA SpawnKeeps == ASSUME IInv, NEW n \in Kin, Spawn(n) PROVE IInv'
  <1> USE DEF IInv, fibers, tree, driver, drivers, records, subtree, results, calls
  <1>0. n \in Node /\ n # Root /\ Root \in Node /\ Parent[n] \in Node BY SubtreeAssumption, AboveKin DEF Kin
  <1>1. /\ st[n] = "unborn" /\ n \notin own /\ n \notin alive /\ pc[n] = "recv" /\ mailbox[n] = <<>>
        /\ held[n] = <<>> /\ rec[n] = "none" /\ cur[n] \in Fit(n)
    BY <1>0 DEF Spawn, Drivers, State, Links, Mounts, Records, Record, Mail
  <1>2. CASE SubtreeClosing(Parent[n])
    <2> DEFINE r == [t \in {End(n, 0)} |-> {"closed"}]
    <2>1. /\ st' = [st EXCEPT ![n] = "Disposed"] /\ err' = [err EXCEPT ![n] = {"closed"}]
          /\ terminal' = [terminal EXCEPT ![n] = End(n, 0)] /\ closing' = closing \cup {n}
          /\ Complete(r) /\ pc' = [pc EXCEPT ![n] = "gone"]
          /\ UNCHANGED <<kids, mounting, born, alive, gen, cancelled, own, closed, held, cur, next, then,
                         mailbox, records, subtree, failed, sink, calls>>
      BY <1>2 DEF Spawn
    <2>2. End(n, 0) \in Ends(n) /\ End(n, 0) \in AnyTask /\ End(n, 0) \in Known BY <1>0, TaskFacts
    <2>3. DOMAIN r = {End(n, 0)} /\ \A t \in DOMAIN r : r[t] \subseteq Faults BY DEF Faults
    <2> HIDE DEF r
    <2>4. Finishes(Ends(n)) BY <2>1, <2>2, <2>3, CompleteFacts DEF Finishes
    <2>5. Types'
      <3>1. {"closed"} \in SUBSET Faults BY DEF Faults
      <3> QED BY <1>0, <2>1, <2>2, <2>4, <3>1 DEF Types, Places, Finishes
    <2>6. Mail' BY <2>1 DEF Mail
    <2>7. Drivers' BY <1>0, <1>1, <2>1 DEF Drivers, Place, State, Over, Types
    <2>8. Links'
      <3>1. \A m \in Node : st'[m] = IF m = n THEN "Disposed" ELSE st[m] BY <1>0, <2>1 DEF Types
      <3>2. ASSUME NEW m \in Node PROVE Terminals(m)' BY <2>1, <2>2 DEF Links, Terminals, Types
      <3>3. ASSUME NEW m \in Node PROVE Born(m)' BY <2>1, <3>1 DEF Links, Born, Types, Kin
      <3>4. ASSUME NEW m \in Node PROVE Mounts(m)' BY <1>1, <2>1, <3>1 DEF Links, Mounts
      <3> QED BY <3>2, <3>3, <3>4 DEF Links
    <2>9. Records'
      <3> SUFFICES ASSUME NEW m \in Kin PROVE Record(m)' BY DEF Records
      <3>1. m \in Node BY DEF Kin
      <3>2. All(m) \notin Ends(n) /\ (m # n => Ends(m) \cap Ends(n) = {}) BY <1>0, <3>1, TaskFacts
      <3>3. All(m) \in DOMAIN done' <=> All(m) \in DOMAIN done BY <2>4, <3>1, <3>2 DEF Finishes
      <3>4. \A t \in Ends(m) : t \in DOMAIN done' => t \in DOMAIN done \/ m = n
        BY <2>4, <3>1, <3>2 DEF Finishes
      <3>5. DOMAIN done \subseteq DOMAIN done' BY <2>4 DEF Finishes
      <3>6. Record(m) /\ (m # n => pc'[m] = pc[m] /\ st'[m] = st[m]) /\ pc'[n] = "gone" /\ st'[n] = "Disposed"
        BY <1>0, <2>1, <3>1 DEF Records, Types
      <3> QED BY <1>1, <2>1, <3>3, <3>4, <3>5, <3>6 DEF Record, Over
    <2>10. RootInv'
      <3>1. All(Root) \notin Ends(n) /\ Ends(Root) \cap Ends(n) = {} BY <1>0, TaskFacts
      <3>2. \A t \in Ends(Root) \cup {All(Root)} :
              (t \in DOMAIN done' <=> t \in DOMAIN done) /\ (t \in DOMAIN done => done'[t] = done[t])
        BY <1>0, <2>4, <3>1 DEF Finishes
      <3>3. /\ Terminals(Root) /\ terminal'[Root] = terminal[Root] /\ st'[Root] = st[Root]
            /\ err'[Root] = err[Root] /\ pc'[Root] = pc[Root]
        BY <1>0, <2>1 DEF Links, Types
      <3> QED BY <2>1, <3>2, <3>3 DEF RootInv, Terminals
    <2> QED BY <2>5, <2>6, <2>7, <2>8, <2>9, <2>10
  <1>3. CASE ~ SubtreeClosing(Parent[n])
    <2>1. /\ st' = [st EXCEPT ![n] = "Pending"] /\ kids' = [kids EXCEPT ![Parent[n]] = @ \cup {n}]
          /\ mounting' = mounting \cup {n} /\ born' = [born EXCEPT ![n] = gen[Parent[n]]]
          /\ alive' = alive \cup {n}
          /\ UNCHANGED <<err, terminal, closing, done, pc, gen, cancelled, own, closed, held, cur, next, then,
                         mailbox, records, subtree, failed, sink, calls>>
      BY <1>3 DEF Spawn
    <2>2. \A m \in Node : st'[m] = IF m = n THEN "Pending" ELSE st[m] BY <1>0, <2>1 DEF Types
    <2>3. Types'
      <3>1. kids' \in [Node -> SUBSET Kin] /\ born' \in [Node -> Nat] BY <1>0, <2>1 DEF Types
      <3> QED BY <1>0, <2>1, <3>1 DEF Types
    <2>4. Mail' BY <2>1 DEF Mail
    <2>5. Drivers' BY <1>0, <1>1, <2>1, <2>2 DEF Drivers, Place, State, Over
    <2>6. Links'
      <3>1. ASSUME NEW m \in Node PROVE Terminals(m)' BY <2>1 DEF Links, Terminals
      <3>2. ASSUME NEW m \in Node PROVE Born(m)'
        <4>1. kids'[m] \subseteq kids[m] \cup {n} BY <2>1 DEF Types
        <4>2. Born(m) BY DEF Links
        <4>3. kids[m] \subseteq Node BY DEF Types, Kin
        <4> QED BY <1>0, <2>2, <4>1, <4>2, <4>3 DEF Born
      <3>3. ASSUME NEW m \in Node PROVE Mounts(m)' BY <1>1, <2>1, <2>2 DEF Links, Mounts
      <3> QED BY <3>1, <3>2, <3>3 DEF Links
    <2>7. Records' BY <1>1, <2>1, <2>2 DEF Records, Record, Over, Kin
    <2>8. RootInv' BY <1>0, <2>1, <2>2 DEF RootInv
    <2> QED BY <2>3, <2>4, <2>5, <2>6, <2>7, <2>8
  <1> QED BY <1>2, <1>3

LEMMA MountKeeps == ASSUME IInv, NEW n \in Kin, Mount(n) PROVE IInv'
  <1> DEFINE p == Parent[n]
             s == held[p]
             u == Append(s, n)
  <1> USE DEF IInv, fibers, tree, driver, drivers, records, subtree, results, calls
  <1>0. n \in Node /\ n # Root /\ p \in Node /\ Root \in Node BY SubtreeAssumption, AboveKin DEF Kin
  <1>1. /\ n \in mounting /\ n \in alive /\ mounting' = mounting \ {n}
        /\ st[p] \notin {"Unloading", "Disposed"} /\ (p = Root \/ st[p] \in {"Loading", "Active"})
        /\ held' = [held EXCEPT ![p] = u] /\ rec' = [rec EXCEPT ![n] = "live"]
        /\ mailbox' = [mailbox EXCEPT ![n] = Append(@, Refresh)]
        /\ UNCHANGED <<fibers, closing, closed, kids, born, driver, alive, joins, loud, subtree, results, calls>>
    BY DEF Mount, Mountable
  <1>2. rec[n] = "none" /\ st[n] # "unborn" /\ st[p] # "unborn"
    BY <1>0, <1>1 DEF Records, Record, Drivers, State, RootInv
  <1>3. /\ s \in Seq(Kin) /\ Len(s) \in Nat /\ DOMAIN s = 1 .. Len(s)
        /\ u \in Seq(Kin) /\ DOMAIN u = 1 .. Len(s) + 1
        /\ u[Len(s) + 1] = n /\ \A i \in 1 .. Len(s) : u[i] = s[i]
    <2>1. s \in Seq(Kin) BY <1>0 DEF Types
    <2> HIDE DEF s
    <2> QED BY <2>1
  <1>4. held'[p] = u /\ held' \in [Node -> Seq(Kin)] /\ \A m \in Node \ {p} : held'[m] = held[m]
    BY <1>0, <1>1, <1>3 DEF Types
  <1> HIDE DEF u
  <1>5. Sends
    <2>1. Refresh \in Fit(n) /\ Refresh.kind # "shutdown" BY <1>0, IntentFacts
    <2> QED BY <1>0, <1>1, <2>1 DEF Sends, Mail
  <1>6. /\ Mail' /\ \A m \in Node \ (alive \cup {Root}) : mailbox'[m] = mailbox[m]
        /\ \A i \in DOMAIN mailbox'[Root] : mailbox'[Root][i].kind = "shutdown" => closed'
    BY <1>1, <1>5, SendsKeep
  <1>7. Types' BY <1>1, <1>4 DEF Types
  <1>8. Drivers' BY <1>1, <1>6 DEF Drivers, Place, State, Over
  <1>9. Links'
    <2>1. ASSUME NEW m \in Node PROVE Terminals(m)' /\ Born(m)' BY <1>1 DEF Links, Terminals, Born
    <2>2. ASSUME NEW m \in Node, m # p PROVE Mounts(m)'
      <3>1. \A k \in Kin : Parent[k] = m => rec'[k] = rec[k] BY <1>1, <2>2 DEF Types
      <3> QED BY <1>1, <1>4, <2>2, <3>1 DEF Links, Mounts
    <2>3. Mounts(p)'
      <3>1. Mounts(p) BY <1>0 DEF Links
      <3>2. \A i \in DOMAIN s : s[i] # n BY <1>2, <3>1 DEF Mounts
      <3>3. ASSUME NEW i \in DOMAIN u PROVE Parent[u[i]] = p
        <4>1. \A x \in DOMAIN s : Parent[s[x]] = p BY <3>1 DEF Mounts
        <4>2. CASE i \in 1 .. Len(s) BY <1>3, <4>1, <4>2
        <4>3. CASE i = Len(s) + 1 BY <1>0, <1>1, <1>3, <4>3
        <4> QED BY <1>3, <4>2, <4>3
      <3>4. ASSUME NEW i \in DOMAIN u, NEW j \in DOMAIN u, u[i] = u[j] PROVE i = j
        <4>1. \A x \in DOMAIN u : (x \in DOMAIN s /\ u[x] = s[x]) \/ (x = Len(s) + 1 /\ u[x] = n)
          <5> HIDE DEF s
          <5>1. ASSUME NEW x \in DOMAIN u
                PROVE  (x \in DOMAIN s /\ u[x] = s[x]) \/ (x = Len(s) + 1 /\ u[x] = n)
            BY <1>3, <5>1
          <5> QED BY <5>1
        <4>2. \A x, y \in DOMAIN s : s[x] = s[y] => x = y BY <3>1 DEF Mounts
        <4> QED BY <3>2, <3>4, <4>1, <4>2
      <3>5. ASSUME NEW m \in Kin, Parent[m] = p
            PROVE  (\E i \in DOMAIN u : u[i] = m) <=> rec'[m] \notin {"none", "done"}
        <4>1. CASE m = n
          <5>1. Len(s) + 1 \in DOMAIN u BY <1>3
          <5>2. rec'[n] = "live" BY <1>0, <1>1 DEF Types
          <5> QED BY <1>3, <4>1, <5>1, <5>2
        <4>2. CASE m # n
          <5>1. rec'[m] = rec[m] BY <1>1, <4>2 DEF Types
          <5>2. (\E i \in DOMAIN s : s[i] = m) <=> rec[m] \notin {"none", "done"}
            BY <3>1, <3>5 DEF Mounts
          <5>3. (\E i \in DOMAIN u : u[i] = m) <=> (\E i \in DOMAIN s : s[i] = m)
            BY <1>3, <4>2
          <5> QED BY <5>1, <5>2, <5>3
        <4> QED BY <4>1, <4>2
      <3>6. st[p] \notin {"unborn", "Disposed"} /\ (p # Root => st[p] # "Pending") BY <1>1, <1>2
      <3> QED BY <1>1, <1>4, <3>3, <3>4, <3>5, <3>6 DEF Mounts
    <2> QED BY <2>1, <2>2, <2>3 DEF Links
  <1>10. Records'
    <2> SUFFICES ASSUME NEW m \in Kin PROVE Record(m)' BY DEF Records
    <2>1. m # n => rec'[m] = rec[m] BY <1>1 DEF Types, Kin
    <2>2. rec'[n] = "live" BY <1>0, <1>1 DEF Types
    <2> QED BY <1>1, <1>2, <2>1, <2>2 DEF Records, Record, Over
  <1>11. RootInv' BY <1>1, <1>6 DEF RootInv
  <1> QED BY <1>6, <1>7, <1>8, <1>9, <1>10, <1>11

LEMMA MountRefusedKeeps == ASSUME IInv, NEW n \in Kin, MountRefused(n) PROVE IInv'
  <1> USE DEF fibers, tree, driver, drivers, records, subtree, results, calls
  <1>1. /\ n \in mounting /\ mounting' \subseteq mounting /\ n \in Node
        /\ UNCHANGED <<st, gen, err, own, closed, kids, held, born, driver, alive, records, failed, sink, calls>>
    BY DEF MountRefused, Kin
  <1>2. st[n] # "unborn" BY <1>1 DEF IInv, Drivers, State
  <1>3. CASE n \notin closing /\ closed
    <2>1. BeginShutdown(n) BY <1>3 DEF MountRefused
    <2> QED BY <1>1, <1>2, <2>1, BeginKeeps
  <1>4. CASE ~ (n \notin closing /\ closed)
    <2>1. /\ mailbox' = IF n \in closing \/ n \notin alive THEN mailbox
                        ELSE [mailbox EXCEPT ![n] = Append(@, Intent("dispose", NoTask))]
          /\ UNCHANGED <<closing, cancelled, terminal, done, subtree>>
      BY <1>4 DEF MountRefused
    <2>2. Intent("dispose", NoTask) \in Fit(n) /\ Intent("dispose", NoTask).kind # "shutdown"
      BY <1>1, IntentFacts
    <2>3. Sends BY <1>1, <2>1, <2>2 DEF Sends, IInv, Mail
    <2>4. cancelled' \subseteq Node /\ closed' \in BOOLEAN BY <1>1, <2>1 DEF IInv, Types
    <2> QED BY <1>1, <2>1, <2>3, <2>4, MailKeeps
  <1> QED BY <1>3, <1>4

-----------------------------------------------------------------------------
(* The calls keep it. *)

LEMMA CallDisposeKeeps == ASSUME IInv, NEW c \in Callers, CallDispose(c) PROVE IInv'
  <1> DEFINE n == At(c)
  <1> USE DEF IInv, fibers, tree, driver, drivers, records, subtree, results, calls
  <1>0. n \in Node /\ st[n] # "unborn" /\ Root \in Node
    BY CalledAt, SubtreeAssumption DEF CallDispose
  <1>1. UNCHANGED <<st, gen, err, own, tree, driver, alive, records, subtree, failed, sink, work>>
    BY DEF CallDispose, Join
  <1>2. CASE Joins(n)
    <2>1. UNCHANGED <<terminal, cancelled, mailbox, done>> BY <1>2 DEF CallDispose
    <2> QED BY <1>1, <2>1, StutterKeeps
  <1>3. CASE ~ Joins(n)
    <2>1. RegisterDispose(n, c) BY <1>3 DEF CallDispose
    <2> HIDE DEF n
    <2>2. /\ EndOf(n, c) \in Ends(n) /\ terminal' \in [Node -> AnyTask]
          /\ \A m \in Node : terminal'[m] = IF m = n THEN EndOf(n, c) ELSE terminal[m]
          /\ cancelled' \subseteq Node /\ Sends
          /\ Finishes(IF n \in alive THEN {} ELSE Ends(n))
      BY <1>0, <1>1, <2>1, Registers
    <2>3. /\ Mail' /\ \A m \in Node \ (alive \cup {Root}) : mailbox'[m] = mailbox[m]
          /\ \A i \in DOMAIN mailbox'[Root] : mailbox'[Root][i].kind = "shutdown" => closed'
      BY <1>1, <2>2, SendsKeep
    <2>4. n \notin alive => Over(n) BY <1>0 DEF Drivers, State
    <2>5. Types' BY <1>1, <2>2 DEF Types, Finishes
    <2>6. Drivers' BY <1>1, <2>3 DEF Drivers, Place, State, Over
    <2>7. Links'
      <3>1. ASSUME NEW m \in Node PROVE Terminals(m)' /\ Born(m)' BY <1>1, <2>2 DEF Links, Terminals, Born
      <3>2. ASSUME NEW m \in Node PROVE Mounts(m)' BY <1>1 DEF Links, Mounts
      <3> QED BY <3>1, <3>2 DEF Links
    <2>8. Records'
      <3> SUFFICES ASSUME NEW m \in Kin PROVE Record(m)' BY DEF Records
      <3>1. m \in Node BY DEF Kin
      <3>2. All(m) \notin Ends(n) /\ (m # n => Ends(m) \cap Ends(n) = {}) BY <1>0, <3>1, TaskFacts
      <3>3. All(m) \in DOMAIN done' <=> All(m) \in DOMAIN done BY <2>2, <3>1, <3>2 DEF Finishes
      <3>4. \A t \in Ends(m) : t \in DOMAIN done' => t \in DOMAIN done \/ (m = n /\ Over(n))
        BY <2>2, <2>4, <3>1, <3>2 DEF Finishes
      <3>5. DOMAIN done \subseteq DOMAIN done' BY <2>2 DEF Finishes
      <3> QED BY <1>1, <3>3, <3>4, <3>5 DEF Records, Record, Over
    <2>9. RootInv'
      <3>1. CASE n = Root
        <4>1. All(Root) \notin DOMAIN done BY <1>3, <3>1 DEF Joins, RootInv, n
        <4>2. All(Root) \notin Ends(Root) BY <1>0, TaskFacts
        <4>3. All(Root) \notin DOMAIN done' BY <1>0, <2>2, <3>1, <4>1, <4>2 DEF Finishes
        <4> QED BY <1>1, <2>3, <4>3 DEF RootInv
      <3>2. CASE n # Root
        <4>1. All(Root) \notin Ends(n) /\ Ends(Root) \cap Ends(n) = {} BY <1>0, <3>2, TaskFacts
        <4>2. \A t \in Ends(Root) \cup {All(Root)} :
                (t \in DOMAIN done' <=> t \in DOMAIN done) /\ (t \in DOMAIN done => done'[t] = done[t])
          BY <1>0, <2>2, <4>1 DEF Finishes
        <4>3. Terminals(Root) /\ terminal'[Root] = terminal[Root] BY <1>0, <2>2, <3>2 DEF Links
        <4> QED BY <1>1, <2>3, <4>2, <4>3 DEF RootInv, Terminals
      <3> QED BY <3>1, <3>2
    <2> QED BY <2>3, <2>5, <2>6, <2>7, <2>8, <2>9
  <1> QED BY <1>2, <1>3

LEMMA CallShutdownKeeps == ASSUME IInv, NEW c \in Callers, CallShutdown(c) PROVE IInv'
  <1> DEFINE n == At(c)
  <1> USE DEF fibers, tree, driver, drivers, records, subtree, results, calls
  <1>0. n \in Node /\ st[n] # "unborn" /\ Root \in Node
    BY CalledAt, SubtreeAssumption DEF CallShutdown
  <1>1. /\ UNCHANGED <<st, gen, err, own, kids, held, mounting, born, driver, alive, records, failed, sink, work>>
        /\ IF n = Root
           THEN BeginRootShutdown /\ UNCHANGED <<closing, terminal, subtree, done>>
           ELSE BeginShutdown(n) /\ UNCHANGED closed
    BY DEF CallShutdown, Join
  <1> HIDE DEF n
  <1>2. CASE n # Root
    <2>1. n \in Kin BY <1>0, <1>2 DEF Kin
    <2> QED BY <1>0, <1>1, <1>2, <2>1, BeginKeeps
  <1>3. CASE n = Root
    <2>1. /\ closed' \in BOOLEAN /\ (closed => closed') /\ cancelled' \subseteq Node
          /\ \/ mailbox' = mailbox
             \/ closed' /\ mailbox' = [mailbox EXCEPT ![Root] = Append(@, Intent("shutdown", All(Root)))]
      BY <1>1, <1>3 DEF BeginRootShutdown, IInv, Types, In
    <2>2. Intent("shutdown", All(Root)) \in Fit(Root) BY <1>0, IntentFacts
    <2>3. Sends BY <1>0, <2>1, <2>2 DEF Sends, IInv, Mail
    <2> QED BY <1>1, <1>3, <2>1, <2>3, MailKeeps
  <1> QED BY <1>2, <1>3

LEMMA CallRestartKeeps == ASSUME IInv, NEW c \in Callers, CallRestart(c) PROVE IInv'
  <1> DEFINE n == At(c)
  <1> USE DEF fibers, tree, driver, drivers, records, subtree, results, calls
  <1>0. n \in Node /\ n \in alive BY CalledAt DEF CallRestart
  <1>1. /\ UNCHANGED <<st, gen, err, terminal, own, tree, driver, alive, records, subtree, results, work>>
        /\ cancelled' = cancelled \cup {n}
        /\ mailbox' = [mailbox EXCEPT ![n] = Append(@, Intent("restart", Again(n, c)))]
    BY DEF CallRestart, Join
  <1> HIDE DEF n
  <1>2. Intent("restart", Again(n, c)) \in Fit(n) /\ Intent("restart", Again(n, c)).kind # "shutdown"
    BY <1>0, IntentFacts
  <1>3. Sends BY <1>0, <1>1, <1>2 DEF Sends, IInv, Mail
  <1>4. cancelled' \subseteq Node /\ closed \in BOOLEAN BY <1>0, <1>1 DEF IInv, Types
  <1> QED BY <1>1, <1>3, <1>4, MailKeeps

LEMMA CallRestartRefusedKeeps == ASSUME IInv, NEW c \in Callers, CallRestartRefused(c) PROVE IInv'
  BY StutterKeeps DEF CallRestartRefused, vars, calls

LEMMA ReturnKeeps == ASSUME IInv, NEW c \in Callers, Return(c) PROVE IInv'
  BY StutterKeeps DEF Return, vars, calls

-----------------------------------------------------------------------------
(* The invariant *)

LEMMA Inductive == IInv /\ [Next]_vars => IInv'
  <1> SUFFICES ASSUME IInv, [Next]_vars PROVE IInv' OBVIOUS
  <1>0. Node \ {Root} = Kin BY DEF Kin
  <1>1. CASE UNCHANGED vars BY <1>1, StutterKeeps DEF vars, calls
  <1>2. ASSUME NEW n \in Node, Drive(n) PROVE IInv'
    BY <1>2, TakeKeeps, RefreshNoneKeeps, RefreshTerminalKeeps, LoadKeeps, RestartRefusedKeeps,
       RestartKeeps, ReviveKeeps, HandledKeeps, TerminateKeeps, UnloadKeeps, DrainKeeps,
       PublishKeeps, LeaveKeeps DEF Drive
  <1>3. ASSUME NEW n \in Node, ApplyEnd(n) PROVE IInv' BY <1>3, ApplyEndKeeps
  <1>4. CASE RootDisposed BY <1>4, RootDisposedKeeps
  <1>5. ASSUME NEW n \in Kin, Detached(n) PROVE IInv'
    BY <1>5, ReleaseKeeps, GoneKeeps, CleanupLookKeeps, CascadeKeeps, CleanupEndKeeps,
       CoordinateKeeps, MountKeeps, MountRefusedKeeps DEF Detached
  <1>6. ASSUME NEW n \in Kin, Spawn(n) PROVE IInv' BY <1>6, SpawnKeeps
  <1>7. ASSUME NEW c \in Callers, Call(c) PROVE IInv'
    BY <1>7, CallDisposeKeeps, CallShutdownKeeps, CallRestartKeeps, CallRestartRefusedKeeps DEF Call
  <1>8. ASSUME NEW c \in Callers, Return(c) PROVE IInv' BY <1>8, ReturnKeeps
  <1> QED BY <1>0, <1>1, <1>2, <1>3, <1>4, <1>5, <1>6, <1>7, <1>8 DEF Next

LEMMA Invariant == Spec => []IInv
  BY Initially, Inductive, PTL DEF Spec

-----------------------------------------------------------------------------
(* The theorems *)

(* Whatever stops, loads and is mounted in whichever order, no mounted       *)
(* fiber runs, or has something left to clean up, under a parent that is     *)
(* Disposed or between two generations.                                      *)
THEOREM NoneOutlivesItsParent == Spec => []NothingOutlives
  <1>1. IInv => NothingOutlives
    <2> SUFFICES ASSUME IInv PROVE NothingOutlives OBVIOUS
    <2> USE DEF IInv
    <2>1. TypeOK
      <3>1. ASSUME NEW n \in Node \ {Root}
            PROVE  (\E i \in DOMAIN held[Parent[n]] : held[Parent[n]][i] = n)
                     <=> rec[n] \notin {"none", "done"}
        BY AboveKin DEF Links, Mounts, Kin
      <3>2. DOMAIN done \subseteq AnyTask BY DEF Types, Known
      <3> QED BY <3>1, <3>2 DEF TypeOK, Types, Places, Kin
    <2>2. ASSUME NEW n \in own \ {Root}, rec[n] # "none"
          PROVE  st[Parent[n]] # "Disposed" /\ (Parent[n] # Root => st[Parent[n]] # "Pending")
      <3>1. n \in Kin /\ n \in Node /\ Parent[n] \in Node BY AboveKin DEF Types, Kin
      <3>2. ~ Over(n) BY <3>1 DEF Drivers, State
      <3>3. rec[n] \notin {"none", "done"} BY <2>2, <3>1, <3>2 DEF Records, Record
      <3>4. held[Parent[n]] # <<>> BY <3>1, <3>3 DEF Links, Mounts
      <3> QED BY <3>1, <3>4 DEF Links, Mounts
    <2> QED BY <2>1, <2>2 DEF NothingOutlives
  <1> QED BY <1>1, Invariant, PTL

(* However the dispose and the shutdown of the root overlap, before or after *)
(* a restart, both return the one result of its last cleanup.                *)
THEOREM OneRootResult == Spec => []RootStopsAgree
  <1>1. IInv => RootStopsAgree
    <2> SUFFICES ASSUME IInv, terminal[Root] \in DOMAIN done, All(Root) \in DOMAIN done
                 PROVE  done[terminal[Root]] = done[All(Root)]
      BY DEF RootStopsAgree
    <2>1. RootInv /\ DOMAIN done \subseteq Known BY DEF IInv, Types
    <2> QED BY <2>1 DEF RootInv, Known
  <1> QED BY <1>1, Invariant, PTL

(* Going down from n, a property of fibers that goes from each to the next   *)
(* on the way to m holds of m.                                               *)
LEMMA Descent ==
  ASSUME NEW n \in Node, NEW m \in Node, n \in {m} \cup Above[m], NEW B \in SUBSET Node, n \in B,
         \A a \in Between(n, m) : Parent[a] \in B => a \in B
  PROVE  m \in B
  <1> DEFINE T == {x \in Above[m] : x # n /\ (n \in Above[x] => x \notin B)}
  <1> SUFFICES ASSUME m \notin B PROVE FALSE OBVIOUS
  <1>1. n \in Above[m] /\ m \in Kin BY AboveRoot DEF Kin
  <1>2. ASSUME NEW x \in {m} \cup Above[m], x # Root, n \in Above[x] => x \notin B
        PROVE  Parent[x] \in T
    <2>1. x \in Kin /\ x \in Node BY <1>2, AboveNode DEF Kin
    <2>2. Parent[x] \in Node /\ Above[x] = {Parent[x]} \cup Above[Parent[x]] BY <2>1, AboveKin
    <2>3. Parent[x] \in Above[m]
      <3>1. CASE x = m BY <2>2, <3>1
      <3>2. CASE x # m
        <4>1. \A S \in SUBSET Node : Upward(S) /\ (m # Root => Parent[m] \in S) => Parent[x] \in S
          <5> SUFFICES ASSUME NEW S \in SUBSET Node, Upward(S), m # Root => Parent[m] \in S
                       PROVE  Parent[x] \in S
            OBVIOUS
          <5>1. x \in Above[m] BY <3>2
          <5>2. x \in S BY <5>1 DEF Above
          <5> QED BY <1>2, <5>2 DEF Upward
        <4> QED BY <2>2, <4>1 DEF Above
      <3> QED BY <3>1, <3>2
    <2>4. n \in Above[x] => x \in Between(n, m) BY DEF Between
    <2> QED BY <1>2, <2>2, <2>3, <2>4
  <1>3. Upward(T) BY <1>2 DEF Upward
  <1>4. T \in SUBSET Node BY AboveNode
  <1>5. Parent[m] \in T BY <1>1, <1>2 DEF Kin
  <1> HIDE DEF T
  <1>6. n \in T BY <1>1, <1>3, <1>4, <1>5 DEF Above, Kin
  <1> USE DEF T
  <1> QED BY <1>6

(* A shutdown that has returned waited for all it found, and for all that    *)
(* is mounted: whatever is below it and not Disposed is under a fiber that   *)
(* was not mounted and under one that was off its parent's list before.      *)
THEOREM ShutdownsEndTheirSubtree == Spec => []ShutdownMeansGone
  <1>1. IInv => ShutdownMeansGone
    <2> SUFFICES ASSUME IInv, NEW n \in Node, All(n) \in DOMAIN done, NEW m \in Node,
                        n \in {m} \cup Above[m], st[m] \notin {"unborn", "Disposed"}
                 PROVE  /\ \E a \in Between(n, m) : rec[a] = "none"
                        /\ \E a \in Between(n, m) : a \notin awaits[Parent[a]]
      BY DEF ShutdownMeansGone
    <2> USE DEF IInv
    <2>1. \A x \in Node : Over(x) => st[x] = "Disposed" BY DEF Drivers, State
    <2>2. \A x \in Node : All(x) \in DOMAIN done => st[x] = "Disposed"
      BY <2>1 DEF Records, Record, RootInv, Kin, Over
    <2>3. ASSUME NEW a \in Between(n, m) PROVE a \in Kin /\ a \in Node /\ Parent[a] \in Node
      <3>1. a \in Node BY AboveNode DEF Between
      <3>2. a # Root BY AboveRoot DEF Between
      <3> QED BY <3>1, <3>2, AboveKin DEF Kin
    <2>4. \E a \in Between(n, m) : rec[a] = "none"
      <3> SUFFICES ASSUME \A a \in Between(n, m) : rec[a] # "none" PROVE FALSE OBVIOUS
      <3> DEFINE B == {x \in Node : st[x] = "Disposed"}
      <3>1. ASSUME NEW a \in Between(n, m), Parent[a] \in B PROVE a \in B
        <4>1. held[Parent[a]] = <<>> BY <2>3, <3>1 DEF Links, Mounts
        <4>2. rec[a] = "done" BY <2>3, <4>1 DEF Links, Mounts, Types
        <4> QED BY <2>1, <2>3, <4>2 DEF Records, Record
      <3>2. n \in B BY <2>2
      <3>3. m \in B BY <3>1, <3>2, Descent
      <3> QED BY <3>3
    <2>5. \E a \in Between(n, m) : a \notin awaits[Parent[a]]
      <3> SUFFICES ASSUME \A a \in Between(n, m) : a \in awaits[Parent[a]] PROVE FALSE OBVIOUS
      <3> DEFINE B == {x \in Node : All(x) \in DOMAIN done}
      <3>1. ASSUME NEW a \in Between(n, m), Parent[a] \in B PROVE a \in B
        <4>1. Parent[a] # Root BY DEF RootInv
        <4> QED BY <2>3, <3>1, <4>1 DEF Records, Record, Kin
      <3>2. n \in B /\ B \in SUBSET Node OBVIOUS
      <3> HIDE DEF B
      <3>3. m \in B BY <3>1, <3>2, Descent
      <3> QED BY <2>2, <3>3 DEF B
    <2> QED BY <2>4, <2>5
  <1> QED BY <1>1, Invariant, PTL
-----------------------------------------------------------------------------
(* Whose error is heard *)

(* It never was its parent's, and never will be. *)
Refused(n) == st[n] # "unborn" /\ rec[n] = "none" /\ n \notin mounting

Asked(t) == \E c \in Callers : cpc[c] # "idle" /\ joined[c] = t

(* The driver handles cur. *)
Busy(n) == pc[n] \notin {"recv", "release", "gone"}

Agains(n) == {Again(n, c) : c \in Callers}

(* A caller joins one task, and a task that was registered, or is done, for  *)
(* a caller is the one it joined.                                            *)
Asking ==
  /\ cpc \in [Callers -> {"idle", "waiting", "returned"}]
  /\ joined \in [Callers -> AnyTask] /\ ret \in [Callers -> SUBSET Faults]
  /\ \A c \in Callers :
       /\ cpc[c] = "idle" => joined[c] = NoTask
       /\ cpc[c] # "returned" => ret[c] = {}
       /\ cpc[c] = "returned" /\ joined[c] # NoTask => joined[c] \in DOMAIN done
       /\ \A n \in Node :
            /\ terminal[n] = End(n, c) => joined[c] = End(n, c)
            /\ \A t \in {End(n, c), Again(n, c)} : t \in DOMAIN done => joined[c] = t
  /\ closed => Asked(All(Root))

(* A fiber that closes has begun its shutdown, with an end to join and the   *)
(* children it lists to wait for, or was gone from the start.                *)
Begun(n) ==
  /\ Over(n) => n \notin alive
  /\ n \in closing => n \in begun \/ pc[n] = "gone"
  /\ n \in begun => /\ n \in closing /\ terminal[n] # NoTask /\ inner[n] = terminal[n]
                    /\ kids[n] \subseteq awaits[n]
  /\ inner[n] # NoTask => n \in begun
  /\ st[n] = "unborn" => terminal[n] = NoTask /\ n \notin closing /\ gen[n] = 0
  /\ st[n] # "unborn" => n = Root \/ Root \in Above[n]
  /\ pc[n] \in {"unload", "drain", "apply"} => st[n] # "Disposed"
  /\ n \in mounting => rec[n] = "none"

(* What is to be Disposed, or is, has an end. *)
Ending(n) ==
  /\ pc[n] \in {"dispose", "shutdown", "leave"} => terminal[n] # NoTask
  /\ pc[n] \in {"unload", "drain"} /\ next[n] = "Disposed" => terminal[n] # NoTask
  /\ st[n] = "Disposed" => terminal[n] # NoTask
  /\ \A i \in DOMAIN mailbox[n] :
       mailbox[n][i].kind \in {"dispose", "shutdown"} => terminal[n] # NoTask

(* A restart that is to be handled, or is, is not done, and a caller joined  *)
(* it; there is one intent for each.                                         *)
Awaited(n, t) == t \notin DOMAIN done /\ \A c \in Callers : t = Again(n, c) => joined[c] = t

Restarts(n) ==
  /\ \A i \in DOMAIN mailbox[n] : mailbox[n][i].kind = "restart" => Awaited(n, mailbox[n][i].task)
  /\ \A i, j \in DOMAIN mailbox[n] :
       mailbox[n][i].kind = "restart" /\ mailbox[n][i].task = mailbox[n][j].task => i = j
  /\ Busy(n) /\ cur[n].kind = "restart" =>
       /\ Awaited(n, cur[n].task)
       /\ \A i \in DOMAIN mailbox[n] : mailbox[n][i].task # cur[n].task
  /\ pc[n] \in {"unload", "drain"} /\ next[n] = "Pending" => cur[n].kind = "restart"

(* The shutdown of n, or of one above that awaits what is between, was asked *)
(* for, or begun for a fiber that could not be mounted.                      *)
AskedAbove(n) ==
  \E m \in ({n} \cup Above[n]) \ {Root} :
    /\ \A a \in Between(m, n) : a \in awaits[Parent[a]] /\ Parent[a] \in begun
    /\ Refused(m) \/ Asked(All(m))

(* The last error of a fiber is in the result of its end and of its          *)
(* shutdown; an end that no caller registered is its parent's cascade, which *)
(* reports it, or a shutdown that was asked for.                             *)
Failure(n) ==
  /\ n \in failed => /\ st[n] = "Disposed" /\ n \in err[n]
                     /\ terminal[n] \in DOMAIN done => n \in done[terminal[n]]
  /\ terminal[n] = End(n, 0) => (n \in loud /\ rec[n] \in {"joining", "done"}) \/ AskedAbove(n)
  /\ All(n) \in DOMAIN done /\ n \in failed => n \in done[All(n)]

(* A mount record joins the end of its fiber; its cleanup runs while the     *)
(* parent drains, or after the fiber's own driver left.                      *)
Cleanup(n) ==
  /\ rec[n] \in {"joining", "done"} => joins[n] = terminal[n] /\ terminal[n] # NoTask
  /\ n \in loud /\ rec[n] = "done" /\ n \in failed => n \in sink
  /\ pc[n] = "gone" => rec[n] \in {"none", "done"}
  /\ rec[n] \in {"claimed", "cascade", "joining"} /\ ~ Over(n) => pc[Parent[n]] = "drain"

(* The result of a shutdown has those of the children it awaits. *)
Results(n) ==
  All(n) \in DOMAIN done => \A k \in awaits[n] : done[All(k)] \subseteq done[All(n)]

(* Who joined the end of n, or its shutdown, returned what it came to. *)
Told(n, c) ==
  /\ joined[c] \in Ends(n) => joined[c] = terminal[n]
  /\ cpc[c] = "returned" /\ joined[c] \in Ends(n) /\ n \in failed => Refused(n) \/ n \in ret[c]
  /\ cpc[c] = "returned" /\ joined[c] = All(n) => done[All(n)] \subseteq ret[c]

(* The root has at most one dispose to handle, registered by a caller and    *)
(* not done; one that is done has the result of its last cleanup.            *)
RootDue == terminal[Root] # NoTask /\ terminal[Root] \notin DOMAIN done

RootHeard == \E c \in Callers :
  \/ Root \in ret[c]
  \/ /\ cpc[c] = "waiting" /\ joined[c] \in Ends(Root) \cup {All(Root)}
     /\ joined[c] \in DOMAIN done /\ Root \in done[joined[c]]

RootMail ==
  /\ \A i \in DOMAIN mailbox[Root] : mailbox[Root][i].kind = "dispose" => RootDue
  /\ \A i, j \in DOMAIN mailbox[Root] :
       mailbox[Root][i].kind = "dispose" /\ mailbox[Root][j].kind = "dispose" => i = j
  /\ Busy(Root) /\ cur[Root].kind = "dispose" =>
       RootDue /\ \A i \in DOMAIN mailbox[Root] : mailbox[Root][i].kind # "dispose"

RootStops ==
  /\ pc[Root] # "apply"
  /\ pc[Root] \in {"unload", "drain"} /\ next[Root] = "Disposed" => then[Root] = "leave"
  /\ Over(Root) => closed
  /\ terminal[Root] = NoTask \/ \E c \in Callers : terminal[Root] = End(Root, c)
  /\ terminal[Root] \in DOMAIN done => st[Root] = "Disposed" /\ done[terminal[Root]] = err[Root]
  /\ st[Root] = "Disposed" /\ pc[Root] # "leave" /\ ~ closed => terminal[Root] \in DOMAIN done
  /\ Root \in failed => RootHeard \/ (pc[Root] = "leave" /\ Root \in err[Root])

Fate(n) == Refused(n) \/ (Ending(n) /\ Failure(n))

Heard ==
  /\ Asking
  /\ \A n \in Node : Begun(n) /\ Restarts(n)
  /\ \A n \in Kin : Fate(n) /\ Cleanup(n) /\ Results(n)
  /\ \A n \in Kin : \A c \in Callers : Told(n, c)
  /\ RootMail /\ RootStops
-----------------------------------------------------------------------------
(* The tasks are told apart. *)

LEMMA NoCallerZero == 0 \notin Callers
  <1> SUFFICES ASSUME NEW w \in Calls, 0 \in DOMAIN w PROVE FALSE BY DEF Callers
  <1> DEFINE S == [op : Ops, at : Node]
  <1>1. w \in Seq(S) BY SubtreeAssumption
  <1> HIDE DEF S
  <1>2. DOMAIN w = 1 .. Len(w) BY <1>1
  <1> QED BY <1>2

LEMMA TasksApart ==
  ASSUME NEW n \in Node, NEW m \in Node
  PROVE  /\ \A c, d \in Callers \cup {0} :
              /\ End(n, c) = End(m, d) => n = m /\ c = d
              /\ Again(n, c) = Again(m, d) => n = m /\ c = d
              /\ End(n, c) # Again(m, d) /\ End(n, c) # All(m) /\ Again(n, c) # All(m)
         /\ All(n) = All(m) => n = m
         /\ n # m => Ends(n) \cap Ends(m) = {} /\ Agains(n) \cap Agains(m) = {}
         /\ Ends(n) \cap Agains(m) = {} /\ All(n) \notin Ends(m) \cup Agains(m)
         /\ NoTask \notin Ends(n) \cup Agains(n) \cup {All(n)}
  <1>1. \A c, d \in Callers \cup {0} :
              /\ End(n, c) = End(m, d) => n = m /\ c = d
              /\ Again(n, c) = Again(m, d) => n = m /\ c = d
              /\ End(n, c) # Again(m, d) /\ End(n, c) # All(m) /\ Again(n, c) # All(m)
    BY DEF End, Again, All
  <1>2. All(n) = All(m) => n = m BY DEF All
  <1>3. All(n) \notin Ends(m) \cup Agains(m)  BY DEF End, Again, All, Ends, Agains
  <1>4. NoTask \notin Ends(n) \cup Agains(n) \cup {All(n)} BY TaskFacts DEF Known, Agains
  <1> QED BY <1>1, <1>2, <1>3, <1>4 DEF Ends, Agains

-----------------------------------------------------------------------------
(* What a step leaves as it is *)

(* Tasks complete, all in S; those that were done and are not in S have the  *)
(* result they had.                                                          *)
Adds(S) ==
  /\ DOMAIN done \subseteq DOMAIN done' /\ DOMAIN done' \subseteq DOMAIN done \cup S
  /\ \A t \in DOMAIN done \ S : done'[t] = done[t]

(* Every step: what has begun goes on as it began, no call is forgotten. *)
Onward ==
  /\ begun \subseteq begun'
  /\ \A m \in begun : awaits'[m] = awaits[m]
  /\ \A m \in Node : Refused(m) => Refused(m)'
  /\ \A c \in Callers : cpc[c] # "idle" => cpc'[c] # "idle" /\ joined'[c] = joined[c]

(* Nothing of m changes that its last error depends on, ... *)
Still(m) ==
  /\ m \in failed' => m \in failed /\ st'[m] = st[m] /\ err'[m] = err[m]
  /\ terminal'[m] = terminal[m]
  /\ m \in loud => m \in loud'
  /\ rec[m] \in {"joining", "done"} => rec'[m] \in {"joining", "done"}

(* ... or nothing at all.                                                    *)
Untouched(m) ==
  /\ Still(m)
  /\ st'[m] = st[m] /\ err'[m] = err[m]
  /\ m \in failed' <=> m \in failed
  /\ gen'[m] = gen[m] /\ inner'[m] = inner[m] /\ awaits'[m] = awaits[m]
  /\ m \in begun => kids'[m] \subseteq kids[m]
  /\ pc'[m] = pc[m] /\ cur'[m] = cur[m] /\ next'[m] = next[m] /\ mailbox'[m] = mailbox[m]
  /\ rec'[m] = rec[m] /\ joins'[m] = joins[m]
  /\ m \in closing' <=> m \in closing
  /\ m \in begun' <=> m \in begun
  /\ m \in alive' <=> m \in alive
  /\ m \in mounting' <=> m \in mounting
  /\ m \in loud' <=> m \in loud
  /\ m \in sink => m \in sink'

(* S has nothing that m may still be asked for. *)
Spares(S, m) == S \cap (Ends(m) \cup Agains(m) \cup {All(m)}) = {}

LEMMA AddsOf ==
  ASSUME NEW r, Complete(r)
  PROVE  Adds(DOMAIN r) /\ \A t \in DOMAIN r : t \in DOMAIN done' /\ done'[t] = r[t]
  BY DEF Complete, Adds

LEMMA AddsNone == ASSUME done' = done PROVE Adds({})
  BY DEF Adds

LEMMA AskedStays == ASSUME NEW t, Asked(t), Onward PROVE Asked(t)'
  BY DEF Asked, Onward

LEMMA AskedAboveStays == ASSUME NEW n \in Node, AskedAbove(n), Onward PROVE AskedAbove(n)'
  <1>1. PICK m \in ({n} \cup Above[n]) \ {Root} :
          /\ \A a \in Between(m, n) : a \in awaits[Parent[a]] /\ Parent[a] \in begun
          /\ Refused(m) \/ Asked(All(m))
    BY DEF AskedAbove
  <1>2. m \in Node BY AboveNode
  <1>3. \A a \in Between(m, n) : a \in awaits'[Parent[a]] /\ Parent[a] \in begun'
    BY <1>1 DEF Onward
  <1>4. Refused(m)' \/ Asked(All(m))' BY <1>1, <1>2, AskedStays DEF Onward
  <1> QED BY <1>1, <1>3, <1>4 DEF AskedAbove

LEMMA FailureKeeps ==
  ASSUME IInv, Types', NEW m \in Kin, Failure(m), Onward, Still(m), NEW S, Adds(S),
         S \cap (Ends(m) \cup {All(m)}) = {}
  PROVE  Failure(m)'
  <1>0. m \in Node /\ Terminals(m) BY DEF Kin, IInv, Links
  <1>1. terminal'[m] \in DOMAIN done' =>
          terminal[m] \in DOMAIN done /\ done'[terminal'[m]] = done[terminal[m]]
    <2> SUFFICES ASSUME terminal'[m] \in DOMAIN done'
                 PROVE  terminal[m] \in DOMAIN done /\ done'[terminal[m]] = done[terminal[m]]
      BY DEF Still
    <2>1. terminal[m] # NoTask \/ NoTask \notin S => terminal[m] \notin S BY <1>0 DEF Terminals
    <2>2. CASE terminal[m] \in DOMAIN done /\ terminal[m] \notin S BY <2>2 DEF Adds
    <2>3. CASE terminal[m] = NoTask
      <3>1. NoTask \notin DOMAIN done' BY DEF Types, Known
      <3> QED BY <2>3, <3>1 DEF Still
    <2> QED BY <2>1, <2>2, <2>3 DEF Adds, Still
  <1>2. All(m) \in DOMAIN done' => All(m) \in DOMAIN done /\ done'[All(m)] = done[All(m)]
    BY DEF Adds
  <1>3. AskedAbove(m) => AskedAbove(m)' BY <1>0, AskedAboveStays
  <1> QED BY <1>1, <1>2, <1>3 DEF Failure, Still

LEMMA AwaitedStays ==
  ASSUME Asking, Onward, NEW m \in Node, NEW c \in Callers, NEW t, t = Again(m, c), Awaited(m, t),
         NEW S, Adds(S), t \notin S
  PROVE  Awaited(m, t)'
  <1>1. t \notin DOMAIN done' BY DEF Adds, Awaited
  <1>2. t # NoTask BY TaskFacts DEF Known
  <1>3. ASSUME NEW d \in Callers, t = Again(m, d) PROVE joined'[d] = t
    <2>1. joined[d] = t BY <1>3 DEF Awaited
    <2> QED BY <1>2, <2>1 DEF Asking, Onward
  <1> QED BY <1>1, <1>3 DEF Awaited

LEMMA RestartIntents ==
  ASSUME Mail, NEW n \in Node
  PROVE  /\ \A i \in DOMAIN mailbox[n] : mailbox[n][i] \in Fit(n)
         /\ cur[n] \in Fit(n)
         /\ \A x \in Fit(n) : x.kind = "restart" => /\ \E c \in Callers : x.task = Again(n, c)
                                                  /\ x.task \in Agains(n)
  <1>1. mailbox[n] \in Seq(Fit(n)) /\ cur[n] \in Fit(n) BY DEF Mail
  <1>2. \A i \in DOMAIN mailbox[n] : mailbox[n][i] \in Fit(n)
    <2> DEFINE F == Fit(n)
    <2> HIDE DEF F
    <2>1. mailbox[n] \in Seq(F) BY <1>1 DEF F
    <2>2. \A i \in DOMAIN mailbox[n] : mailbox[n][i] \in F BY <2>1
    <2> QED BY <2>2 DEF F
  <1> QED BY <1>1, <1>2, IntentFacts DEF Agains

(* What m waits for is not answered by what completes for others. *)
LEMMA RestartsStay ==
  ASSUME IInv, Asking, Onward, NEW m \in Node, Restarts(m),
         mailbox'[m] = mailbox[m], cur'[m] = cur[m], pc'[m] = pc[m], next'[m] = next[m],
         NEW S, Adds(S), S \cap Agains(m) = {}
  PROVE  Restarts(m)'
  <1>1. \A t \in Agains(m) : Awaited(m, t) => Awaited(m, t)' BY AwaitedStays DEF Agains
  <1>2. /\ \A i \in DOMAIN mailbox[m] : mailbox[m][i].kind = "restart" => mailbox[m][i].task \in Agains(m)
        /\ cur[m].kind = "restart" => cur[m].task \in Agains(m)
    BY RestartIntents DEF IInv
  <1> QED BY <1>1, <1>2 DEF Restarts, Busy

LEMMA NodeKeeps ==
  ASSUME IInv, Types', Heard, Onward, NEW m \in Node, Untouched(m), NEW S, Adds(S), Spares(S, m)
  PROVE  Begun(m)' /\ Restarts(m)' /\ (m \in Kin => Fate(m)')
  <1>1. Begun(m)'
    <2>1. Begun(m) BY DEF Heard
    <2> QED BY <2>1 DEF Untouched, Still, Begun, Over
  <1>2. Restarts(m)'
    <2>1. Restarts(m) /\ Asking BY DEF Heard
    <2>2. S \cap Agains(m) = {} BY DEF Spares
    <2> QED BY <2>1, <2>2, RestartsStay DEF Untouched
  <1>3. ASSUME m \in Kin PROVE Fate(m)'
    <2>1. CASE Refused(m) BY <2>1 DEF Onward, Fate
    <2>2. CASE ~ Refused(m)
      <3>1. Ending(m) /\ Failure(m) BY <1>3, <2>2 DEF Heard, Fate
      <3>2. Ending(m)' BY <3>1 DEF Ending, Untouched, Still
      <3>3. S \cap (Ends(m) \cup {All(m)}) = {} BY DEF Spares
      <3>4. Failure(m)' BY <1>3, <3>1, <3>3, FailureKeeps DEF Untouched
      <3> QED BY <3>2, <3>4 DEF Fate
    <2> QED BY <2>1, <2>2
  <1> QED BY <1>1, <1>2, <1>3

LEMMA CleanupKeeps ==
  ASSUME NEW m \in Kin, Cleanup(m), Untouched(m),
         pc[Parent[m]] = "drain" =>
           pc'[Parent[m]] = "drain" \/ rec[m] \notin {"claimed", "cascade", "joining"} \/ Over(m)
  PROVE  Cleanup(m)'
  BY DEF Cleanup, Untouched, Still, Over

(* What callers know, when it is not they who move. *)
CallsStay == UNCHANGED <<cpc, joined, ret>>

Answered(S) == \A n \in Node : \A c \in Callers :
  \A t \in {End(n, c), Again(n, c)} : t \in S => joined[c] = t

Registering ==
  /\ \A n \in Node : terminal'[n] \in {terminal[n], NoTask, End(n, 0)}
  /\ \A n \in Kin : terminal'[n] = terminal[n] \/ terminal[n] = NoTask

LEMMA AskingKeeps ==
  ASSUME Types', Asking, CallsStay, closed' = closed, Registering, NEW S, Adds(S), Answered(S)
  PROVE  Asking'
  <1>1. ASSUME NEW c \in Callers, NEW n \in Node PROVE terminal'[n] = End(n, c) => joined[c] = End(n, c)
    <2>1. terminal'[n] \in {terminal[n], NoTask, End(n, 0)} BY DEF Registering
    <2>2. End(n, c) # NoTask /\ End(n, c) # End(n, 0)
      BY NoCallerZero, TasksApart DEF Ends
    <2> QED BY <2>1, <2>2 DEF Asking
  <1>2. ASSUME NEW c \in Callers, NEW n \in Node, NEW t \in {End(n, c), Again(n, c)}, t \in DOMAIN done'
        PROVE  joined[c] = t
    <2>1. t \in DOMAIN done \/ t \in S BY <1>2 DEF Adds
    <2> QED BY <1>2, <2>1 DEF Asking, Answered
  <1>3. DOMAIN done \subseteq DOMAIN done' BY DEF Adds
  <1>4. Asked(All(Root))' <=> Asked(All(Root)) BY DEF Asked, CallsStay
  <1> QED BY <1>1, <1>2, <1>3, <1>4 DEF Asking, CallsStay

LEMMA ToldKeeps ==
  ASSUME IInv, Asking, Onward, NEW n \in Kin, NEW c \in Callers, Told(n, c),
         cpc'[c] = cpc[c], joined'[c] = joined[c], ret'[c] = ret[c],
         terminal'[n] = terminal[n] \/ terminal[n] = NoTask, n \in failed' \ failed => ~ Over(n),
         NEW S, Adds(S), All(n) \in S => All(n) \notin DOMAIN done
  PROVE  Told(n, c)'
  <1>0. n \in Node /\ Record(n) BY DEF Kin, IInv, Records
  <1>1. joined[c] \in Ends(n) => joined[c] = terminal[n] /\ terminal'[n] = terminal[n]
    BY <1>0, TasksApart DEF Told
  <1>2. NoTask \notin Ends(n) /\ All(n) # NoTask BY <1>0, TasksApart
  <1>3. ASSUME cpc[c] = "returned", joined[c] \in Ends(n), n \in failed' PROVE n \in failed
    <2>1. joined[c] \in DOMAIN done BY <1>2, <1>3 DEF Asking
    <2>2. Over(n) BY <1>0, <1>3, <2>1 DEF Record
    <2> QED BY <1>3, <2>2
  <1>4. ASSUME cpc[c] = "returned", joined[c] = All(n) PROVE done'[All(n)] \subseteq ret[c]
    <2>1. All(n) \in DOMAIN done BY <1>2, <1>4 DEF Asking
    <2> QED BY <1>4, <2>1 DEF Told, Adds
  <1>5. Refused(n) => Refused(n)' BY <1>0 DEF Onward
  <1> QED BY <1>1, <1>3, <1>4, <1>5 DEF Told

LEMMA ResultsKeep ==
  ASSUME IInv, Onward, NEW n \in Kin, Results(n), NEW S, Adds(S),
         \A m \in Kin : All(m) \notin S
  PROVE  Results(n)'
  <1> SUFFICES ASSUME All(n) \in DOMAIN done', NEW k \in awaits'[n] PROVE done'[All(k)] \subseteq done'[All(n)]
    BY DEF Results
  <1>1. Record(n) /\ All(n) \in DOMAIN done BY DEF IInv, Records, Adds
  <1>2. n \in begun /\ awaits'[n] = awaits[n] BY <1>1 DEF Record, Onward
  <1>3. k \in Kin /\ All(k) \in DOMAIN done
    BY <1>1, <1>2 DEF Record, IInv, Types, Kin
  <1> QED BY <1>1, <1>2, <1>3 DEF Results, Adds

(* What the root waits for, when nothing of it changes. *)
LEMMA RootKeeps ==
  ASSUME IInv, Types', RootStops, RootMail, Untouched(Root), then'[Root] = then[Root], closed' = closed,
         RootHeard => RootHeard', NEW S, Adds(S), Spares(S, Root)
  PROVE  RootStops' /\ RootMail'
  <1>0. Root \in Node /\ Terminals(Root) BY SubtreeAssumption DEF IInv, Links
  <1>1. /\ terminal[Root] \in DOMAIN done' <=> terminal[Root] \in DOMAIN done
        /\ terminal[Root] \in DOMAIN done => done'[terminal[Root]] = done[terminal[Root]]
    <2>1. NoTask \notin DOMAIN done' BY DEF Types, Known
    <2>2. terminal[Root] \in Ends(Root) => terminal[Root] \notin S BY DEF Spares
    <2> QED BY <1>0, <2>1, <2>2 DEF Terminals, Adds
  <1>2. /\ terminal'[Root] = terminal[Root] /\ st'[Root] = st[Root] /\ err'[Root] = err[Root]
        /\ pc'[Root] = pc[Root] /\ cur'[Root] = cur[Root] /\ next'[Root] = next[Root]
        /\ mailbox'[Root] = mailbox[Root] /\ (Root \in failed' => Root \in failed)
    BY DEF Untouched, Still
  <1>3. RootMail' BY <1>1, <1>2 DEF RootMail, RootDue, Busy
  <1>4. RootStops'
    <2> HIDE DEF RootHeard
    <2> QED BY <1>1, <1>2 DEF RootStops, Over
  <1> QED BY <1>3, <1>4

LEMMA HeardStays ==
  ASSUME RootHeard, CallsStay, NEW S, Adds(S), S \cap (Ends(Root) \cup {All(Root)}) = {}
  PROVE  RootHeard'
  <1>1. PICK c \in Callers :
          \/ Root \in ret[c]
          \/ /\ cpc[c] = "waiting" /\ joined[c] \in Ends(Root) \cup {All(Root)}
             /\ joined[c] \in DOMAIN done /\ Root \in done[joined[c]]
    BY DEF RootHeard
  <1> QED BY <1>1 DEF RootHeard, CallsStay, Adds

(* A step around which nothing changes but of the fibers in N; none of them  *)
(* stops draining while there is a record to drain.                          *)
Around(N, S) ==
  /\ Onward /\ Adds(S)
  /\ \A m \in Node \ N : Untouched(m) /\ Spares(S, m)
  /\ \A m \in N : pc[m] = "drain" => pc'[m] = "drain" \/ held[m] = <<>>
  /\ Root \notin N => then'[Root] = then[Root] /\ closed' = closed

LEMMA AroundKeeps ==
  ASSUME IInv, IInv', Heard, NEW N \in SUBSET Node, NEW S, Around(N, S),
         \A m \in N : Begun(m)' /\ Restarts(m)',
         \A m \in N \ {Root} : Fate(m)' /\ Cleanup(m)',
         Root \in N => RootStops' /\ RootMail',
         Root \in N \/ (RootHeard => RootHeard'),
         Asking', \A m \in Kin : Results(m)' /\ \A c \in Callers : Told(m, c)'
  PROVE  Heard'
  <1>0. Types' /\ Kin \subseteq Node /\ Root \in Node BY SubtreeAssumption DEF IInv, Kin
  <1>1. /\ Onward /\ Adds(S)
        /\ \A m \in Node \ N : Untouched(m) /\ Spares(S, m)
        /\ \A m \in N : pc[m] = "drain" => pc'[m] = "drain" \/ held[m] = <<>>
        /\ Root \notin N => then'[Root] = then[Root] /\ closed' = closed
    BY DEF Around
  <1>2. ASSUME NEW m \in Node PROVE Begun(m)' /\ Restarts(m)' /\ (m \in Kin => Fate(m)')
    <2>1. CASE m \in N BY <2>1 DEF Kin
    <2>2. CASE m \notin N
      <3>1. Untouched(m) /\ Spares(S, m) BY <1>1, <2>2
      <3> QED BY <1>0, <1>1, <3>1, NodeKeeps
    <2> QED BY <2>1, <2>2
  <1>3. ASSUME NEW m \in Kin PROVE Cleanup(m)'
    <2>1. CASE m \in N BY <2>1 DEF Kin
    <2>2. CASE m \notin N
      <3>1. Untouched(m) /\ Cleanup(m) /\ m \in Node /\ Parent[m] \in Node
        BY <1>0, <1>1, <2>2, AboveKin DEF Heard
      <3>2. CASE Parent[m] \notin N
        <4>1. pc'[Parent[m]] = pc[Parent[m]] BY <1>1, <3>1, <3>2 DEF Untouched
        <4> QED BY <3>1, <4>1, CleanupKeeps
      <3>3. CASE Parent[m] \in N
        <4>1. held[Parent[m]] = <<>> => rec[m] \notin {"claimed", "cascade", "joining"}
          <5>1. Mounts(Parent[m]) BY <3>1 DEF IInv, Links
          <5> QED BY <5>1 DEF Mounts
        <4> QED BY <1>1, <3>1, <3>3, <4>1, CleanupKeeps
      <3> QED BY <3>2, <3>3
    <2> QED BY <2>1, <2>2
  <1>4. RootStops' /\ RootMail'
    <2>1. CASE Root \in N BY <2>1
    <2>2. CASE Root \notin N
      <3>1. Untouched(Root) /\ Spares(S, Root) /\ then'[Root] = then[Root] /\ closed' = closed
        BY <1>0, <1>1, <2>2
      <3>2. RootStops /\ RootMail BY DEF Heard
      <3> QED BY <1>0, <1>1, <3>1, <3>2, RootKeeps
    <2> QED BY <2>1, <2>2
  <1>5. \A m \in Node : Begun(m)' /\ Restarts(m)' BY <1>2
  <1>6. \A m \in Kin : Fate(m)' /\ Cleanup(m)' /\ Results(m)' BY <1>0, <1>2, <1>3
  <1> QED BY <1>4, <1>5, <1>6 DEF Heard

(* A step of one fiber, and of no caller *)
Alone(n, S) ==
  /\ Onward /\ CallsStay /\ closed' = closed /\ Registering
  /\ Adds(S) /\ Answered(S)
  /\ \A m \in Node \ {n} : Untouched(m) /\ Spares(S, m)
  /\ n # Root => then'[Root] = then[Root]
  /\ n \in failed' \ failed => ~ Over(n)
  /\ pc[n] = "drain" => pc'[n] = "drain" \/ held[n] = <<>>

LEMMA AloneKeeps ==
  ASSUME IInv, IInv', Heard, NEW n \in Node, NEW S, Alone(n, S),
         All(n) \in S => All(n) \notin DOMAIN done /\ \A m \in Kin : Results(m)',
         Begun(n)', Restarts(n)', n \in Kin => Fate(n)' /\ Cleanup(n)',
         n = Root => RootStops' /\ RootMail'
  PROVE  Heard'
  <1>0. Types' /\ Kin \subseteq Node /\ Root \in Node /\ Asking
    BY SubtreeAssumption DEF IInv, Kin, Heard
  <1>1. /\ Onward /\ CallsStay /\ closed' = closed /\ Registering /\ Adds(S) /\ Answered(S)
        /\ \A m \in Node \ {n} : Untouched(m) /\ Spares(S, m)
        /\ n # Root => then'[Root] = then[Root]
        /\ n \in failed' \ failed => ~ Over(n)
        /\ pc[n] = "drain" => pc'[n] = "drain" \/ held[n] = <<>>
    BY DEF Alone
  <1>2. Asking' BY <1>0, <1>1, AskingKeeps
  <1>3. ASSUME NEW m \in Kin PROVE Results(m)'
    <2>1. CASE All(n) \in S BY <2>1
    <2>2. CASE All(n) \notin S
      <3>1. \A k \in Kin : All(k) \notin S BY <1>0, <1>1, <2>2 DEF Spares
      <3>2. Results(m) BY DEF Heard
      <3> QED BY <1>1, <3>1, <3>2, ResultsKeep
    <2> QED BY <2>1, <2>2
  <1>4. ASSUME NEW m \in Kin, NEW c \in Callers PROVE Told(m, c)'
    <2>1. m \in failed' \ failed => ~ Over(m)
      <3>1. m # n => (m \in failed' <=> m \in failed) BY <1>0, <1>1 DEF Untouched, Still
      <3> QED BY <1>1, <3>1
    <2>2. All(m) \in S => All(m) \notin DOMAIN done
      <3>1. m # n => All(m) \notin S BY <1>0, <1>1 DEF Spares
      <3> QED BY <3>1
    <2>3. Told(m, c) BY DEF Heard
    <2>4. terminal'[m] = terminal[m] \/ terminal[m] = NoTask BY <1>1 DEF Registering
    <2>5. cpc'[c] = cpc[c] /\ joined'[c] = joined[c] /\ ret'[c] = ret[c] BY <1>1 DEF CallsStay
    <2> QED BY <1>0, <1>1, <2>1, <2>2, <2>3, <2>4, <2>5, ToldKeeps
  <1>5. (RootHeard => RootHeard') \/ n = Root
    <2> SUFFICES ASSUME n # Root, RootHeard PROVE RootHeard' OBVIOUS
    <2>1. S \cap (Ends(Root) \cup {All(Root)}) = {} BY <1>0, <1>1 DEF Spares
    <2> QED BY <1>1, <2>1, HeardStays
  <1>6. Around({n}, S) BY <1>0, <1>1 DEF Around
  <1>7. \A m \in Kin : Results(m)' /\ \A c \in Callers : Told(m, c)' BY <1>3, <1>4
  <1> QED BY <1>0, <1>2, <1>5, <1>6, <1>7, AroundKeeps DEF Kin

-----------------------------------------------------------------------------
(* The driver's own steps *)

(* Nothing but the driver of n moves. *)
DriverOnly(n) ==
  \A m \in Node \ {n} :
     /\ st'[m] = st[m] /\ gen'[m] = gen[m] /\ err'[m] = err[m]
     /\ pc'[m] = pc[m] /\ cur'[m] = cur[m] /\ next'[m] = next[m] /\ then'[m] = then[m]
     /\ mailbox'[m] = mailbox[m]
     /\ m \in failed' <=> m \in failed
     /\ m \in sink => m \in sink'

LEMMA DriverAlone ==
  ASSUME IInv, NEW n \in Node, DriverOnly(n),
         UNCHANGED <<terminal, tree, alive, records, subtree, calls>>,
         Adds({}) \/ \E t \in Agains(n) : Adds({t}) /\ Answered({t}),
         n \in failed' \ failed => ~ Over(n),
         st[n] # "unborn" => st'[n] # "unborn",
         pc[n] = "drain" => pc'[n] = "drain" \/ held[n] = <<>>
  PROVE  \E S \in SUBSET Agains(n) : Alone(n, S)
  <1> USE DEF tree, records, subtree, calls, DriverOnly
  <1>1. PICK S \in SUBSET Agains(n) : Adds(S) /\ Answered(S)
    <2>1. Answered({}) BY DEF Answered
    <2> QED BY <2>1
  <1>2. Onward /\ CallsStay /\ closed' = closed /\ Registering
    <2>1. ASSUME NEW m \in Node PROVE Refused(m) => Refused(m)'
      <3>1. st[m] # "unborn" => st'[m] # "unborn"  OBVIOUS
      <3> QED BY <3>1 DEF Refused
    <2> QED BY <2>1 DEF Onward, CallsStay, Registering
  <1>3. ASSUME NEW m \in Node \ {n} PROVE Untouched(m) /\ Spares(S, m)
    <2>1. Untouched(m) BY DEF Untouched, Still
    <2>2. Spares(S, m) BY TasksApart DEF Spares
    <2> QED BY <2>1, <2>2
  <1>4. n # Root => then'[Root] = then[Root] BY SubtreeAssumption
  <1> QED BY <1>1, <1>2, <1>3, <1>4 DEF Alone

(* What a step of its driver that disposes of nothing leaves of a fiber. *)
LEMMA QuietKeeps ==
  ASSUME IInv, IInv', Heard, NEW n \in Kin, NEW S \in SUBSET Agains(n), Alone(n, S), Refused(n) \/ Still(n),
         terminal'[n] = terminal[n], n \in failed' => n \in failed \/ rec[n] # "done",
         UNCHANGED records, n \in sink => n \in sink',
         ~ Over(n), ~ Over(n)', Ending(n) => Ending(n)'
  PROVE  Fate(n)' /\ Cleanup(n)'
  <1>0. n \in Node /\ Parent[n] \in Node /\ Parent[n] # n
    BY AboveKin, SubtreeAssumption DEF Kin
  <1>1. Types' /\ Onward /\ Adds(S) /\ \A m \in Node \ {n} : Untouched(m)
    BY DEF Alone, IInv
  <1>2. S \cap (Ends(n) \cup {All(n)}) = {} BY <1>0, TasksApart
  <1>3. Fate(n)'
    <2>1. CASE Refused(n) BY <1>0, <1>1, <2>1 DEF Onward, Fate
    <2>2. CASE ~ Refused(n)
      <3>1. Ending(n)' /\ Failure(n) BY <2>2 DEF Heard, Fate
      <3>2. Failure(n)' BY <1>1, <1>2, <2>2, <3>1, FailureKeeps
      <3> QED BY <3>1, <3>2 DEF Fate
    <2> QED BY <2>1, <2>2
  <1>4. Cleanup(n)'
    <2>1. Cleanup(n) BY DEF Heard
    <2>2. pc'[Parent[n]] = pc[Parent[n]] BY <1>0, <1>1 DEF Untouched
    <2> QED BY <2>1, <2>2 DEF Cleanup, Still, Over, records
  <1> QED BY <1>3, <1>4

LEMMA RootQuiet ==
  ASSUME IInv, IInv', Heard, NEW S \in SUBSET Agains(Root), Alone(Root, S), terminal'[Root] = terminal[Root]
  PROVE  /\ terminal[Root] \in DOMAIN done' <=> terminal[Root] \in DOMAIN done
         /\ terminal[Root] \in DOMAIN done => done'[terminal[Root]] = done[terminal[Root]]
         /\ RootHeard => RootHeard'
         /\ mailbox'[Root] = mailbox[Root] /\ cur'[Root] = cur[Root] /\ Busy(Root) => RootMail'
  <1>0. Root \in Node /\ Terminals(Root) BY SubtreeAssumption DEF IInv, Links
  <1>1. Adds(S) /\ CallsStay BY DEF Alone
  <1>2. S \cap (Ends(Root) \cup {All(Root)}) = {} BY <1>0, TasksApart
  <1>3. /\ terminal[Root] \in DOMAIN done' <=> terminal[Root] \in DOMAIN done
        /\ terminal[Root] \in DOMAIN done => done'[terminal[Root]] = done[terminal[Root]]
    <2>1. NoTask \notin DOMAIN done' BY DEF IInv, Types, Known
    <2> QED BY <1>0, <1>1, <1>2, <2>1 DEF Terminals, Adds
  <1>4. RootHeard => RootHeard' BY <1>1, <1>2, HeardStays
  <1>5. mailbox'[Root] = mailbox[Root] /\ cur'[Root] = cur[Root] /\ Busy(Root) => RootMail'
    BY <1>3 DEF Heard, RootMail, RootDue, Busy
  <1> QED BY <1>3, <1>4, <1>5

LEMMA RefreshNoneHeard == ASSUME IInv, IInv', Heard, NEW n \in Node, RefreshNone(n) PROVE Heard'
  <1> USE DEF RefreshNone, Goto, fibers, tree, driver, drivers, records, subtree, results, calls
  <1>0. Adds({}) BY AddsNone
  <1>1. PICK S \in SUBSET Agains(n) : Alone(n, S)
    <2>1. DriverOnly(n) BY DEF DriverOnly, IInv, Types
    <2> QED BY <1>0, <2>1, DriverAlone
  <1>2. pc[n] = "refresh" /\ pc'[n] = "over" BY DEF IInv, Types
  <1>3. Begun(n)' BY <1>2 DEF Heard, Begun, Over
  <1>4. Restarts(n)'
    <2>1. Onward /\ Adds(S) BY <1>1 DEF Alone
    <2> QED BY <1>2, <2>1 DEF Heard, Restarts, Busy, Awaited, Adds
  <1>5. n \in Kin => Fate(n)' /\ Cleanup(n)'
    <2>1. Ending(n) => Ending(n)' BY <1>2 DEF Ending
    <2>2. Still(n) BY DEF Still
    <2>3. ~ Over(n) /\ ~ Over(n)' BY <1>2 DEF Over
    <2> QED BY <1>1, <2>1, <2>2, <2>3, QuietKeeps
  <1>6. n = Root => RootStops' /\ RootMail'
    <2> SUFFICES ASSUME n = Root PROVE RootStops' /\ RootMail' OBVIOUS
    <2>1. Busy(Root) BY <1>2 DEF Busy
    <2>2. RootMail' BY <1>1, <2>1, RootQuiet
    <2>3. RootStops' BY <1>1, <1>2, RootQuiet DEF Heard, RootStops, Over
    <2> QED BY <2>2, <2>3
  <1>7. All(n) \notin S BY TasksApart
  <1> QED BY <1>1, <1>3, <1>4, <1>5, <1>6, <1>7, AloneKeeps

LEMMA RefreshTerminalHeard == ASSUME IInv, IInv', Heard, NEW n \in Node, RefreshTerminal(n) PROVE Heard'
  <1> USE DEF RefreshTerminal, UnloadTo, Registered, fibers, tree, driver, drivers, records, subtree, results, calls
  <1>0. Adds({}) BY AddsNone
  <1>1. PICK S \in SUBSET Agains(n) : Alone(n, S)
    <2>1. DriverOnly(n) BY DEF DriverOnly, IInv, Types
    <2>2. pc[n] # "drain" OBVIOUS
    <2> QED BY <1>0, <2>1, <2>2, DriverAlone
  <1>2. /\ pc[n] = "refresh" /\ pc'[n] = "unload" /\ next'[n] = "Disposed" /\ then'[n] = "over"
        /\ cur' = cur /\ mailbox' = mailbox /\ st' = st /\ terminal' = terminal
        /\ st[n] # "Disposed" /\ n # Root /\ terminal[n] # NoTask
    BY DEF IInv, Types
  <1>3. Begun(n)' BY <1>2 DEF Heard, Begun, Over
  <1>4. Restarts(n)' BY <1>2 DEF Heard, Restarts, Busy, Awaited
  <1>5. n \in Kin => Fate(n)' /\ Cleanup(n)'
    <2> SUFFICES ASSUME n \in Kin PROVE Fate(n)' /\ Cleanup(n)' OBVIOUS
    <2>1. Ending(n) => Ending(n)' BY <1>2 DEF Ending, Registered
    <2>2. Still(n) BY DEF Still
    <2>3. ~ Over(n) /\ ~ Over(n)' BY <1>2 DEF Over
    <2> QED BY <1>1, <2>1, <2>2, <2>3, QuietKeeps
  <1>6. n = Root => RootStops' /\ RootMail'
    <2> SUFFICES ASSUME n = Root PROVE RootStops' /\ RootMail' OBVIOUS
    <2>1. Busy(Root) BY <1>2 DEF Busy
    <2>2. RootMail' BY <1>1, <2>1, RootQuiet
    <2>3. RootStops' BY <1>1, <1>2, RootQuiet DEF Heard, RootStops, Over
    <2> QED BY <2>2, <2>3
  <1>7. All(n) \notin S BY TasksApart
  <1> QED BY <1>1, <1>3, <1>4, <1>5, <1>6, <1>7, AloneKeeps

LEMMA RestartHeard == ASSUME IInv, IInv', Heard, NEW n \in Node, Restart(n) PROVE Heard'
  <1> USE DEF Restart, Goto, UnloadTo, Registered, fibers, tree, driver, drivers, records, subtree, results, calls
  <1>0. Adds({}) BY AddsNone
  <1>1. PICK S \in SUBSET Agains(n) : Alone(n, S)
    <2>1. DriverOnly(n) BY DEF DriverOnly, IInv, Types
    <2>2. pc[n] # "drain" OBVIOUS
    <2> QED BY <1>0, <2>1, <2>2, DriverAlone
  <1>2. /\ pc[n] = "restart" /\ pc'[n] \in {"over", "refresh", "unload"}
        /\ pc'[n] = "unload" => /\ st[n] # "Disposed" /\ next'[n] \in {"Disposed", "Pending"}
                                /\ next'[n] = "Disposed" => n # Root /\ terminal[n] # NoTask
        /\ pc'[n] = "over" => n # Root
        /\ cur' = cur /\ mailbox' = mailbox /\ st' = st /\ terminal' = terminal
    BY DEF IInv, Types
  <1>a. cur[n].kind = "restart" BY <1>2 DEF IInv, Drivers, Place
  <1>b. UNCHANGED <<fibers, tree, mailbox, alive, records, subtree, results, calls>> OBVIOUS
  <1>3. Begun(n)'
    <2> HIDE DEF Restart
    <2>1. Begun(n) BY DEF Heard
    <2> QED BY <1>2, <1>b, <2>1 DEF Begun, Over
  <1>4. Restarts(n)' BY <1>2, <1>a DEF Heard, Restarts, Busy, Awaited
  <1>5. n \in Kin => Fate(n)' /\ Cleanup(n)'
    <2> SUFFICES ASSUME n \in Kin PROVE Fate(n)' /\ Cleanup(n)' OBVIOUS
    <2>1. Ending(n) => Ending(n)' BY <1>2 DEF Ending, Registered
    <2>2. Still(n) BY DEF Still
    <2>3. ~ Over(n) /\ ~ Over(n)' BY <1>2 DEF Over
    <2> QED BY <1>1, <2>1, <2>2, <2>3, QuietKeeps
  <1>6. n = Root => RootStops' /\ RootMail'
    <2> SUFFICES ASSUME n = Root PROVE RootStops' /\ RootMail' OBVIOUS
    <2>1. Busy(Root) BY <1>2 DEF Busy
    <2>2. RootMail' BY <1>1, <2>1, RootQuiet
    <2>3. RootStops' BY <1>1, <1>2, RootQuiet DEF Heard, RootStops, Over
    <2> QED BY <2>2, <2>3
  <1>7. All(n) \notin S BY TasksApart
  <1> QED BY <1>1, <1>3, <1>4, <1>5, <1>6, <1>7, AloneKeeps

LEMMA TerminateHeard == ASSUME IInv, IInv', Heard, NEW n \in Node, Terminate(n) PROVE Heard'
  <1> USE DEF Terminate, Goto, UnloadTo, fibers, tree, driver, drivers, records, subtree, results, calls
  <1>0. Adds({}) BY AddsNone
  <1>1. PICK S \in SUBSET Agains(n) : Alone(n, S)
    <2>1. DriverOnly(n) BY DEF DriverOnly, IInv, Types
    <2>2. pc[n] # "drain" OBVIOUS
    <2> QED BY <1>0, <2>1, <2>2, DriverAlone
  <1>2. /\ pc[n] \in {"dispose", "shutdown"} /\ pc'[n] \in {"leave", "unload"}
        /\ pc'[n] = "unload" => st[n] # "Disposed" /\ next'[n] = "Disposed" /\ then'[n] = "leave"
        /\ pc'[n] = "leave" => st[n] = "Disposed"
        /\ cur' = cur /\ mailbox' = mailbox /\ st' = st /\ terminal' = terminal
    BY DEF IInv, Types
  <1>3. Begun(n)' BY <1>2 DEF Heard, Begun, Over
  <1>4. Restarts(n)' BY <1>2 DEF Heard, Restarts, Busy, Awaited
  <1>5. n \in Kin => Fate(n)' /\ Cleanup(n)'
    <2> SUFFICES ASSUME n \in Kin PROVE Fate(n)' /\ Cleanup(n)' OBVIOUS
    <2>1. Ending(n) => Ending(n)' BY <1>2 DEF Ending, Registered
    <2>2. Still(n) BY DEF Still
    <2>3. ~ Over(n) /\ ~ Over(n)' BY <1>2 DEF Over
    <2> QED BY <1>1, <2>1, <2>2, <2>3, QuietKeeps
  <1>6. n = Root => RootStops' /\ RootMail'
    <2> SUFFICES ASSUME n = Root PROVE RootStops' /\ RootMail' OBVIOUS
    <2>1. Busy(Root) BY <1>2 DEF Busy
    <2>2. RootMail' BY <1>1, <2>1, RootQuiet
    <2>3. RootStops' BY <1>1, <1>2, RootQuiet DEF Heard, RootStops, Over
    <2> QED BY <2>2, <2>3
  <1>7. All(n) \notin S BY TasksApart
  <1> QED BY <1>1, <1>3, <1>4, <1>5, <1>6, <1>7, AloneKeeps

LEMMA TakeHeard == ASSUME IInv, IInv', Heard, NEW n \in Node, Take(n) PROVE Heard'
  <1> USE DEF Take, fibers, tree, driver, drivers, records, subtree, results, calls
  <1>0. Adds({}) BY AddsNone
  <1>1. PICK S \in SUBSET Agains(n) : Alone(n, S)
    <2>1. DriverOnly(n) BY DEF DriverOnly, IInv, Types, Mail
    <2> QED BY <1>0, <2>1, DriverAlone
  <1>p. PICK q : q = mailbox[n] OBVIOUS
  <1>q. /\ q \in Seq(Intents) /\ q # <<>> /\ Head(q) = q[1] /\ 1 \in DOMAIN q
        /\ \A i \in DOMAIN Tail(q) : Tail(q)[i] = q[i + 1] /\ i + 1 \in DOMAIN q /\ i + 1 # 1
        /\ \A i, j \in DOMAIN Tail(q) : i + 1 = j + 1 => i = j
    <2>1. q \in Seq(Intents) /\ q # <<>> BY <1>p DEF IInv, Mail
    <2>2. /\ Head(q) = q[1] /\ 1 \in DOMAIN q /\ DOMAIN Tail(q) \subseteq Nat \ {0}
          /\ \A i \in DOMAIN Tail(q) : Tail(q)[i] = q[i + 1] /\ i + 1 \in DOMAIN q
      BY <2>1
    <2> QED BY <2>1, <2>2
  <1>2. /\ pc[n] = "recv" /\ pc'[n] = q[1].kind /\ cur'[n] = q[1] /\ mailbox'[n] = Tail(q)
        /\ next'[n] = next[n] /\ q[1] \in Fit(n)
        /\ pc'[n] \in {"refresh", "restart", "dispose", "shutdown"}
    <2>1. /\ pc[n] = "recv" /\ pc'[n] = Head(q).kind /\ cur'[n] = Head(q) /\ mailbox'[n] = Tail(q)
          /\ next'[n] = next[n]
      BY <1>p DEF IInv, Types, Mail
    <2>2. Head(q) \in Fit(n) BY <1>p, <1>q, RestartIntents DEF IInv
    <2> QED BY <1>q, <2>1, <2>2, IntentFacts
  <1>3. Begun(n)' BY <1>2 DEF Heard, Begun, Over
  <1>4. Restarts(n)'
    <2>1. Restarts(n) /\ done' = done /\ joined' = joined /\ mailbox[n] = q BY <1>p DEF Heard
    <2>2. \A t : Awaited(n, t) => Awaited(n, t)' BY <2>1 DEF Awaited
    <2> HIDE DEF Take
    <2>3. \A i \in DOMAIN q : q[i].kind = "restart" => Awaited(n, q[i].task) BY <2>1 DEF Restarts
    <2>4. \A i, j \in DOMAIN q : q[i].kind = "restart" /\ q[i].task = q[j].task => i = j
      BY <2>1 DEF Restarts
    <2>5. \A i \in DOMAIN Tail(q) : Tail(q)[i].kind = "restart" => Awaited(n, Tail(q)[i].task)'
      BY <1>q, <2>2, <2>3
    <2>6. \A i, j \in DOMAIN Tail(q) :
            Tail(q)[i].kind = "restart" /\ Tail(q)[i].task = Tail(q)[j].task => i = j
      BY <1>q, <2>4
    <2>7. q[1].kind = "restart" => /\ Awaited(n, q[1].task)'
                                   /\ \A i \in DOMAIN Tail(q) : Tail(q)[i].task # q[1].task
      BY <1>q, <2>2, <2>3, <2>4
    <2> QED BY <1>2, <2>5, <2>6, <2>7 DEF Restarts
  <1>5. n \in Kin => Fate(n)' /\ Cleanup(n)'
    <2> SUFFICES ASSUME n \in Kin PROVE Fate(n)' /\ Cleanup(n)' OBVIOUS
    <2>1. Ending(n) => Ending(n)'
      <3> SUFFICES ASSUME Ending(n) PROVE Ending(n)' OBVIOUS
      <3>1. \A i \in DOMAIN q : q[i].kind \in {"dispose", "shutdown"} => terminal[n] # NoTask
        BY <1>p DEF Ending
      <3>2. terminal' = terminal /\ st' = st OBVIOUS
      <3> QED BY <1>2, <1>q, <3>1, <3>2 DEF Ending
    <2>2. Still(n) BY DEF Still
    <2>3. ~ Over(n) /\ ~ Over(n)' BY <1>2 DEF Over
    <2> QED BY <1>1, <2>1, <2>2, <2>3, QuietKeeps
  <1>6. n = Root => RootStops' /\ RootMail'
    <2> SUFFICES ASSUME n = Root PROVE RootStops' /\ RootMail' OBVIOUS
    <2>1. RootMail'
      <3>1. RootMail /\ done' = done /\ terminal' = terminal /\ mailbox[Root] = q BY <1>p DEF Heard
      <3>2. RootDue => RootDue' BY <3>1 DEF RootDue
      <3> HIDE DEF Take
      <3>3. /\ \A i \in DOMAIN q : q[i].kind = "dispose" => RootDue
            /\ \A i, j \in DOMAIN q : q[i].kind = "dispose" /\ q[j].kind = "dispose" => i = j
        BY <3>1 DEF RootMail
      <3>4. \A i \in DOMAIN Tail(q) : Tail(q)[i].kind = "dispose" => RootDue' BY <1>q, <3>2, <3>3
      <3>5. \A i, j \in DOMAIN Tail(q) :
              Tail(q)[i].kind = "dispose" /\ Tail(q)[j].kind = "dispose" => i = j
        BY <1>q, <3>3
      <3>6. q[1].kind = "dispose" => RootDue' /\ \A i \in DOMAIN Tail(q) : Tail(q)[i].kind # "dispose"
        BY <1>q, <3>2, <3>3
      <3> QED BY <1>2, <3>4, <3>5, <3>6 DEF RootMail
    <2>2. RootStops' BY <1>1, <1>2, RootQuiet DEF Heard, RootStops, Over
    <2> QED BY <2>1, <2>2
  <1>7. All(n) \notin S BY TasksApart
  <1> QED BY <1>1, <1>3, <1>4, <1>5, <1>6, <1>7, AloneKeeps

LEMMA LoadHeard == ASSUME IInv, IInv', Heard, NEW n \in Node, Load(n) PROVE Heard'
  <1> USE DEF Load, Goto, Registered, fibers, tree, driver, drivers, records, subtree, results, calls
  <1>0. Adds({}) BY AddsNone
  <1>a. n \in Kin => Refused(n) \/ (Ending(n) /\ Failure(n)) BY DEF Heard, Fate
  <1>2. /\ pc[n] = "refresh" /\ pc'[n] = "apply" /\ st[n] = "Pending" /\ st'[n] = "Loading"
        /\ n # Root /\ n \notin closing /\ terminal[n] = NoTask /\ terminal' = terminal
        /\ cur' = cur /\ mailbox' = mailbox
    BY DEF IInv, Types, Stopping
  <1>1. PICK S \in SUBSET Agains(n) : Alone(n, S)
    <2>1. DriverOnly(n) BY DEF DriverOnly, IInv, Types
    <2>2. pc[n] # "drain" BY <1>2
    <2> QED BY <1>0, <1>2, <2>1, <2>2, DriverAlone
  <1>3. Begun(n)' BY <1>2 DEF Heard, Begun, Over
  <1>4. Restarts(n)' BY <1>2 DEF Heard, Restarts, Busy, Awaited
  <1>5. n \in Kin => Fate(n)' /\ Cleanup(n)'
    <2> SUFFICES ASSUME n \in Kin PROVE Fate(n)' /\ Cleanup(n)' OBVIOUS
    <2>1. Ending(n) => Ending(n)' BY <1>2 DEF Ending
    <2>2. Refused(n) \/ Still(n)
      <3>1. Failure(n) => n \notin failed BY <1>2 DEF Failure
      <3> QED BY <1>a, <3>1 DEF Still
    <2>3. ~ Over(n) /\ ~ Over(n)' BY <1>2 DEF Over
    <2> QED BY <1>1, <2>1, <2>2, <2>3, QuietKeeps
  <1>6. n = Root => RootStops' /\ RootMail'
    <2> SUFFICES ASSUME n = Root PROVE RootStops' /\ RootMail' OBVIOUS
    <2>1. Busy(Root) BY <1>2 DEF Busy
    <2>2. RootMail' BY <1>1, <2>1, RootQuiet
    <2>3. RootStops' BY <1>1, <1>2, RootQuiet DEF Heard, RootStops, Over
    <2> QED BY <2>2, <2>3
  <1>7. All(n) \notin S BY TasksApart
  <1> QED BY <1>1, <1>3, <1>4, <1>5, <1>6, <1>7, AloneKeeps

LEMMA ApplyEndHeard == ASSUME IInv, IInv', Heard, NEW n \in Node, ApplyEnd(n) PROVE Heard'
  <1> USE DEF ApplyEnd, Goto, UnloadTo, fibers, tree, driver, drivers, records, subtree, results, calls
  <1>0. Adds({}) BY AddsNone
  <1>a. n \in Kin => Refused(n) \/ (Ending(n) /\ Failure(n)) BY DEF Heard, Fate
  <1>2. /\ pc[n] = "apply" /\ pc'[n] \in {"unload", "started"} /\ st[n] # "Disposed" /\ st[n] # "unborn"
        /\ st'[n] \in {st[n], "Active"} /\ next'[n] \in {next[n], "Disposed"}
        /\ pc'[n] = "unload" => next'[n] = "Disposed" /\ n \in closing
        /\ cur' = cur /\ mailbox' = mailbox /\ terminal' = terminal
    <2>1. Begun(n) BY DEF Heard
    <2>2. State(n) BY DEF IInv, Drivers
    <2> QED BY <2>1, <2>2 DEF IInv, Types, Begun, State
  <1>1. PICK S \in SUBSET Agains(n) : Alone(n, S)
    <2>1. DriverOnly(n) BY DEF DriverOnly, IInv, Types
    <2>2. pc[n] # "drain" BY <1>2
    <2> QED BY <1>0, <1>2, <2>1, <2>2, DriverAlone
  <1>3. Begun(n)' BY <1>2 DEF Heard, Begun, Over
  <1>4. Restarts(n)' BY <1>2 DEF Heard, Restarts, Busy, Awaited
  <1>5. n \in Kin => Fate(n)' /\ Cleanup(n)'
    <2> SUFFICES ASSUME n \in Kin PROVE Fate(n)' /\ Cleanup(n)' OBVIOUS
    <2>1. Ending(n) => Ending(n)'
      <3>1. n \in closing => terminal[n] # NoTask BY <1>2 DEF Heard, Begun
      <3> QED BY <1>2, <3>1 DEF Ending
    <2>2. Refused(n) \/ Still(n)
      <3>1. Failure(n) => n \notin failed BY <1>2 DEF Failure
      <3> QED BY <1>a, <3>1 DEF Still
    <2>3. ~ Over(n) /\ ~ Over(n)' BY <1>2 DEF Over
    <2> QED BY <1>1, <2>1, <2>2, <2>3, QuietKeeps
  <1>6. n = Root => RootStops' /\ RootMail'
    <2> SUFFICES ASSUME n = Root PROVE RootStops' /\ RootMail' OBVIOUS
    <2>1. Busy(Root) BY <1>2 DEF Busy
    <2>2. RootMail' BY <1>1, <2>1, RootQuiet
    <2>3. RootStops' BY <1>2 DEF Heard, RootStops
    <2> QED BY <2>2, <2>3
  <1>7. All(n) \notin S BY TasksApart
  <1> QED BY <1>1, <1>3, <1>4, <1>5, <1>6, <1>7, AloneKeeps

LEMMA UnloadHeard == ASSUME IInv, IInv', Heard, NEW n \in Node, Unload(n) PROVE Heard'
  <1> USE DEF Unload, Goto, fibers, tree, driver, drivers, records, subtree, results, calls
  <1>0. Adds({}) BY AddsNone
  <1>a. n \in Kin => Refused(n) \/ (Ending(n) /\ Failure(n)) BY DEF Heard, Fate
  <1>2. /\ pc[n] = "unload" /\ pc'[n] = "drain" /\ st[n] # "Disposed" /\ st'[n] = "Unloading"
        /\ st[n] # "unborn"
        /\ cur' = cur /\ mailbox' = mailbox /\ terminal' = terminal /\ next' = next /\ then' = then
    <2>1. Begun(n) BY DEF Heard
    <2>2. State(n) BY DEF IInv, Drivers
    <2> QED BY <2>1, <2>2 DEF IInv, Types, Begun, State
  <1>1. PICK S \in SUBSET Agains(n) : Alone(n, S)
    <2>1. DriverOnly(n) BY DEF DriverOnly, IInv, Types
    <2>2. pc[n] # "drain" BY <1>2
    <2> QED BY <1>0, <1>2, <2>1, <2>2, DriverAlone
  <1>3. Begun(n)' BY <1>2 DEF Heard, Begun, Over
  <1>4. Restarts(n)' BY <1>2 DEF Heard, Restarts, Busy, Awaited
  <1>5. n \in Kin => Fate(n)' /\ Cleanup(n)'
    <2> SUFFICES ASSUME n \in Kin PROVE Fate(n)' /\ Cleanup(n)' OBVIOUS
    <2>1. Ending(n) => Ending(n)' BY <1>2 DEF Ending
    <2>2. Refused(n) \/ Still(n)
      <3>1. Failure(n) => n \notin failed BY <1>2 DEF Failure
      <3> QED BY <1>a, <3>1 DEF Still
    <2>3. ~ Over(n) /\ ~ Over(n)' BY <1>2 DEF Over
    <2> QED BY <1>1, <2>1, <2>2, <2>3, QuietKeeps
  <1>6. n = Root => RootStops' /\ RootMail'
    <2> SUFFICES ASSUME n = Root PROVE RootStops' /\ RootMail' OBVIOUS
    <2>1. Busy(Root) BY <1>2 DEF Busy
    <2>2. RootMail' BY <1>1, <2>1, RootQuiet
    <2>3. RootStops' BY <1>1, <1>2, RootQuiet DEF Heard, RootStops, Over
    <2> QED BY <2>2, <2>3
  <1>7. All(n) \notin S BY TasksApart
  <1> QED BY <1>1, <1>3, <1>4, <1>5, <1>6, <1>7, AloneKeeps

(* A restart that is answered is the one its caller joined; no other is. *)
LEMMA AnswersRestart ==
  ASSUME IInv, Heard, NEW n \in Node, Busy(n), cur[n].kind \in {"refresh", "restart"},
         NEW r, Complete(r), DOMAIN r = Tasks({cur[n].task}),
         UNCHANGED <<mailbox, joined>>, pc'[n] = "recv"
  PROVE  /\ Adds({}) \/ \E t \in Agains(n) : Adds({t}) /\ Answered({t})
         /\ Restarts(n)'
  <1>1. Adds(DOMAIN r) BY AddsOf
  <1>2. Restarts(n) /\ cur[n] \in Fit(n) BY RestartIntents DEF Heard, IInv
  <1>3. CASE cur[n].task = NoTask
    <2>1. Adds({}) BY <1>1, <1>3 DEF Tasks
    <2>2. \A t : Awaited(n, t) => Awaited(n, t)' BY <2>1 DEF Adds, Awaited
    <2>3. Restarts(n)' BY <1>2, <2>2 DEF Restarts, Busy
    <2> QED BY <2>1, <2>3
  <1>4. CASE cur[n].task # NoTask
    <2> DEFINE t == cur[n].task
    <2>1. cur[n].kind = "restart" BY <1>2, <1>4, IntentFacts
    <2>2. t \in Agains(n) BY <1>2, <2>1, RestartIntents DEF IInv
    <2>3. Awaited(n, t) /\ \A i \in DOMAIN mailbox[n] : mailbox[n][i].task # t
      BY <1>2, <2>1 DEF Restarts
    <2>4. Adds({t}) BY <1>1, <1>4 DEF Tasks
    <2> HIDE DEF t
    <2>5. Answered({t})
      <3> SUFFICES ASSUME NEW m \in Node, NEW c \in Callers, t \in {End(m, c), Again(m, c)}
                   PROVE  joined[c] = t
        BY DEF Answered
      <3>0. PICK d \in Callers : t = Again(n, d) BY <2>2 DEF Agains
      <3>1. /\ \A x, y \in Callers \cup {0} : (Again(m, x) = Again(n, y) => m = n) /\ End(m, x) # Again(n, y)
        BY TasksApart
      <3>2. t = Again(m, c) /\ m = n BY <3>0, <3>1
      <3> QED BY <2>3, <3>2 DEF Awaited
    <2>6. \A u : u # t /\ Awaited(n, u) => Awaited(n, u)' BY <2>4 DEF Adds, Awaited
    <2>7. Restarts(n)' BY <1>2, <2>3, <2>6 DEF Restarts, Busy
    <2> QED BY <2>2, <2>4, <2>5, <2>7
  <1> QED BY <1>3, <1>4

LEMMA RestartRefusedHeard == ASSUME IInv, IInv', Heard, NEW n \in Node, RestartRefused(n) PROVE Heard'
  <1> DEFINE r == [t \in {cur[n].task} |-> {"closed"}]
  <1>r. Complete(r) /\ DOMAIN r = Tasks({cur[n].task})
    <2>1. cur[n].task # NoTask BY HandlersTask DEF RestartRefused, Known
    <2> QED BY <2>1 DEF RestartRefused, Tasks
  <1> HIDE DEF r
  <1>2. pc[n] \in {"restart"} /\ pc'[n] = "recv" BY DEF RestartRefused, Goto, IInv, Types
  <1>u. /\ UNCHANGED <<fibers, tree, mailbox, alive, records, subtree, failed, sink, calls>>
        /\ UNCHANGED <<cur, next, then>> /\ pc' = [pc EXCEPT ![n] = "recv"]
    BY DEF RestartRefused, Goto
  <1> USE DEF fibers, tree, driver, drivers, records, subtree, results, calls
  <1>k. Busy(n) /\ cur[n].kind \in {"refresh", "restart"} BY <1>2 DEF Busy, IInv, Drivers, Place
  <1>4. /\ Adds({}) \/ \E t \in Agains(n) : Adds({t}) /\ Answered({t})
        /\ Restarts(n)'
    BY <1>r, <1>2, <1>u, <1>k, AnswersRestart
  <1>1. PICK S \in SUBSET Agains(n) : Alone(n, S)
    <2>1. DriverOnly(n) BY <1>u DEF DriverOnly, IInv, Types
    <2>2. pc[n] # "drain" BY <1>2
    <2> QED BY <1>4, <1>u, <2>1, <2>2, DriverAlone
  <1>3. Begun(n)' BY <1>2, <1>u DEF Heard, Begun, Over
  <1>5. n \in Kin => Fate(n)' /\ Cleanup(n)'
    <2> SUFFICES ASSUME n \in Kin PROVE Fate(n)' /\ Cleanup(n)' OBVIOUS
    <2>1. Ending(n) => Ending(n)' BY <1>2, <1>u DEF Ending
    <2>2. Still(n) BY <1>u DEF Still
    <2>3. ~ Over(n) /\ ~ Over(n)' BY <1>2 DEF Over
    <2> QED BY <1>1, <1>u, <2>1, <2>2, <2>3, QuietKeeps
  <1>6. n = Root => RootStops' /\ RootMail'
    <2> SUFFICES ASSUME n = Root PROVE RootStops' /\ RootMail' OBVIOUS
    <2>2. RootMail' BY <1>1, <1>k, <1>u, RootQuiet
    <2>3. RootStops' BY <1>1, <1>2, <1>u, RootQuiet DEF Heard, RootStops, Over
    <2> QED BY <2>2, <2>3
  <1>7. All(n) \notin S BY TasksApart
  <1> QED BY <1>1, <1>3, <1>4, <1>5, <1>6, <1>7, AloneKeeps

LEMMA HandledHeard == ASSUME IInv, IInv', Heard, NEW n \in Node, Handled(n) PROVE Heard'
  <1> DEFINE r == [t \in Tasks({cur[n].task}) |->
                  IF pc[n] = "started" THEN err[n] ELSE IF Registered(n) THEN {"inactive"} ELSE {}]
  <1>r. Complete(r) /\ DOMAIN r = Tasks({cur[n].task}) BY HandlersTask DEF Handled, Tasks
  <1> HIDE DEF r
  <1>2. pc[n] \in {"over", "started"} /\ pc'[n] = "recv" BY DEF Handled, Goto, IInv, Types
  <1>u. /\ UNCHANGED <<fibers, tree, mailbox, alive, records, subtree, failed, sink, calls>>
        /\ UNCHANGED <<cur, next, then>> /\ pc' = [pc EXCEPT ![n] = "recv"]
    BY DEF Handled, Goto
  <1> USE DEF fibers, tree, driver, drivers, records, subtree, results, calls
  <1>k. Busy(n) /\ cur[n].kind \in {"refresh", "restart"} BY <1>2 DEF Busy, IInv, Drivers, Place
  <1>4. /\ Adds({}) \/ \E t \in Agains(n) : Adds({t}) /\ Answered({t})
        /\ Restarts(n)'
    BY <1>r, <1>2, <1>u, <1>k, AnswersRestart
  <1>1. PICK S \in SUBSET Agains(n) : Alone(n, S)
    <2>1. DriverOnly(n) BY <1>u DEF DriverOnly, IInv, Types
    <2>2. pc[n] # "drain" BY <1>2
    <2> QED BY <1>4, <1>u, <2>1, <2>2, DriverAlone
  <1>3. Begun(n)' BY <1>2, <1>u DEF Heard, Begun, Over
  <1>5. n \in Kin => Fate(n)' /\ Cleanup(n)'
    <2> SUFFICES ASSUME n \in Kin PROVE Fate(n)' /\ Cleanup(n)' OBVIOUS
    <2>1. Ending(n) => Ending(n)' BY <1>2, <1>u DEF Ending
    <2>2. Still(n) BY <1>u DEF Still
    <2>3. ~ Over(n) /\ ~ Over(n)' BY <1>2 DEF Over
    <2> QED BY <1>1, <1>u, <2>1, <2>2, <2>3, QuietKeeps
  <1>6. n = Root => RootStops' /\ RootMail'
    <2> SUFFICES ASSUME n = Root PROVE RootStops' /\ RootMail' OBVIOUS
    <2>2. RootMail' BY <1>1, <1>k, <1>u, RootQuiet
    <2>3. RootStops' BY <1>1, <1>2, <1>u, RootQuiet DEF Heard, RootStops, Over
    <2> QED BY <2>2, <2>3
  <1>7. All(n) \notin S BY TasksApart
  <1> QED BY <1>1, <1>3, <1>4, <1>5, <1>6, <1>7, AloneKeeps

LEMMA PublishHeard == ASSUME IInv, IInv', Heard, NEW n \in Node, Publish(n) PROVE Heard'
  <1>p. PICK e \in SUBSET {n} :
          IF next[n] = "Disposed"
          THEN err' = [err EXCEPT ![n] = e] /\ failed' = failed \cup e /\ UNCHANGED sink
          ELSE sink' = sink \cup e /\ UNCHANGED <<err, failed>>
    BY DEF Publish
  <1>u. /\ UNCHANGED <<gen, terminal, cancelled, tree, mailbox, alive, records, subtree, done, calls>>
        /\ UNCHANGED <<cur, next, then>>
    BY DEF Publish, Goto
  <1> USE DEF tree, records, subtree, calls
  <1>2. /\ pc[n] = "drain" /\ pc' = [pc EXCEPT ![n] = then[n]] /\ held[n] = <<>>
        /\ st' = [st EXCEPT ![n] = next[n]]
        /\ pc'[n] = then[n] /\ then[n] \in {"over", "refresh", "started", "leave"}
        /\ st'[n] = next[n] /\ next[n] \in {"Pending", "Disposed"}
        /\ then[n] = "leave" => next[n] = "Disposed"
    BY DEF Publish, Goto, IInv, Types, Drivers, Place
  <1>3. /\ ~ Over(n) /\ ~ Over(n)' /\ st[n] \notin {"unborn", "Disposed"} /\ Begun(n)
        /\ st[Root] # "unborn"
    BY <1>2 DEF Over, IInv, Drivers, State, Heard, Begun, RootInv
  <1>1. PICK S \in SUBSET Agains(n) : Alone(n, S)
    <2>0. Adds({}) BY <1>u, AddsNone
    <2>1. DriverOnly(n) BY <1>p, <1>2, <1>u DEF DriverOnly, IInv, Types
    <2> QED BY <1>2, <1>3, <1>u, <2>0, <2>1, DriverAlone
  <1>4. Begun(n)' BY <1>2, <1>3, <1>u DEF Begun, Over
  <1>5. Restarts(n)' BY <1>2, <1>u DEF Heard, Restarts, Busy, Awaited
  <1>6. n \in Kin => Fate(n)' /\ Cleanup(n)'
    <2> SUFFICES ASSUME n \in Kin PROVE Fate(n)' /\ Cleanup(n)' OBVIOUS
    <2>1. Record(n) /\ Terminals(n) BY DEF IInv, Records, Links
    <2>2. rec[n] # "done" /\ All(n) \notin DOMAIN done BY <1>3, <2>1 DEF Record, Over
    <2>3. terminal[n] \notin DOMAIN done
      <3>1. NoTask \notin DOMAIN done BY DEF IInv, Types, Known
      <3> QED BY <1>3, <2>1, <3>1 DEF Record, Terminals
    <2>4. Fate(n)'
      <3>1. CASE Refused(n) BY <1>3, <1>2, <1>u, <3>1 DEF Refused, Fate
      <3>2. CASE ~ Refused(n)
        <4>1. Ending(n) /\ Failure(n) BY <3>2 DEF Heard, Fate
        <4>2. Ending(n)' BY <1>2, <1>u, <4>1 DEF Ending
        <4>3. n \notin failed BY <1>3, <4>1 DEF Failure
        <4>4. n \in failed' => st'[n] = "Disposed" /\ n \in err'[n]
          BY <1>p, <1>2, <4>3 DEF IInv, Types
        <4>5. AskedAbove(n) => AskedAbove(n)'
          BY <1>1, AskedAboveStays DEF Alone
        <4>6. Failure(n)' BY <1>u, <2>2, <2>3, <4>1, <4>4, <4>5 DEF Failure
        <4> QED BY <4>2, <4>6 DEF Fate
      <3> QED BY <3>1, <3>2
    <2>5. Cleanup(n)'
      <3>1. Cleanup(n) BY DEF Heard
      <3>2. Parent[n] # n /\ Parent[n] \in Node BY AboveKin, SubtreeAssumption
      <3>3. pc'[Parent[n]] = pc[Parent[n]] BY <1>2, <3>2 DEF IInv, Types
      <3> QED BY <1>2, <1>3, <1>u, <2>2, <3>1, <3>3 DEF Cleanup
    <2> QED BY <2>4, <2>5
  <1>7. n = Root => RootStops' /\ RootMail'
    <2> SUFFICES ASSUME n = Root PROVE RootStops' /\ RootMail' OBVIOUS
    <2>1. Busy(Root) BY <1>2 DEF Busy
    <2>2. RootMail' BY <1>1, <1>u, <2>1, RootQuiet
    <2>3. RootStops /\ RootHeard => RootStops /\ RootHeard' BY <1>1, <1>u, RootQuiet
    <2>4. RootStops BY DEF Heard
    <2>5. Root \in failed' => RootHeard' \/ (pc'[Root] = "leave" /\ Root \in err'[Root])
      <3>1. Root \in failed => RootHeard BY <1>2, <2>4 DEF RootStops
      <3>2. Root \in failed' \ failed => next[Root] = "Disposed" /\ Root \in err'[Root]
        BY <1>p, SubtreeAssumption DEF IInv, Types
      <3> QED BY <1>2, <2>3, <2>4, <3>1, <3>2 DEF RootStops
    <2>6. terminal[Root] \notin DOMAIN done BY <1>3, <2>4 DEF RootStops
    <2>7. RootStops' BY <1>2, <1>3, <1>u, <2>4, <2>5, <2>6 DEF RootStops, Over
    <2> QED BY <2>2, <2>7
  <1>8. All(n) \notin S BY TasksApart
  <1> QED BY <1>1, <1>4, <1>5, <1>6, <1>7, <1>8, AloneKeeps

LEMMA ReviveHeard == ASSUME IInv, IInv', Heard, NEW n \in Node, Revive(n) PROVE Heard'
  <1> DEFINE r == [t \in {cur[n].task} |-> {}]
  <1>r. Complete(r) /\ DOMAIN r = Tasks({cur[n].task})
    <2>1. cur[n].task # NoTask BY HandlersTask DEF Revive, Known
    <2> QED BY <2>1 DEF Revive, Tasks
  <1> HIDE DEF r
  <1>u. /\ pc[n] = "restart" /\ ~ Stopping(n) /\ ~ Registered(n) /\ st[n] = "Disposed"
        /\ st' = [st EXCEPT ![n] = "Active"] /\ err' = [err EXCEPT ![n] = {}]
        /\ terminal' = [terminal EXCEPT ![n] = NoTask]
        /\ pc' = [pc EXCEPT ![n] = "recv"] /\ UNCHANGED <<cur, next, then>>
        /\ UNCHANGED <<gen, tree, mailbox, alive, records, subtree, failed, sink, calls>>
    BY DEF Revive, Goto
  <1> USE DEF tree, records, subtree, calls
  <1>2. pc'[n] = "recv" /\ st'[n] = "Active" /\ terminal'[n] = NoTask
    BY <1>u DEF IInv, Types
  <1>k. Busy(n) /\ cur[n].kind \in {"refresh", "restart"} BY <1>u DEF Busy, IInv, Drivers, Place
  <1>4. /\ Adds({}) \/ \E t \in Agains(n) : Adds({t}) /\ Answered({t})
        /\ Restarts(n)'
    BY <1>r, <1>2, <1>u, <1>k, AnswersRestart
  <1>5. n # Root => terminal[n] = NoTask BY <1>u DEF Registered
  <1>6. n \notin begun BY <1>5 DEF Heard, Begun, IInv, Types, Kin
  <1>1. PICK S \in SUBSET Agains(n) : Alone(n, S)
    <2>1. PICK S \in SUBSET Agains(n) : Adds(S) /\ Answered(S)
      <3>1. Answered({}) BY DEF Answered
      <3> QED BY <1>4, <3>1
    <2>2. Onward /\ CallsStay /\ closed' = closed /\ Registering
      <3>1. ASSUME NEW m \in Node, Refused(m) PROVE Refused(m)'
        <4>1. st'[m] # "unborn" BY <1>2, <1>u, <3>1 DEF Refused, IInv, Types
        <4> QED BY <1>u, <3>1, <4>1 DEF Refused
      <3>2. Registering BY <1>2, <1>5, <1>u DEF Registering, IInv, Types, Kin
      <3> QED BY <1>u, <3>1, <3>2 DEF Onward, CallsStay
    <2>3. ASSUME NEW m \in Node \ {n} PROVE Untouched(m) /\ Spares(S, m)
      <3>1. Untouched(m) BY <1>u DEF Untouched, Still, IInv, Types
      <3>2. Spares(S, m) BY TasksApart DEF Spares
      <3> QED BY <3>1, <3>2
    <2> QED BY <1>u, <2>1, <2>2, <2>3 DEF Alone
  <1>3. Begun(n)' BY <1>2, <1>6, <1>u DEF Heard, Begun, Over
  <1>7. n \in Kin => Fate(n)' /\ Cleanup(n)'
    <2> SUFFICES ASSUME n \in Kin PROVE Fate(n)' /\ Cleanup(n)' OBVIOUS
    <2>0. terminal[n] = NoTask BY <1>5 DEF Kin
    <2>1. Refused(n) BY <1>u, <2>0 DEF Heard, Fate, Ending
    <2>2. Fate(n)' BY <1>1, <2>1 DEF Fate, Alone, Onward
    <2>3. Cleanup(n)' BY <1>2, <1>u, <2>1 DEF Cleanup, Refused
    <2> QED BY <2>2, <2>3
  <1>8. n = Root => RootStops' /\ RootMail'
    <2> SUFFICES ASSUME n = Root PROVE RootStops' /\ RootMail' OBVIOUS
    <2>1. RootStops /\ RootMail BY DEF Heard
    <2>2. RootHeard' \/ Root \notin failed
      <3>1. RootHeard \/ Root \notin failed BY <1>u, <2>1 DEF RootStops
      <3>2. S \cap (Ends(Root) \cup {All(Root)}) = {} BY TasksApart
      <3> QED BY <1>1, <3>1, <3>2, HeardStays DEF Alone
    <2>3. \A i \in DOMAIN mailbox[Root] : mailbox[Root][i].kind # "dispose"
      BY <1>u, <2>1 DEF RootMail, RootStops, RootDue, Stopping
    <2>4. RootMail' BY <1>2, <1>u, <2>3 DEF RootMail, Busy
    <2>5. NoTask \notin DOMAIN done' BY DEF IInv, Types, Known
    <2>6. RootStops' BY <1>2, <1>u, <2>2, <2>5 DEF RootStops, Over
    <2> QED BY <2>4, <2>6
  <1>9. All(n) \notin S BY TasksApart
  <1> QED BY <1>1, <1>3, <1>4, <1>7, <1>8, <1>9, AloneKeeps

LEMMA RootDisposedHeard == ASSUME IInv, IInv', Heard, RootDisposed PROVE Heard'
  <1> DEFINE S == Tasks({terminal[Root]})
             r == [t \in S |-> err[Root]]
  <1>r. Complete(r) /\ DOMAIN r = S /\ \A t \in S : r[t] = err[Root] BY DEF RootDisposed
  <1>u. /\ pc[Root] = "leave" /\ cur[Root].kind = "dispose" /\ pc' = [pc EXCEPT ![Root] = "recv"]
        /\ UNCHANGED <<fibers, tree, cur, next, then, mailbox, alive, records, subtree, failed, sink, calls>>
    BY DEF RootDisposed, Goto
  <1> HIDE DEF r
  <1> USE DEF fibers, tree, records, subtree, calls
  <1>0. Root \in Node /\ Terminals(Root) /\ Root \notin Kin BY SubtreeAssumption DEF IInv, Links, Kin
  <1>1. Adds(S) /\ \A t \in S : t \in DOMAIN done' /\ done'[t] = err[Root]
    BY <1>r, AddsOf
  <1>2. RootStops /\ RootMail /\ Asking /\ Restarts(Root) /\ Begun(Root) BY <1>0 DEF Heard
  <1>3. RootDue BY <1>2, <1>u DEF RootMail, Busy
  <1>4. PICK c \in Callers : terminal[Root] = End(Root, c) BY <1>2, <1>3 DEF RootStops, RootDue
  <1>5. S = {terminal[Root]} /\ S \subseteq Ends(Root) /\ terminal[Root] \in Ends(Root)
    BY <1>0, <1>3, <1>4 DEF Tasks, RootDue, Terminals
  <1> HIDE DEF S
  <1>6. pc'[Root] = "recv" /\ st[Root] = "Disposed" BY <1>0, <1>u DEF IInv, Types, Drivers, State
  <1>7. Answered(S)
    <2> SUFFICES ASSUME NEW m \in Node, NEW d \in Callers, NEW t \in {End(m, d), Again(m, d)}, t \in S
                 PROVE  joined[d] = t
      BY DEF Answered
    <2>1. \A x, y \in Callers \cup {0} : /\ End(m, x) = End(Root, y) => m = Root /\ x = y
                                         /\ End(Root, x) # Again(m, y)
      BY <1>0, TasksApart
    <2>2. t = End(Root, c) BY <1>4, <1>5
    <2>3. m = Root /\ d = c /\ t = End(m, d) BY <2>1, <2>2
    <2> QED BY <1>2, <1>4, <2>3 DEF Asking
  <1>8. Alone(Root, S)
    <2>1. Onward /\ CallsStay /\ closed' = closed /\ Registering
      BY <1>u DEF Onward, CallsStay, Registering, Refused
    <2>2. ASSUME NEW m \in Node \ {Root} PROVE Untouched(m) /\ Spares(S, m)
      <3>1. Untouched(m) BY <1>u DEF Untouched, Still, IInv, Types
      <3>2. Spares(S, m) BY <1>0, <1>5, TasksApart DEF Spares
      <3> QED BY <3>1, <3>2
    <2> QED BY <1>1, <1>7, <1>u, <2>1, <2>2 DEF Alone
  <1>9. Begun(Root)' BY <1>2, <1>6, <1>u DEF Begun, Over
  <1>10. Restarts(Root)'
    <2>1. S \cap Agains(Root) = {} BY <1>0, <1>5, TasksApart
    <2>2. \A t \in Agains(Root) : Awaited(Root, t) => Awaited(Root, t)'
      BY <1>1, <1>u, <2>1 DEF Awaited, Adds
    <2>3. \A i \in DOMAIN mailbox[Root] : mailbox[Root][i].kind = "restart" =>
                                             mailbox[Root][i].task \in Agains(Root)
      BY <1>0, RestartIntents DEF IInv
    <2> QED BY <1>2, <1>6, <1>u, <2>2, <2>3 DEF Restarts, Busy
  <1>11. RootMail' BY <1>2, <1>6, <1>u DEF RootMail, Busy
  <1>12. Root \in failed => RootHeard'
    <2>1. CASE RootHeard
      <3>1. PICK d \in Callers :
              \/ Root \in ret[d]
              \/ /\ cpc[d] = "waiting" /\ joined[d] \in Ends(Root) \cup {All(Root)}
                 /\ joined[d] \in DOMAIN done /\ Root \in done[joined[d]]
        BY <2>1 DEF RootHeard
      <3> QED BY <1>1, <1>3, <1>5, <1>u, <3>1 DEF RootHeard, RootDue, Adds
    <2>2. CASE Root \in err[Root]
      <3>1. joined[c] = terminal[Root] /\ joined[c] # NoTask /\ joined[c] \notin DOMAIN done
        BY <1>0, <1>2, <1>3, <1>4 DEF Asking, RootDue
      <3>2. cpc[c] = "waiting" BY <1>2, <3>1 DEF Asking
      <3> QED BY <1>1, <1>5, <1>u, <2>2, <3>1, <3>2 DEF RootHeard
    <2> QED BY <1>2, <2>1, <2>2 DEF RootStops
  <1>13. RootStops' BY <1>1, <1>2, <1>5, <1>6, <1>u, <1>12 DEF RootStops, Over
  <1>14. All(Root) \notin S BY <1>0, <1>5, TasksApart
  <1> QED BY <1>0, <1>8, <1>9, <1>10, <1>11, <1>13, <1>14, AloneKeeps

LEMMA LeaveHeard == ASSUME IInv, IInv', Heard, NEW n \in Node, Leave(n) PROVE Heard'
  <1> DEFINE S == Swept(n) \cup Tasks({terminal[n], cur[n].task})
             r == [t \in S |-> IF t.what = "restart" /\ cur[n].kind = "shutdown" THEN {"closed"} ELSE err[n]]
  <1>r. Complete(r) /\ DOMAIN r = S BY DEF Leave
  <1>u. /\ pc[n] = "leave" /\ (n = Root => cur[n].kind = "shutdown")
        /\ alive' = alive \ {n} /\ mailbox' = [mailbox EXCEPT ![n] = <<>>]
        /\ pc' = [pc EXCEPT ![n] = IF n = Root THEN "gone" ELSE "release"]
        /\ UNCHANGED <<fibers, tree, cur, next, then, records, subtree, failed, sink, calls>>
    BY DEF Leave, Goto
  <1> USE DEF fibers, tree, records, subtree, calls
  <1>0. /\ Terminals(n) /\ Root \in Node /\ Root \notin Kin /\ cur[n].kind \in {"dispose", "shutdown"}
        /\ st[n] = "Disposed"
    BY <1>u, SubtreeAssumption DEF IInv, Links, Kin, Drivers, Place, State
  <1>1. /\ \A t \in S : /\ t \in Ends(n) \cup Agains(n) \cup (IF n = Root THEN {All(Root)} ELSE {})
                        /\ t \in Agains(n) => \E i \in DOMAIN mailbox[n] :
                             mailbox[n][i].kind = "restart" /\ mailbox[n][i].task = t
                        /\ t \in Ends(n) => t \in {terminal[n], End(n, 0)} /\ (n = Root => t = terminal[n])
                        /\ t \notin Agains(n) => r[t] = err[n]
        /\ n = Root => All(Root) \in S
        /\ terminal[n] # NoTask => terminal[n] \in S
    <2>1. ASSUME NEW x \in Fit(n), x.task # NoTask
          PROVE  \/ x.kind = "restart" /\ x.task \in Agains(n)
                 \/ x.kind = "shutdown" /\ n = Root /\ x.task = All(Root)
                 \/ x.kind = "shutdown" /\ n # Root /\ x.task = End(n, 0)
      BY <2>1, IntentFacts DEF Agains
    <2>2. /\ \A i \in DOMAIN mailbox[n] : mailbox[n][i] \in Fit(n)
          /\ cur[n] \in Fit(n)
      BY RestartIntents DEF IInv
    <2>3. /\ Ends(n) \cap Agains(n) = {} /\ End(n, 0) \in Ends(n) /\ End(n, 0) \notin Agains(n)
          /\ All(Root) \notin Ends(n) \cup Agains(n)
          /\ terminal[n] # NoTask => terminal[n] \in Ends(n) /\ terminal[n] \notin Agains(n)
      BY <1>0, TasksApart, TaskFacts DEF Terminals
    <2>4. ASSUME NEW t \in S
          PROVE  /\ t \in Ends(n) \cup Agains(n) \cup (IF n = Root THEN {All(Root)} ELSE {})
                 /\ t \in Agains(n) => \E i \in DOMAIN mailbox[n] :
                      mailbox[n][i].kind = "restart" /\ mailbox[n][i].task = t
                 /\ t \in Ends(n) => t \in {terminal[n], End(n, 0)} /\ (n = Root => t = terminal[n])
      <3>1. \/ t = terminal[n] /\ t # NoTask
            \/ t = cur[n].task /\ t # NoTask
            \/ (\E i \in DOMAIN mailbox[n] : mailbox[n][i].task = t) /\ t # NoTask
        BY DEF Swept, Tasks
      <3>2. CASE t = terminal[n] /\ t # NoTask BY <2>3, <3>2
      <3>3. CASE t = cur[n].task /\ t # NoTask BY <1>0, <2>1, <2>2, <2>3, <3>3
      <3>4. CASE (\E i \in DOMAIN mailbox[n] : mailbox[n][i].task = t) /\ t # NoTask
        <4>1. PICK i \in DOMAIN mailbox[n] : mailbox[n][i].task = t BY <3>4
        <4> QED BY <2>1, <2>2, <2>3, <3>4, <4>1
      <3> QED BY <3>1, <3>2, <3>3, <3>4
    <2>5. ASSUME NEW t \in S, t \notin Agains(n) PROVE r[t] = err[n]
      <3>1. t \in Ends(n) \/ t = All(Root) BY <2>4, <2>5
      <3>2. t.what # "restart" BY <1>0, <3>1, TaskFacts
      <3> QED BY <3>2
    <2>6. n = Root => All(Root) \in S
      <3>1. n = Root => cur[n].task = All(Root) BY <1>u, <2>2, IntentFacts
      <3>2. All(Root) # NoTask BY <1>0, TasksApart
      <3> QED BY <3>1, <3>2 DEF Tasks
    <2>7. terminal[n] # NoTask => terminal[n] \in S BY DEF Tasks
    <2> QED BY <2>4, <2>5, <2>6, <2>7
  <1>2. Adds(S) /\ \A t \in S : t \in DOMAIN done' /\ done'[t] = r[t]
    BY <1>r, AddsOf
  <1> HIDE DEF S, r
  <1>3. Begun(n) /\ Restarts(n) /\ Asking BY DEF Heard
  <1>4. Answered(S)
    <2> SUFFICES ASSUME NEW m \in Node, NEW d \in Callers, NEW t \in {End(m, d), Again(m, d)}, t \in S
                 PROVE  joined[d] = t
      BY DEF Answered
    <2>0. \A x, y \in Callers \cup {0} : /\ End(m, x) = End(n, y) => m = n /\ x = y
                                         /\ Again(m, x) = Again(n, y) => m = n /\ x = y
                                         /\ End(m, x) # Again(n, y) /\ End(n, x) # Again(m, y)
                                         /\ End(m, x) # All(Root) /\ Again(m, x) # All(Root)
      BY <1>0, TasksApart
    <2>1. CASE t \in Agains(n)
      <3>1. PICK i \in DOMAIN mailbox[n] : mailbox[n][i].kind = "restart" /\ mailbox[n][i].task = t
        BY <1>1, <2>1
      <3>2. Awaited(n, t) BY <1>3, <3>1 DEF Restarts
      <3>3. t = Again(n, d) BY <2>0, <2>1 DEF Agains
      <3> QED BY <3>2, <3>3 DEF Awaited
    <2>2. CASE t \in Ends(n)
      <3>1. t = End(n, d) /\ m = n BY <2>0, <2>2 DEF Ends
      <3>2. t # End(n, 0) BY <2>0, <3>1, NoCallerZero
      <3>3. t = terminal[n] BY <1>1, <2>2, <3>2
      <3> QED BY <1>3, <3>1, <3>3 DEF Asking
    <2>3. t # All(Root) BY <2>0
    <2> QED BY <1>1, <2>1, <2>2, <2>3
  <1>5. pc'[n] = (IF n = Root THEN "gone" ELSE "release") /\ n \notin alive' /\ mailbox'[n] = <<>> /\ Over(n)'
    BY <1>u DEF IInv, Types, Mail, Over
  <1>6. Alone(n, S)
    <2>1. Onward /\ CallsStay /\ closed' = closed /\ Registering
      BY <1>u DEF Onward, CallsStay, Registering, Refused
    <2>2. ASSUME NEW m \in Node \ {n} PROVE Untouched(m) /\ Spares(S, m)
      <3>1. Untouched(m) BY <1>u DEF Untouched, Still, IInv, Types, Mail
      <3>2. Spares(S, m)
        <4>1. /\ (Ends(n) \cup Agains(n)) \cap (Ends(m) \cup Agains(m) \cup {All(m)}) = {}
              /\ n = Root => All(Root) \notin Ends(m) \cup Agains(m) \cup {All(m)}
          BY <1>0, TasksApart
        <4> QED BY <1>1, <4>1 DEF Spares
      <3> QED BY <3>1, <3>2
    <2>3. pc[n] # "drain" BY <1>u
    <2> QED BY <1>2, <1>4, <1>u, <2>1, <2>2, <2>3 DEF Alone
  <1>7. Begun(n)'
    <2>1. n \in closing => n \in begun BY <1>3, <1>u DEF Begun
    <2> QED BY <1>3, <1>5, <1>u, <2>1 DEF Begun
  <1>8. Restarts(n)' BY <1>5 DEF Restarts, Busy
  <1>9. n \in Kin => Fate(n)' /\ Cleanup(n)'
    <2> SUFFICES ASSUME n \in Kin PROVE Fate(n)' /\ Cleanup(n)' OBVIOUS
    <2>1. Fate(n)'
      <3>1. CASE Refused(n) BY <1>u, <3>1 DEF Refused, Fate
      <3>2. CASE ~ Refused(n)
        <4>1. Ending(n) /\ Failure(n) BY <3>2 DEF Heard, Fate
        <4>2. Ending(n)' BY <1>0, <1>5, <1>u, <4>1 DEF Ending
        <4>3. AskedAbove(n) => AskedAbove(n)' BY <1>6, AskedAboveStays DEF Alone
        <4>4. All(n) \notin DOMAIN done'
          <5>1. All(n) \notin S BY <1>1, TasksApart DEF Kin
          <5>2. All(n) \notin DOMAIN done BY <1>u DEF IInv, Records, Record
          <5> QED BY <1>2, <5>1, <5>2 DEF Adds
        <4>5. terminal[n] # NoTask => done'[terminal[n]] = err[n]
          <5>1. terminal[n] # NoTask => terminal[n] \in S /\ terminal[n] \notin Agains(n)
            BY <1>0, <1>1, TasksApart DEF Terminals
          <5> QED BY <1>1, <1>2, <5>1
        <4>6. terminal[n] # NoTask BY <1>u, <4>1 DEF Ending
        <4>7. Failure(n)' BY <1>u, <4>1, <4>3, <4>4, <4>5, <4>6 DEF Failure
        <4> QED BY <4>2, <4>7 DEF Fate
      <3> QED BY <3>1, <3>2
    <2>2. Cleanup(n)' BY <1>5, <1>u DEF Heard, Cleanup, Kin
    <2> QED BY <2>1, <2>2
  <1>10. n = Root => RootStops' /\ RootMail'
    <2> SUFFICES ASSUME n = Root PROVE RootStops' /\ RootMail' OBVIOUS
    <2>1. RootStops BY DEF Heard
    <2>2. closed /\ All(Root) \notin DOMAIN done BY <1>u DEF IInv, RootInv
    <2>3. /\ All(Root) \in DOMAIN done' /\ done'[All(Root)] = err[Root]
          /\ terminal[Root] # NoTask => done'[terminal[Root]] = err[Root]
      <3>1. All(Root) \notin Agains(Root) /\ (terminal[Root] # NoTask => terminal[Root] \notin Agains(Root))
        BY <1>0, TasksApart DEF Terminals
      <3> QED BY <1>1, <1>2, <3>1
    <2>4. Root \in failed => RootHeard'
      <3>1. CASE RootHeard
        <4>1. PICK d \in Callers :
                \/ Root \in ret[d]
                \/ /\ cpc[d] = "waiting" /\ joined[d] \in Ends(Root) \cup {All(Root)}
                   /\ joined[d] \in DOMAIN done /\ Root \in done[joined[d]]
          BY <3>1 DEF RootHeard
        <4>2. CASE Root \in ret[d] BY <1>u, <4>2 DEF RootHeard
        <4>3. CASE Root \notin ret[d]
          <5>1. joined[d] \in Ends(Root) /\ joined[d] # NoTask BY <1>0, <2>2, <4>1, <4>3, TasksApart
          <5>2. done'[joined[d]] = done[joined[d]]
            <6>1. CASE joined[d] \notin S BY <1>2, <4>1, <4>3, <6>1 DEF Adds
            <6>2. CASE joined[d] \in S
              <7>1. joined[d] = terminal[Root] BY <1>1, <5>1, <6>2
              <7> QED BY <2>1, <2>3, <4>1, <4>3, <5>1, <7>1 DEF RootStops
            <6> QED BY <6>1, <6>2
          <5> QED BY <1>2, <1>u, <4>1, <4>3, <5>2 DEF RootHeard, Adds
        <4> QED BY <4>2, <4>3
      <3>2. CASE Root \in err[Root]
        <4>1. PICK c \in Callers : cpc[c] # "idle" /\ joined[c] = All(Root)
          BY <1>3, <2>2 DEF Asking, Asked
        <4>2. All(Root) # NoTask BY <1>0, TasksApart
        <4>3. cpc[c] = "waiting" BY <1>3, <2>2, <4>1, <4>2 DEF Asking
        <4> QED BY <1>u, <2>3, <3>2, <4>1, <4>3 DEF RootHeard
      <3> QED BY <2>1, <3>1, <3>2 DEF RootStops
    <2>5. NoTask \notin DOMAIN done' BY DEF IInv, Types, Known
    <2>6. RootStops' BY <1>0, <1>5, <1>u, <2>1, <2>2, <2>3, <2>4, <2>5 DEF RootStops
    <2>7. RootMail' BY <1>5 DEF RootMail, Busy
    <2> QED BY <2>6, <2>7
  <1>11. All(n) \in S => All(n) \notin DOMAIN done /\ \A m \in Kin : Results(m)'
    <2> SUFFICES ASSUME All(n) \in S PROVE All(n) \notin DOMAIN done /\ \A m \in Kin : Results(m)' OBVIOUS
    <2>1. n = Root /\ All(n) \notin DOMAIN done
      <3>1. All(n) \notin Ends(n) \cup Agains(n) BY TasksApart
      <3>2. n = Root BY <1>1, <3>1
      <3> QED BY <1>u, <3>2 DEF IInv, RootInv
    <2>2. ASSUME NEW m \in Kin PROVE All(m) \notin S
      <3>1. m \in Node \ {n} BY <1>0, <2>1 DEF Kin
      <3> QED BY <1>6, <3>1 DEF Alone, Spares
    <2>3. ASSUME NEW m \in Kin PROVE Results(m)'
      <3>1. Results(m) /\ Onward BY <1>6 DEF Heard, Alone
      <3> QED BY <1>2, <2>2, <3>1, ResultsKeep
    <2> QED BY <2>1, <2>3
  <1> QED BY <1>6, <1>7, <1>8, <1>9, <1>10, <1>11, AloneKeeps

-----------------------------------------------------------------------------
(* The mount records *)

LEMMA RecordAlone ==
  ASSUME IInv, Heard, NEW k \in Kin, rec[k] # "none",
         UNCHANGED <<fibers, closing, closed, kids, mounting, driver, mailbox, alive, subtree,
                     done, failed, calls>>,
         loud' = loud, sink \subseteq sink',
         \A m \in Node \ {k} : rec'[m] = rec[m] /\ joins'[m] = joins[m]
  PROVE  Alone(k, {})
  <1> USE DEF fibers, driver, subtree, calls
  <1>0. Adds({}) /\ Answered({}) BY AddsNone DEF Answered
  <1>1. Onward /\ CallsStay /\ closed' = closed /\ Registering
    <2>1. ASSUME NEW m \in Node, Refused(m) PROVE Refused(m)' BY <2>1 DEF Refused
    <2> QED BY <2>1 DEF Onward, CallsStay, Registering
  <1>2. ASSUME NEW m \in Node \ {k} PROVE Untouched(m) /\ Spares({}, m)
    BY DEF Untouched, Still, Spares
  <1> QED BY <1>0, <1>1, <1>2 DEF Alone

(* What the step of its mount record leaves of a fiber. *)
LEMMA RecordKeeps ==
  ASSUME IInv, IInv', Heard, NEW k \in Kin, Alone(k, {}), rec[k] # "none",
         rec[k] \in {"joining", "done"} => rec'[k] \in {"joining", "done"},
         UNCHANGED <<fibers, closing, closed, kids, mounting, driver, mailbox, alive, subtree,
                     done, failed, loud, calls>>,
         Cleanup(k)'
  PROVE  Heard'
  <1> USE DEF fibers, driver, subtree, calls
  <1>0. k \in Node /\ k # Root BY DEF Kin
  <1>1. Begun(k)'
    <2>1. Begun(k) /\ k \notin mounting BY <1>0 DEF Heard, Begun
    <2> QED BY <2>1 DEF Begun, Over
  <1>2. Restarts(k)' BY <1>0 DEF Heard, Restarts, Busy, Awaited
  <1>3. Fate(k)'
    <2>1. Ending(k) /\ Failure(k) BY DEF Heard, Fate, Refused
    <2>2. Onward /\ Adds({}) /\ Types' /\ Still(k) BY DEF Alone, IInv, Still
    <2>3. Failure(k)' BY <2>1, <2>2, FailureKeeps
    <2>4. Ending(k)' BY <2>1 DEF Ending
    <2> QED BY <2>3, <2>4 DEF Fate
  <1> QED BY <1>0, <1>1, <1>2, <1>3, AloneKeeps

LEMMA ClaimHeard ==
  ASSUME IInv, IInv', Heard, NEW k \in Kin, Claim(k), Over(k) \/ pc[Parent[k]] = "drain",
         UNCHANGED <<fibers, tree, drivers, joins, loud, subtree, results, calls>>
  PROVE  Heard'
  <1> USE DEF tree, drivers, results
  <1>0. k \in Node BY DEF Kin
  <1>1. rec[k] = "live" /\ rec'[k] = "claimed" /\ \A m \in Node \ {k} : rec'[m] = rec[m]
    BY <1>0 DEF Claim, IInv, Types
  <1>2. Alone(k, {}) BY <1>1, RecordAlone
  <1>3. Cleanup(k)' BY <1>1 DEF Heard, Cleanup, Over, driver
  <1> QED BY <1>1, <1>2, <1>3, RecordKeeps

LEMMA DrainHeard == ASSUME IInv, IInv', Heard, NEW n \in Node, Drain(n) PROVE Heard'
  <1> DEFINE k == held[n][Len(held[n])]
  <1>1. k \in Kin /\ Parent[k] = n
    <2>1. held[n] \in Seq(Kin) /\ held[n] # <<>> /\ Mounts(n) BY DEF Drain, IInv, Types, Links
    <2>2. Len(held[n]) \in DOMAIN held[n] BY <2>1
    <2> QED BY <2>1, <2>2 DEF Mounts
  <1>2. Claim(k) /\ pc[n] = "drain" BY DEF Drain
  <1>3. UNCHANGED <<fibers, tree, drivers, joins, loud, subtree, results, calls>> BY DEF Drain
  <1> HIDE DEF k
  <1> QED BY <1>1, <1>2, <1>3, ClaimHeard

LEMMA ReleaseHeard == ASSUME IInv, IInv', Heard, NEW n \in Kin, Release(n) PROVE Heard'
  <1>1. Claim(n) /\ Over(n) BY DEF Release, Over
  <1>2. UNCHANGED <<fibers, tree, drivers, joins, loud, subtree, results, calls>> BY DEF Release
  <1> QED BY <1>1, <1>2, ClaimHeard

LEMMA CleanupLookHeard == ASSUME IInv, IInv', Heard, NEW k \in Kin, CleanupLook(k) PROVE Heard'
  <1> USE DEF tree, drivers, results, OfShutdown
  <1>0. k \in Node BY DEF Kin
  <1>1. /\ rec[k] = "claimed" /\ joins'[k] = inner[k]
        /\ rec'[k] = IF inner[k] = NoTask THEN "cascade" ELSE "joining"
        /\ \A m \in Node \ {k} : rec'[m] = rec[m] /\ joins'[m] = joins[m]
        /\ UNCHANGED <<fibers, tree, drivers, loud, subtree, results, calls>>
    BY <1>0 DEF CleanupLook, IInv, Types
  <1>2. Alone(k, {}) BY <1>1, RecordAlone
  <1>3. inner[k] # NoTask => inner[k] = terminal[k] BY <1>0 DEF Heard, Begun
  <1>4. Cleanup(k)'
    <2>1. Cleanup(k) BY DEF Heard
    <2> QED BY <1>1, <1>3, <2>1 DEF Cleanup, Over, driver, fibers
  <1> QED BY <1>1, <1>2, <1>4, RecordKeeps

LEMMA CleanupEndHeard == ASSUME IInv, IInv', Heard, NEW k \in Kin, CleanupEnd(k) PROVE Heard'
  <1> USE DEF drivers
  <1>0. k \in Node BY DEF Kin
  <1>1. /\ rec[k] = "joining" /\ rec'[k] = "done" /\ joins[k] \in DOMAIN done
        /\ sink' = IF k \in loud THEN sink \cup (done[joins[k]] \cap Node) ELSE sink
        /\ \A m \in Node \ {k} : rec'[m] = rec[m]
        /\ UNCHANGED <<fibers, closing, closed, kids, mounting, born, drivers, joins, loud, subtree,
                       done, failed, calls>>
    BY <1>0 DEF CleanupEnd, IInv, Types
  <1>2. Alone(k, {}) BY <1>1, RecordAlone
  <1>3. Cleanup(k)'
    <2>1. Cleanup(k) /\ Failure(k) BY <1>1 DEF Heard, Fate, Refused
    <2>2. k \in loud /\ k \in failed => k \in sink'
      <3>1. joins[k] = terminal[k] BY <1>1, <2>1 DEF Cleanup
      <3> QED BY <1>0, <1>1, <2>1, <3>1 DEF Failure
    <2> QED BY <1>1, <2>1, <2>2 DEF Cleanup, Over, driver, fibers
  <1> QED BY <1>1, <1>2, <1>3, RecordKeeps

LEMMA GoneHeard == ASSUME IInv, IInv', Heard, NEW n \in Kin, Gone(n) PROVE Heard'
  <1>u. /\ pc[n] = "release" /\ rec[n] \in {"none", "done"}
        /\ kids' = [kids EXCEPT ![Parent[n]] = @ \ {n}]
        /\ pc' = [pc EXCEPT ![n] = "gone"] /\ UNCHANGED <<cur, next, then>>
        /\ UNCHANGED <<fibers, closing, closed, held, mounting, born, mailbox, alive, records, subtree,
                       results, calls>>
    BY DEF Gone, Goto
  <1> USE DEF fibers, records, subtree, results, calls
  <1>0. n \in Node /\ n # Root /\ pc'[n] = "gone" BY <1>u DEF Kin, IInv, Types
  <1>1. \A m \in Node : kids'[m] \subseteq kids[m] BY <1>u DEF IInv, Types
  <1>2. Adds({}) /\ Answered({}) BY <1>u, AddsNone DEF Answered
  <1>3. Onward /\ CallsStay /\ closed' = closed /\ Registering
    BY <1>u DEF Onward, CallsStay, Registering, Refused
  <1>4. ASSUME NEW m \in Node \ {n} PROVE Untouched(m) /\ Spares({}, m)
    BY <1>1, <1>u DEF Untouched, Still, Spares, IInv, Types
  <1>5. Alone(n, {}) BY <1>2, <1>3, <1>4, <1>u DEF Alone
  <1>6. Begun(n)'
    <2>1. Begun(n) BY <1>0 DEF Heard
    <2> QED BY <1>0, <1>1, <1>u, <2>1 DEF Begun, Over
  <1>7. Restarts(n)'
    <2>1. Restarts(n) BY <1>0 DEF Heard
    <2> QED BY <1>0, <1>u, <2>1 DEF Restarts, Busy, Awaited
  <1>8. Fate(n)'
    <2>1. CASE Refused(n) BY <1>0, <1>3, <2>1 DEF Fate, Onward
    <2>2. CASE ~ Refused(n)
      <3>1. Ending(n) /\ Failure(n) BY <2>2 DEF Heard, Fate
      <3>2. Still(n) /\ Types' BY <1>u DEF Still, IInv
      <3>3. Failure(n)' BY <1>2, <1>3, <3>1, <3>2, FailureKeeps
      <3>4. Ending(n)' BY <1>0, <1>u, <3>1 DEF Ending
      <3> QED BY <3>3, <3>4 DEF Fate
    <2> QED BY <2>1, <2>2
  <1>9. Cleanup(n)'
    <2>1. Cleanup(n) BY DEF Heard
    <2> QED BY <1>0, <1>u, <2>1 DEF Cleanup, Over
  <1> QED BY <1>0, <1>5, <1>6, <1>7, <1>8, <1>9, AloneKeeps

-----------------------------------------------------------------------------
(* The task that waits for a subtree *)

LEMMA CoordinateHeard == ASSUME IInv, IInv', Heard, NEW n \in Kin, Coordinate(n) PROVE Heard'
  <1> DEFINE S == {All(n)}
             R == done[inner[n]] \cup UNION {done[All(k)] : k \in {k \in awaits[n] : All(k) \in DOMAIN done}}
             r == [t \in S |-> R]
  <1>u. /\ n \in begun /\ All(n) \notin DOMAIN done /\ inner[n] \in DOMAIN done
        /\ ChildrenEnded(n) /\ Complete(r)
        /\ UNCHANGED <<fibers, tree, drivers, records, subtree, failed, sink, calls>>
    BY DEF Coordinate
  <1> USE DEF fibers, tree, driver, drivers, records, subtree, calls
  <1>0. n \in Node /\ n # Root /\ Kin \subseteq Node BY DEF Kin
  <1>1. Adds(S) /\ All(n) \in DOMAIN done' /\ done'[All(n)] = R
    <2>1. DOMAIN r = S /\ All(n) \in S /\ r[All(n)] = R OBVIOUS
    <2> HIDE DEF r, R
    <2> QED BY <1>u, <2>1, AddsOf
  <1> HIDE DEF r
  <1>2. \A m \in Node \ {n} : Spares(S, m) BY <1>0, TasksApart DEF Spares
  <1>3. Answered(S) BY <1>0, TasksApart DEF Answered
  <1>4. Onward /\ CallsStay /\ closed' = closed /\ Registering
    BY <1>u DEF Onward, CallsStay, Registering, Refused
  <1>5. \A m \in Node : Untouched(m) BY <1>u DEF Untouched, Still
  <1>6. Alone(n, S) BY <1>1, <1>2, <1>3, <1>4, <1>5, <1>u DEF Alone
  <1>7. Begun(n)'
    <2>1. Begun(n) BY <1>0 DEF Heard
    <2> QED BY <1>u, <2>1 DEF Begun, Over
  <1>8. Restarts(n)'
    <2>1. Restarts(n) /\ Asking BY <1>0 DEF Heard
    <2>2. S \cap Agains(n) = {} BY <1>0, TasksApart
    <2> QED BY <1>0, <1>1, <1>4, <1>u, <2>1, <2>2, RestartsStay
  <1>9. Fate(n)'
    <2>1. CASE Refused(n) BY <1>0, <1>4, <2>1 DEF Fate, Onward
    <2>2. CASE ~ Refused(n)
      <3>1. Ending(n) /\ Failure(n) /\ Begun(n) /\ Terminals(n)
        BY <1>0, <2>2 DEF Heard, Fate, IInv, Links
      <3>2. inner[n] = terminal[n] /\ terminal[n] \notin S
        <4>1. All(n) \notin Ends(n) /\ All(n) # NoTask BY <1>0, TasksApart
        <4> QED BY <1>u, <3>1, <4>1 DEF Begun, Terminals
      <3>3. done'[terminal[n]] = done[terminal[n]] BY <1>1, <1>u, <3>2 DEF Adds
      <3>4. AskedAbove(n) => AskedAbove(n)' BY <1>0, <1>4, AskedAboveStays
      <3>5. n \in failed => n \in R BY <1>u, <3>1, <3>2 DEF Failure
      <3>6. Failure(n)' BY <1>1, <1>u, <3>1, <3>2, <3>3, <3>4, <3>5 DEF Failure
      <3>7. Ending(n)' BY <1>u, <3>1 DEF Ending
      <3> QED BY <3>6, <3>7 DEF Fate
    <2> QED BY <2>1, <2>2
  <1>10. Cleanup(n)'
    <2>1. Cleanup(n) BY DEF Heard
    <2> QED BY <1>u, <2>1 DEF Cleanup, Over
  <1>11. ASSUME NEW m \in Kin PROVE Results(m)'
    <2> SUFFICES ASSUME All(m) \in DOMAIN done', NEW k \in awaits[m]
                 PROVE  done'[All(k)] \subseteq done'[All(m)]
      BY <1>u DEF Results
    <2>0. k \in Kin /\ Record(m) /\ Results(m) BY DEF IInv, Types, Records, Kin, Heard
    <2>1. CASE m = n
      <3>1. All(k) \in DOMAIN done BY <1>u, <2>1 DEF ChildrenEnded
      <3>2. done'[All(k)] = done[All(k)] BY <1>1, <1>u, <3>1 DEF Adds
      <3>3. done[All(k)] \subseteq R BY <2>1, <3>1
      <3> QED BY <1>1, <2>1, <3>2, <3>3
    <2>2. CASE m # n
      <3>1. All(m) \in DOMAIN done
        <4>1. All(m) # All(n) BY <1>0, <2>2, TasksApart
        <4> QED BY <1>1, <4>1 DEF Adds
      <3>2. All(k) \in DOMAIN done BY <2>0, <3>1 DEF Record
      <3>3. done'[All(k)] = done[All(k)] /\ done'[All(m)] = done[All(m)]
        BY <1>1, <1>u, <3>1, <3>2 DEF Adds
      <3> QED BY <2>0, <3>1, <3>3 DEF Results
    <2> QED BY <2>1, <2>2
  <1> HIDE DEF S, R
  <1> QED BY <1>0, <1>6, <1>7, <1>8, <1>9, <1>10, <1>11, <1>u, AloneKeeps

(* An intent that nobody waits for is queued. *)
LEMMA QuietMail ==
  ASSUME IInv, Asking, Onward, NEW m \in Node, Restarts(m), NEW x \in Fit(m), x.kind # "restart",
         mailbox'[m] = Append(mailbox[m], x),
         cur'[m] = cur[m], pc'[m] = pc[m], next'[m] = next[m],
         NEW S, Adds(S), S \cap Agains(m) = {}
  PROVE  Restarts(m)'
  <1>1. \A t \in Agains(m) : Awaited(m, t) => Awaited(m, t)' BY AwaitedStays DEF Agains
  <1>2. /\ \A i \in DOMAIN mailbox[m] : mailbox[m][i].kind = "restart" => mailbox[m][i].task \in Agains(m)
        /\ cur[m].kind = "restart" => cur[m].task \in Agains(m)
    BY RestartIntents DEF IInv
  <1>3. mailbox[m] \in Seq(Fit(m)) BY DEF IInv, Mail
  <1>4. \A i \in DOMAIN mailbox'[m] :
          \/ i \in DOMAIN mailbox[m] /\ mailbox'[m][i] = mailbox[m][i]
          \/ mailbox'[m][i] = x
    BY <1>3
  <1>5. x.task \notin Agains(m)
    <2>1. x.task \in {NoTask, All(Root), End(m, 0)} BY IntentFacts
    <2>2. End(m, 0) \in Ends(m) BY DEF Ends
    <2> QED BY <2>1, <2>2, TasksApart, SubtreeAssumption
  <1>6. \A i \in DOMAIN mailbox'[m] : mailbox'[m][i].task \in Agains(m) \/ mailbox'[m][i].kind = "restart" =>
          i \in DOMAIN mailbox[m] /\ mailbox'[m][i] = mailbox[m][i]
    BY <1>4, <1>5
  <1>7. \A i \in DOMAIN mailbox'[m] : mailbox'[m][i].kind = "restart" => mailbox'[m][i].task \in Agains(m)
    BY <1>2, <1>6
  <1>a. Restarts(m) OBVIOUS
  <1>8. (\A i \in DOMAIN mailbox[m] : mailbox[m][i].kind = "restart" => Awaited(m, mailbox[m][i].task))'
    <2> SUFFICES ASSUME NEW i \in DOMAIN mailbox'[m], mailbox'[m][i].kind = "restart"
                 PROVE  Awaited(m, mailbox[m][i].task)'
      OBVIOUS
    <2>1. i \in DOMAIN mailbox[m] /\ mailbox'[m][i] = mailbox[m][i] BY <1>6
    <2>2. mailbox[m][i].task \in Agains(m) /\ Awaited(m, mailbox[m][i].task)
      BY <1>2, <1>a, <2>1 DEF Restarts
    <2> QED BY <1>1, <2>1, <2>2 DEF Awaited
  <1>9. \A i, j \in DOMAIN mailbox'[m] :
          mailbox'[m][i].kind = "restart" /\ mailbox'[m][i].task = mailbox'[m][j].task => i = j
    BY <1>6, <1>7, <1>a DEF Restarts
  <1>10. (Busy(m) /\ cur[m].kind = "restart" =>
            /\ Awaited(m, cur[m].task)
            /\ \A i \in DOMAIN mailbox[m] : mailbox[m][i].task # cur[m].task)'
    <2> SUFFICES ASSUME Busy(m), cur[m].kind = "restart"
                 PROVE  /\ Awaited(m, cur[m].task)'
                        /\ \A i \in DOMAIN mailbox'[m] : mailbox'[m][i].task # cur[m].task
      BY DEF Busy
    <2>1. cur[m].task \in Agains(m) /\ Awaited(m, cur[m].task) BY <1>2, <1>a DEF Restarts
    <2>2. Awaited(m, cur[m].task)' BY <1>1, <2>1 DEF Awaited
    <2> QED BY <1>6, <1>a, <2>1, <2>2 DEF Restarts
  <1>11. pc'[m] \in {"unload", "drain"} /\ next'[m] = "Pending" => cur'[m].kind = "restart"
    BY <1>a DEF Restarts
  <1> QED BY <1>8, <1>9, <1>10, <1>11 DEF Restarts

LEMMA CascadeHeard == ASSUME IInv, IInv', Heard, NEW k \in Kin, Cascade(k) PROVE Heard'
  <1>0. k \in Node /\ k # Root BY DEF Kin
  <1>u. /\ rec[k] = "cascade" /\ rec' = [rec EXCEPT ![k] = "joining"]
        /\ joins' = [joins EXCEPT ![k] = EndOf(k, 0)]
        /\ RegisterDispose(k, 0) /\ terminal' = [terminal EXCEPT ![k] = EndOf(k, 0)]
        /\ loud' = IF st[k] # "Disposed" THEN loud \cup {k} ELSE loud
        /\ UNCHANGED <<st, gen, err, own, tree, driver, alive, subtree, failed, sink, calls>>
    BY DEF Cascade, RegisterDispose, Unheard
  <1> USE DEF tree, driver, subtree, calls
  <1>1. Ending(k) /\ Failure(k) /\ ~ Refused(k) /\ Begun(k) /\ Restarts(k) /\ Cleanup(k) /\ Asking
    BY <1>0, <1>u DEF Heard, Fate, Refused
  <1>2. /\ rec'[k] = "joining" /\ joins'[k] = EndOf(k, 0) /\ terminal'[k] = EndOf(k, 0)
        /\ \A m \in Node \ {k} : rec'[m] = rec[m] /\ joins'[m] = joins[m] /\ terminal'[m] = terminal[m]
    BY <1>0, <1>u DEF IInv, Types
  <1>3. st[k] # "unborn" BY <1>u DEF IInv, Records, Record
  <1>4. terminal[k] = NoTask => st[k] # "Disposed" /\ k \in alive
    <2>1. State(k) BY <1>0 DEF IInv, Drivers
    <2> QED BY <1>1, <1>3, <2>1 DEF Ending, State
  <1>5. Adds({}) BY <1>4, <1>u, AddsNone DEF RegisterDispose
  <1>6. Intent("dispose", NoTask) \in Fit(k) /\ Intent("dispose", NoTask).kind = "dispose"
    BY <1>0, IntentFacts
  <1>7. mailbox'[k] = IF terminal[k] = NoTask THEN Append(mailbox[k], Intent("dispose", NoTask)) ELSE mailbox[k]
    BY <1>0, <1>4, <1>u DEF RegisterDispose, IInv, Mail
  <1>8. \A m \in Node \ {k} : mailbox'[m] = mailbox[m] BY <1>u DEF RegisterDispose, IInv, Mail
  <1>9. End(k, 0) # NoTask BY <1>0, TasksApart DEF Ends
  <1>10. EndOf(k, 0) # NoTask /\ (terminal[k] # NoTask => terminal'[k] = terminal[k])
    BY <1>2, <1>9 DEF EndOf
  <1>11. Alone(k, {})
    <2>1. Onward /\ CallsStay /\ closed' = closed
      <3>1. ASSUME NEW m \in Node, Refused(m) PROVE Refused(m)'
        <4>1. m # k BY <1>1, <3>1
        <4> QED BY <1>2, <1>u, <3>1, <4>1 DEF Refused
      <3> QED BY <1>u, <3>1 DEF Onward, CallsStay
    <2>2. Registering BY <1>2 DEF Registering, EndOf, Kin
    <2>3. ASSUME NEW m \in Node \ {k} PROVE Untouched(m) /\ Spares({}, m)
      BY <1>2, <1>8, <1>u DEF Untouched, Still, Spares
    <2>4. Answered({}) BY DEF Answered
    <2> QED BY <1>0, <1>5, <1>u, <2>1, <2>2, <2>3, <2>4 DEF Alone
  <1>12. Begun(k)' BY <1>0, <1>1, <1>2, <1>3, <1>10, <1>u DEF Begun, Over, IInv, Types
  <1>13. Restarts(k)'
    <2>1. Onward /\ {} \cap Agains(k) = {} BY <1>11 DEF Alone
    <2>2. CASE terminal[k] = NoTask
      BY <1>0, <1>1, <1>5, <1>6, <1>7, <1>u, <2>1, <2>2, QuietMail
    <2>3. CASE terminal[k] # NoTask
      BY <1>0, <1>1, <1>5, <1>7, <1>u, <2>1, <2>3, RestartsStay
    <2> QED BY <2>2, <2>3
  <1>14. Cleanup(k)' BY <1>1, <1>2, <1>10, <1>u DEF Cleanup, Over
  <1>15. Fate(k)'
    <2>1. Ending(k)' BY <1>2, <1>10 DEF Ending
    <2>2. done' = done BY <1>4, <1>u DEF RegisterDispose
    <2>3. CASE terminal[k] = NoTask
      <3>1. k \notin failed /\ k \in loud' BY <1>1, <1>4, <1>u, <2>3 DEF Failure
      <3> QED BY <1>2, <1>u, <2>1, <2>2, <3>1 DEF Fate, Failure
    <2>4. CASE terminal[k] # NoTask
      <3>1. AskedAbove(k) => AskedAbove(k)' BY <1>0, <1>11, AskedAboveStays DEF Alone
      <3>2. Failure(k)' BY <1>1, <1>2, <1>10, <1>u, <2>2, <2>4, <3>1 DEF Failure
      <3> QED BY <2>1, <3>2 DEF Fate
    <2> QED BY <2>3, <2>4
  <1> QED BY <1>0, <1>11, <1>12, <1>13, <1>14, <1>15, AloneKeeps

LEMMA MountHeard == ASSUME IInv, IInv', Heard, NEW n \in Kin, Mount(n) PROVE Heard'
  <1>0. n \in Node /\ n # Root BY DEF Kin
  <1>u. /\ n \in mounting /\ n \in alive /\ mounting' = mounting \ {n}
        /\ rec' = [rec EXCEPT ![n] = "live"] /\ mailbox' = [mailbox EXCEPT ![n] = Append(@, Refresh)]
        /\ UNCHANGED <<fibers, closing, closed, kids, born, driver, alive, joins, loud, subtree,
                       results, calls>>
    BY DEF Mount, Mountable
  <1> USE DEF fibers, driver, subtree, results, calls
  <1>1. Begun(n) /\ Restarts(n) /\ Cleanup(n) /\ Asking /\ rec[n] = "none" /\ ~ Over(n)
    BY <1>0, <1>u DEF Heard, Begun
  <1>2. Ending(n) /\ Failure(n) BY <1>u DEF Heard, Fate, Refused
  <1>3. /\ rec'[n] = "live" /\ mailbox'[n] = Append(mailbox[n], Refresh)
        /\ \A m \in Node \ {n} : rec'[m] = rec[m] /\ mailbox'[m] = mailbox[m]
    BY <1>0, <1>u DEF IInv, Types, Mail
  <1>4. Onward /\ CallsStay /\ closed' = closed /\ Registering
    <2>1. ASSUME NEW m \in Node, Refused(m) PROVE Refused(m)'
      <3>1. m # n BY <1>u, <2>1 DEF Refused
      <3> QED BY <1>3, <1>u, <2>1, <3>1 DEF Refused
    <2> QED BY <1>u, <2>1 DEF Onward, CallsStay, Registering
  <1>5. Adds({}) /\ Answered({}) BY <1>u, AddsNone DEF Answered
  <1>6. ASSUME NEW m \in Node \ {n} PROVE Untouched(m) /\ Spares({}, m)
    BY <1>3, <1>u DEF Untouched, Still, Spares
  <1>7. Alone(n, {}) BY <1>4, <1>5, <1>6, <1>u DEF Alone
  <1>8. Begun(n)' BY <1>1, <1>u DEF Begun, Over
  <1>9. Refresh \in Fit(n) /\ Refresh.kind = "refresh" BY <1>0, IntentFacts
  <1>10. Restarts(n)' BY <1>0, <1>1, <1>3, <1>4, <1>5, <1>9, <1>u, QuietMail
  <1>11. Fate(n)'
    <2>1. Still(n) /\ Types' BY <1>1, <1>u DEF Still, IInv
    <2>2. Failure(n)' BY <1>2, <1>4, <1>5, <2>1, FailureKeeps
    <2>3. mailbox[n] \in Seq(Fit(n)) BY <1>0 DEF IInv, Mail
    <2>4. Ending(n)'
      <3>1. ASSUME NEW i \in DOMAIN mailbox'[n], mailbox'[n][i].kind \in {"dispose", "shutdown"}
            PROVE  terminal[n] # NoTask
        <4>1. i \in DOMAIN mailbox[n] /\ mailbox'[n][i] = mailbox[n][i] BY <1>3, <1>9, <2>3, <3>1
        <4> QED BY <1>2, <3>1, <4>1 DEF Ending
      <3> QED BY <1>2, <1>u, <3>1 DEF Ending
    <2> QED BY <2>2, <2>4 DEF Fate
  <1>12. Cleanup(n)' BY <1>1, <1>3, <1>u DEF Cleanup, Over
  <1> QED BY <1>0, <1>7, <1>8, <1>10, <1>11, <1>12, AloneKeeps

LEMMA SpawnHeard == ASSUME IInv, IInv', Heard, NEW n \in Kin, Spawn(n) PROVE Heard'
  <1> DEFINE S == IF SubtreeClosing(Parent[n]) THEN {End(n, 0)} ELSE {}
  <1>0. n \in Node /\ n # Root /\ Parent[n] \in Node /\ Above[n] = {Parent[n]} \cup Above[Parent[n]]
    BY AboveKin DEF Kin
  <1>u. /\ st[n] = "unborn" /\ (Parent[n] = Root \/ gen[Parent[n]] > 0)
        /\ UNCHANGED <<gen, cancelled, own, closed, held, cur, next, then, mailbox, records, subtree,
                       failed, sink, calls>>
    BY DEF Spawn
  <1> USE DEF records, subtree, calls
  <1>1. /\ pc[n] = "recv" /\ mailbox[n] = <<>> /\ n \notin alive /\ n \notin mounting
        /\ rec[n] = "none" /\ terminal[n] = NoTask /\ n \notin closing /\ n \notin begun
        /\ inner[n] = NoTask /\ n \notin failed
    <2>1. State(n) /\ Record(n) /\ Begun(n) BY <1>0 DEF IInv, Drivers, Records, Heard
    <2>2. Failure(n) BY <1>u DEF Heard, Fate, Refused
    <2> QED BY <1>u, <2>1, <2>2 DEF State, Record, Begun, Failure
  <1>2. Root \in Above[n]
    <2>1. Begun(Parent[n]) BY <1>0 DEF Heard
    <2> QED BY <1>0, <1>u, <2>1 DEF Begun
  <1>3. CASE SubtreeClosing(Parent[n])
    <2>1. /\ st' = [st EXCEPT ![n] = "Disposed"] /\ err' = [err EXCEPT ![n] = {"closed"}]
          /\ terminal' = [terminal EXCEPT ![n] = End(n, 0)] /\ closing' = closing \cup {n}
          /\ Complete([t \in {End(n, 0)} |-> {"closed"}]) /\ pc' = [pc EXCEPT ![n] = "gone"]
          /\ UNCHANGED <<kids, mounting, born, alive>>
      BY <1>3 DEF Spawn
    <2>2. Adds(S) /\ S = {End(n, 0)}
      <3> DEFINE r == [t \in {End(n, 0)} |-> {"closed"}]
      <3>1. Complete(r) /\ DOMAIN r = {End(n, 0)} BY <2>1
      <3> HIDE DEF r
      <3> QED BY <1>3, <3>1, AddsOf
    <2>3. st'[n] = "Disposed" /\ terminal'[n] = End(n, 0) /\ pc'[n] = "gone"
      BY <1>0, <2>1 DEF IInv, Types
    <2>4. \A m \in Node \ {n} : st'[m] = st[m] /\ err'[m] = err[m] /\ terminal'[m] = terminal[m] /\ pc'[m] = pc[m]
      BY <2>1 DEF IInv, Types
    <2>5. Alone(n, S)
      <3>1. Onward /\ CallsStay /\ closed' = closed
        <4>1. ASSUME NEW m \in Node, Refused(m) PROVE Refused(m)'
          <5>1. m # n BY <1>u, <4>1 DEF Refused
          <5> QED BY <1>u, <2>1, <2>4, <4>1, <5>1 DEF Refused
        <4> QED BY <1>u, <4>1 DEF Onward, CallsStay
      <3>2. Registering BY <1>1, <2>3, <2>4 DEF Registering, Kin
      <3>3. Answered(S)
        <4> SUFFICES ASSUME NEW m \in Node, NEW c \in Callers, NEW t \in {End(m, c), Again(m, c)}, t \in S
                     PROVE  FALSE
          BY DEF Answered
        <4>1. t = End(n, 0) BY <2>2
        <4>2. \A x, y \in Callers \cup {0} : /\ End(m, x) = End(n, y) => m = n /\ x = y
                                             /\ End(n, x) # Again(m, y)
          BY <1>0, TasksApart
        <4>3. c = 0 BY <4>1, <4>2
        <4> QED BY <4>3, NoCallerZero
      <3>4. ASSUME NEW m \in Node \ {n} PROVE Untouched(m) /\ Spares(S, m)
        <4>1. Untouched(m) BY <1>u, <2>1, <2>4 DEF Untouched, Still
        <4>2. S \subseteq Ends(n) BY <2>2 DEF Ends
        <4>3. Ends(n) \cap Ends(m) = {} /\ Ends(n) \cap Agains(m) = {} /\ All(m) \notin Ends(n)
          BY <1>0, TasksApart
        <4>4. Spares(S, m) BY <4>2, <4>3 DEF Spares
        <4> QED BY <4>1, <4>4
      <3> QED BY <1>1, <1>u, <2>2, <3>1, <3>2, <3>3, <3>4 DEF Alone
    <2>6. Begun(n)' BY <1>1, <1>2, <1>u, <2>1, <2>3 DEF Begun, Over
    <2>7. Restarts(n)' BY <1>1, <1>u, <2>3 DEF Restarts, Busy
    <2>8. Cleanup(n)' BY <1>1, <1>u DEF Cleanup
    <2>9. Fate(n)' BY <1>1, <1>u, <2>1, <2>3 DEF Fate, Refused
    <2>10. All(n) \notin S BY <1>0, <2>2, TasksApart DEF Ends
    <2> QED BY <1>0, <2>5, <2>6, <2>7, <2>8, <2>9, <2>10, AloneKeeps
  <1>4. CASE ~ SubtreeClosing(Parent[n])
    <2>1. /\ st' = [st EXCEPT ![n] = "Pending"]
          /\ kids' = [kids EXCEPT ![Parent[n]] = @ \cup {n}]
          /\ mounting' = mounting \cup {n} /\ alive' = alive \cup {n}
          /\ UNCHANGED <<err, terminal, closing, done, pc>>
      BY <1>4 DEF Spawn
    <2>2. Adds({}) /\ Answered({}) BY <2>1, AddsNone DEF Answered
    <2>3. st'[n] = "Pending" /\ \A m \in Node \ {n} : st'[m] = st[m] BY <1>0, <2>1 DEF IInv, Types
    <2>4. Parent[n] \notin begun
      <3>1. Begun(Parent[n]) BY <1>0 DEF Heard
      <3> QED BY <1>4, <3>1 DEF Begun, SubtreeClosing
    <2>5. Alone(n, {})
      <3>1. Onward /\ CallsStay /\ closed' = closed /\ Registering
        <4>1. ASSUME NEW m \in Node, Refused(m) PROVE Refused(m)'
          <5>1. m # n BY <1>u, <4>1 DEF Refused
          <5> QED BY <1>u, <2>1, <2>3, <4>1, <5>1 DEF Refused
        <4> QED BY <1>u, <2>1, <4>1 DEF Onward, CallsStay, Registering
      <3>2. ASSUME NEW m \in Node \ {n} PROVE Untouched(m) /\ Spares({}, m)
        <4>1. m \in begun => kids'[m] \subseteq kids[m] BY <2>1, <2>4, SMTT(30) DEF IInv, Types
        <4> QED BY <1>u, <2>1, <2>3, <4>1 DEF Untouched, Still, Spares
      <3> QED BY <1>u, <1>1, <2>1, <2>2, <3>1, <3>2 DEF Alone
    <2>6. Begun(n)' BY <1>1, <1>2, <1>u, <2>1, <2>3 DEF Begun, Over
    <2>7. Restarts(n)' BY <1>1, <1>u, <2>1 DEF Restarts, Busy
    <2>8. Cleanup(n)' BY <1>1, <1>u, <2>1 DEF Cleanup
    <2>9. Fate(n)'
      <3>1. End(n, 0) # NoTask /\ NoTask \notin DOMAIN done' BY <1>0, TasksApart DEF Ends, IInv, Types, Known
      <3> QED BY <1>1, <1>u, <2>1, <2>3, <3>1 DEF Fate, Ending, Failure
    <2> QED BY <1>0, <2>5, <2>6, <2>7, <2>8, <2>9, AloneKeeps
  <1> QED BY <1>3, <1>4

-----------------------------------------------------------------------------
(* The callers *)

(* c, that made no call, joins t. *)
Joining(c, t) ==
  /\ cpc[c] = "idle" /\ cpc' = [cpc EXCEPT ![c] = "waiting"]
  /\ joined' = [joined EXCEPT ![c] = t] /\ ret' = ret

LEMMA JoiningFacts ==
  ASSUME Asking, NEW c \in Callers, NEW t, Joining(c, t)
  PROVE  /\ cpc[c] = "idle" /\ joined[c] = NoTask /\ ret[c] = {}
         /\ cpc'[c] = "waiting" /\ joined'[c] = t
         /\ \A d \in Callers \ {c} : cpc'[d] = cpc[d] /\ joined'[d] = joined[d]
         /\ \A d \in Callers : ret'[d] = ret[d] /\ (cpc[d] # "idle" => cpc'[d] # "idle" /\ joined'[d] = joined[d])
         /\ \A m \in Node : terminal[m] # End(m, c) /\ \A x \in {End(m, c), Again(m, c)} : x \notin DOMAIN done
  <1>1. cpc[c] = "idle" /\ joined[c] = NoTask BY DEF Asking, Joining
  <1>2. \A m \in Node : End(m, c) # NoTask /\ Again(m, c) # NoTask BY TaskFacts DEF Known
  <1>3. ASSUME NEW m \in Node
        PROVE  terminal[m] # End(m, c) /\ \A x \in {End(m, c), Again(m, c)} : x \notin DOMAIN done
    BY <1>1, <1>2 DEF Asking
  <1> QED BY <1>1, <1>3 DEF Asking, Joining

(* Only c's own task is registered, or completes, for a caller. *)
JoiningOwn(c, t, S) ==
  /\ \A m \in Node : terminal'[m] \in {terminal[m], End(m, 0)} \/ (terminal'[m] = t /\ t = End(m, c))
  /\ \A x \in S : \E m \in Node : x = End(m, 0) \/ (x = t /\ t = End(m, c))

LEMMA JoiningAsks ==
  ASSUME Types', Asking, NEW c \in Callers, NEW t \in AnyTask, Joining(c, t), NEW S, Adds(S),
         closed' => closed \/ t = All(Root), JoiningOwn(c, t, S)
  PROVE  Asking'
  <1>1. /\ cpc[c] = "idle" /\ joined[c] = NoTask /\ ret[c] = {}
        /\ cpc'[c] = "waiting" /\ joined'[c] = t
        /\ \A d \in Callers \ {c} : cpc'[d] = cpc[d] /\ joined'[d] = joined[d]
        /\ \A d \in Callers : ret'[d] = ret[d] /\ (cpc[d] # "idle" => cpc'[d] # "idle" /\ joined'[d] = joined[d])
        /\ \A m \in Node : terminal[m] # End(m, c) /\ \A x \in {End(m, c), Again(m, c)} : x \notin DOMAIN done
    BY JoiningFacts
  <1>2. ASSUME NEW d \in Callers, NEW m \in Node, terminal'[m] = End(m, d) PROVE joined'[d] = End(m, d)
    <2>1. End(m, d) # End(m, 0) /\ (End(m, d) = End(m, c) => d = c) BY NoCallerZero, TasksApart
    <2>2. CASE terminal'[m] = terminal[m]
      <3>1. joined[d] = End(m, d) /\ d # c BY <1>1, <1>2, <2>2 DEF Asking
      <3> QED BY <1>1, <3>1
    <2>3. CASE terminal'[m] = t /\ t = End(m, c)
      <3>1. d = c BY <1>2, <2>1, <2>3
      <3> QED BY <1>1, <2>3, <3>1
    <2> QED BY <1>2, <2>1, <2>2, <2>3 DEF JoiningOwn
  <1>3. ASSUME NEW d \in Callers, NEW m \in Node, NEW x \in {End(m, d), Again(m, d)}, x \in DOMAIN done'
        PROVE  joined'[d] = x
    <2>1. CASE x \in DOMAIN done
      <3>1. joined[d] = x BY <2>1 DEF Asking
      <3>2. d # c BY <1>1, <2>1
      <3> QED BY <1>1, <3>1, <3>2
    <2>2. CASE x \in S
      <3>1. PICK k \in Node : x = End(k, 0) \/ (x = t /\ t = End(k, c)) BY <2>2 DEF JoiningOwn
      <3>2. \A y, z \in Callers \cup {0} : /\ End(m, y) = End(k, z) => y = z
                                           /\ End(k, y) # Again(m, z)
        BY TasksApart
      <3>3. x = t /\ d = c BY <3>1, <3>2, NoCallerZero
      <3> QED BY <1>1, <3>3
    <2> QED BY <1>3, <2>1, <2>2 DEF Adds
  <1>4. DOMAIN done \subseteq DOMAIN done' BY DEF Adds
  <1>5. closed' => Asked(All(Root))'
    <2>1. CASE t = All(Root) BY <1>1, <2>1 DEF Asked
    <2>2. CASE closed
      <3>1. PICK d \in Callers : cpc[d] # "idle" /\ joined[d] = All(Root) BY <2>2 DEF Asking, Asked
      <3> QED BY <1>1, <3>1 DEF Asked
    <2> QED BY <2>1, <2>2
  <1>6. cpc' \in [Callers -> {"idle", "waiting", "returned"}] /\ joined' \in [Callers -> AnyTask]
        /\ ret' \in [Callers -> SUBSET Faults]
    BY DEF Asking, Joining
  <1>7. ASSUME NEW d \in Callers
        PROVE  /\ cpc'[d] = "idle" => joined'[d] = NoTask
               /\ cpc'[d] # "returned" => ret'[d] = {}
               /\ cpc'[d] = "returned" /\ joined'[d] # NoTask => joined'[d] \in DOMAIN done'
    <2>1. CASE d = c BY <1>1, <2>1
    <2>2. CASE d # c BY <1>1, <1>4, <2>2 DEF Asking
    <2> QED BY <2>1, <2>2
  <1> QED BY <1>2, <1>3, <1>5, <1>6, <1>7 DEF Asking

LEMMA JoiningTold ==
  ASSUME IInv, Heard, Onward, NEW c \in Callers, NEW t, Joining(c, t), NEW S, Adds(S), failed' = failed,
         NEW n \in Kin, NEW d \in Callers, terminal'[n] = terminal[n] \/ terminal[n] = NoTask,
         All(n) \notin S, t \in Ends(n) => t = terminal'[n]
  PROVE  Told(n, d)'
  <1>0. Asking /\ Told(n, d) BY DEF Heard
  <1>1. /\ cpc'[c] = "waiting" /\ joined'[c] = t
        /\ \A e \in Callers \ {c} : cpc'[e] = cpc[e] /\ joined'[e] = joined[e] /\ ret'[e] = ret[e]
    BY <1>0, JoiningFacts
  <1>2. CASE d = c BY <1>1, <1>2 DEF Told
  <1>3. CASE d # c BY <1>0, <1>1, <1>3, ToldKeeps
  <1> QED BY <1>2, <1>3

LEMMA JoiningHears ==
  ASSUME Asking, NEW c \in Callers, NEW t, Joining(c, t), RootHeard,
         NEW S, Adds(S), S \cap (Ends(Root) \cup {All(Root)}) = {}
  PROVE  RootHeard'
  <1>1. PICK d \in Callers :
          \/ Root \in ret[d]
          \/ /\ cpc[d] = "waiting" /\ joined[d] \in Ends(Root) \cup {All(Root)}
             /\ joined[d] \in DOMAIN done /\ Root \in done[joined[d]]
    BY DEF RootHeard
  <1>2. /\ cpc[c] = "idle" /\ ret[c] = {}
        /\ \A e \in Callers \ {c} : cpc'[e] = cpc[e] /\ joined'[e] = joined[e]
        /\ ret' = ret
    BY JoiningFacts DEF Joining
  <1>3. d # c BY <1>1, <1>2
  <1> QED BY <1>1, <1>2, <1>3 DEF RootHeard, Adds

(* What is left to show when c joins t and the fibers in N are told. *)
LEMMA JoiningKeeps ==
  ASSUME IInv, IInv', Heard, NEW c \in Callers, NEW t \in AnyTask, Joining(c, t),
         NEW N \in SUBSET Node, NEW S, Around(N, S),
         JoiningOwn(c, t, S), closed' => closed \/ t = All(Root), failed' = failed,
         \A m \in Kin : /\ terminal'[m] = terminal[m] \/ terminal[m] = NoTask
                        /\ t \in Ends(m) => t = terminal'[m],
         \A m \in N : Begun(m)' /\ Restarts(m)',
         \A m \in N \ {Root} : Fate(m)' /\ Cleanup(m)',
         Root \in N => RootStops' /\ RootMail',
         S \cap Ends(Root) = {}
  PROVE  Heard'
  <1>0. Types' /\ Asking /\ Root \in Node /\ Onward /\ Adds(S)
    BY SubtreeAssumption DEF IInv, Heard, Around
  <1>1. Asking' BY <1>0, JoiningAsks
  <1>2. \A m \in Node : All(m) \notin S
    <2> SUFFICES ASSUME NEW m \in Node, All(m) \in S PROVE FALSE OBVIOUS
    <2>1. PICK k \in Node : All(m) \in Ends(k)
      <3>1. PICK k \in Node : All(m) = End(k, 0) \/ All(m) = End(k, c) BY DEF JoiningOwn
      <3> QED BY <3>1 DEF Ends
    <2> QED BY <2>1, TasksApart
  <1>3. RootHeard => RootHeard' BY <1>0, <1>2, JoiningHears
  <1>4. ASSUME NEW m \in Kin PROVE Results(m)' /\ \A d \in Callers : Told(m, d)'
    <2>1. m \in Node /\ Results(m) /\ \A k \in Kin : All(k) \notin S BY <1>2 DEF Kin, Heard
    <2>2. Results(m)' BY <1>0, <2>1, ResultsKeep
    <2>3. ASSUME NEW d \in Callers PROVE Told(m, d)'
      BY <1>0, <2>1, JoiningTold
    <2> QED BY <2>2, <2>3
  <1> QED BY <1>1, <1>3, <1>4, AroundKeeps

(* Nothing changes but what a caller knows. *)
LEMMA CallerOnly ==
  ASSUME UNCHANGED <<fibers, tree, drivers, records, subtree, results>>,
         \A c \in Callers : cpc[c] # "idle" => cpc'[c] # "idle" /\ joined'[c] = joined[c]
  PROVE  Onward /\ Around({}, {})
  <1> USE DEF fibers, tree, driver, drivers, records, subtree, results
  <1>1. Onward BY DEF Onward, Refused
  <1>2. Adds({}) BY AddsNone
  <1>3. ASSUME NEW m \in Node PROVE Untouched(m) /\ Spares({}, m) BY DEF Untouched, Still, Spares
  <1> QED BY <1>1, <1>2, <1>3 DEF Around

LEMMA CallerKeeps ==
  ASSUME IInv, IInv', Heard, Around({}, {}), RootHeard => RootHeard', Asking',
         \A m \in Kin : Results(m)' /\ \A c \in Callers : Told(m, c)'
  PROVE  Heard'
  <1>1. /\ {} \in SUBSET Node
        /\ \A m \in {} : Begun(m)' /\ Restarts(m)'
        /\ \A m \in {} \ {Root} : Fate(m)' /\ Cleanup(m)'
    OBVIOUS
  <1> QED BY <1>1, AroundKeeps

LEMMA ResultsSame ==
  ASSUME IInv, Heard, Onward, done' = done PROVE \A m \in Kin : Results(m)'
  <1>1. Adds({}) BY AddsNone
  <1> QED BY <1>1, ResultsKeep DEF Heard

LEMMA CallRestartRefusedHeard ==
  ASSUME IInv, IInv', Heard, NEW c \in Callers, CallRestartRefused(c) PROVE Heard'
  <1>u. /\ cpc[c] = "idle" /\ cpc' = [cpc EXCEPT ![c] = "returned"] /\ joined' = joined
        /\ \E e \in {"closed", "inactive"} : ret' = [ret EXCEPT ![c] = {e}]
        /\ UNCHANGED <<fibers, tree, drivers, records, subtree, results>>
    BY DEF CallRestartRefused, Calling
  <1>0. Asking /\ RootStops BY DEF Heard
  <1>1. /\ joined[c] = NoTask /\ ret[c] = {} /\ cpc'[c] = "returned"
        /\ \A d \in Callers \ {c} : cpc'[d] = cpc[d] /\ ret'[d] = ret[d]
        /\ ret'[c] \subseteq Faults /\ ret' \in [Callers -> SUBSET Faults]
    BY <1>0, <1>u DEF Asking, Faults
  <1>2. Onward /\ Around({}, {})
    <2>1. \A d \in Callers : cpc[d] # "idle" => cpc'[d] # "idle" /\ joined'[d] = joined[d]
      BY <1>1, <1>u
    <2> QED BY <1>u, <2>1, CallerOnly
  <1> USE DEF fibers, tree, results
  <1>3. Asking'
    <2>1. cpc' \in [Callers -> {"idle", "waiting", "returned"}] BY <1>0, <1>u DEF Asking
    <2>2. closed => Asked(All(Root))' BY <1>0, <1>2, AskedStays DEF Asking
    <2> QED BY <1>0, <1>1, <1>u, <2>1, <2>2 DEF Asking
  <1>4. RootHeard => RootHeard'
    <2> SUFFICES ASSUME RootHeard PROVE RootHeard' OBVIOUS
    <2>1. PICK d \in Callers :
            \/ Root \in ret[d]
            \/ /\ cpc[d] = "waiting" /\ joined[d] \in Ends(Root) \cup {All(Root)}
               /\ joined[d] \in DOMAIN done /\ Root \in done[joined[d]]
      BY DEF RootHeard
    <2>2. d # c BY <1>1, <1>u, <2>1
    <2> QED BY <1>1, <1>u, <2>1, <2>2 DEF RootHeard
  <1>5. ASSUME NEW m \in Kin, NEW d \in Callers PROVE Told(m, d)'
    <2>1. Told(m, d) /\ (Refused(m) => Refused(m)') BY <1>2 DEF Heard, Onward, Kin
    <2>2. NoTask \notin Ends(m) /\ All(m) # NoTask BY TasksApart DEF Kin
    <2>3. CASE d = c BY <1>1, <1>u, <2>2, <2>3 DEF Told
    <2>4. CASE d # c BY <1>1, <1>u, <2>1, <2>4 DEF Told
    <2> QED BY <2>3, <2>4
  <1>6. \A m \in Kin : Results(m)' /\ \A d \in Callers : Told(m, d)'
    BY <1>2, <1>5, <1>u, ResultsSame
  <1> QED BY <1>2, <1>3, <1>4, <1>6, CallerKeeps

LEMMA ReturnHeard == ASSUME IInv, IInv', Heard, NEW c \in Callers, Return(c) PROVE Heard'
  <1>u. /\ cpc[c] = "waiting" /\ joined[c] \in DOMAIN done /\ joined' = joined
        /\ cpc' = [cpc EXCEPT ![c] = "returned"] /\ ret' = [ret EXCEPT ![c] = done[joined[c]]]
        /\ UNCHANGED <<fibers, tree, drivers, records, subtree, results>>
    BY DEF Return
  <1>0. Asking /\ RootStops BY DEF Heard
  <1>1. /\ ret[c] = {} /\ cpc'[c] = "returned" /\ ret'[c] = done[joined[c]]
        /\ \A d \in Callers \ {c} : cpc'[d] = cpc[d] /\ ret'[d] = ret[d]
        /\ ret' \in [Callers -> SUBSET Faults]
    BY <1>0, <1>u, ZenonT(30) DEF Asking, IInv, Types
  <1>2. Onward /\ Around({}, {})
    <2>1. \A d \in Callers : cpc[d] # "idle" => cpc'[d] # "idle" /\ joined'[d] = joined[d]
      BY <1>1, <1>u
    <2> QED BY <1>u, <2>1, CallerOnly
  <1> USE DEF fibers, tree, results
  <1>3. Asking'
    <2>1. cpc' \in [Callers -> {"idle", "waiting", "returned"}] BY <1>0, <1>u DEF Asking
    <2>2. closed => Asked(All(Root))' BY <1>0, <1>2, AskedStays DEF Asking
    <2> QED BY <1>0, <1>1, <1>u, <2>1, <2>2 DEF Asking
  <1>4. RootHeard => RootHeard'
    <2> SUFFICES ASSUME RootHeard PROVE RootHeard' OBVIOUS
    <2>1. PICK d \in Callers :
            \/ Root \in ret[d]
            \/ /\ cpc[d] = "waiting" /\ joined[d] \in Ends(Root) \cup {All(Root)}
               /\ joined[d] \in DOMAIN done /\ Root \in done[joined[d]]
      BY DEF RootHeard
    <2>2. CASE d = c BY <1>1, <2>1, <2>2 DEF RootHeard
    <2>3. CASE d # c BY <1>1, <1>u, <2>1, <2>3 DEF RootHeard
    <2> QED BY <2>2, <2>3
  <1>5. ASSUME NEW m \in Kin, NEW d \in Callers PROVE Told(m, d)'
    <2>1. Told(m, d) /\ Fate(m) /\ (Refused(m) => Refused(m)') BY <1>2 DEF Heard, Onward, Kin
    <2>2. CASE d = c
      <3>1. joined[c] \in Ends(m) => joined[c] = terminal[m] BY <2>1, <2>2 DEF Told
      <3>2. joined[c] \in Ends(m) /\ m \in failed => Refused(m) \/ m \in done[joined[c]]
        BY <1>u, <2>1, <3>1 DEF Fate, Failure
      <3> QED BY <1>1, <1>u, <2>1, <2>2, <3>1, <3>2 DEF Told
    <2>3. CASE d # c BY <1>1, <1>u, <2>1, <2>3 DEF Told
    <2> QED BY <2>2, <2>3
  <1>6. \A m \in Kin : Results(m)' /\ \A d \in Callers : Told(m, d)'
    BY <1>2, <1>5, <1>u, ResultsSame
  <1> QED BY <1>2, <1>3, <1>4, <1>6, CallerKeeps

LEMMA StutterHeard == ASSUME IInv, IInv', Heard, UNCHANGED vars PROVE Heard'
  <1>u. UNCHANGED <<fibers, tree, drivers, records, subtree, results>> /\ UNCHANGED <<cpc, joined, ret>>
    BY DEF vars, calls
  <1>1. Onward /\ Around({}, {}) BY <1>u, CallerOnly
  <1> USE DEF fibers, tree, results
  <1>2. Asking'
    <2>1. Asking BY DEF Heard
    <2>2. closed => Asked(All(Root))' BY <1>1, <2>1, AskedStays DEF Asking
    <2> QED BY <1>u, <2>1, <2>2 DEF Asking
  <1>3. RootHeard => RootHeard' BY <1>u DEF RootHeard
  <1>4. ASSUME NEW m \in Kin, NEW d \in Callers PROVE Told(m, d)'
    <2>1. Told(m, d) /\ (Refused(m) => Refused(m)') BY <1>1 DEF Heard, Onward, Kin
    <2> QED BY <1>u, <2>1 DEF Told
  <1>5. \A m \in Kin : Results(m)' /\ \A d \in Callers : Told(m, d)'
    BY <1>1, <1>4, <1>u, ResultsSame
  <1> QED BY <1>1, <1>2, <1>3, <1>5, CallerKeeps

LEMMA CallDisposeHeard == ASSUME IInv, IInv', Heard, NEW c \in Callers, CallDispose(c) PROVE Heard'
  <1>n. PICK n \in Node : n = At(c) /\ st[n] # "unborn" BY CalledAt DEF CallDispose
  <1>0. n \in Node /\ st[n] # "unborn" /\ Root \in Node /\ Root \notin Kin
    BY <1>n, SubtreeAssumption DEF Kin
  <1>u. /\ UNCHANGED <<st, gen, err, own, tree, driver, alive, records, subtree, failed, sink, work>>
        /\ cpc[c] = "idle"
        /\ IF Joins(n)
           THEN Join(c, All(Root)) /\ UNCHANGED <<terminal, cancelled, mailbox, done>>
           ELSE Join(c, EndOf(n, c)) /\ RegisterDispose(n, c)
    BY <1>n DEF CallDispose, Calling, Join
  <1> USE DEF tree, driver, records, subtree
  <1>1. Asking /\ Begun(n) /\ Restarts(n) /\ RootStops /\ RootMail /\ State(n) /\ Terminals(n)
    BY <1>0 DEF Heard, IInv, Drivers, Links
  <1>2. CASE Joins(n)
    <2>1. Joining(c, All(Root)) BY <1>2, <1>u DEF Join, Joining
    <2>2. UNCHANGED <<fibers, tree, drivers, records, subtree, results>>
      BY <1>2, <1>u DEF fibers, drivers, results
    <2>3. Around({}, {}) BY <1>1, <2>1, <2>2, JoiningFacts, CallerOnly
    <2>4. All(Root) \in AnyTask BY <1>0, TaskFacts DEF Known
    <2>5. JoiningOwn(c, All(Root), {}) BY <2>2 DEF JoiningOwn, fibers
    <2>6. \A m \in Kin : /\ terminal'[m] = terminal[m] \/ terminal[m] = NoTask
                         /\ All(Root) \in Ends(m) => All(Root) = terminal'[m]
      BY <1>0, <2>2, TasksApart DEF fibers, Kin
    <2>7. failed' = failed /\ closed' = closed BY <1>u
    <2>8. {} \in SUBSET Node /\ {} \cap Ends(Root) = {} OBVIOUS
    <2>9. /\ \A m \in {} : Begun(m)' /\ Restarts(m)'
          /\ \A m \in {} \ {Root} : Fate(m)' /\ Cleanup(m)'
      OBVIOUS
    <2> QED BY <2>1, <2>3, <2>4, <2>5, <2>6, <2>7, <2>8, <2>9, JoiningKeeps
  <1>3. CASE ~ Joins(n) /\ terminal[n] # NoTask
    <2> DEFINE t == terminal[n]
    <2>1. Joining(c, t) BY <1>3, <1>u DEF Join, Joining, EndOf
    <2>2. UNCHANGED <<fibers, tree, drivers, records, subtree, results>>
      BY <1>0, <1>3, <1>u DEF fibers, drivers, results, RegisterDispose, EndOf, IInv, Types
    <2>3. Around({}, {}) BY <1>1, <2>1, <2>2, JoiningFacts, CallerOnly
    <2>4. t \in AnyTask BY <1>0 DEF IInv, Types
    <2>5. JoiningOwn(c, t, {}) BY <2>2 DEF JoiningOwn, fibers
    <2>6. \A m \in Kin : /\ terminal'[m] = terminal[m] \/ terminal[m] = NoTask
                         /\ t \in Ends(m) => t = terminal'[m]
      <3>1. ASSUME NEW m \in Kin, t \in Ends(m) PROVE m = n
        BY <1>0, <1>1, <1>3, <3>1, TasksApart DEF Terminals, Kin
      <3> QED BY <2>2, <3>1 DEF fibers
    <2>7. failed' = failed /\ closed' = closed BY <1>u
    <2>8. {} \in SUBSET Node /\ {} \cap Ends(Root) = {} OBVIOUS
    <2>9. /\ \A m \in {} : Begun(m)' /\ Restarts(m)'
          /\ \A m \in {} \ {Root} : Fate(m)' /\ Cleanup(m)'
      OBVIOUS
    <2> HIDE DEF t
    <2> QED BY <2>1, <2>3, <2>4, <2>5, <2>6, <2>7, <2>8, <2>9, JoiningKeeps
  <1>4. CASE ~ Joins(n) /\ terminal[n] = NoTask
    <2> DEFINE t == End(n, c)
               S == IF n \in alive THEN {} ELSE {t}
    <2>1. Joining(c, t) BY <1>4, <1>u DEF Join, Joining, EndOf
    <2>2. /\ t \in Ends(n) /\ t \in AnyTask /\ t # NoTask /\ t # End(n, 0)
          /\ \A m \in Node \ {n} : t \notin Ends(m)
      BY <1>0, TaskFacts, TasksApart, NoCallerZero DEF Known
    <2> HIDE DEF t
    <2>3. RegisterDispose(n, c) /\ EndOf(n, c) = t BY <1>4, <1>u DEF EndOf, t
    <2>4. terminal'[n] = t /\ \A m \in Node \ {n} : terminal'[m] = terminal[m]
      BY <1>0, <2>3 DEF RegisterDispose, IInv, Types
    <2>5. n \notin alive => n \in Kin /\ Refused(n)
      <3> SUFFICES ASSUME n \notin alive PROVE n \in Kin /\ Refused(n) OBVIOUS
      <3>1. Over(n) /\ st[n] = "Disposed" BY <1>0, <1>1 DEF State
      <3>2. n # Root BY <1>1, <1>4, <3>1 DEF RootStops, Joins
      <3>3. Refused(n) BY <1>0, <1>4, <3>1, <3>2 DEF Heard, Fate, Ending, Kin
      <3> QED BY <1>0, <3>2, <3>3 DEF Kin
    <2>6. mailbox'[n] = IF n \in alive THEN Append(mailbox[n], Intent("dispose", NoTask)) ELSE mailbox[n]
      BY <1>0, <1>4, <2>3 DEF RegisterDispose, IInv, Mail
    <2>7. \A m \in Node \ {n} : mailbox'[m] = mailbox[m] BY <2>3 DEF RegisterDispose, IInv, Mail
    <2>8. Adds(S)
      <3>1. CASE n \in alive
        <4>1. done' = done BY <2>3, <3>1 DEF RegisterDispose
        <4> QED BY <3>1, <4>1, AddsNone
      <3>2. CASE n \notin alive
        <4> DEFINE r == [x \in {End(n, c)} |-> Stopped(n)]
        <4>1. Complete(r) /\ DOMAIN r = {t} BY <1>4, <2>3, <3>2 DEF RegisterDispose, t
        <4> HIDE DEF r
        <4> QED BY <3>2, <4>1, AddsOf
      <3> QED BY <3>1, <3>2
    <2>9. \A d \in Callers : cpc[d] # "idle" => cpc'[d] # "idle" /\ joined'[d] = joined[d]
      BY <1>1, <2>1, JoiningFacts
    <2>10. t \notin DOMAIN done BY <1>0, <1>1, <2>1, JoiningFacts DEF t
    <2>11. Around({n}, S)
      <3>1. Onward BY <1>u, <2>9 DEF Onward, Refused
      <3>2. ASSUME NEW m \in Node \ {n} PROVE Untouched(m) /\ Spares(S, m)
        <4>1. Untouched(m) BY <1>u, <2>4, <2>7 DEF Untouched, Still
        <4>2. S \subseteq Ends(n) BY <2>2
        <4>3. Ends(n) \cap Ends(m) = {} /\ Ends(n) \cap Agains(m) = {} /\ All(m) \notin Ends(n)
          BY <1>0, TasksApart
        <4> HIDE DEF S
        <4>4. Spares(S, m) BY <4>2, <4>3 DEF Spares
        <4> QED BY <4>1, <4>4
      <3> QED BY <1>u, <2>8, <3>1, <3>2 DEF Around
    <2>12. JoiningOwn(c, t, S) BY <1>0, <2>4 DEF JoiningOwn, t
    <2>13. Begun(n)' BY <1>0, <1>1, <1>4, <1>u, <2>2, <2>4 DEF Begun, Over, IInv, Types
    <2>14. Intent("dispose", NoTask) \in Fit(n) /\ Intent("dispose", NoTask).kind = "dispose"
      BY <1>0, IntentFacts
    <2>15. Restarts(n)'
      <3>1. S \cap Agains(n) = {} BY <1>0, <2>2, TasksApart
      <3>2. Onward BY <2>11 DEF Around
      <3>3. CASE n \in alive BY <1>0, <1>1, <1>u, <2>6, <2>8, <2>14, <3>1, <3>2, <3>3, QuietMail
      <3>4. CASE n \notin alive BY <1>0, <1>1, <1>u, <2>6, <2>8, <3>1, <3>2, <3>4, RestartsStay
      <3> QED BY <3>3, <3>4
    <2>16. n # Root => Fate(n)' /\ Cleanup(n)'
      <3> SUFFICES ASSUME n # Root PROVE Fate(n)' /\ Cleanup(n)' OBVIOUS
      <3>0. n \in Kin BY <1>0 DEF Kin
      <3>1. Cleanup(n)'
        <4>1. Cleanup(n) BY <3>0 DEF Heard
        <4> QED BY <1>4, <1>u, <4>1 DEF Cleanup, Over
      <3>2. CASE Refused(n) BY <1>u, <3>1, <3>2 DEF Fate, Refused
      <3>3. CASE ~ Refused(n)
        <4>1. Ending(n) /\ Failure(n) BY <3>0, <3>3 DEF Heard, Fate
        <4>2. n \notin failed BY <1>4, <4>1 DEF Ending, Failure
        <4>3. Failure(n)' BY <1>u, <2>2, <2>4, <4>2 DEF Failure
        <4>4. Ending(n)' BY <2>2, <2>4 DEF Ending
        <4> QED BY <3>1, <4>3, <4>4 DEF Fate
      <3> QED BY <3>1, <3>2, <3>3 DEF Fate
    <2>17. n = Root => RootStops' /\ RootMail'
      <3> SUFFICES ASSUME n = Root PROVE RootStops' /\ RootMail' OBVIOUS
      <3>1. n \in alive /\ done' = done BY <1>0, <2>3, <2>5 DEF RegisterDispose
      <3>2. ~ closed /\ t = End(Root, c) BY <1>4 DEF Joins, t
      <3>3. RootHeard => RootHeard'
        <4>1. S \cap (Ends(Root) \cup {All(Root)}) = {} BY <3>1
        <4> QED BY <1>1, <2>1, <2>8, <4>1, JoiningHears
      <3>4. mailbox[Root] \in Seq(Fit(Root)) BY <1>0 DEF IInv, Mail
      <3>5. \A i \in DOMAIN mailbox'[Root] : mailbox'[Root][i].kind = "dispose" => i = Len(mailbox[Root]) + 1
        <4>1. \A i \in DOMAIN mailbox[Root] : mailbox[Root][i].kind # "dispose"
          BY <1>1, <1>4 DEF RootMail, RootDue
        <4> QED BY <2>6, <3>1, <3>4, <4>1
      <3>6. RootDue' BY <2>2, <2>4, <2>10, <3>1 DEF RootDue
      <3>7. ~ (Busy(Root) /\ cur[Root].kind = "dispose") BY <1>1, <1>4 DEF RootMail, RootDue
      <3>8. RootMail' BY <1>u, <3>5, <3>6, <3>7 DEF RootMail, Busy
      <3>9. NoTask \notin DOMAIN done BY DEF IInv, Types, Known
      <3>10. RootStops'
        <4> HIDE DEF RootHeard
        <4> QED BY <1>1, <1>4, <1>u, <2>4, <2>10, <3>1, <3>2, <3>3, <3>9 DEF RootStops, Over
      <3> QED BY <3>8, <3>10
    <2>18. \A m \in Kin : /\ terminal'[m] = terminal[m] \/ terminal[m] = NoTask
                          /\ t \in Ends(m) => t = terminal'[m]
      BY <1>4, <2>2, <2>4 DEF Kin
    <2>19. S \cap Ends(Root) = {} BY <1>0, <2>2, <2>5 DEF Kin
    <2>20. {n} \in SUBSET Node /\ failed' = failed /\ closed' = closed BY <1>0, <1>u
    <2>21. /\ \A m \in {n} : Begun(m)' /\ Restarts(m)'
           /\ \A m \in {n} \ {Root} : Fate(m)' /\ Cleanup(m)'
           /\ Root \in {n} => RootStops' /\ RootMail'
      BY <2>13, <2>15, <2>16, <2>17
    <2> HIDE DEF S
    <2> QED BY <2>1, <2>2, <2>11, <2>12, <2>18, <2>19, <2>20, <2>21, JoiningKeeps
  <1> QED BY <1>2, <1>3, <1>4

LEMMA CallRestartHeard == ASSUME IInv, IInv', Heard, NEW c \in Callers, CallRestart(c) PROVE Heard'
  <1>n. PICK n \in Node : n = At(c) /\ st[n] # "unborn" BY CalledAt DEF CallRestart
  <1> DEFINE t == Again(n, c)
             x == Intent("restart", t)
  <1>u. /\ UNCHANGED <<st, gen, err, terminal, own, tree, driver, alive, records, subtree, results>>
        /\ cpc[c] = "idle" /\ n \in alive
        /\ mailbox' = [mailbox EXCEPT ![n] = Append(@, x)] /\ Join(c, t)
    BY <1>n DEF CallRestart, Calling, Join
  <1> USE DEF tree, driver, records, subtree, results
  <1>0. n \in Node /\ Root \in Node BY SubtreeAssumption
  <1>1. Asking /\ Begun(n) /\ Restarts(n) /\ RootStops /\ RootMail BY <1>0 DEF Heard
  <1>2. Joining(c, t) BY <1>u DEF Join, Joining
  <1>3. /\ cpc'[c] = "waiting" /\ joined'[c] = t /\ joined[c] = NoTask /\ t \notin DOMAIN done
        /\ \A d \in Callers : cpc[d] # "idle" => cpc'[d] # "idle" /\ joined'[d] = joined[d]
    BY <1>1, <1>2, JoiningFacts
  <1>4. /\ t \in AnyTask /\ t # NoTask /\ t \in Agains(n)
        /\ \A m \in Node : t \notin Ends(m)
        /\ \A d \in Callers : t = Again(n, d) => d = c
    BY TaskFacts, TasksApart DEF Known, Agains
  <1>5. x \in Fit(n) /\ x.kind = "restart" /\ x.task = t BY IntentFacts DEF Intent
  <1>6. mailbox'[n] = Append(mailbox[n], x) /\ \A m \in Node \ {n} : mailbox'[m] = mailbox[m]
    BY <1>u DEF IInv, Mail
  <1> HIDE DEF t, x
  <1>7. \A i \in DOMAIN mailbox'[n] :
          \/ i \in DOMAIN mailbox[n] /\ mailbox'[n][i] = mailbox[n][i]
          \/ i = Len(mailbox[n]) + 1 /\ mailbox'[n][i] = x
    <2>1. mailbox[n] \in Seq(Fit(n)) BY DEF IInv, Mail
    <2> QED BY <1>6, <2>1
  <1>8. Around({n}, {})
    <2>1. Onward BY <1>3, <1>u DEF Onward, Refused
    <2>2. ASSUME NEW m \in Node \ {n} PROVE Untouched(m) /\ Spares({}, m)
      BY <1>6, <1>u DEF Untouched, Still, Spares
    <2>3. Adds({}) BY <1>u, AddsNone
    <2> QED BY <1>u, <2>1, <2>2, <2>3 DEF Around
  <1>9. Begun(n)' BY <1>1, <1>u DEF Begun, Over
  <1>10. Restarts(n)'
    <2>1. /\ \A i \in DOMAIN mailbox[n] : mailbox[n][i].kind = "restart" => mailbox[n][i].task \in Agains(n)
          /\ cur[n].kind = "restart" => cur[n].task \in Agains(n)
          /\ \A i \in DOMAIN mailbox[n] : mailbox[n][i] \in Fit(n)
      BY RestartIntents DEF IInv
    <2>2. \A a \in Agains(n) : Awaited(n, a) => a # t /\ Awaited(n, a)'
      <3> SUFFICES ASSUME NEW d \in Callers, NEW a, a = Again(n, d), Awaited(n, a)
                   PROVE  a # t /\ Awaited(n, a)'
        BY DEF Agains
      <3>1. joined[d] = a /\ a # NoTask BY TaskFacts DEF Awaited, Known
      <3>2. d # c BY <1>3, <3>1
      <3>3. a # t BY <1>4, <3>2
      <3>4. ASSUME NEW e \in Callers, a = Again(n, e) PROVE joined'[e] = a
        <4>1. joined[e] = a /\ cpc[e] # "idle" BY <1>1, <3>1, <3>4 DEF Awaited, Asking
        <4> QED BY <1>3, <4>1
      <3> QED BY <1>u, <3>3, <3>4 DEF Awaited
    <2>3. \A i \in DOMAIN mailbox[n] : mailbox[n][i].task # t
      <3> SUFFICES ASSUME NEW i \in DOMAIN mailbox[n], mailbox[n][i].task = t PROVE FALSE OBVIOUS
      <3>1. CASE mailbox[n][i].kind = "restart" BY <1>1, <2>1, <2>2, <3>1 DEF Restarts
      <3>2. CASE mailbox[n][i].kind # "restart"
        <4>1. t \in {NoTask, All(Root), End(n, 0)} BY <2>1, <3>2, IntentFacts
        <4>2. End(n, 0) \in Ends(n) BY DEF Ends
        <4> QED BY <1>0, <1>4, <4>1, <4>2, TasksApart
      <3> QED BY <3>1, <3>2
    <2>4. Awaited(n, t)' BY <1>3, <1>4, <1>u DEF Awaited
    <2>5. (\A i \in DOMAIN mailbox[n] : mailbox[n][i].kind = "restart" => Awaited(n, mailbox[n][i].task))'
      <3> SUFFICES ASSUME NEW i \in DOMAIN mailbox'[n], mailbox'[n][i].kind = "restart"
                   PROVE  Awaited(n, mailbox[n][i].task)'
        OBVIOUS
      <3>1. CASE i \in DOMAIN mailbox[n] /\ mailbox'[n][i] = mailbox[n][i]
        <4>1. mailbox[n][i].task \in Agains(n) /\ Awaited(n, mailbox[n][i].task)
          BY <1>1, <2>1, <3>1 DEF Restarts
        <4> QED BY <2>2, <3>1, <4>1 DEF Awaited
      <3>2. CASE mailbox'[n][i] = x BY <1>5, <2>4, <3>2 DEF Awaited
      <3> QED BY <1>7, <3>1, <3>2
    <2>6. \A i, j \in DOMAIN mailbox'[n] :
            mailbox'[n][i].kind = "restart" /\ mailbox'[n][i].task = mailbox'[n][j].task => i = j
      BY <1>1, <1>5, <1>7, <2>3 DEF Restarts
    <2>7. (Busy(n) /\ cur[n].kind = "restart" =>
             /\ Awaited(n, cur[n].task)
             /\ \A i \in DOMAIN mailbox[n] : mailbox[n][i].task # cur[n].task)'
      <3> SUFFICES ASSUME Busy(n), cur[n].kind = "restart"
                   PROVE  /\ Awaited(n, cur[n].task)'
                          /\ \A i \in DOMAIN mailbox'[n] : mailbox'[n][i].task # cur[n].task
        BY <1>u DEF Busy
      <3>1. cur[n].task \in Agains(n) /\ Awaited(n, cur[n].task) BY <1>1, <2>1 DEF Restarts
      <3>2. Awaited(n, cur[n].task)' BY <1>u, <2>2, <3>1 DEF Awaited
      <3> QED BY <1>1, <1>5, <1>7, <2>2, <3>1, <3>2 DEF Restarts
    <2> QED BY <1>1, <1>u, <2>5, <2>6, <2>7 DEF Restarts
  <1>11. n # Root => Fate(n)' /\ Cleanup(n)'
    <2> SUFFICES ASSUME n # Root PROVE Fate(n)' /\ Cleanup(n)' OBVIOUS
    <2>0. n \in Kin BY <1>0 DEF Kin
    <2>1. Cleanup(n)'
      <3>1. Cleanup(n) BY <2>0 DEF Heard
      <3> QED BY <1>u, <3>1 DEF Cleanup, Over
    <2>2. CASE Refused(n) BY <1>u, <2>1, <2>2 DEF Fate, Refused
    <2>3. CASE ~ Refused(n)
      <3>1. Ending(n) /\ Failure(n) BY <2>0, <2>3 DEF Heard, Fate
      <3>2. AskedAbove(n) => AskedAbove(n)' BY <1>8, AskedAboveStays DEF Around
      <3>3. Failure(n)' BY <1>u, <3>1, <3>2 DEF Failure
      <3>4. Ending(n)' BY <1>5, <1>7, <1>u, <3>1 DEF Ending
      <3> QED BY <2>1, <3>3, <3>4 DEF Fate
    <2> QED BY <2>2, <2>3
  <1>12. n = Root => RootStops' /\ RootMail'
    <2> SUFFICES ASSUME n = Root PROVE RootStops' /\ RootMail' OBVIOUS
    <2>1. RootHeard => RootHeard'
      <3>1. Adds({}) BY <1>u, AddsNone
      <3> QED BY <1>1, <1>2, <3>1, JoiningHears
    <2>2. RootMail' BY <1>1, <1>5, <1>7, <1>u DEF RootMail, RootDue, Busy
    <2>3. RootStops'
      <3> HIDE DEF RootHeard
      <3> QED BY <1>1, <1>u, <2>1 DEF RootStops, Over
    <2> QED BY <2>2, <2>3
  <1>13. JoiningOwn(c, t, {}) BY <1>u DEF JoiningOwn
  <1>14. \A m \in Kin : /\ terminal'[m] = terminal[m] \/ terminal[m] = NoTask
                        /\ t \in Ends(m) => t = terminal'[m]
    BY <1>4, <1>u DEF Kin
  <1>15. {n} \in SUBSET Node /\ failed' = failed /\ closed' = closed /\ {} \cap Ends(Root) = {}
    BY <1>u
  <1>16. /\ \A m \in {n} : Begun(m)' /\ Restarts(m)'
         /\ \A m \in {n} \ {Root} : Fate(m)' /\ Cleanup(m)'
         /\ Root \in {n} => RootStops' /\ RootMail'
    BY <1>9, <1>10, <1>11, <1>12
  <1> QED BY <1>2, <1>4, <1>8, <1>13, <1>14, <1>15, <1>16, JoiningKeeps

-----------------------------------------------------------------------------
(* The shutdown of a subtree begins *)

LEMMA AboveAbove == ASSUME NEW m \in Node, NEW a \in Above[m] PROVE Above[a] \subseteq Above[m]
  <1>1. a \in Node /\ m # Root BY AboveRoot DEF Above
  <1>2. ASSUME NEW x \in Above[a], NEW S \in SUBSET Node, Upward(S), Parent[m] \in S PROVE x \in S
    <2>1. a \in S BY <1>1, <1>2 DEF Above
    <2>2. a # Root => Parent[a] \in S BY <1>2, <2>1 DEF Upward
    <2> QED BY <1>1, <1>2, <2>2 DEF Above
  <1> QED BY <1>1, <1>2 DEF Above

(* What is between n and one that n's children lists lead to is in them, and *)
(* so is the parent.                                                         *)
LEMMA InUp ==
  ASSUME NEW n \in Kin, NEW m \in In(n), NEW a \in Between(n, m)
  PROVE  a \in Kin /\ Parent[a] \in In(n) /\ a \in kids[Parent[a]]
  <1>1. n \in Node /\ m \in Node BY DEF In, Kin
  <1>2. a \in {m} \cup Above[m] /\ n \in Above[a] /\ a \in Node BY <1>1, AboveNode DEF Between
  <1>3. a \in Kin BY <1>2, AboveRoot DEF Kin
  <1>4. Parent[a] \in Node /\ Above[a] = {Parent[a]} \cup Above[Parent[a]] BY <1>3, AboveKin
  <1>5. m # n
    <2> SUFFICES ASSUME m = n PROVE FALSE OBVIOUS
    <2>1. n \notin Above[n] BY <1>1, SubtreeAssumption
    <2>2. a \in Above[n] BY <1>2, <2>1
    <2>3. n \in Above[n] BY <1>1, <1>2, <2>2, AboveAbove
    <2> QED BY <2>1, <2>3
  <1>6. \A b \in Between(n, m) : b \in kids[Parent[b]] BY <1>5 DEF In
  <1>7. Above[a] \subseteq Above[m] BY <1>1, <1>2, AboveAbove
  <1>8. CASE Parent[a] = n BY <1>3, <1>6, <1>8, InTree
  <1>9. CASE Parent[a] # n
    <2>1. n \in Above[Parent[a]] BY <1>2, <1>4, <1>9
    <2>2. Between(n, Parent[a]) \subseteq Between(n, m) BY <1>4, <1>7 DEF Between
    <2>3. Parent[a] \in In(n) BY <1>4, <1>6, <2>1, <2>2 DEF In
    <2> QED BY <1>3, <1>6, <2>3
  <1> QED BY <1>8, <1>9

LEMMA BeginHeard ==
  ASSUME IInv, IInv', Heard, NEW n \in Kin, st[n] # "unborn", BeginShutdown(n),
         UNCHANGED <<st, gen, err, own, closed, kids, held, born, driver, alive, records, failed, sink>>,
         mounting' = mounting \/ (mounting' = mounting \ {n} /\ n \notin begun),
         \A d \in Callers : cpc[d] # "idle" => cpc'[d] # "idle" /\ joined'[d] = joined[d],
         Refused(n)' \/ Asked(All(n))'
  PROVE  \E N \in SUBSET Kin : \E S \in SUBSET {End(m, 0) : m \in Kin} :
           /\ Around(N, S) /\ Registering
           /\ \A m \in N : Begun(m)' /\ Restarts(m)' /\ Fate(m)' /\ Cleanup(m)'
  <1> DEFINE new == In(n) \ begun
             ends == {m \in new : terminal[m] = NoTask}
             S == {End(m, 0) : m \in ends \ alive}
             r == [t \in S |-> Stopped(t.of)]
  <1> USE DEF driver, records
  <1>0. /\ Kin \subseteq Node /\ n \in In(n) /\ In(n) \subseteq Kin /\ new \subseteq Kin /\ ends \subseteq new
        /\ Root \notin Kin /\ n \in Node
    BY InTree DEF Kin
  <1>1. /\ closing' = closing \cup In(n) /\ begun' = begun \cup new
        /\ awaits' = [m \in Node |-> IF m \in new THEN kids[m] ELSE awaits[m]]
        /\ terminal' = [m \in Node |-> IF m \in ends THEN End(m, 0) ELSE terminal[m]]
        /\ inner' = [m \in Node |-> IF m \in new THEN terminal'[m] ELSE inner[m]]
        /\ mailbox' = [m \in Node |-> IF m \in ends \cap alive
                                      THEN Append(mailbox[m], Intent("shutdown", End(m, 0)))
                                      ELSE mailbox[m]]
        /\ Complete(r)
    BY DEF BeginShutdown
  <1>2. Adds(S)
    <2>1. DOMAIN r = S OBVIOUS
    <2> HIDE DEF r, S
    <2> QED BY <1>1, <2>1, AddsOf
  <1> HIDE DEF r
  <1>3. \A m \in In(n) : st[m] # "unborn"
    <2>1. ASSUME NEW m \in In(n), m # n PROVE st[m] # "unborn"
      <3>1. m \in Kin /\ m \in kids[Parent[m]] BY <2>1, InTree
      <3>2. Parent[m] \in Node BY <3>1, AboveKin
      <3> QED BY <3>1, <3>2 DEF IInv, Links, Born
    <2> QED BY <2>1
  <1>4. \A m \in Node : m \in In(n) /\ m \notin new => m \in begun OBVIOUS
  <1>5. \A m \in Node \ new : \A t \in S : t \notin Ends(m) \cup Agains(m) \cup {All(m)}
    <2> SUFFICES ASSUME NEW m \in Node \ new, NEW k \in new
                 PROVE  End(k, 0) \notin Ends(m) \cup Agains(m) \cup {All(m)}
      OBVIOUS
    <2>1. k \in Node /\ End(k, 0) \in Ends(k) BY <1>0 DEF Ends
    <2> QED BY <2>1, TasksApart
  <1>6. S \subseteq {End(m, 0) : m \in Kin} BY <1>0
  <1>7. \A m \in new : m \in ends \ alive \/ End(m, 0) \notin S
    <2> SUFFICES ASSUME NEW m \in new, NEW k \in ends \ alive, End(m, 0) = End(k, 0) PROVE m = k
      OBVIOUS
    <2> QED BY <1>0, TasksApart
  <1>8. \A m \in new : S \cap Ends(m) \subseteq {End(m, 0)} /\ S \cap Agains(m) = {} /\ All(m) \notin S
    <2> SUFFICES ASSUME NEW m \in new, NEW k \in ends
                 PROVE  /\ End(k, 0) \in Ends(m) => End(k, 0) = End(m, 0)
                        /\ End(k, 0) \notin Agains(m) /\ End(k, 0) # All(m)
      OBVIOUS
    <2>1. k \in Node /\ m \in Node /\ End(k, 0) \in Ends(k) BY <1>0 DEF Ends
    <2> QED BY <2>1, TasksApart
  <1> HIDE DEF S, ends, new
  <1>9. /\ \A m \in Node \ new : /\ terminal'[m] = terminal[m] /\ inner'[m] = inner[m]
                                 /\ awaits'[m] = awaits[m] /\ mailbox'[m] = mailbox[m]
        /\ \A m \in new : /\ terminal'[m] = EndOf(m, 0) /\ inner'[m] = terminal'[m] /\ awaits'[m] = kids[m]
                          /\ mailbox'[m] = IF terminal[m] = NoTask /\ m \in alive
                                           THEN Append(mailbox[m], Intent("shutdown", End(m, 0)))
                                           ELSE mailbox[m]
    BY <1>0, <1>1 DEF EndOf, ends
  <1>10. Onward
    <2>1. \A m \in begun : m \in Node \ new BY <1>0 DEF new, IInv, Types
    <2>2. \A m \in Node : Refused(m) => Refused(m)' BY DEF Refused
    <2> QED BY <1>1, <1>9, <2>1, <2>2 DEF Onward
  <1>11. ASSUME NEW m \in Node \ new PROVE Untouched(m) /\ Spares(S, m)
    <2>1. m \in closing' <=> m \in closing
      <3>1. m \in In(n) => m \in closing BY <1>4 DEF Heard, Begun
      <3> QED BY <1>1, <3>1
    <2>2. m \in mounting' <=> m \in mounting
      <3>1. m # n \/ n \in begun BY <1>0, <1>4
      <3> QED BY <3>1
    <2>3. m \in begun' <=> m \in begun BY <1>1
    <2>4. Untouched(m) BY <1>9, <2>1, <2>2, <2>3 DEF Untouched, Still
    <2>5. Spares(S, m) BY <1>5 DEF Spares
    <2> QED BY <2>4, <2>5
  <1>12. Around(new, S)
    <2>1. Root \notin new BY <1>0
    <2> QED BY <1>2, <1>10, <1>11, <2>1 DEF Around
  <1>13. Registering
    <2>1. \A m \in Node : terminal'[m] = terminal[m] \/ (terminal[m] = NoTask /\ terminal'[m] = End(m, 0))
      BY <1>9 DEF EndOf
    <2> QED BY <1>0, <2>1 DEF Registering
  <1>14. ASSUME NEW m \in new PROVE AskedAbove(m)'
    <2>1. m \in In(n) /\ m \in Node /\ n \in {m} \cup Above[m] BY <1>0 DEF new, In
    <2>2. ASSUME NEW a \in Between(n, m) PROVE a \in awaits'[Parent[a]] /\ Parent[a] \in begun'
      <3>1. Parent[a] \in In(n) /\ a \in kids[Parent[a]] BY <2>1, <2>2, InUp
      <3>2. CASE Parent[a] \in new BY <1>1, <1>9, <3>1, <3>2
      <3>3. CASE Parent[a] \notin new
        <4>1. Parent[a] \in begun /\ Parent[a] \in Node BY <1>0, <1>4, <3>1, <3>3
        <4>2. kids[Parent[a]] \subseteq awaits[Parent[a]] BY <4>1 DEF Heard, Begun
        <4> QED BY <1>1, <1>9, <3>1, <3>3, <4>1, <4>2
      <3> QED BY <3>2, <3>3
    <2>3. n \in ({m} \cup Above[m]) \ {Root} BY <1>0, <2>1
    <2> QED BY <2>2, <2>3 DEF AskedAbove
  <1>15. ASSUME NEW m \in new PROVE Begun(m)' /\ Restarts(m)' /\ Fate(m)' /\ Cleanup(m)'
    <2>0. /\ m \in Kin /\ m \in Node /\ m \in In(n) /\ m \notin begun /\ st[m] # "unborn"
          /\ Begun(m) /\ Restarts(m) /\ Cleanup(m) /\ Fate(m) /\ State(m) /\ Asking
      BY <1>0, <1>3 DEF new, Heard, IInv, Drivers
    <2>1. End(m, 0) # NoTask /\ terminal'[m] # NoTask
      BY <1>9, <2>0, TasksApart DEF Ends, EndOf
    <2>2. Begun(m)' BY <1>1, <1>9, <2>0, <2>1 DEF Begun, Over
    <2>3. Restarts(m)'
      <3>1. Intent("shutdown", End(m, 0)) \in Fit(m) /\ Intent("shutdown", End(m, 0)).kind = "shutdown"
        BY <1>0, <2>0, IntentFacts DEF Intent
      <3>2. S \cap Agains(m) = {} BY <1>8
      <3>3. CASE mailbox'[m] = mailbox[m] BY <1>2, <1>10, <2>0, <3>2, <3>3, RestartsStay
      <3>4. CASE mailbox'[m] = Append(mailbox[m], Intent("shutdown", End(m, 0)))
        BY <1>2, <1>10, <2>0, <3>1, <3>2, <3>4, QuietMail
      <3> QED BY <1>9, <3>3, <3>4
    <2>4. Cleanup(m)' BY <1>9, <2>0 DEF Cleanup, Over, EndOf
    <2>5. Fate(m)'
      <3>1. CASE Refused(m) BY <1>10, <2>0, <3>1 DEF Onward, Fate
      <3>2. CASE ~ Refused(m)
        <4>1. Ending(m) /\ Failure(m) BY <2>0, <3>2 DEF Fate
        <4>2. Ending(m)' BY <2>1 DEF Ending
        <4>3. CASE terminal[m] = NoTask
          <5>1. m \notin failed BY <4>1, <4>3 DEF Ending, Failure
          <5> QED BY <1>14, <4>2, <5>1 DEF Fate, Failure
        <4>4. CASE terminal[m] # NoTask
          <5>1. terminal'[m] = terminal[m] BY <1>9, <4>4 DEF EndOf
          <5>2. S \cap (Ends(m) \cup {All(m)}) = {} BY <1>7, <1>8, <4>4 DEF ends
          <5>3. Types' /\ Still(m) BY <5>1 DEF Still, IInv
          <5>4. Failure(m)' BY <1>2, <1>10, <2>0, <4>1, <5>2, <5>3, FailureKeeps
          <5> QED BY <4>2, <5>4 DEF Fate
        <4> QED BY <4>3, <4>4
      <3> QED BY <3>1, <3>2
    <2> QED BY <2>2, <2>3, <2>4, <2>5
  <1> QED BY <1>0, <1>6, <1>12, <1>13, <1>15

LEMMA BeginQuiet ==
  ASSUME NEW N \in SUBSET Kin, NEW S \in SUBSET {End(m, 0) : m \in Kin}, Around(N, S), Registering
  PROVE  /\ N \in SUBSET Node /\ Root \notin N /\ closed' = closed
         /\ \A m \in Node : terminal'[m] \in {terminal[m], End(m, 0)}
         /\ \A m \in Kin : terminal'[m] = terminal[m] \/ terminal[m] = NoTask
         /\ \A m \in Node : All(m) \notin S
         /\ S \cap Ends(Root) = {}
         /\ \A m \in Node : \A c \in Callers : \A t \in {End(m, c), Again(m, c)} : t \notin S
  <1>0. Root \in Node /\ Root \notin Kin /\ Kin \subseteq Node BY SubtreeAssumption DEF Kin
  <1>1. N \in SUBSET Node /\ Root \notin N BY <1>0
  <1>2. Untouched(Root) /\ closed' = closed BY <1>0, <1>1 DEF Around
  <1>3. ASSUME NEW m \in Node PROVE terminal'[m] \in {terminal[m], End(m, 0)}
    <2>1. CASE m = Root BY <1>2, <2>1 DEF Untouched, Still
    <2>2. CASE m # Root BY <2>2 DEF Registering, Kin
    <2> QED BY <2>1, <2>2
  <1>4. ASSUME NEW m \in Node, NEW k \in Kin, NEW c \in Callers
        PROVE  /\ All(m) # End(k, 0) /\ End(m, c) # End(k, 0) /\ Again(m, c) # End(k, 0)
               /\ End(k, 0) \notin Ends(Root)
    <2>1. k \in Node /\ k # Root /\ End(k, 0) \in Ends(k) BY DEF Kin, Ends
    <2> QED BY <1>0, <2>1, TasksApart, NoCallerZero
  <1>5. \A m \in Node : All(m) \notin S
    <2> SUFFICES ASSUME NEW m \in Node, NEW k \in Kin PROVE All(m) # End(k, 0) OBVIOUS
    <2>1. k \in Node /\ End(k, 0) \in Ends(k) BY DEF Kin, Ends
    <2> QED BY <2>1, TasksApart
  <1>6. S \cap Ends(Root) = {}
    <2> SUFFICES ASSUME NEW k \in Kin PROVE End(k, 0) \notin Ends(Root) OBVIOUS
    <2>1. k \in Node /\ k # Root /\ End(k, 0) \in Ends(k) BY DEF Kin, Ends
    <2> QED BY <1>0, <2>1, TasksApart
  <1>7. \A m \in Kin : terminal'[m] = terminal[m] \/ terminal[m] = NoTask BY DEF Registering
  <1> QED BY <1>1, <1>2, <1>3, <1>4, <1>5, <1>6, <1>7

LEMMA CallShutdownHeard == ASSUME IInv, IInv', Heard, NEW c \in Callers, CallShutdown(c) PROVE Heard'
  <1>n. PICK n \in Node : n = At(c) /\ st[n] # "unborn" BY CalledAt DEF CallShutdown
  <1> DEFINE t == All(n)
  <1>u. /\ UNCHANGED <<st, gen, err, own, kids, held, mounting, born, driver, alive, records, failed, sink, work>>
        /\ cpc[c] = "idle" /\ Join(c, t)
        /\ IF n = Root
           THEN BeginRootShutdown /\ UNCHANGED <<closing, terminal, subtree, done>>
           ELSE BeginShutdown(n) /\ UNCHANGED closed
    BY <1>n DEF CallShutdown, Calling, Join
  <1> USE DEF driver, records, subtree
  <1>0. Root \in Node /\ Root \notin Kin BY SubtreeAssumption DEF Kin
  <1>1. Asking /\ Begun(n) /\ Restarts(n) /\ RootStops /\ RootMail BY DEF Heard
  <1>2. Joining(c, t) BY <1>u DEF Join, Joining
  <1>3. /\ cpc'[c] = "waiting" /\ joined'[c] = t
        /\ \A d \in Callers : cpc[d] # "idle" => cpc'[d] # "idle" /\ joined'[d] = joined[d]
    BY <1>1, <1>2, JoiningFacts
  <1>4. t \in AnyTask /\ \A m \in Node : t \notin Ends(m) BY TaskFacts, TasksApart DEF Known
  <1>5. failed' = failed BY <1>u
  <1>6. CASE n # Root
    <2>1. n \in Kin /\ BeginShutdown(n) /\ closed' = closed BY <1>6, <1>u DEF Kin
    <2>2. Asked(All(n))' BY <1>3 DEF Asked
    <2>3. PICK N \in SUBSET Kin : \E S \in SUBSET {End(m, 0) : m \in Kin} :
            /\ Around(N, S) /\ Registering
            /\ \A m \in N : Begun(m)' /\ Restarts(m)' /\ Fate(m)' /\ Cleanup(m)'
      <3> HIDE DEF t
      <3> QED BY <1>n, <1>3, <1>u, <2>1, <2>2, BeginHeard
    <2>4. PICK S \in SUBSET {End(m, 0) : m \in Kin} :
            /\ Around(N, S) /\ Registering
            /\ \A m \in N : Begun(m)' /\ Restarts(m)' /\ Fate(m)' /\ Cleanup(m)'
      BY <2>3
    <2>5. /\ N \in SUBSET Node /\ Root \notin N
          /\ \A m \in Node : terminal'[m] \in {terminal[m], End(m, 0)}
          /\ \A m \in Kin : terminal'[m] = terminal[m] \/ terminal[m] = NoTask
          /\ S \cap Ends(Root) = {}
      BY <2>4, BeginQuiet
    <2>6. JoiningOwn(c, t, S)
      <3>1. \A x \in S : \E m \in Node : x = End(m, 0) BY DEF Kin
      <3> QED BY <2>5, <3>1 DEF JoiningOwn
    <2>7. \A m \in Kin : /\ terminal'[m] = terminal[m] \/ terminal[m] = NoTask
                         /\ t \in Ends(m) => t = terminal'[m]
      BY <1>4, <2>5 DEF Kin
    <2>8. /\ \A m \in N : Begun(m)' /\ Restarts(m)'
          /\ \A m \in N \ {Root} : Fate(m)' /\ Cleanup(m)'
      BY <2>4
    <2> HIDE DEF t
    <2> QED BY <1>2, <1>4, <1>5, <2>1, <2>4, <2>5, <2>6, <2>7, <2>8, JoiningKeeps
  <1>7. CASE n = Root /\ closed
    <2>1. UNCHANGED <<fibers, tree, drivers, records, subtree, results>>
      BY <1>7, <1>u DEF fibers, tree, drivers, results, BeginRootShutdown
    <2>2. Around({}, {}) BY <1>3, <2>1, CallerOnly
    <2>3. JoiningOwn(c, t, {}) BY <2>1 DEF JoiningOwn, fibers
    <2>4. \A m \in Kin : /\ terminal'[m] = terminal[m] \/ terminal[m] = NoTask
                         /\ t \in Ends(m) => t = terminal'[m]
      BY <1>4, <2>1 DEF fibers, Kin
    <2>5. closed' = closed BY <2>1 DEF tree
    <2>6. {} \in SUBSET Node /\ {} \cap Ends(Root) = {} OBVIOUS
    <2>7. /\ \A m \in {} : Begun(m)' /\ Restarts(m)'
          /\ \A m \in {} \ {Root} : Fate(m)' /\ Cleanup(m)'
      OBVIOUS
    <2> HIDE DEF t
    <2> QED BY <1>2, <1>4, <1>5, <2>2, <2>3, <2>4, <2>5, <2>6, <2>7, JoiningKeeps
  <1>8. CASE n = Root /\ ~ closed
    <2> DEFINE x == Intent("shutdown", All(Root))
    <2>1. closed' = TRUE /\ mailbox' = [mailbox EXCEPT ![Root] = Append(@, x)]
          /\ UNCHANGED <<closing, terminal, subtree, done>>
      BY <1>8, <1>u DEF BeginRootShutdown
    <2>2. x \in Fit(Root) /\ x.kind = "shutdown" BY <1>0, IntentFacts DEF Intent
    <2> HIDE DEF x
    <2>3. mailbox'[Root] = Append(mailbox[Root], x) /\ \A m \in Node \ {Root} : mailbox'[m] = mailbox[m]
      BY <1>0, <2>1 DEF IInv, Mail
    <2>4. Adds({}) BY <2>1, AddsNone
    <2>5. Onward BY <1>3, <1>u, <2>1 DEF Onward, Refused
    <2>6. Around({Root}, {})
      <3>1. ASSUME NEW m \in Node \ {Root} PROVE Untouched(m) /\ Spares({}, m)
        BY <1>u, <2>1, <2>3 DEF Untouched, Still, Spares
      <3> QED BY <1>u, <2>4, <2>5, <3>1 DEF Around
    <2>7. Begun(Root)' BY <1>1, <1>8, <1>u, <2>1 DEF Begun, Over
    <2>8. Restarts(Root)'
      <3>1. {} \cap Agains(Root) = {} OBVIOUS
      <3> QED BY <1>0, <1>1, <1>8, <1>u, <2>2, <2>3, <2>4, <2>5, <3>1, QuietMail
    <2>9. RootHeard => RootHeard'
      <3>1. {} \cap (Ends(Root) \cup {All(Root)}) = {} OBVIOUS
      <3> HIDE DEF t
      <3> QED BY <1>1, <1>2, <2>4, <3>1, JoiningHears
    <2>10. RootMail'
      <3>1. mailbox[Root] \in Seq(Fit(Root)) BY <1>0 DEF IInv, Mail
      <3>2. \A i \in DOMAIN mailbox'[Root] : mailbox'[Root][i].kind = "dispose" =>
              i \in DOMAIN mailbox[Root] /\ mailbox'[Root][i] = mailbox[Root][i]
        BY <2>2, <2>3, <3>1
      <3> QED BY <1>1, <1>u, <2>1, <3>2 DEF RootMail, RootDue, Busy
    <2>11. RootStops'
      <3> HIDE DEF RootHeard
      <3> QED BY <1>1, <1>u, <2>1, <2>9 DEF RootStops, Over
    <2>12. JoiningOwn(c, t, {}) BY <2>1 DEF JoiningOwn
    <2>13. \A m \in Kin : /\ terminal'[m] = terminal[m] \/ terminal[m] = NoTask
                          /\ t \in Ends(m) => t = terminal'[m]
      BY <1>4, <2>1 DEF Kin
    <2>14. {Root} \in SUBSET Node /\ {} \cap Ends(Root) = {} /\ t = All(Root) BY <1>0, <1>8
    <2>15. /\ \A m \in {Root} : Begun(m)' /\ Restarts(m)'
           /\ \A m \in {Root} \ {Root} : Fate(m)' /\ Cleanup(m)'
      BY <2>7, <2>8
    <2> HIDE DEF t
    <2> QED BY <1>2, <1>4, <1>5, <2>6, <2>10, <2>11, <2>12, <2>13, <2>14, <2>15, JoiningKeeps
  <1> QED BY <1>6, <1>7, <1>8

LEMMA MountRefusedHeard == ASSUME IInv, IInv', Heard, NEW n \in Kin, MountRefused(n) PROVE Heard'
  <1>u. /\ n \in mounting /\ mounting' = mounting \ {n}
        /\ IF n \notin closing /\ closed
           THEN BeginShutdown(n)
           ELSE /\ mailbox' = IF n \in closing \/ n \notin alive THEN mailbox
                              ELSE [mailbox EXCEPT ![n] = Append(@, Intent("dispose", NoTask))]
                /\ UNCHANGED <<closing, cancelled, terminal, done, subtree>>
        /\ UNCHANGED <<st, gen, err, own, closed, kids, held, born, driver, alive, records, failed, sink, calls>>
    BY DEF MountRefused
  <1> USE DEF driver, records, calls, subtree
  <1>0. n \in Node /\ n # Root /\ Root \in Node BY SubtreeAssumption DEF Kin
  <1>1. Asking /\ Begun(n) /\ Restarts(n) /\ Cleanup(n) /\ State(n) BY <1>0 DEF Heard, IInv, Drivers
  <1>2. st[n] # "unborn" /\ rec[n] = "none" BY <1>1, <1>u DEF State, Begun
  <1>3. Refused(n)' BY <1>2, <1>u DEF Refused
  <1>4. CallsStay BY <1>u DEF CallsStay
  <1>5. CASE n \notin closing /\ closed
    <2>1. n \notin begun /\ BeginShutdown(n) BY <1>1, <1>5, <1>u DEF Begun
    <2>2. PICK N \in SUBSET Kin : \E S \in SUBSET {End(m, 0) : m \in Kin} :
            /\ Around(N, S) /\ Registering
            /\ \A m \in N : Begun(m)' /\ Restarts(m)' /\ Fate(m)' /\ Cleanup(m)'
      <3>1. \A d \in Callers : cpc[d] # "idle" => cpc'[d] # "idle" /\ joined'[d] = joined[d]
        BY <1>u
      <3> QED BY <1>2, <1>3, <1>u, <2>1, <3>1, BeginHeard
    <2>3. PICK S \in SUBSET {End(m, 0) : m \in Kin} :
            /\ Around(N, S) /\ Registering
            /\ \A m \in N : Begun(m)' /\ Restarts(m)' /\ Fate(m)' /\ Cleanup(m)'
      BY <2>2
    <2>4. /\ N \in SUBSET Node /\ Root \notin N /\ closed' = closed
          /\ \A m \in Kin : terminal'[m] = terminal[m] \/ terminal[m] = NoTask
          /\ \A m \in Node : All(m) \notin S
          /\ S \cap Ends(Root) = {}
          /\ \A m \in Node : \A c \in Callers : \A t \in {End(m, c), Again(m, c)} : t \notin S
      BY <2>3, BeginQuiet
    <2>5. Onward /\ Adds(S) /\ Answered(S) /\ Types' BY <2>3, <2>4 DEF Around, Answered, IInv
    <2>6. Asking' BY <1>1, <1>4, <2>3, <2>4, <2>5, AskingKeeps
    <2>7. RootHeard => RootHeard'
      <3>1. S \cap (Ends(Root) \cup {All(Root)}) = {} BY <1>0, <2>4
      <3> QED BY <1>4, <2>5, <3>1, HeardStays
    <2>8. ASSUME NEW m \in Kin PROVE Results(m)' /\ \A c \in Callers : Told(m, c)'
      <3>1. m \in Node /\ Results(m) /\ \A k \in Kin : All(k) \notin S BY <2>4 DEF Kin, Heard
      <3>2. Results(m)' BY <2>5, <3>1, ResultsKeep
      <3>3. ASSUME NEW c \in Callers PROVE Told(m, c)'
        <4>1. Told(m, c) BY DEF Heard
        <4>2. cpc'[c] = cpc[c] /\ joined'[c] = joined[c] /\ ret'[c] = ret[c] BY <1>u
        <4>3. m \in failed' \ failed => ~ Over(m) BY <1>u
        <4> QED BY <1>1, <2>4, <2>5, <3>1, <4>1, <4>2, <4>3, ToldKeeps
      <3> QED BY <3>2, <3>3
    <2>9. /\ \A m \in N : Begun(m)' /\ Restarts(m)'
          /\ \A m \in N \ {Root} : Fate(m)' /\ Cleanup(m)'
      BY <2>3
    <2> QED BY <2>3, <2>4, <2>6, <2>7, <2>8, <2>9, AroundKeeps
  <1>6. CASE ~ (n \notin closing /\ closed)
    <2> DEFINE x == Intent("dispose", NoTask)
    <2>1. /\ \/ mailbox' = mailbox
             \/ mailbox' = [mailbox EXCEPT ![n] = Append(@, x)]
          /\ UNCHANGED <<closing, terminal, done, subtree>>
      BY <1>6, <1>u
    <2>2. x \in Fit(n) /\ x.kind = "dispose" BY <1>0, IntentFacts
    <2> HIDE DEF x
    <2>3. /\ mailbox'[n] = mailbox[n] \/ mailbox'[n] = Append(mailbox[n], x)
          /\ \A m \in Node \ {n} : mailbox'[m] = mailbox[m]
      BY <1>0, <2>1 DEF IInv, Mail
    <2>4. Adds({}) /\ Answered({}) BY <2>1, AddsNone DEF Answered
    <2>5. Onward /\ closed' = closed /\ Registering BY <1>u, <2>1 DEF Onward, Refused, Registering
    <2>6. ASSUME NEW m \in Node \ {n} PROVE Untouched(m) /\ Spares({}, m)
      BY <1>u, <2>1, <2>3 DEF Untouched, Still, Spares
    <2>7. Alone(n, {}) BY <1>0, <1>4, <1>u, <2>4, <2>5, <2>6 DEF Alone
    <2>8. Begun(n)' BY <1>1, <1>2, <1>u, <2>1 DEF Begun, Over
    <2>9. Restarts(n)'
      <3>1. {} \cap Agains(n) = {} OBVIOUS
      <3>2. CASE mailbox'[n] = mailbox[n]
        BY <1>0, <1>1, <1>u, <2>4, <2>5, <3>1, <3>2, RestartsStay
      <3>3. CASE mailbox'[n] = Append(mailbox[n], x)
        BY <1>0, <1>1, <1>u, <2>2, <2>4, <2>5, <3>1, <3>3, QuietMail
      <3> QED BY <2>3, <3>2, <3>3
    <2>10. Fate(n)' BY <1>3 DEF Fate
    <2>11. Cleanup(n)' BY <1>2, <1>u DEF Cleanup
    <2> QED BY <1>0, <2>7, <2>8, <2>9, <2>10, <2>11, AloneKeeps
  <1> QED BY <1>5, <1>6

-----------------------------------------------------------------------------
(* The invariant *)

LEMMA InitiallyHeard == Init => Heard
  <1> SUFFICES ASSUME Init PROVE Heard OBVIOUS
  <1>0. Root \in Node /\ Root \notin Kin /\ Kin \subseteq Node /\ DOMAIN done = {}
    BY SubtreeAssumption DEF Kin, Init
  <1>1. Asking
    <2>1. \A c \in Callers : \A n \in Node : End(n, c) # NoTask BY TaskFacts DEF Known
    <2> QED BY <1>0, <2>1 DEF Init, Asking, AnyTask
  <1>2. \A n \in Node : Begun(n) /\ Restarts(n)
    BY DEF Init, Begun, Restarts, Over, Busy
  <1>3. \A n \in Kin : Fate(n) /\ Cleanup(n) /\ Results(n)
    <2> SUFFICES ASSUME NEW n \in Kin PROVE Fate(n) /\ Cleanup(n) /\ Results(n) OBVIOUS
    <2>1. n \in Node /\ n # Root /\ End(n, 0) # NoTask BY <1>0, TasksApart DEF Kin, Ends
    <2> QED BY <1>0, <2>1 DEF Init, Fate, Ending, Failure, Cleanup, Results
  <1>4. \A n \in Kin : \A c \in Callers : Told(n, c)
    <2>1. \A n \in Kin : NoTask \notin Ends(n) BY <1>0, TasksApart
    <2> QED BY <2>1 DEF Init, Told
  <1>5. RootMail BY <1>0 DEF Init, RootMail, Busy
  <1>6. RootStops BY <1>0 DEF Init, RootStops, Over
  <1> QED BY <1>1, <1>2, <1>3, <1>4, <1>5, <1>6 DEF Heard

LEMMA HeardInductive == IInv /\ IInv' /\ Heard /\ [Next]_vars => Heard'
  <1> SUFFICES ASSUME IInv, IInv', Heard, [Next]_vars PROVE Heard' OBVIOUS
  <1>0. Node \ {Root} = Kin BY DEF Kin
  <1>1. CASE UNCHANGED vars BY <1>1, StutterHeard
  <1>2. ASSUME NEW n \in Node, Drive(n) PROVE Heard'
    BY <1>2, TakeHeard, RefreshNoneHeard, RefreshTerminalHeard, LoadHeard, RestartRefusedHeard,
       RestartHeard, ReviveHeard, HandledHeard, TerminateHeard, UnloadHeard, DrainHeard,
       PublishHeard, LeaveHeard DEF Drive
  <1>3. ASSUME NEW n \in Node, ApplyEnd(n) PROVE Heard' BY <1>3, ApplyEndHeard
  <1>4. CASE RootDisposed BY <1>4, RootDisposedHeard
  <1>5. ASSUME NEW n \in Kin, Detached(n) \/ Spawn(n) PROVE Heard'
    BY <1>5, ReleaseHeard, GoneHeard, CleanupLookHeard, CascadeHeard, CleanupEndHeard,
       CoordinateHeard, MountHeard, MountRefusedHeard, SpawnHeard DEF Detached
  <1>6. ASSUME NEW c \in Callers, Call(c) \/ Return(c) PROVE Heard'
    BY <1>6, CallDisposeHeard, CallShutdownHeard, CallRestartHeard, CallRestartRefusedHeard,
       ReturnHeard DEF Call
  <1> QED BY <1>0, <1>1, <1>2, <1>3, <1>4, <1>5, <1>6 DEF Next

LEMMA HeardInvariant == Spec => [](IInv /\ Heard)
  <1>1. Init => Heard BY InitiallyHeard
  <1>2. IInv /\ IInv' /\ Heard /\ [Next]_vars => Heard' BY HeardInductive
  <1> QED BY <1>1, <1>2, Invariant, PTL DEF Spec

-----------------------------------------------------------------------------
(* When nobody waits *)

NoneWaits == \A c \in Callers : cpc[c] # "waiting"

(* Every fiber of the path from n up, but the root, was mounted. *)
MountedUp(n) == \A x \in ({n} \cup Above[n]) \ {Root} : rec[x] # "none"

LEMMA JoinedIsDone ==
  ASSUME Asking, NoneWaits, NEW c \in Callers, joined[c] # NoTask
  PROVE  cpc[c] = "returned" /\ joined[c] \in DOMAIN done
  BY DEF Asking, NoneWaits

(* A restart that is handled has a caller that waits. *)
LEMMA RestartHasCaller ==
  ASSUME IInv, Heard, NoneWaits, NEW n \in Node, Busy(n)
  PROVE  cur[n].kind # "restart"
  <1> SUFFICES ASSUME cur[n].kind = "restart" PROVE FALSE OBVIOUS
  <1>1. Restarts(n) /\ Asking BY DEF Heard
  <1>2. cur[n] \in Fit(n) BY DEF IInv, Mail
  <1>3. PICK c \in Callers : cur[n].task = Again(n, c) BY <1>2, IntentFacts
  <1>4. joined[c] = cur[n].task /\ cur[n].task \notin DOMAIN done BY <1>1, <1>3 DEF Restarts, Awaited
  <1>5. joined[c] # NoTask BY <1>3, <1>4, TaskFacts DEF Known
  <1> QED BY <1>1, <1>4, <1>5, JoinedIsDone

(* A shutdown asked for above n has n's result and told it. *)
LEMMA AskedAboveTold ==
  ASSUME IInv, Heard, NoneWaits, NEW n \in Kin, MountedUp(n), AskedAbove(n)
  PROVE  /\ All(n) \in DOMAIN done
         /\ \E c \in Callers : done[All(n)] \subseteq ret[c]
  <1>0. n \in Node /\ Asking BY DEF Kin, Heard
  <1>1. PICK m \in ({n} \cup Above[n]) \ {Root} :
          /\ \A a \in Between(m, n) : a \in awaits[Parent[a]] /\ Parent[a] \in begun
          /\ Refused(m) \/ Asked(All(m))
    BY DEF AskedAbove
  <1>2. m \in Node /\ m \in Kin BY <1>0, <1>1, AboveNode DEF Kin
  <1>3. Asked(All(m)) BY <1>1 DEF MountedUp, Refused
  <1>4. PICK c \in Callers : cpc[c] # "idle" /\ joined[c] = All(m) BY <1>3 DEF Asked
  <1>5. cpc[c] = "returned" /\ All(m) \in DOMAIN done
    BY <1>0, <1>2, <1>4, JoinedIsDone, TasksApart
  <1>6. done[All(m)] \subseteq ret[c] BY <1>2, <1>4, <1>5 DEF Heard, Told
  <1> DEFINE B == {x \in Kin : All(x) \in DOMAIN done /\ done[All(x)] \subseteq done[All(m)]}
  <1>7. ASSUME NEW a \in Between(m, n), Parent[a] \in B PROVE a \in B
    <2>1. a \in awaits[Parent[a]] /\ Parent[a] \in Kin /\ Parent[a] \in Node BY <1>1, <1>7 DEF Kin
    <2>2. a \in Kin BY <2>1 DEF IInv, Types
    <2>3. All(a) \in DOMAIN done BY <1>7, <2>1 DEF IInv, Records, Record
    <2>4. done[All(a)] \subseteq done[All(Parent[a])] BY <1>7, <2>1 DEF Heard, Results
    <2> QED BY <1>7, <2>2, <2>3, <2>4
  <1>8. m \in B /\ B \in SUBSET Node BY <1>2, <1>5 DEF Kin
  <1>9. m \in {n} \cup Above[n] BY <1>1
  <1> HIDE DEF B
  <1>10. n \in B BY <1>0, <1>2, <1>7, <1>8, <1>9, Descent
  <1> USE DEF B
  <1> QED BY <1>6, <1>10

(* What drains, for good and not for a caller, drains because its parent does. *)
LEMMA DrainsUnder ==
  ASSUME IInv, Heard, NoneWaits, NEW n \in Kin, MountedUp(n), pc[n] = "drain"
  PROVE  pc[Parent[n]] = "drain"
  <1>0. n \in Node /\ Asking /\ rec[n] # "none" /\ ~ Over(n) /\ Restarts(n) /\ Cleanup(n)
    BY DEF Kin, Heard, MountedUp, Over
  <1>1. Ending(n) /\ Failure(n) BY <1>0 DEF Heard, Fate, Refused
  <1>2. cur[n].kind # "restart" BY <1>0, RestartHasCaller DEF Busy
  <1>3. next[n] = "Disposed" BY <1>0, <1>2 DEF Restarts, IInv, Types
  <1>4. terminal[n] \in Ends(n) /\ terminal[n] \notin DOMAIN done
    <2>1. terminal[n] # NoTask BY <1>1, <1>3 DEF Ending
    <2>2. Terminals(n) /\ Record(n) BY <1>0 DEF IInv, Links, Records
    <2> QED BY <1>0, <2>1, <2>2 DEF Terminals, Record
  <1>5. \A c \in Callers : terminal[n] # End(n, c)
    <2> SUFFICES ASSUME NEW c \in Callers, terminal[n] = End(n, c) PROVE FALSE OBVIOUS
    <2>1. joined[c] = terminal[n] BY <1>0 DEF Asking
    <2>2. joined[c] # NoTask BY <1>0, <1>4, <2>1, TasksApart
    <2> QED BY <1>0, <1>4, <2>1, <2>2, JoinedIsDone
  <1>6. terminal[n] = End(n, 0) BY <1>4, <1>5 DEF Ends
  <1>7. ~ AskedAbove(n)
    <2>1. All(n) \notin DOMAIN done BY <1>0 DEF IInv, Records, Record
    <2> QED BY <2>1, AskedAboveTold
  <1>8. rec[n] \in {"joining", "done"} BY <1>1, <1>6, <1>7 DEF Failure
  <1>9. rec[n] # "done" BY <1>0 DEF IInv, Records, Record
  <1> QED BY <1>0, <1>8, <1>9 DEF Cleanup

(* ... and the root, only for a caller.                                      *)
LEMMA RootDrainsForCaller ==
  ASSUME IInv, Heard, NoneWaits PROVE pc[Root] # "drain"
  <1> SUFFICES ASSUME pc[Root] = "drain" PROVE FALSE OBVIOUS
  <1>0. Root \in Node /\ Asking /\ RootMail /\ RootStops /\ Restarts(Root)
    BY SubtreeAssumption DEF Heard
  <1>1. cur[Root].kind # "restart" BY <1>0, RestartHasCaller DEF Busy
  <1>2. then[Root] = "leave" BY <1>0, <1>1 DEF Restarts, RootStops, IInv, Types
  <1>3. cur[Root].kind \in {"dispose", "shutdown"} BY <1>0, <1>2 DEF IInv, Drivers, Place
  <1>4. CASE cur[Root].kind = "shutdown"
    <2>1. Asked(All(Root)) BY <1>0, <1>4 DEF IInv, RootInv, Asking
    <2>2. All(Root) \in DOMAIN done BY <1>0, <2>1, JoinedIsDone, TasksApart DEF Asked
    <2> QED BY <2>2 DEF IInv, RootInv
  <1>5. CASE cur[Root].kind = "dispose"
    <2>1. RootDue BY <1>0, <1>5 DEF RootMail, Busy
    <2>2. PICK c \in Callers : terminal[Root] = End(Root, c) BY <1>0, <2>1 DEF RootStops, RootDue
    <2>3. joined[c] = terminal[Root] /\ joined[c] # NoTask BY <1>0, <2>1, <2>2 DEF Asking, RootDue
    <2> QED BY <1>0, <2>1, <2>3, JoinedIsDone DEF RootDue
  <1> QED BY <1>3, <1>4, <1>5

LEMMA NothingDrains ==
  ASSUME IInv, Heard, NoneWaits, NEW n \in Kin, MountedUp(n)
  PROVE  pc[Parent[n]] # "drain"
  <1> SUFFICES ASSUME pc[Parent[n]] = "drain" PROVE FALSE OBVIOUS
  <1> DEFINE T == {x \in Above[n] : pc[x] = "drain"}
  <1>0. n \in Node /\ n # Root /\ rec[n] # "none" BY DEF Kin, MountedUp
  <1>1. Parent[n] \in T BY AboveKin
  <1>2. ASSUME NEW x \in T, x # Root PROVE Parent[x] \in T
    <2>1. x \in Above[n] /\ x \in Kin BY <1>0, <1>2, AboveNode DEF Kin
    <2>2. Above[x] \subseteq Above[n] /\ Parent[x] \in Above[x] BY <1>0, <2>1, AboveAbove, AboveKin
    <2>3. MountedUp(x) BY <2>1, <2>2 DEF MountedUp
    <2> QED BY <2>1, <2>2, <2>3, DrainsUnder
  <1>3. Upward(T) BY <1>2 DEF Upward
  <1>4. T \in SUBSET Node BY <1>0, AboveNode
  <1>5. Root \in Above[n]
    <2>1. st[n] # "unborn" BY <1>0 DEF IInv, Records, Record
    <2> QED BY <1>0, <2>1 DEF Heard, Begun
  <1> HIDE DEF T
  <1>6. Root \in T BY <1>0, <1>1, <1>3, <1>4, <1>5 DEF Above
  <1> QED BY <1>6, RootDrainsForCaller DEF T

(* The last error of every mounted fiber is told a caller or the sink: who   *)
(* registered its end told its caller, a shutdown carries it up to the one   *)
(* that was asked for, and a cascade's record reports it, whichever of them  *)
(* came first and whatever they overlapped with.                             *)
THEOREM NoErrorIsLost == Spec => []ErrorsHeard
  <1>1. IInv /\ Heard => ErrorsHeard
    <2> SUFFICES ASSUME IInv, Heard, NoneWaits, NEW n \in failed, pc[n] \in {"gone", "recv"}, MountedUp(n)
                 PROVE  n \in sink \/ \E c \in Callers : n \in ret[c]
      BY DEF ErrorsHeard, NoneWaits, MountedUp
    <2>0. n \in Node BY DEF IInv, Types
    <2>1. CASE n = Root
      <3>1. RootHeard BY <2>1 DEF Heard, RootStops
      <3> QED BY <2>1, <3>1 DEF RootHeard, NoneWaits
    <2>2. CASE n # Root
      <3>0. n \in Kin /\ rec[n] # "none" /\ Asking /\ Cleanup(n) BY <2>0, <2>2 DEF Kin, MountedUp, Heard
      <3>1. Ending(n) /\ Failure(n) /\ ~ Refused(n) BY <3>0 DEF Heard, Fate, Refused
      <3>2. terminal[n] \in Ends(n)
        <4>1. terminal[n] # NoTask BY <3>1 DEF Ending, Failure
        <4> QED BY <2>0, <4>1 DEF IInv, Links, Terminals
      <3>3. ASSUME NEW c \in Callers, terminal[n] = End(n, c) PROVE n \in ret[c]
        <4>1. joined[c] = terminal[n] /\ joined[c] # NoTask
          BY <2>0, <3>0, <3>2, <3>3, TasksApart DEF Asking
        <4>2. cpc[c] = "returned" BY <3>0, <4>1, JoinedIsDone
        <4>3. Told(n, c) BY <3>0 DEF Heard
        <4> QED BY <3>1, <3>2, <4>1, <4>2, <4>3 DEF Told
      <3>4. CASE terminal[n] = End(n, 0)
        <4>1. CASE AskedAbove(n)
          <5>1. All(n) \in DOMAIN done /\ \E c \in Callers : done[All(n)] \subseteq ret[c]
            BY <3>0, <4>1, AskedAboveTold
          <5> QED BY <3>1, <5>1 DEF Failure
        <4>2. CASE n \in loud /\ rec[n] = "done" BY <3>0, <4>2 DEF Cleanup
        <4>3. CASE n \in loud /\ rec[n] = "joining"
          <5>1. ~ Over(n) BY <3>0, <4>3 DEF Cleanup, Over
          <5>2. pc[Parent[n]] = "drain" BY <3>0, <4>3, <5>1 DEF Cleanup
          <5> QED BY <3>0, <5>2, NothingDrains
        <4> QED BY <3>1, <3>4, <4>1, <4>2, <4>3 DEF Failure
      <3> QED BY <3>2, <3>3, <3>4 DEF Ends
    <2> QED BY <2>1, <2>2
  <1> QED BY <1>1, HeardInvariant, PTL
=============================================================================
