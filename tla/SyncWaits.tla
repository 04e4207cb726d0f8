----------------------------- MODULE SyncWaits -----------------------------
(***************************************************************************)
(* Synchronous calls between runtimes, forwarded by the host.              *)
(*                                                                         *)
(* A runtime that calls synchronously blocks its thread and reads frames   *)
(* while it waits; some of the calls it reads run on top of the wait, the  *)
(* rest are put aside.  The host reads each session in order and runs an   *)
(* incoming call on the thread that waits for the chain it belongs to, or  *)
(* else in a task of its own.  Before it forwards a call whose caller      *)
(* waits, it looks for the cycle that the call would close (WaitGraph).    *)
(*                                                                         *)
(* Values, errors and names are left out: which calls are made, under      *)
(* which, and who waits for which, is all there is.                        *)
(***************************************************************************)
EXTENDS WaitGraph, SequencesExt

CONSTANT
  Scenarios   \* which sessions are there, and, as bounds, how often each kind
              \* of step may happen that is up to plugin code

Kinds == {"wake", "sync", "async", "host", "hostAsync", "home", "drop", "end"}

ASSUME ScenariosAssumption ==
  \A s \in Scenarios : s.there \subseteq Runtimes /\ s.may \in [Kinds -> Nat]

Frame(op, id, path, sync) == [op |-> op, id |-> id, path |-> path, sync |-> sync]
NoFrame == Frame("none", NoCall, <<>>, FALSE)
CallFrame(id, path, sync) == Frame("call", id, path, sync)
ReplyFrame(id) == Frame("reply", id, <<>>, FALSE)

VARIABLES
  stack,     \* of a runtime: its activations, each [id, path, wait, got]
  queued,    \* of a runtime: the calls it read and has not started
  up,        \* of a session: frames the runtime sent, not read by the host
  down,      \* of a session: frames the host sent, not read by the runtime
  reading,   \* of a session that ended: the call its reader thread still has in hand
  job,       \* what the host does, by the call it does it for
  hops,      \* Waits::hops
  marked,    \* Waits::marked
  ended,     \* of a session: it was closed (or is not there at all)
  made,      \* of a session: how many calls each side of it made
  left,      \* of what may happen
  parent     \* history: the call that each call was made under

runtime == <<stack, queued>>
wire == <<up, down>>
table == <<hops, marked>>
count == <<made, left>>
vars == <<runtime, wire, reading, job, table, ended, count, parent>>

Spend(kind) ==
  /\ left[kind] > 0
  /\ left' = [left EXCEPT ![kind] = @ - 1]

WithOwn(f) == Append(f.path, Tagged(Native, f.id))

-----------------------------------------------------------------------------
(* A runtime *)

Activation(id, path) == [id |-> id, path |-> path, wait |-> NoCall, got |-> FALSE]

Stacks(r) == r \in Stacked
OnTop(r, i) == i \in DOMAIN stack[r] /\ (Stacks(r) => i = Len(stack[r]))
Running(r, i) == OnTop(r, i) /\ (stack[r][i].wait = NoCall \/ stack[r][i].got)

Waiting(r) == {stack[r][i].wait : i \in DOMAIN stack[r]} \ {NoCall}

(* The one thread is free, or blocked in a call: a reentrant runtime takes *)
(* every frame there is before it looks whether it has its reply.          *)
Pumping(r) ==
  Stacks(r) /\ stack[r] # <<>> =>
    LET top == Last(stack[r])
    IN top.wait # NoCall /\ (top.got => r \in Reentrant)

Related(r, path) == \E c \in Waiting(r) : Tagged(Native, c) \in ToSet(path)

(* #run, _run *)
Admissible(r, path) ==
  Waiting(r) = {} \/ r \in Reentrant \/ ~Stacks(r) \/ Related(r, path)

Startable(r) == {i \in DOMAIN queued[r] : Admissible(r, queued[r][i].path)}

(* A timer or an event of its own runs plugin code. *)
Wake(r) ==
  /\ ~ended[r] /\ Spend("wake")
  /\ Stacks(r) => stack[r] = <<>>
  /\ stack' = [stack EXCEPT ![r] = Append(@, Activation(NoCall, <<>>))]
  /\ UNCHANGED <<queued, wire, reading, job, table, ended, made, parent>>

(* #requestSync, _call_sync; an asynchronous call blocks nothing. *)
CallOut(r, i, sync) ==
  LET id == <<r, "runtime", made[r].runtime + 1>>
      a == stack[r][i]
  IN /\ Running(r, i) /\ Spend(IF sync THEN "sync" ELSE "async")
     /\ made' = [made EXCEPT ![r].runtime = @ + 1]
     /\ up' = [up EXCEPT ![r] = Append(@, CallFrame(id, a.path, sync))]
     /\ stack' = [stack EXCEPT ![r][i].wait = IF sync THEN id ELSE NoCall, ![r][i].got = FALSE]
     /\ parent' = (id :> a.id) @@ parent
     /\ UNCHANGED <<queued, down, reading, job, table, ended>>

Finish(r, i) ==
  LET a == stack[r][i]
  IN /\ Running(r, i)
     /\ stack' = [stack EXCEPT ![r] = RemoveAt(@, i)]
     /\ up' = IF a.id = NoCall THEN up
              ELSE [up EXCEPT ![r] = Append(@, ReplyFrame(a.id))]
     /\ UNCHANGED <<queued, down, reading, job, table, ended, count, parent>>

Push(r, f) == [stack EXCEPT ![r] = Append(@, Activation(f.id, WithOwn(f)))]

(* receive: a call runs, or is put aside; a reply is kept for its caller. *)
Read(r) ==
  LET f == Head(down[r])
  IN /\ Pumping(r) /\ Startable(r) = {} /\ down[r] # <<>>
     /\ down' = [down EXCEPT ![r] = Tail(@)]
     /\ \/ /\ f.op = "call" /\ Admissible(r, f.path)
           /\ stack' = Push(r, f)
           /\ UNCHANGED queued
        \/ /\ f.op = "call" /\ ~Admissible(r, f.path)
           /\ queued' = [queued EXCEPT ![r] = Append(@, f)]
           /\ UNCHANGED stack
        \/ /\ f.op = "reply"
           /\ stack' = [stack EXCEPT ![r] =
                           [i \in DOMAIN @ |-> [@[i] EXCEPT !.got = @ \/ stack[r][i].wait = f.id]]]
           /\ UNCHANGED queued
     /\ UNCHANGED <<up, reading, job, table, ended, count, parent>>

(* What was put aside, in its order *)
Start(r) ==
  LET i == Min(Startable(r))
  IN /\ Pumping(r) /\ Startable(r) # {}
     /\ queued' = [queued EXCEPT ![r] = RemoveAt(@, i)]
     /\ stack' = Push(r, queued[r][i])
     /\ UNCHANGED <<wire, reading, job, table, ended, count, parent>>

-----------------------------------------------------------------------------
(* The host.  A job is what it does for a call that came in (or for one of *)
(* its own): st is "ready", "sent" (as the call out) or "replied"; sync,   *)
(* a thread waits for out, and inbox is what it is to run meanwhile; under *)
(* is the wait on whose thread the job itself runs, NoCall for its own.    *)

Own(n) == <<NoSession, "own", n>>

Job(path, under) ==
  [path |-> path, under |-> under, st |-> "ready", out |-> NoCall, sync |-> FALSE,
   inbox |-> <<>>]

Nested(c) == {n \in DOMAIN job : job[n].under # NoCall /\ job[n].under = job[c].out}

(* receive: the innermost call of the chain that a thread of this session waits for *)
Waiters(r, path) ==
  {c \in DOMAIN job :
     job[c].sync /\ job[c].st = "sent" /\ Tag(job[c].out) = r
     /\ Tagged(Native, job[c].out) \in ToSet(path)}

Innermost(cs, path) ==
  CHOOSE c \in cs :
    \E i \in DOMAIN path :
      /\ path[i] = Tagged(Native, job[c].out)
      /\ \A o \in cs \ {c} : Tagged(Native, job[o].out) \notin ToSet(SubSeq(path, i, Len(path)))

AnswerKeepsMark(c) ==   \* mutant of Answer
  /\ job' = Restrict(job, DOMAIN job \ {c})
  /\ UNCHANGED marked
  /\ down' = IF Tag(c) \in Runtimes /\ ~ended[Tag(c)]
             THEN [down EXCEPT ![Tag(c)] = Append(@, ReplyFrame(c))] ELSE down

(* respond_to: no mark any more, and the reply if the session is still there *)
Answer(c) ==
  /\ job' = Restrict(job, DOMAIN job \ {c})
  /\ marked' = marked \ {c}
  /\ down' = IF Tag(c) \in Runtimes /\ ~ended[Tag(c)]
             THEN [down EXCEPT ![Tag(c)] = Append(@, ReplyFrame(c))] ELSE down

(* A reader takes a call off the channel, marks it, and delivers it unless *)
(* the session has closed since it took it.                                *)
Receive(r) ==
  LET late == reading[r] # NoFrame
      f == IF late THEN reading[r] ELSE Head(up[r])
      cs == Waiters(r, WithOwn(f))
      c == Innermost(cs, WithOwn(f))
  IN /\ late \/ (up[r] # <<>> /\ Head(up[r]).op = "call")
     /\ reading' = [reading EXCEPT ![r] = NoFrame]
     /\ up' = IF late THEN up ELSE [up EXCEPT ![r] = Tail(@)]
     /\ marked' = IF f.sync THEN marked \cup {f.id} ELSE marked
     /\ job' = IF ended[r] THEN job
               ELSE IF cs # {} THEN [job EXCEPT ![c].inbox = Append(@, f)]
               ELSE (f.id :> Job(WithOwn(f), NoCall)) @@ job
     /\ UNCHANGED <<runtime, down, hops, ended, count, parent>>

(* reply_target *)
ReadReply(r) ==
  LET d == Head(up[r]).id
  IN /\ up[r] # <<>> /\ Head(up[r]).op = "reply"
     /\ up' = [up EXCEPT ![r] = Tail(@)]
     /\ hops' = {h \in hops : h.id # d}
     /\ job' = [c \in DOMAIN job |->
                  IF job[c].out = d THEN [job[c] EXCEPT !.st = "replied"] ELSE job[c]]
     /\ UNCHANGED <<runtime, down, reading, marked, ended, count, parent>>

(* waits::forward: what is recorded of the call d that goes out with this chain *)
Recorded(path, d, sync) ==
  LET named == Decode(path, Tag(d))
      waits == named # <<>> /\ Last(named) \in marked
      caller == IF waits THEN Last(named) ELSE NoCall
  IN IF (marked = {} /\ ~sync) \/ (waits /\ Tag(caller) = Tag(d)) THEN {}
     ELSE {[id |-> d, src |-> Tag(caller), sid |-> caller, chain |-> Append(named, d),
            entry |-> ~waits /\ ~sync]}

Refused(new) == \E h \in new : ~h.entry /\ ClosesCycle(hops, h)

NewId(t) == <<t, "host", made[t].host + 1>>

(* A row's service keeps the chain of a call that comes from the session   *)
(* it goes to.                                                             *)
PathTo(c, t) ==
  IF Tag(c) = t THEN job[c].path ELSE Rebase(job[c].path, Tag(c), t)

(* send, for the job c with the record j *)
Send(c, j, path, t, sync) ==
  LET d == NewId(t)
      new == Recorded(path, d, sync)
  IN /\ made' = [made EXCEPT ![t].host = @ + 1]
     /\ parent' = (d :> c) @@ parent
     /\ IF Refused(new) THEN Answer(c) /\ UNCHANGED hops
        ELSE /\ hops' = hops \cup new
             /\ job' = (c :> [j EXCEPT !.st = "sent", !.out = d, !.sync = sync]) @@ job
             /\ down' = [down EXCEPT ![t] = Append(@, CallFrame(d, path, sync))]
             /\ UNCHANGED marked

(* relay, RowService::invoke: a call that a waiting thread runs goes on    *)
(* synchronously; from a task of its own, a relay's does not, a service's  *)
(* synchronous method does.  What a runtime calls asynchronously is a      *)
(* relay.  Back home goes only a function that the host's code was passed: *)
(* a runtime reaches its own objects and services without the host.        *)
Goes(c, t, sync) ==
  /\ job[c].st = "ready" /\ ~ended[Tag(c)]
  /\ job[c].under # NoCall => sync
  /\ (job[c].under = NoCall /\ sync) \/ Tag(c) = t => c \in marked
  /\ Tag(c) = t => sync

Forward(c, t, sync) ==
  /\ Goes(c, t, sync)
  /\ IF ended[t] THEN Answer(c) /\ UNCHANGED <<made, parent, hops>>
     ELSE Send(c, job[c], PathTo(c, t), t, sync)
  /\ IF Tag(c) = t THEN Spend("home") ELSE UNCHANGED left
  /\ UNCHANGED <<runtime, up, reading, ended>>

(* The host's own call of a runtime *)
HostCall(t, sync) ==
  /\ ~ended[t] /\ Spend(IF sync THEN "host" ELSE "hostAsync")
  /\ Send(Own(left["host"] + left["hostAsync"]), Job(<<>>, NoCall), <<>>, t, sync)
  /\ UNCHANGED <<runtime, up, reading, ended>>

(* request_sync: the thread that waits runs the next call handed to it. *)
Pump(c) ==
  LET f == Head(job[c].inbox)
  IN /\ job[c].inbox # <<>> /\ Nested(c) = {}
     /\ job' = (f.id :> Job(WithOwn(f), job[c].out))
               @@ [job EXCEPT ![c].inbox = Tail(@)]
     /\ UNCHANGED <<runtime, wire, reading, table, ended, count, parent>>

Complete(c) ==
  /\ job[c].st = "replied" /\ job[c].inbox = <<>> /\ Nested(c) = {}
  /\ Answer(c)
  /\ UNCHANGED <<runtime, up, reading, hops, ended, count, parent>>

(* CancelOnDrop, cancel; and the far end's Cancel of a call not started.   *)
(* The code that runs at the far end goes on.                              *)
Drop(c) ==
  /\ job[c].st \in {"ready", "sent"} /\ ~job[c].sync
  /\ job' = Restrict(job, DOMAIN job \ {c})
  /\ marked' = marked \ {c}
  /\ hops' = {h \in hops : h.id # job[c].out}
  /\ UNCHANGED <<runtime, wire, reading, ended, made, parent>>

(* A session that ended drops what it was doing. *)
DropEnded(c) ==
  /\ Tag(c) \in Runtimes /\ ended[Tag(c)]
  /\ Drop(c) /\ UNCHANGED left

(* Nobody who waits synchronously gives up. *)
GiveUp(c) ==
  /\ job[c].under = NoCall /\ c \notin marked
  /\ Spend("drop") /\ Drop(c)

(* close: the process at the far end is gone, and every call sent to it    *)
(* fails; the reader may have taken the next call and not marked it yet.   *)
End(r) ==
  /\ ~ended[r] /\ Spend("end")
  /\ ended' = [ended EXCEPT ![r] = TRUE]
  /\ \E f \in {NoFrame} \cup {Head(up[r]) : i \in DOMAIN up[r]} :
       f.op # "reply" /\ reading' = [reading EXCEPT ![r] = f]
  /\ stack' = [stack EXCEPT ![r] = <<>>] /\ queued' = [queued EXCEPT ![r] = <<>>]
  /\ up' = [up EXCEPT ![r] = <<>>] /\ down' = [down EXCEPT ![r] = <<>>]
  /\ hops' = {h \in hops : h.src # r /\ Tag(h.id) # r}
  /\ marked' = {m \in marked : Tag(m) # r}
  /\ job' = [c \in DOMAIN job |->
               IF Tag(job[c].out) = r THEN [job[c] EXCEPT !.st = "replied"] ELSE job[c]]
  /\ UNCHANGED <<made, parent>>

-----------------------------------------------------------------------------
Init ==
  /\ stack = [r \in Runtimes |-> <<>>] /\ queued = [r \in Runtimes |-> <<>>]
  /\ up = [r \in Runtimes |-> <<>>] /\ down = [r \in Runtimes |-> <<>>]
  /\ reading = [r \in Runtimes |-> NoFrame]
  /\ job = [c \in {} |-> Job(<<>>, NoCall)]
  /\ hops = {} /\ marked = {}
  /\ made = [r \in Runtimes |-> [host |-> 0, runtime |-> 0]]
  /\ \E s \in Scenarios :
       left = s.may /\ ended = [r \in Runtimes |-> r \notin s.there]
  /\ parent = [c \in {} |-> NoCall]

RuntimeStep(r) ==
  \/ Read(r) \/ Start(r)
  \/ \E i \in DOMAIN stack[r] :
       Finish(r, i) \/ \E sync \in BOOLEAN : CallOut(r, i, sync)

Reader(r) == Receive(r) \/ ReadReply(r)

Task(c) ==
  \/ Pump(c) \/ Complete(c) \/ DropEnded(c)
  \/ \E t \in Runtimes, sync \in BOOLEAN : Forward(c, t, sync)

(* What threads and tasks do by themselves, once they are scheduled *)
Scheduled ==
  \/ \E r \in Runtimes : RuntimeStep(r) \/ Reader(r)
  \/ \E c \in DOMAIN job : Task(c)

Outside ==
  \/ \E r \in Runtimes : Wake(r) \/ End(r)
  \/ \E t \in Runtimes, sync \in BOOLEAN : HostCall(t, sync)
  \/ \E c \in DOMAIN job : GiveUp(c)

Next == Scheduled \/ Outside

Spec == Init /\ [][Next]_vars

FairSpec == Spec /\ WF_vars(Scheduled)
-----------------------------------------------------------------------------
(* What a call really waits for, whatever the table says *)

Unread(r) == {f \in ToSet(queued[r]) \cup ToSet(down[r]) : f.op = "call"}

(* An activation waits for the call it made and for all that is above it;  *)
(* a call put aside, for all the calls that keep the runtime from it.      *)
RuntimeWaits(r) ==
  LET on == DOMAIN stack[r]
      wait(i) == IF stack[r][i].got THEN NoCall ELSE stack[r][i].wait
  IN {<<stack[r][i].id, wait(i)>> : i \in on}
     \cup UNION {{<<stack[r][i].id, stack[r][k].id>>, <<stack[r][i].id, wait(k)>>} :
                  <<i, k>> \in {ik \in on \X on : Stacks(r) /\ ik[1] < ik[2]}}
     \cup {<<f.id, wait(i)>> : f \in {f \in Unread(r) : ~Admissible(r, f.path)}, i \in on}

(* A job waits for the call it sent, and its thread for all it runs there. *)
HostWaits(c) ==
  LET handed == {f.id : f \in ToSet(job[c].inbox)}
  IN {<<c, job[c].out>> : x \in {x \in {c} : job[x].st = "sent"}}
     \cup {<<c, n>> : n \in Nested(c) \cup handed} \cup (handed \X Nested(c))

RealWaits ==
  {e \in UNION {RuntimeWaits(r) : r \in Runtimes} \cup UNION {HostWaits(c) : c \in DOMAIN job} :
     NoCall \notin {e[1], e[2]}}

Under(c) == Beyond({<<x, parent[x]>> : x \in DOMAIN parent}, c)

(* No call waits for itself, over any number of runtimes and host threads: *)
(* what waits::forward is there to prevent.                                *)
NoWaitForItself == \A e \in RealWaits : e[1] \notin Beyond(RealWaits, e[1])

(* A call is refused only if it would really wait for itself: whichever    *)
(* frames are still unread, the table never refuses a call that could run. *)
WouldWait(c, t) ==
  LET d == NewId(t)
      path == PathTo(c, t)
  IN RealWaits \cup {<<c, d>>}
     \cup {<<d, w>> : w \in {w \in Waiting(t) : ~Admissible(t, path)}}

OnlyCyclesRefused ==
  \A c \in DOMAIN job, t \in Runtimes, sync \in BOOLEAN :
    /\ Goes(c, t, sync) /\ ~ended[t]
    /\ Refused(Recorded(PathTo(c, t), NewId(t), sync))
    => c \in Beyond(WouldWait(c, t), c)

(* What runs on top of a wait, on a thread of the host or of a runtime     *)
(* that is not reentrant, was made under it: the numbers of two sessions   *)
(* are never taken for each other.                                         *)
NestedUnderItsWait ==
  /\ \A n \in DOMAIN job : job[n].under # NoCall => job[n].under \in Under(n)
  /\ \A r \in Stacked \ Reentrant : \A k \in 2 .. Len(stack[r]) :
       \E i \in 1 .. k - 1 : stack[r][i].wait \in Under(stack[r][k].id)

(* Every variable has the form the table and the sessions give it: the     *)
(* calls recorded as entries are those with no caller.                     *)
Call == (Runtimes \X {"host", "runtime"} \X Nat) \cup ({NoSession} \X {"own"} \X Nat)
TypeOK ==
  /\ \A h \in hops : Tag(h.id) \in Runtimes /\ (h.entry => h.src = NoSession)
  /\ marked \subseteq Call /\ DOMAIN job \subseteq Call
  /\ \A c \in DOMAIN job : job[c].inbox # <<>> => job[c].sync
  /\ \A r \in Runtimes : up[r] # <<>> => ~ended[r]

(* The table is well formed and names only calls still in progress: a hop, *)
(* one that nobody has answered yet; a mark, one that the host still works *)
(* on, but for what the reader of a session that ended marks too late.     *)
InProgress ==
  DOMAIN job \cup UNION {{f.id : f \in ToSet(job[c].inbox)} : c \in DOMAIN job}

TableIsCurrent ==
  /\ TypeOK
  /\ \A h \in hops : \E c \in DOMAIN job : job[c].st = "sent" /\ job[c].out = h.id
  /\ \A m \in marked : ~ended[Tag(m)] => m \in InProgress

(* Whatever a runtime runs comes to its end, and its thread is free again. *)
ThreadsComeFree == \A r \in Runtimes : stack[r] # <<>> ~> stack[r] = <<>>
=============================================================================
