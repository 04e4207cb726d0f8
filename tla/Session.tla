------------------------------ MODULE Session ------------------------------
(***************************************************************************)
(* One session of the bridge: two ends that call each other over an        *)
(* ordered channel, and the references each of them has granted.           *)
(*                                                                         *)
(* Both ends run the same code.  A thread that makes a frame with a value  *)
(* in it holds its end's queue lock from the encoding to the push; the     *)
(* reader, the writer, the tasks that serve calls, whoever drops a         *)
(* reference and whoever closes the session run beside it.  The handshake  *)
(* is over.                                                                *)
(***************************************************************************)
EXTENDS Integers, Sequences, FiniteSets

CONSTANTS
  Side,       \* the two ends
  MaxCalls,   \* bound: how many calls the two make
  Exporter,   \* the ends that have an object of their own to send
  Closer,     \* the ends that may close the session with no cause the model shows
  Size,       \* of a frame, by its op, in bytes
  Limit,      \* each end's outbound_limit, in bytes
  Capacity    \* bound: frames the channel holds before a write waits for the reader

ASSUME SessionAssumption ==
  /\ IsFiniteSet(Side) /\ Cardinality(Side) = 2
  /\ MaxCalls \in Nat
  /\ Exporter \subseteq Side /\ Closer \subseteq Side
  /\ Size \in [{"call", "return", "cancel", "release"} -> Nat \ {0}]
  /\ Limit \in [Side -> Nat] /\ Capacity \in Nat \ {0}

Peer(s) == CHOOSE p \in Side : p # s
Ids == 1 .. MaxCalls
Refs == 1 .. MaxCalls   \* an end sends at most one value for each call

(* What a frame carries: data, the sender's own object under a reference,  *)
(* or a reference back to the receiver's object.                           *)
Data == [kind |-> "data", ref |-> 0]
Own(r) == [kind |-> "own", ref |-> r]
Home(r) == [kind |-> "home", ref |-> r]

Frame(op, id, val) == [op |-> op, id |-> id, val |-> val]
Free == Frame("none", 0, Data)

VARIABLES
  stage,       \* of an end: "open", "closing" (calls.closed is set), "closed" (its tables are taken)
  draft,       \* the frame its queue lock is held for; Free when it is not held
  queued,      \* Outbound: frames waiting for the writer
  wire,        \* frames written, not yet read by the other end
  overrun,     \* the ends that had a frame refused, for which somebody goes on to close
  next,        \* Calls::next
  received,    \* Calls::received
  waiting,     \* Calls::waiting
  cancelled,   \* Calls::cancelled
  caller,      \* where the future of each call an end makes is
  handler,     \* where each call of the other end is; "incoming", "awaiting": in those tables,
               \* "starting": taken by its task, in neither
  granted,     \* Exports: the entry of this end's object, its id and grants; id 0 for none
  exported,    \* Exports::next
  imports,     \* the Imports ever made, with the id and the grants of each
  table,       \* SessionState::imports: by id, the Import there; 0 for none
  refused      \* history: the ends that took a frame for a breach of the protocol

transit == <<queued, wire, overrun>>
calling == <<next, waiting, cancelled, caller>>
serving == <<received, handler>>
exports == <<granted, exported>>
importing == <<imports, table>>
vars == <<stage, draft, transit, calling, serving, exports, importing, refused>>

Locked(s) == draft[s] # Free

-----------------------------------------------------------------------------
(* References *)

Held(s) == {k \in DOMAIN imports[s] : imports[s][k].st = "held"}

(* The values worth telling apart: an exporter's hold its object. *)
Sendable(s) ==
  (IF s \in Exporter THEN {Own(0)} ELSE {Data})
  \cup {Home(imports[s][k].ref) : k \in Held(s)}

(* encode_local, grant: the entry there is, or a new one *)
GrantedOnce(s) ==
  IF granted[s].ref # 0 THEN [granted[s] EXCEPT !.n = @ + 1]
  ELSE [ref |-> exported[s] + 1, n |-> 1]

Encode(s, op, id, v) ==
  IF v.kind = "own"
  THEN /\ granted' = [granted EXCEPT ![s] = GrantedOnce(s)]
       /\ exported' = [exported EXCEPT ![s] = IF granted[s].ref = 0 THEN @ + 1 ELSE @]
       /\ draft' = [draft EXCEPT ![s] = Frame(op, id, Own(GrantedOnce(s).ref))]
  ELSE /\ draft' = [draft EXCEPT ![s] = Frame(op, id, v)]
       /\ UNCHANGED exports

Fewer(g, n) == IF g.n = n THEN [ref |-> 0, n |-> 0] ELSE [g EXCEPT !.n = @ - n]

(* Give back what a frame granted that is not sent. *)
Ungrant(s) ==
  granted' = IF draft[s].val.kind = "own"
             THEN [granted EXCEPT ![s] = Fewer(@, 1)] ELSE granted

(* The Import of a reference received: the one in the table counts one     *)
(* more grant while somebody still holds it, else a new one takes its      *)
(* place.                                                                  *)
CountOnce(s, v) ==   \* mutant of Decode
  LET k == table[s][v.ref] IN
  IF v.kind # "own" THEN UNCHANGED importing
  ELSE IF k # 0
  THEN UNCHANGED importing
  ELSE /\ imports' = [imports EXCEPT ![s] = Append(@, [ref |-> v.ref, n |-> 1, st |-> "held"])]
       /\ table' = [table EXCEPT ![s][v.ref] = Len(imports[s]) + 1]

Decode(s, v) ==
  LET k == table[s][v.ref] IN
  IF v.kind # "own" THEN UNCHANGED importing
  ELSE IF k \in Held(s)
  THEN /\ imports' = [imports EXCEPT ![s][k].n = @ + 1]
       /\ UNCHANGED table
  ELSE /\ imports' = [imports EXCEPT ![s] = Append(@, [ref |-> v.ref, n |-> 1, st |-> "held"])]
       /\ table' = [table EXCEPT ![s][v.ref] = Len(imports[s]) + 1]

(* export(): a reference to this end's object names its entry *)
Known(s, v) == v.kind = "home" => v.ref = granted[s].ref

-----------------------------------------------------------------------------
(* The outbound queue *)

(* The sum of the numbers in a list, as so many pairs. *)
Total(f) == Cardinality(UNION {{i} \X (1 .. f[i]) : i \in DOMAIN f})

Bytes(q) == Total([i \in DOMAIN q |-> Size[q[i].op]])

(* The far end is too far behind; an empty queue takes one frame whatever  *)
(* its size.                                                               *)
Behind(s, f) == queued[s] # <<>> /\ Bytes(queued[s]) + Size[f.op] > Limit[s]

Accepts(s, f) == stage[s] = "open" /\ ~ Behind(s, f)

WaitForRoom(s, f) ==   \* mutant of Push
  /\ stage[s] = "open" => ~ Behind(s, f)
  /\ queued' = IF stage[s] = "open" THEN [queued EXCEPT ![s] = Append(@, f)] ELSE queued
  /\ UNCHANGED <<wire, overrun>>

(* push: what it refuses is lost, and its caller, which lets go of the     *)
(* queue's lock first, closes the session (CloseBehind)                    *)
Push(s, f) ==
  /\ queued' = IF Accepts(s, f) THEN [queued EXCEPT ![s] = Append(@, f)] ELSE queued
  /\ overrun' = IF Accepts(s, f) \/ stage[s] # "open" THEN overrun ELSE overrun \cup {s}
  /\ UNCHANGED wire

(* write_frames *)
Write(s) ==
  /\ stage[s] = "open"
  /\ queued[s] # <<>>
  /\ Len(wire[s]) < Capacity
  /\ wire' = [wire EXCEPT ![s] = Append(@, Head(queued[s]))]
  /\ queued' = [queued EXCEPT ![s] = Tail(@)]
  /\ UNCHANGED <<stage, draft, overrun, calling, serving, exports, importing, refused>>

-----------------------------------------------------------------------------
(* Calling *)

(* send: an id, then the arguments encoded, under the queue's lock ... *)
SendBegin(s) ==
  /\ ~ Locked(s)
  /\ stage[s] = "open"
  /\ next[s] + next[Peer(s)] < MaxCalls
  /\ next' = [next EXCEPT ![s] = @ + 1]
  /\ caller' = [caller EXCEPT ![s][next[s] + 1] = "sending"]
  /\ \E v \in Sendable(s) : Encode(s, "call", next[s] + 1, v)
  /\ UNCHANGED <<stage, transit, waiting, cancelled, serving, importing, refused>>

Calling(s) == draft[s].op = "call"

(* ... which fails this call alone if they cannot be sent ... *)
SendRefused(s) ==
  /\ Calling(s)
  /\ Ungrant(s)
  /\ caller' = [caller EXCEPT ![s][draft[s].id] = "failed"]
  /\ draft' = [draft EXCEPT ![s] = Free]
  /\ UNCHANGED <<stage, transit, next, waiting, cancelled, serving, exported, importing, refused>>

(* ... else the waiter is registered and the frame queued. *)
SendEnd(s) ==
  /\ Calling(s)
  /\ waiting' = [waiting EXCEPT ![s] = @ \cup {draft[s].id}]
  /\ caller' = [caller EXCEPT
                  ![s][draft[s].id] = IF Accepts(s, draft[s]) THEN "waiting" ELSE "failed"]
  /\ Push(s, draft[s])
  /\ draft' = [draft EXCEPT ![s] = Free]
  /\ UNCHANGED <<stage, next, cancelled, serving, exports, importing, refused>>

(* The future takes its result, *)
Consume(s, c) ==
  /\ caller[s][c] = "answered"
  /\ caller' = [caller EXCEPT ![s][c] = "replied"]
  /\ UNCHANGED <<stage, draft, transit, next, waiting, cancelled, serving, exports, importing,
                 refused>>

Forget(s, c) ==   \* mutant of GiveUp
  /\ waiting' = [waiting EXCEPT ![s] = @ \ {c}]
  /\ UNCHANGED cancelled

GiveUp(s, c) ==
  /\ waiting' = [waiting EXCEPT ![s] = @ \ {c}]
  /\ cancelled' = [cancelled EXCEPT ![s] = IF c \in waiting[s] THEN @ \cup {c} ELSE @]

(* or is dropped first, answered or not (CancelOnDrop, cancel): ...        *)
Cancel(s, c) ==
  /\ caller[s][c] \in {"waiting", "answered"}
  /\ IF stage[s] = "open"
     THEN /\ GiveUp(s, c)
          /\ caller' = [caller EXCEPT ![s][c] = "cancelling"]
     ELSE /\ caller' = [caller EXCEPT ![s][c] = "cancelled"]
          /\ UNCHANGED <<waiting, cancelled>>
  /\ UNCHANGED <<stage, draft, transit, next, serving, exports, importing, refused>>

(* ... the far end is told in a step of its own. *)
CancelWrite(s, c) ==
  /\ caller[s][c] = "cancelling"
  /\ ~ Locked(s)
  /\ caller' = [caller EXCEPT ![s][c] = "cancelled"]
  /\ Push(s, Frame("cancel", c, Data))
  /\ UNCHANGED <<stage, draft, next, waiting, cancelled, serving, exports, importing, refused>>

-----------------------------------------------------------------------------
(* Serving *)

(* The task takes an admitted call out of its table ... *)
Start(s, c) ==
  /\ handler[s][c] = "incoming"
  /\ handler' = [handler EXCEPT ![s][c] = "starting"]
  /\ UNCHANGED <<stage, draft, transit, calling, received, exports, importing, refused>>

(* ... and runs it, or awaits its future, unless the session ends. *)
Execute(s, c) ==
  /\ handler[s][c] = "starting"
  /\ \E to \in IF stage[s] = "open" THEN {"running", "awaiting"} ELSE {"dropped"} :
       handler' = [handler EXCEPT ![s][c] = to]
  /\ UNCHANGED <<stage, draft, transit, calling, received, exports, importing, refused>>

ReadyAnyway(s, c) ==   \* mutant of Ready
  /\ handler[s][c] \in {"awaiting", "dropped"}
  /\ handler' = [handler EXCEPT ![s][c] = "running"]
  /\ UNCHANGED <<stage, draft, transit, calling, received, exports, importing, refused>>

(* The future is ready: finish_await takes the entry, unless a cancel has. *)
Ready(s, c) ==
  /\ handler[s][c] = "awaiting"
  /\ handler' = [handler EXCEPT ![s][c] = "running"]
  /\ UNCHANGED <<stage, draft, transit, calling, received, exports, importing, refused>>

(* respond_to: the result encoded under the queue's lock, open or not; ... *)
RespondBegin(s, c) ==
  /\ handler[s][c] = "running"
  /\ ~ Locked(s)
  /\ handler' = [handler EXCEPT ![s][c] = "answering"]
  /\ \E v \in Sendable(s) : Encode(s, "return", c, v)
  /\ UNCHANGED <<stage, transit, calling, received, importing, refused>>

(* ... one that cannot be sent is answered with an error; ... *)
RespondTooLarge(s) ==
  /\ draft[s].op = "return"
  /\ draft[s].val # Data
  /\ Ungrant(s)
  /\ draft' = [draft EXCEPT ![s].val = Data]
  /\ UNCHANGED <<stage, transit, calling, serving, exported, importing, refused>>

(* ... the reply is queued. *)
RespondEnd(s) ==
  /\ draft[s].op = "return"
  /\ handler' = [handler EXCEPT
                   ![s][draft[s].id] = IF Accepts(s, draft[s]) THEN "answered" ELSE "dropped"]
  /\ Push(s, draft[s])
  /\ draft' = [draft EXCEPT ![s] = Free]
  /\ UNCHANGED <<stage, calling, received, exports, importing, refused>>

-----------------------------------------------------------------------------
(* The reader *)

Refuse(s) ==
  /\ stage' = [stage EXCEPT ![s] = "closing"]
  /\ refused' = refused \cup {s}
  /\ UNCHANGED <<calling, serving, exports, importing>>

ReceiveCall(s, f) ==
  IF f.id > received[s] /\ Known(s, f.val)
  THEN /\ received' = [received EXCEPT ![s] = f.id]
       /\ handler' = [handler EXCEPT ![s][f.id] = "incoming"]
       /\ Decode(s, f.val)
       /\ UNCHANGED <<stage, calling, exports, refused>>
  ELSE Refuse(s)

(* reply_target: for a waiter, or late for a call that was given up *)
ReceiveReply(s, f) ==
  IF f.id \in waiting[s] \cup cancelled[s] /\ Known(s, f.val)
  THEN /\ Decode(s, f.val)
       /\ caller' = IF f.id \in waiting[s]
                    THEN [caller EXCEPT ![s][f.id] = "answered"] ELSE caller
       /\ waiting' = [waiting EXCEPT ![s] = @ \ {f.id}]
       /\ cancelled' = [cancelled EXCEPT ![s] = IF f.id \in waiting[s] THEN @ ELSE @ \ {f.id}]
       /\ UNCHANGED <<stage, next, serving, exports, refused>>
  ELSE Refuse(s)

(* The work queued or awaited for the call is dropped; what runs goes on.  *)
ReceiveCancel(s, f) ==
  /\ handler' = IF handler[s][f.id] \in {"incoming", "awaiting"}
                THEN [handler EXCEPT ![s][f.id] = "dropped"] ELSE handler
  /\ UNCHANGED <<stage, calling, received, exports, importing, refused>>

ReceiveRelease(s, f) ==
  IF f.val.ref = granted[s].ref /\ f.id \in 1 .. granted[s].n
  THEN /\ granted' = [granted EXCEPT ![s] = Fewer(@, f.id)]
       /\ UNCHANGED <<stage, calling, serving, exported, importing, refused>>
  ELSE Refuse(s)

Receive(s) ==
  /\ stage[s] = "open"
  /\ wire[Peer(s)] # <<>>
  /\ wire' = [wire EXCEPT ![Peer(s)] = Tail(@)]
  /\ LET f == Head(wire[Peer(s)]) IN
     \/ f.op = "call" /\ ReceiveCall(s, f)
     \/ f.op = "return" /\ ReceiveReply(s, f)
     \/ f.op = "cancel" /\ ReceiveCancel(s, f)
     \/ f.op = "release" /\ ReceiveRelease(s, f)
  /\ UNCHANGED <<draft, queued, overrun>>

-----------------------------------------------------------------------------
(* Dropping references *)

(* The last holder of an Import lets go of it; a frame being made for it   *)
(* holds it too.                                                           *)
DropImport(s, k) ==
  /\ k \in Held(s)
  /\ draft[s].val # Home(imports[s][k].ref)
  /\ imports' = [imports EXCEPT ![s][k].st = "dropping"]
  /\ UNCHANGED <<stage, draft, transit, calling, serving, exports, table, refused>>

(* The table may hold a newer Import of the same reference by now. *)
Mine(s, k) == table[s][imports[s][k].ref] = k

(* Drop of Import: out of the table, and its grants go back. *)
Release(s, k) ==
  /\ k \in DOMAIN imports[s]
  /\ imports[s][k].st = "dropping"
  /\ ~ Locked(s)
  /\ imports' = [imports EXCEPT ![s][k].st = "gone", ![s][k].n = 0]
  /\ table' = [table EXCEPT ![s][imports[s][k].ref] = IF Mine(s, k) THEN 0 ELSE @]
  /\ Push(s, Frame("release", imports[s][k].n, Home(imports[s][k].ref)))
  /\ UNCHANGED <<stage, draft, calling, serving, exports, refused>>

-----------------------------------------------------------------------------
(* Closing *)

(* close: the host's, after a channel that failed, or ...   *)
Close(s) ==
  /\ stage[s] = "open"
  /\ stage' = [stage EXCEPT ![s] = "closing"]
  /\ overrun' = overrun \ {s}
  /\ UNCHANGED <<draft, queued, wire, calling, serving, exports, importing, refused>>

(* ... that of whoever had a frame refused, or ...                          *)
CloseBehind(s) == s \in overrun /\ Close(s)

(* ... the reader's, at the end of what the other end sent. *)
CloseAtEnd(s) == stage[Peer(s)] # "open" /\ wire[Peer(s)] = <<>> /\ Close(s)

AnyTime(s) == TRUE   \* mutant of Excluded

(* The tables are taken under the lock that frames are made under. *)
Excluded(s) == ~ Locked(s)

(* Whoever waited learns why the session ended. *)
Finish(s) ==
  caller' = [caller EXCEPT ![s] = [c \in Ids |->
               IF @[c] = "waiting" THEN "failed" ELSE @[c]]]

Teardown(s) ==
  /\ stage[s] = "closing"
  /\ Excluded(s)
  /\ stage' = [stage EXCEPT ![s] = "closed"]
  /\ queued' = [queued EXCEPT ![s] = <<>>]
  /\ waiting' = [waiting EXCEPT ![s] = {}]
  /\ Finish(s)
  /\ handler' = [handler EXCEPT ![s] = [c \in Ids |->
       IF @[c] \in {"incoming", "awaiting"} THEN "dropped" ELSE @[c]]]
  /\ granted' = [granted EXCEPT ![s] = [ref |-> 0, n |-> 0]]
  /\ table' = [table EXCEPT ![s] = [r \in Refs |-> 0]]
  /\ UNCHANGED <<draft, wire, overrun, next, cancelled, received, exported, imports, refused>>

-----------------------------------------------------------------------------
Init ==
  /\ stage = [s \in Side |-> "open"]
  /\ draft = [s \in Side |-> Free]
  /\ queued = [s \in Side |-> <<>>]
  /\ wire = [s \in Side |-> <<>>]
  /\ overrun = {}
  /\ next = [s \in Side |-> 0]
  /\ received = [s \in Side |-> 0]
  /\ waiting = [s \in Side |-> {}]
  /\ cancelled = [s \in Side |-> {}]
  /\ caller = [s \in Side |-> [c \in Ids |-> "idle"]]
  /\ handler = [s \in Side |-> [c \in Ids |-> "none"]]
  /\ granted = [s \in Side |-> [ref |-> 0, n |-> 0]]
  /\ exported = [s \in Side |-> 0]
  /\ imports = [s \in Side |-> <<>>]
  /\ table = [s \in Side |-> [r \in Refs |-> 0]]
  /\ refused = {}

Step(s) ==
  \/ SendBegin(s) \/ SendRefused(s) \/ SendEnd(s)
  \/ RespondTooLarge(s) \/ RespondEnd(s)
  \/ Write(s) \/ Receive(s) \/ CloseBehind(s) \/ CloseAtEnd(s) \/ Teardown(s)
  \/ \E c \in Ids : Consume(s, c) \/ Cancel(s, c) \/ CancelWrite(s, c)
  \/ \E c \in Ids : Start(s, c) \/ Execute(s, c) \/ Ready(s, c) \/ RespondBegin(s, c)
  \/ \E k \in DOMAIN imports[s] : DropImport(s, k) \/ Release(s, k)

Next ==
  \/ \E s \in Side : Step(s)
  \/ \E s \in Closer : Close(s)

Spec == Init /\ [][Next]_vars

(* What the threads of an end go on with: the frame being made, the one to  *)
(* write, the end of the session, a call to serve, a future that is ready,  *)
(* a reference dropped.                                                     *)
GoesOn(s) ==
  \/ SendEnd(s) \/ SendRefused(s) \/ RespondEnd(s)
  \/ Write(s) \/ CloseBehind(s) \/ CloseAtEnd(s) \/ Teardown(s)
  \/ \E c \in Ids : Start(s, c) \/ Execute(s, c) \/ Ready(s, c) \/ RespondBegin(s, c)
  \/ \E c \in Ids : Consume(s, c) \/ CancelWrite(s, c)
  \/ \E k \in DOMAIN imports[s] : Release(s, k)

(* An end with anything of that to do does some of it.  Nobody has to make  *)
(* a call, give one up, drop a reference or close; and no end has to read.  *)
Fairness == \A s \in Side : WF_vars(GoesOn(s))

FairSpec == Spec /\ Fairness

-----------------------------------------------------------------------------
(* Properties *)

Values == {Data} \cup {Own(r) : r \in Refs} \cup {Home(r) : r \in Refs}
Frames == [op : {"none", "call", "return", "cancel", "release"}, id : Nat, val : Values]
Entries == [ref : Refs \cup {0}, n : Nat]

(* Every table, queue and lock holds what the structs of rpc.rs allow.      *)
TypeOK ==
  /\ stage \in [Side -> {"open", "closing", "closed"}]
  /\ draft \in [Side -> Frames]
  /\ queued \in [Side -> Seq(Frames)] /\ wire \in [Side -> Seq(Frames)]
  /\ overrun \subseteq Side
  /\ next \in [Side -> Nat] /\ received \in [Side -> Nat]
  /\ waiting \in [Side -> SUBSET Ids] /\ cancelled \in [Side -> SUBSET Ids]
  /\ caller \in [Side -> [Ids -> {"idle", "sending", "waiting", "answered", "replied",
                                  "failed", "cancelling", "cancelled"}]]
  /\ handler \in [Side -> [Ids -> {"none", "incoming", "starting", "awaiting", "running",
                                   "answering", "answered", "dropped"}]]
  /\ granted \in [Side -> Entries] /\ exported \in [Side -> Nat]
  /\ imports \in [Side -> Seq([ref : Refs, n : Nat, st : {"held", "dropping", "gone"}])]
  /\ table \in [Side -> [Refs -> Nat]]
  /\ refused \subseteq Side

(* Two ends that run this code never take each other's frames for a breach  *)
(* of the protocol: whatever is cancelled, dropped or granted again         *)
(* meanwhile, a reply has its waiter or its cancellation mark, a reference  *)
(* sent home is still exported, and a release gives back what was granted.  *)
NothingRefused == refused = {}

Chan(s) == wire[s] \o queued[s]

OwnIn(q, r) == [i \in DOMAIN q |-> IF q[i].val = Own(r) THEN 1 ELSE 0]
ReleasedIn(q, r) ==
  [i \in DOMAIN q |-> IF q[i].op = "release" /\ q[i].val.ref = r THEN q[i].id ELSE 0]
HeldIn(m, r) == [k \in DOMAIN m |-> IF m[k].ref = r THEN m[k].n ELSE 0]

(* What the other end of s has, or will have, to give back for reference r. *)
Owed(s, r) ==
  Total(OwnIn(<<draft[s]>>, r)) + Total(OwnIn(Chan(s), r))
  + Total(HeldIn(imports[Peer(s)], r)) + Total(ReleasedIn(Chan(Peer(s)), r))

(* Every table is well typed; and while the session is open and has lost no *)
(* frame, an export holds exactly the grants that are on their way, held by *)
(* the other end, or on their way back: no object goes while the other end  *)
(* can still name it, and none stays once it cannot.                        *)
GrantsCounted ==
  /\ TypeOK
  /\ \A s \in Side : overrun = {} /\ (\A t \in Side : stage[t] = "open") =>
       \A r \in Refs : Owed(s, r) = IF granted[s].ref = r THEN granted[s].n ELSE 0

(* A closed end keeps no call: nobody waits on it, and nothing is queued or *)
(* awaited for the other end, whatever was being sent while it closed.      *)
ClosedKeepsNoCall ==
  \A s \in Side : stage[s] = "closed" =>
    /\ waiting[s] = {} /\ queued[s] = <<>>
    /\ \A c \in Ids : caller[s][c] # "waiting" /\ handler[s][c] \notin {"incoming", "awaiting"}

(* A call is served at most once, a result its caller sees is one the far   *)
(* end gave, and a call that is over stays over (RemoteCall).               *)
Asked == [c \in Side \X Ids |->
  LET at == caller[c[1]][c[2]] IN
  IF at = "idle" THEN "no"
  ELSE IF at \in {"sending", "waiting", "answered"} THEN "waiting"
  ELSE IF at = "cancelling" THEN "cancelled" ELSE at]

Served == [c \in Side \X Ids |->
  LET at == handler[Peer(c[1])][c[2]] IN
  IF at \in {"none", "incoming", "starting"} THEN "no"
  ELSE IF at \in {"awaiting", "running", "answering"} THEN "serving" ELSE at]

Remote == INSTANCE RemoteCall WITH Call <- Side \X Ids, asked <- Asked, served <- Served

IsRemoteCall == Remote!Spec

(* Nobody is left hanging.  Whoever sends, or drops a reference, is not     *)
(* held up by a far end that does not read, however much waits for it (the  *)
(* doc of Outbound); a session that refused a frame ends; and a call ends   *)
(* with its reply, an error or its own cancellation, also when the session  *)
(* closes under it on either end, unless an open end has not read yet what  *)
(* was sent to it.                                                          *)
AllRead == \A s \in Side : stage[s] = "open" => wire[Peer(s)] = <<>>

Hanging(s) ==
  \/ Locked(s)
  \/ \E c \in Ids : caller[s][c] = "cancelling"
  \/ \E k \in DOMAIN imports[s] : imports[s][k].st = "dropping"
  \/ s \in overrun /\ stage[s] # "closed"
  \/ AllRead /\ \E c \in Ids : caller[s][c] \in {"waiting", "answered"}

NobodyHangs == (\E s \in Side : Hanging(s)) ~> ~ \E s \in Side : Hanging(s)
=============================================================================
