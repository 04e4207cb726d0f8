---------------------------- MODULE SessionProofs ----------------------------
(***************************************************************************)
(* The calls of a session, for any number of them: a closed end keeps no   *)
(* call, and the two ends together do what RemoteCall promises of every    *)
(* call.                                                                   *)
(*                                                                         *)
(* The inductive invariant follows a call from its caller's draft over the *)
(* channel to its handler and back: where its id was given out (Numbered), *)
(* what the lock is held for (Drafted), what a frame on its way says of    *)
(* both ends (Sent), what the far end has taken (Taken), what a waiter and *)
(* a reply mean (Waiters), and that a closed end keeps none of it.         *)
(***************************************************************************)
EXTENDS Session, FiniteSetTheorems, TLAPS

USE DEF transit, calling, serving, exports, importing

-----------------------------------------------------------------------------
(* The invariant *)

(* What the frames and tables hold, whatever numbers are in them. *)
Payloads == [kind : {"data", "own", "home"}, ref : Nat]
Messages == [op : {"none", "call", "return", "cancel", "release"}, id : Nat, val : Payloads]
Counts == [ref : Nat, n : Int]
ImportRecs == [ref : Nat, n : Nat, st : {"held", "dropping", "gone"}]
Places == {"idle", "sending", "waiting", "answered", "replied", "failed", "cancelling",
           "cancelled"}

Typed ==
  /\ stage \in [Side -> {"open", "closing", "closed"}]
  /\ draft \in [Side -> Messages]
  /\ queued \in [Side -> Seq(Messages)] /\ wire \in [Side -> Seq(Messages)]
  /\ overrun \subseteq Side
  /\ next \in [Side -> Nat] /\ received \in [Side -> Nat]
  /\ waiting \in [Side -> SUBSET Nat] /\ cancelled \in [Side -> SUBSET Nat]
  /\ caller \in [Side -> [Ids -> Places]]
  /\ handler \in [Side -> [Ids -> {"none", "incoming", "starting", "awaiting", "running",
                                   "answering", "answered", "dropped"}]]
  /\ granted \in [Side -> Counts] /\ exported \in [Side -> Nat]
  /\ imports \in [Side -> Seq(ImportRecs)]
  /\ table \in [Side -> [Refs -> Nat]]

(* An end gives out its ids in order, so many as the two may. *)
Numbered ==
  \A s \in Side :
    /\ next[s] + next[Peer(s)] <= MaxCalls
    /\ \A c \in Ids : caller[s][c] = "idle" <=> c > next[s]

(* The lock is held for a call that is being sent or a result being given, *)
(* for a call by an end that is not closed.                                *)
Drafted ==
  \A s \in Side :
    /\ draft[s].op \in {"none", "call", "return"}
    /\ draft[s].op = "none" <=> draft[s] = Free
    /\ draft[s].op = "call" =>
         /\ draft[s].id \in Ids
         /\ caller[s][draft[s].id] = "sending"
         /\ stage[s] # "closed"
    /\ draft[s].op = "return" =>
         /\ draft[s].id \in Ids
         /\ handler[s][draft[s].id] = "answering"

In(q, f) == \E i \in 1 .. Len(q) : q[i] = f

(* An open end fails a call only if it is never sent. *)
Unsent(s, c) ==
  \/ caller[s][c] \in {"idle", "sending"}
  \/ caller[s][c] = "failed" /\ stage[s] = "open"

(* A frame is sent of a call that was made, or of one that was answered. *)
Says(s, f) ==
  /\ f.op # "none"
  /\ f.op \in {"call", "cancel"} =>
       f.id \in Ids /\ ~ Unsent(s, f.id)
  /\ f.op = "return" => f.id \in Ids /\ handler[s][f.id] = "answered"

Sent == \A s \in Side : \A f : In(wire[s], f) \/ In(queued[s], f) => Says(s, f)

(* What an end serves it has received, and the other end has sent it. *)
Taken ==
  \A s \in Side : \A c \in Ids : handler[s][c] # "none" =>
    /\ c <= received[s]
    /\ ~ Unsent(Peer(s), c)

(* A waiter is there for a future that waits, for one whose call was        *)
(* refused, or for one that the end no longer answers; a result is one the  *)
(* far end gave.                                                            *)
Waiters ==
  \A s \in Side :
    /\ \A c \in waiting[s] : c \in Ids /\ (caller[s][c] \in {"waiting", "failed"} \/ stage[s] # "open")
    /\ \A c \in Ids : caller[s][c] = "answered" => handler[Peer(s)][c] = "answered"

CallInv ==
  /\ Typed /\ Numbered /\ Drafted /\ Sent /\ Taken /\ Waiters
  /\ ClosedKeepsNoCall

-----------------------------------------------------------------------------
(* Two ends, and lists of frames *)

LEMMA Two ==
  ASSUME NEW s \in Side
  PROVE  /\ Peer(s) \in Side /\ Peer(s) # s /\ Peer(Peer(s)) = s
         /\ \A t \in Side : t = s \/ t = Peer(s)
  <1>1. ASSUME NEW t \in Side
        PROVE  Peer(t) \in Side \ {t} /\ Side \ {t} = {Peer(t)}
    <2>1. IsFiniteSet(Side \ {t}) /\ Cardinality(Side \ {t}) = 1
      BY SessionAssumption, FS_RemoveElement
    <2>2. PICK x : Side \ {t} = {x} BY <2>1, FS_Singleton
    <2>3. Peer(t) \in Side /\ Peer(t) # t BY <2>2 DEF Peer
    <2> QED BY <2>2, <2>3
  <1>2. Peer(s) \in Side \ {s} /\ Side \ {s} = {Peer(s)} BY <1>1
  <1>3. Peer(Peer(s)) \in Side /\ Peer(Peer(s)) # Peer(s) BY <1>1, <1>2
  <1>4. \A t \in Side : t = s \/ t = Peer(s) BY <1>2
  <1>5. Peer(Peer(s)) = s BY <1>3, <1>4
  <1> QED BY <1>2, <1>4, <1>5

(* What is in a list after a frame was put at its end, ... *)
LEMMA InAppended ==
  ASSUME NEW M, NEW q \in Seq(M), NEW x \in M, NEW f
  PROVE  In(Append(q, x), f) <=> In(q, f) \/ f = x
  <1>1. Len(Append(q, x)) = Len(q) + 1 /\ Len(q) \in Nat OBVIOUS
  <1>2. Append(q, x)[Len(q) + 1] = x OBVIOUS
  <1>3. \A k \in 1 .. Len(q) : Append(q, x)[k] = q[k] OBVIOUS
  <1>4. \A k : k \in 1 .. Len(q) + 1 <=> k \in 1 .. Len(q) \/ k = Len(q) + 1 BY <1>1
  <1> QED BY <1>1, <1>2, <1>3, <1>4 DEF In

(* ... and after its first was taken. *)
LEMMA InTaken ==
  ASSUME NEW M, NEW q \in Seq(M), q # <<>>
  PROVE  /\ Head(q) \in M /\ Tail(q) \in Seq(M)
         /\ In(q, Head(q))
         /\ \A f : In(Tail(q), f) => In(q, f)
  <1>1. Len(q) \in Nat /\ Len(q) >= 1 /\ Len(Tail(q)) = Len(q) - 1 OBVIOUS
  <1>2. \A k \in 1 .. Len(q) - 1 : Tail(q)[k] = q[k + 1] OBVIOUS
  <1>3. Head(q) = q[1] OBVIOUS
  <1>4. \A k \in 1 .. Len(q) - 1 : k + 1 \in 1 .. Len(q) BY <1>1
  <1>5. 1 \in 1 .. Len(q) BY <1>1
  <1>6. Head(q) \in M /\ Tail(q) \in Seq(M) OBVIOUS
  <1> QED BY <1>1, <1>2, <1>3, <1>4, <1>5, <1>6 DEF In

LEMMA InNone == \A f : ~ In(<<>>, f)
  BY DEF In

-----------------------------------------------------------------------------
(* Types *)

LEMMA PlaceSet ==
  ASSUME NEW S, NEW g \in [Side -> [Ids -> S]], NEW s \in Side, NEW c, NEW v \in S
  PROVE  [g EXCEPT ![s][c] = v] \in [Side -> [Ids -> S]]
  OBVIOUS

LEMMA SetChanged ==
  ASSUME NEW g \in [Side -> SUBSET Nat], NEW s \in Side, NEW c \in Nat
  PROVE  /\ [g EXCEPT ![s] = @ \cup {c}] \in [Side -> SUBSET Nat]
         /\ [g EXCEPT ![s] = @ \ {c}] \in [Side -> SUBSET Nat]
  <1>1. g[s] \cup {c} \in SUBSET Nat /\ g[s] \ {c} \in SUBSET Nat OBVIOUS
  <1> QED BY <1>1

LEMMA FramesMade ==
  /\ Free \in Messages /\ Data \in Payloads
  /\ \A r \in Nat : Own(r) \in Payloads /\ Home(r) \in Payloads
  /\ \A op \in {"call", "return", "cancel", "release"}, i \in Nat, v \in Payloads :
       Frame(op, i, v) \in Messages
  BY DEF Free, Frame, Messages, Payloads, Data, Own, Home

LEMMA TypedInit == Init => Typed
  BY FramesMade DEF Init, Typed, Counts, Places

(* What an end may send. *)
LEMMA SentPayload ==
  ASSUME Typed, NEW s \in Side, NEW v \in Sendable(s)
  PROVE  v \in Payloads
  <1>1. \A k \in Held(s) : imports[s][k] \in ImportRecs BY DEF Typed, Held
  <1>2. \A k \in Held(s) : imports[s][k].ref \in Nat BY <1>1 DEF ImportRecs
  <1> QED BY <1>2, FramesMade DEF Sendable

(* Encoding changes what is granted and the frame the lock is held for. *)
LEMMA Encoded ==
  ASSUME Typed, NEW s \in Side, NEW op \in {"call", "return"}, NEW c \in Nat,
         NEW v \in Sendable(s), Encode(s, op, c, v)
  PROVE  /\ granted' \in [Side -> Counts] /\ exported' \in [Side -> Nat]
         /\ draft' \in [Side -> Messages]
         /\ draft'[s].op = op /\ draft'[s].id = c /\ draft'[s] # Free
         /\ \A t \in Side \ {s} : draft'[t] = draft[t]
  <1>1. v \in Payloads BY SentPayload
  <1>2. granted[s] \in Counts /\ exported[s] \in Nat BY DEF Typed
  <1>3. GrantedOnce(s) \in Counts BY <1>2 DEF GrantedOnce, Counts
  <1>4. granted' \in [Side -> Counts] /\ exported' \in [Side -> Nat]
    <2>1. CASE v.kind = "own"
      <3>1. granted' = [granted EXCEPT ![s] = GrantedOnce(s)] BY <2>1 DEF Encode
      <3>2. exported' = [exported EXCEPT ![s] =
                           IF granted[s].ref = 0 THEN exported[s] + 1 ELSE exported[s]]
        BY <2>1 DEF Encode
      <3> QED BY <1>2, <1>3, <3>1, <3>2 DEF Typed
    <2>2. CASE v.kind # "own" BY <2>2 DEF Typed, Encode
    <2> QED BY <2>1, <2>2
  <1>5. PICK w \in Payloads : draft' = [draft EXCEPT ![s] = Frame(op, c, w)]
    BY <1>1, <1>3, FramesMade DEF Encode, Counts
  <1>6. draft' \in [Side -> Messages] BY <1>5, FramesMade DEF Typed
  <1>7. draft'[s] = Frame(op, c, w) /\ \A t \in Side \ {s} : draft'[t] = draft[t]
    BY <1>5 DEF Typed
  <1>8. Frame(op, c, w).op = op /\ Frame(op, c, w).id = c /\ op # "none"
    BY DEF Frame
  <1>9. Free.op = "none" BY DEF Free, Frame
  <1> QED BY <1>4, <1>6, <1>7, <1>8, <1>9

LEMMA Ungranted ==
  ASSUME Typed, NEW s \in Side, Ungrant(s)
  PROVE  granted' \in [Side -> Counts]
  <1>1. granted[s] \in Counts BY DEF Typed
  <1>2. Fewer(granted[s], 1) \in Counts BY <1>1 DEF Fewer, Counts
  <1>3. \/ granted' = granted
        \/ granted' = [granted EXCEPT ![s] = Fewer(granted[s], 1)]
    BY DEF Ungrant
  <1> QED BY <1>2, <1>3 DEF Typed

(* A push adds at most its frame, to the queue of an end that is not        *)
(* closed.                                                                  *)
LEMMA Pushed ==
  ASSUME Typed, NEW s \in Side, NEW f \in Messages, Push(s, f)
  PROVE  /\ queued' \in [Side -> Seq(Messages)] /\ wire' = wire
         /\ overrun' \subseteq Side
         /\ \A t \in Side \ {s} : queued'[t] = queued[t]
         /\ \A g : In(queued'[s], g) => In(queued[s], g) \/ (Accepts(s, f) /\ g = f)
         /\ queued'[s] = IF Accepts(s, f) THEN Append(queued[s], f) ELSE queued[s]
  <1>1. queued[s] \in Seq(Messages) BY DEF Typed
  <1>2. Append(queued[s], f) \in Seq(Messages) BY <1>1
  <1>3. queued'[s] = IF Accepts(s, f) THEN Append(queued[s], f) ELSE queued[s]
    BY DEF Push, Typed
  <1>4. \A g : In(queued'[s], g) => In(queued[s], g) \/ (Accepts(s, f) /\ g = f)
    BY <1>1, <1>3, InAppended
  <1>5. queued' \in [Side -> Seq(Messages)] BY <1>2 DEF Push, Typed
  <1> QED BY <1>3, <1>4, <1>5 DEF Push, Typed

(* A frame received counts, at most, one grant. *)
LEMMA Decoded ==
  ASSUME Typed, NEW s \in Side, NEW v \in Payloads, Decode(s, v)
  PROVE  imports' \in [Side -> Seq(ImportRecs)] /\ table' \in [Side -> [Refs -> Nat]]
  <1> DEFINE k == table[s][v.ref]
             new == [ref |-> v.ref, n |-> 1, st |-> "held"]
  <1>1. imports[s] \in Seq(ImportRecs) /\ Len(imports[s]) \in Nat BY DEF Typed
  <1>2. CASE k \in Held(s) /\ v.kind = "own"
    <2>1. k \in DOMAIN imports[s] BY <1>2 DEF Held
    <2>2. imports[s][k] \in ImportRecs BY <1>1, <2>1
    <2>3. [imports[s][k] EXCEPT !.n = @ + 1] \in ImportRecs BY <2>2 DEF ImportRecs
    <2>4. [imports[s] EXCEPT ![k].n = @ + 1] \in Seq(ImportRecs) BY <1>1, <2>1, <2>3
    <2>5. imports' = [imports EXCEPT ![s] = [imports[s] EXCEPT ![k].n = @ + 1]]
          /\ table' = table
      BY <1>2 DEF Decode
    <2> QED BY <2>4, <2>5 DEF Typed
  <1>3. CASE k \notin Held(s) /\ v.kind = "own"
    <2>1. new \in ImportRecs BY DEF ImportRecs, Payloads
    <2>2. Append(imports[s], new) \in Seq(ImportRecs) BY <1>1, <2>1
    <2>3. imports' = [imports EXCEPT ![s] = Append(imports[s], new)] BY <1>3 DEF Decode
    <2>4. table' = [table EXCEPT ![s][v.ref] = Len(imports[s]) + 1] BY <1>3 DEF Decode
    <2>5. imports' \in [Side -> Seq(ImportRecs)] BY <2>2, <2>3 DEF Typed
    <2>6. table[s] \in [Refs -> Nat] /\ Len(imports[s]) + 1 \in Nat BY <1>1 DEF Typed
    <2>7. [table[s] EXCEPT ![v.ref] = Len(imports[s]) + 1] \in [Refs -> Nat] BY <2>6
    <2>8. table' = [table EXCEPT ![s] = [table[s] EXCEPT ![v.ref] = Len(imports[s]) + 1]]
      BY <2>4
    <2>9. table' \in [Side -> [Refs -> Nat]] BY <2>7, <2>8 DEF Typed
    <2> QED BY <2>5, <2>9
  <1>4. CASE v.kind # "own" BY <1>4 DEF Decode, Typed
  <1> QED BY <1>2, <1>3, <1>4

(* The frame a reader takes is one the other end wrote. *)
LEMMA Read ==
  ASSUME Typed, NEW s \in Side, Receive(s)
  PROVE  /\ Head(wire[Peer(s)]) \in Messages /\ In(wire[Peer(s)], Head(wire[Peer(s)]))
         /\ wire' \in [Side -> Seq(Messages)]
         /\ \A t \in Side : \A g : In(wire'[t], g) => In(wire[t], g)
         /\ stage[s] = "open" /\ UNCHANGED <<draft, queued, overrun, next, exported>>
  <1>1. Peer(s) \in Side BY Two
  <1>2. wire[Peer(s)] \in Seq(Messages) /\ wire[Peer(s)] # <<>>
    BY <1>1 DEF Typed, Receive
  <1>3. wire' = [wire EXCEPT ![Peer(s)] = Tail(wire[Peer(s)])] BY DEF Receive
  <1>4. Tail(wire[Peer(s)]) \in Seq(Messages) BY <1>2, InTaken
  <1>5. wire' \in [Side -> Seq(Messages)] BY <1>3, <1>4 DEF Typed
  <1>6. \A t \in Side : \A g : In(wire'[t], g) => In(wire[t], g)
    BY <1>2, <1>3, InTaken DEF Typed
  <1>7. UNCHANGED <<draft, queued, overrun, next, exported>>
    BY DEF Receive, ReceiveCall, ReceiveReply, ReceiveCancel, ReceiveRelease, Refuse
  <1> QED BY <1>2, <1>5, <1>6, <1>7, InTaken DEF Receive

(* What becomes of it, by its kind. *)
LEMMA ReadCases ==
  ASSUME Typed, NEW s \in Side, Receive(s), NEW f, f = Head(wire[Peer(s)])
  PROVE  \/ /\ f.op = "call" /\ f.id > received[s] /\ Known(s, f.val)
            /\ ReceiveCall(s, f)
         \/ /\ f.op = "return" /\ f.id \in waiting[s] \cup cancelled[s] /\ Known(s, f.val)
            /\ ReceiveReply(s, f)
         \/ f.op = "cancel" /\ ReceiveCancel(s, f)
         \/ /\ f.op = "release" /\ f.val.ref = granted[s].ref /\ f.id \in 1 .. granted[s].n
            /\ ReceiveRelease(s, f)
         \/ Refuse(s)
  BY DEF Receive, ReceiveCall, ReceiveReply, ReceiveRelease

LEMMA TypedReceive ==
  ASSUME Typed, NEW s \in Side, Receive(s)
  PROVE  Typed'
  <1> DEFINE f == Head(wire[Peer(s)])
  <1>1. f \in Messages /\ f.id \in Nat /\ f.val \in Payloads BY Read DEF Messages
  <1>2. wire' \in [Side -> Seq(Messages)] /\ UNCHANGED <<draft, queued, overrun, next, exported>>
    BY Read
  <1> HIDE DEF f
  <1>3. CASE f.op = "call" /\ f.id > received[s] /\ Known(s, f.val) /\ ReceiveCall(s, f)
    <2>1. imports' \in [Side -> Seq(ImportRecs)] /\ table' \in [Side -> [Refs -> Nat]]
      BY <1>1, <1>3, Decoded DEF ReceiveCall
    <2>2. received' \in [Side -> Nat] BY <1>1, <1>3 DEF ReceiveCall, Typed
    <2>3. handler' = [handler EXCEPT ![s][f.id] = "incoming"] BY <1>3 DEF ReceiveCall
    <2>4. UNCHANGED <<stage, calling, granted>> BY <1>3 DEF ReceiveCall
    <2> QED BY <1>2, <2>1, <2>2, <2>3, <2>4 DEF Typed
  <1>4. CASE /\ f.op = "return" /\ f.id \in waiting[s] \cup cancelled[s] /\ Known(s, f.val)
             /\ ReceiveReply(s, f)
    <2>1. imports' \in [Side -> Seq(ImportRecs)] /\ table' \in [Side -> [Refs -> Nat]]
      BY <1>1, <1>4, Decoded DEF ReceiveReply
    <2>2. \/ caller' = [caller EXCEPT ![s][f.id] = "answered"]
          \/ caller' = caller
      BY <1>4 DEF ReceiveReply
    <2>3. waiting' = [waiting EXCEPT ![s] = @ \ {f.id}] BY <1>4 DEF ReceiveReply
    <2>4. \/ cancelled' = cancelled
          \/ cancelled' = [cancelled EXCEPT ![s] = @ \ {f.id}]
      BY <1>4 DEF ReceiveReply, Typed
    <2>5. UNCHANGED <<stage, received, handler, granted>> BY <1>4 DEF ReceiveReply
    <2>6. caller' \in [Side -> [Ids -> Places]]
      <3>1. caller \in [Side -> [Ids -> Places]] /\ "answered" \in Places
        BY DEF Typed, Places
      <3>2. [caller EXCEPT ![s][f.id] = "answered"] \in [Side -> [Ids -> Places]]
        BY <3>1, PlaceSet
      <3> QED BY <2>2, <3>1, <3>2
    <2>7. waiting' \in [Side -> SUBSET Nat] /\ cancelled' \in [Side -> SUBSET Nat]
      <3>1. waiting \in [Side -> SUBSET Nat] /\ cancelled \in [Side -> SUBSET Nat]
        BY DEF Typed
      <3>2. waiting' \in [Side -> SUBSET Nat] BY <2>3, <3>1
      <3>3. cancelled' \in [Side -> SUBSET Nat] BY <2>4, <3>1
      <3> QED BY <3>2, <3>3
    <2> QED BY <1>2, <2>1, <2>5, <2>6, <2>7 DEF Typed
  <1>5. CASE f.op = "cancel" /\ ReceiveCancel(s, f)
    BY <1>2, <1>5 DEF ReceiveCancel, Typed
  <1>6. CASE /\ f.op = "release" /\ f.val.ref = granted[s].ref /\ f.id \in 1 .. granted[s].n
             /\ ReceiveRelease(s, f)
    <2>1. granted[s] \in Counts BY DEF Typed
    <2>2. Fewer(granted[s], f.id) \in Counts BY <1>1, <2>1 DEF Fewer, Counts
    <2>3. granted' = [granted EXCEPT ![s] = Fewer(granted[s], f.id)]
      BY <1>6 DEF ReceiveRelease
    <2>4. UNCHANGED <<stage, calling, serving, importing>> BY <1>6 DEF ReceiveRelease
    <2> QED BY <1>2, <2>2, <2>3, <2>4 DEF Typed
  <1>7. CASE Refuse(s) BY <1>2, <1>7 DEF Refuse, Typed
  <1> QED BY <1>3, <1>4, <1>5, <1>6, <1>7, ReadCases DEF f

LEMMA TypedRelease ==
  ASSUME Typed, NEW s \in Side, NEW k \in DOMAIN imports[s], DropImport(s, k) \/ Release(s, k)
  PROVE  Typed'
  <1>1. imports[s] \in Seq(ImportRecs) /\ imports[s][k] \in ImportRecs
    BY DEF Typed
  <1>2. CASE DropImport(s, k)
    <2>1. [imports[s][k] EXCEPT !.st = "dropping"] \in ImportRecs BY <1>1 DEF ImportRecs
    <2>2. [imports[s] EXCEPT ![k].st = "dropping"] \in Seq(ImportRecs) BY <1>1, <2>1
    <2>3. imports' = [imports EXCEPT ![s] = [imports[s] EXCEPT ![k].st = "dropping"]]
      BY <1>2 DEF DropImport
    <2>4. imports' \in [Side -> Seq(ImportRecs)] BY <2>2, <2>3 DEF Typed
    <2> QED BY <1>2, <2>4 DEF DropImport, Typed
  <1>3. CASE Release(s, k)
    <2>1. [imports[s][k] EXCEPT !.st = "gone", !.n = 0] \in ImportRecs
      BY <1>1 DEF ImportRecs
    <2>2. [imports[s] EXCEPT ![k] = [imports[s][k] EXCEPT !.st = "gone", !.n = 0]]
             \in Seq(ImportRecs)
      BY <1>1, <2>1
    <2>3. imports' = [imports EXCEPT ![s] =
              [imports[s] EXCEPT ![k] = [imports[s][k] EXCEPT !.st = "gone", !.n = 0]]]
      BY <1>1, <1>3 DEF Release, Typed
    <2>4. imports' \in [Side -> Seq(ImportRecs)] BY <2>2, <2>3 DEF Typed
    <2>5. table' \in [Side -> [Refs -> Nat]]
      <3>1. \/ table' = [table EXCEPT ![s][imports[s][k].ref] = 0]
            \/ table' = [table EXCEPT ![s][imports[s][k].ref] = @]
        BY <1>3 DEF Release
      <3>2. table \in [Side -> [Refs -> Nat]] BY DEF Typed
      <3> QED BY <3>1, <3>2
    <2>6. imports[s][k].n \in Nat /\ imports[s][k].ref \in Nat BY <1>1 DEF ImportRecs
    <2>7. Frame("release", imports[s][k].n, Home(imports[s][k].ref)) \in Messages
      BY <2>6, FramesMade
    <2>8. queued' \in [Side -> Seq(Messages)] /\ wire' = wire /\ overrun' \subseteq Side
      BY <1>3, <2>7, Pushed DEF Release
    <2> QED BY <1>3, <2>4, <2>5, <2>8 DEF Release, Typed
  <1> QED BY <1>2, <1>3

LEMMA TypedStep ==
  ASSUME Typed, [Next]_vars
  PROVE  Typed'
  <1> USE DEF Typed, Places
  <1>1. ASSUME NEW s \in Side, SendBegin(s) PROVE Typed'
    <2>1. next[s] + 1 \in Nat OBVIOUS
    <2>2. PICK v \in Sendable(s) : Encode(s, "call", next[s] + 1, v)
      BY <1>1 DEF SendBegin
    <2>3. granted' \in [Side -> Counts] /\ exported' \in [Side -> Nat]
          /\ draft' \in [Side -> Messages]
      BY <2>1, <2>2, Encoded
    <2>4. next' \in [Side -> Nat] BY <1>1, <2>1 DEF SendBegin
    <2>5. caller' \in [Side -> [Ids -> Places]]
      BY <1>1 DEF SendBegin
    <2> QED BY <1>1, <2>3, <2>4, <2>5 DEF SendBegin
  <1>2. ASSUME NEW s \in Side, SendRefused(s) PROVE Typed'
    BY <1>2, Ungranted, FramesMade DEF SendRefused
  <1>3. ASSUME NEW s \in Side, SendEnd(s) PROVE Typed'
    <2>1. draft[s] \in Messages /\ draft[s].id \in Nat BY DEF Messages
    <2>2. queued' \in [Side -> Seq(Messages)] /\ wire' = wire /\ overrun' \subseteq Side
      BY <1>3, <2>1, Pushed DEF SendEnd
    <2> QED BY <1>3, <2>1, <2>2, FramesMade DEF SendEnd
  <1>4. ASSUME NEW s \in Side, NEW c \in Ids, Consume(s, c) \/ Cancel(s, c)
        PROVE  Typed'
    <2>1. caller' \in [Side -> [Ids -> Places]]
      <3>1. \E to \in Places : caller' = [caller EXCEPT ![s][c] = to]
        BY <1>4 DEF Consume, Cancel, Places
      <3> QED BY <3>1
    <2>2. waiting' \in [Side -> SUBSET Nat] /\ cancelled' \in [Side -> SUBSET Nat]
      <3>1. c \in Nat BY DEF Ids
      <3>2. waiting' = waiting \/ waiting' = [waiting EXCEPT ![s] = @ \ {c}]
        BY <1>4 DEF Consume, Cancel, GiveUp
      <3>3. \/ cancelled' = cancelled
            \/ cancelled' = [cancelled EXCEPT ![s] = @ \cup {c}]
        BY <1>4 DEF Consume, Cancel, GiveUp
      <3>4. [waiting EXCEPT ![s] = @ \ {c}] \in [Side -> SUBSET Nat] BY <3>1, SetChanged
      <3>5. [cancelled EXCEPT ![s] = @ \cup {c}] \in [Side -> SUBSET Nat]
        BY <3>1, SetChanged
      <3> QED BY <3>2, <3>3, <3>4, <3>5
    <2> QED BY <1>4, <2>1, <2>2 DEF Consume, Cancel
  <1>5. ASSUME NEW s \in Side, NEW c \in Ids, CancelWrite(s, c) PROVE Typed'
    <2>1. Frame("cancel", c, Data) \in Messages BY FramesMade DEF Ids
    <2>2. queued' \in [Side -> Seq(Messages)] /\ wire' = wire /\ overrun' \subseteq Side
      BY <1>5, <2>1, Pushed DEF CancelWrite
    <2> QED BY <1>5, <2>2 DEF CancelWrite
  <1>6. ASSUME NEW s \in Side, NEW c \in Ids, Start(s, c) \/ Execute(s, c) \/ Ready(s, c)
        PROVE  Typed'
    <2>1. PICK to \in {"starting", "running", "awaiting", "dropped"} :
            handler' = [handler EXCEPT ![s][c] = to]
      BY <1>6 DEF Start, Execute, Ready
    <2> QED BY <1>6, <2>1 DEF Start, Execute, Ready
  <1>7. ASSUME NEW s \in Side, NEW c \in Ids, RespondBegin(s, c) PROVE Typed'
    <2>1. PICK v \in Sendable(s) : Encode(s, "return", c, v)
      BY <1>7 DEF RespondBegin
    <2>2. granted' \in [Side -> Counts] /\ exported' \in [Side -> Nat]
          /\ draft' \in [Side -> Messages]
      BY <2>1, Encoded, SMTT(30) DEF Ids
    <2> QED BY <1>7, <2>2 DEF RespondBegin
  <1>8. ASSUME NEW s \in Side, RespondTooLarge(s) PROVE Typed'
    <2>1. [draft[s] EXCEPT !.val = Data] \in Messages BY FramesMade DEF Messages
    <2>2. draft' \in [Side -> Messages] BY <1>8, <2>1 DEF RespondTooLarge
    <2> QED BY <1>8, <2>2, Ungranted DEF RespondTooLarge
  <1>9. ASSUME NEW s \in Side, RespondEnd(s) PROVE Typed'
    <2>1. draft[s] \in Messages OBVIOUS
    <2>2. queued' \in [Side -> Seq(Messages)] /\ wire' = wire /\ overrun' \subseteq Side
      BY <1>9, <2>1, Pushed DEF RespondEnd
    <2> QED BY <1>9, <2>2, FramesMade DEF RespondEnd
  <1>10. ASSUME NEW s \in Side, Write(s) PROVE Typed'
    <2>1. queued[s] \in Seq(Messages) /\ queued[s] # <<>> /\ wire[s] \in Seq(Messages)
      BY <1>10 DEF Write
    <2>2. Tail(queued[s]) \in Seq(Messages) BY <2>1, InTaken
    <2>3. Append(wire[s], Head(queued[s])) \in Seq(Messages) BY <2>1, InTaken
    <2> QED BY <1>10, <2>2, <2>3 DEF Write
  <1>11. ASSUME NEW s \in Side, Close(s) \/ Teardown(s) PROVE Typed'
    <2>1. CASE Close(s) BY <1>11, <2>1 DEF Close
    <2>2. CASE Teardown(s)
      <3>1. <<>> \in Seq(Messages) OBVIOUS
      <3>2. caller' = [caller EXCEPT ![s] = [c \in Ids |->
                         IF caller[s][c] = "waiting" THEN "failed" ELSE caller[s][c]]]
        BY <2>2 DEF Teardown, Finish
      <3>3. [ref |-> 0, n |-> 0] \in Counts BY DEF Counts
      <3> QED BY <2>2, <3>1, <3>2, <3>3 DEF Teardown
    <2> QED BY <1>11, <2>1, <2>2
  <1>12. CASE UNCHANGED vars BY <1>12 DEF vars
  <1> QED BY <1>1, <1>2, <1>3, <1>4, <1>5, <1>6, <1>7, <1>8, <1>9, <1>10, <1>11, <1>12,
          TypedReceive, TypedRelease, SessionAssumption DEF Next, Step, CloseBehind, CloseAtEnd

-----------------------------------------------------------------------------
(* How a call moves on *)

(* At its caller ... *)
CallerMoves ==
  \A s \in Side : \A c \in Ids :
    \/ caller'[s][c] = caller[s][c]
    \/ caller[s][c] = "idle" /\ caller'[s][c] = "sending" /\ next'[s] = c
    \/ /\ caller[s][c] = "sending" /\ caller'[s][c] \in {"waiting", "failed"}
       /\ draft[s].op = "call" /\ draft[s].id = c /\ draft'[s] = Free
    \/ /\ caller[s][c] = "waiting" /\ caller'[s][c] = "answered"
       /\ handler[Peer(s)][c] = "answered"
    \/ /\ caller[s][c] \in {"waiting", "answered"}
       /\ caller'[s][c] \in {"replied", "failed", "cancelling", "cancelled"}
       /\ caller'[s][c] = "failed" => stage[s] # "open"
    \/ caller[s][c] = "cancelling" /\ caller'[s][c] = "cancelled"

(* ... and at the far end. *)
HandlerMoves ==
  \A s \in Side : \A c \in Ids :
    \/ handler'[s][c] = handler[s][c]
    \/ /\ handler[s][c] = "none" /\ handler'[s][c] = "incoming"
       /\ ~ Unsent(Peer(s), c)
       /\ received'[s] = c /\ stage[s] = "open"
    \/ /\ handler[s][c] \in {"incoming", "starting", "awaiting"}
       /\ handler'[s][c] \in {"starting", "awaiting", "running", "dropped"}
       /\ handler'[s][c] = "awaiting" => stage[s] = "open"
    \/ handler[s][c] = "running" /\ handler'[s][c] = "answering"
    \/ /\ handler[s][c] = "answering" /\ handler'[s][c] \in {"answered", "dropped"}
       /\ draft[s].op = "return" /\ draft[s].id = c /\ draft'[s] = Free

Moves ==
  /\ CallerMoves /\ HandlerMoves
  /\ \A s \in Side : received'[s] >= received[s]

LEMMA CallerRests ==
  ASSUME UNCHANGED caller
  PROVE  CallerMoves
  BY DEF CallerMoves

LEMMA HandlerRests ==
  ASSUME Typed, UNCHANGED serving
  PROVE  HandlerMoves /\ \A s \in Side : received'[s] >= received[s]
  BY DEF Typed, HandlerMoves

(* What the head of the channel says. *)
LEMMA HeadSays ==
  ASSUME Typed, Sent, NEW s \in Side, Receive(s)
  PROVE  Says(Peer(s), Head(wire[Peer(s)]))
  BY Read, Two DEF Sent

(* A reply finds a waiter only if its future waits. *)
LEMMA Waited ==
  ASSUME CallInv, NEW s \in Side, NEW c \in waiting[s], stage[s] = "open",
         handler[Peer(s)][c] = "answered"
  PROVE  c \in Ids /\ caller[s][c] = "waiting"
  <1>1. c \in Ids /\ caller[s][c] \in {"waiting", "failed"} BY DEF CallInv, Waiters
  <1>2. Peer(s) \in Side /\ Peer(Peer(s)) = s BY Two
  <1>3. ~ Unsent(s, c) BY <1>1, <1>2 DEF CallInv, Taken
  <1> QED BY <1>1, <1>3 DEF Unsent

LEMMA ReceiveMoves ==
  ASSUME CallInv, NEW s \in Side, Receive(s)
  PROVE  Moves
  <1> DEFINE f == Head(wire[Peer(s)])
  <1>1. Typed /\ Says(Peer(s), f) /\ f \in Messages BY HeadSays, Read DEF CallInv
  <1>2. Peer(s) \in Side /\ stage[s] = "open" BY Two, Read, <1>1
  <1> HIDE DEF f
  <1>3. CASE f.op = "call" /\ f.id > received[s] /\ Known(s, f.val) /\ ReceiveCall(s, f)
    <2>1. /\ handler' = [handler EXCEPT ![s][f.id] = "incoming"]
          /\ received' = [received EXCEPT ![s] = f.id] /\ caller' = caller
      BY <1>3 DEF ReceiveCall
    <2>2. f.id \in Ids /\ ~ Unsent(Peer(s), f.id) BY <1>1, <1>3 DEF Says
    <2>3. f.id \in Nat /\ received[s] \in Nat BY <1>1 DEF Typed, Messages
    <2>4. handler[s][f.id] = "none" BY <1>3, <2>2, <2>3 DEF CallInv, Taken, Ids
    <2>5. \A t \in Side : received'[t] >= received[t]
      BY <1>1, <1>3, <2>1, <2>3 DEF Typed
    <2>6. HandlerMoves BY <1>1, <1>2, <2>1, <2>2, <2>4 DEF HandlerMoves, Typed
    <2> QED BY <2>1, <2>5, <2>6, CallerRests DEF Moves
  <1>4. CASE /\ f.op = "return" /\ f.id \in waiting[s] \cup cancelled[s] /\ Known(s, f.val)
             /\ ReceiveReply(s, f)
    <2>1. f.id \in Ids /\ handler[Peer(s)][f.id] = "answered" BY <1>1, <1>4 DEF Says
    <2>2. f.id \in waiting[s] => caller[s][f.id] = "waiting"
      BY <1>1, <1>2, <2>1, Waited
    <2>3. /\ caller' = IF f.id \in waiting[s]
                       THEN [caller EXCEPT ![s][f.id] = "answered"] ELSE caller
          /\ UNCHANGED serving
      BY <1>4 DEF ReceiveReply
    <2>4. CallerMoves BY <1>1, <2>1, <2>2, <2>3 DEF CallerMoves, Typed
    <2> QED BY <1>1, <2>3, <2>4, HandlerRests DEF Moves
  <1>5. CASE f.op = "cancel" /\ ReceiveCancel(s, f)
    <2>1. f.id \in Ids BY <1>1, <1>5 DEF Says
    <2>2. /\ UNCHANGED <<caller, received>>
          /\ \/ handler' = handler
             \/ /\ handler[s][f.id] \in {"incoming", "awaiting"}
                /\ handler' = [handler EXCEPT ![s][f.id] = "dropped"]
      BY <1>5 DEF ReceiveCancel
    <2>3. CASE handler' = handler BY <1>1, <2>2, <2>3, CallerRests, HandlerRests DEF Moves
    <2>4. CASE /\ handler[s][f.id] \in {"incoming", "awaiting"}
               /\ handler' = [handler EXCEPT ![s][f.id] = "dropped"]
      <3>1. HandlerMoves BY <1>1, <2>1, <2>4 DEF HandlerMoves, Typed
      <3> QED BY <1>1, <2>2, <3>1, CallerRests DEF Moves, Typed
    <2> QED BY <2>2, <2>3, <2>4
  <1>6. CASE UNCHANGED <<caller, serving>>
    BY <1>1, <1>6, CallerRests, HandlerRests DEF Moves
  <1> QED BY <1>1, <1>3, <1>4, <1>5, <1>6, ReadCases DEF f, ReceiveRelease, Refuse

LEMMA MovesOn ==
  ASSUME CallInv, [Next]_vars
  PROVE  Moves
  <1>0. Typed BY DEF CallInv
  <1>1. ASSUME NEW s \in Side, SendBegin(s) PROVE Moves
    <2>1. caller' = [caller EXCEPT ![s][next[s] + 1] = "sending"] /\ UNCHANGED serving
      BY <1>1 DEF SendBegin
    <2>2. next[s] + 1 \in Ids => caller[s][next[s] + 1] = "idle"
      BY <1>0 DEF CallInv, Numbered, Typed
    <2>3. next'[s] = next[s] + 1 BY <1>0, <1>1 DEF SendBegin, Typed
    <2>4. CallerMoves BY <1>0, <2>1, <2>2, <2>3 DEF CallerMoves, Typed
    <2> QED BY <1>0, <2>1, <2>4, HandlerRests DEF Moves
  <1>2. ASSUME NEW s \in Side, SendRefused(s) \/ SendEnd(s) PROVE Moves
    <2>1. PICK to \in {"waiting", "failed"} : caller' = [caller EXCEPT ![s][draft[s].id] = to]
      BY <1>2 DEF SendRefused, SendEnd
    <2>2. /\ draft[s].op = "call" /\ draft' = [draft EXCEPT ![s] = Free]
          /\ UNCHANGED serving
      BY <1>2 DEF SendRefused, SendEnd, Calling
    <2>3. draft[s].id \in Ids /\ caller[s][draft[s].id] = "sending"
      BY <2>2 DEF CallInv, Drafted
    <2>4. CallerMoves BY <1>0, <2>1, <2>2, <2>3 DEF CallerMoves, Typed
    <2> QED BY <1>0, <2>2, <2>4, HandlerRests DEF Moves
  <1>3. ASSUME NEW s \in Side, NEW c \in Ids, Consume(s, c) \/ Cancel(s, c)
        PROVE  Moves
    <2>1. PICK to \in {"replied", "cancelling", "cancelled"} :
            /\ caller[s][c] \in {"waiting", "answered"}
            /\ caller' = [caller EXCEPT ![s][c] = to]
            /\ UNCHANGED serving
      BY <1>3 DEF Consume, Cancel
    <2>2. CallerMoves BY <1>0, <2>1 DEF CallerMoves, Typed
    <2> QED BY <1>0, <2>1, <2>2, HandlerRests DEF Moves
  <1>4. ASSUME NEW s \in Side, NEW c \in Ids, CancelWrite(s, c) PROVE Moves
    <2>1. /\ caller[s][c] = "cancelling" /\ caller' = [caller EXCEPT ![s][c] = "cancelled"]
          /\ UNCHANGED serving
      BY <1>4 DEF CancelWrite
    <2>2. CallerMoves BY <1>0, <2>1 DEF CallerMoves, Typed
    <2> QED BY <1>0, <2>1, <2>2, HandlerRests DEF Moves
  <1>5. ASSUME NEW s \in Side, NEW c \in Ids, Start(s, c) \/ Execute(s, c) \/ Ready(s, c)
        PROVE  Moves
    <2>1. PICK to \in {"starting", "running", "awaiting", "dropped"} :
            /\ handler[s][c] \in {"incoming", "starting", "awaiting"}
            /\ handler' = [handler EXCEPT ![s][c] = to]
            /\ to = "awaiting" => stage[s] = "open"
      BY <1>5 DEF Start, Execute, Ready
    <2>2. UNCHANGED <<caller, received>> BY <1>5 DEF Start, Execute, Ready
    <2>3. HandlerMoves BY <1>0, <2>1 DEF HandlerMoves, Typed
    <2> QED BY <1>0, <2>2, <2>3, CallerRests DEF Moves, Typed
  <1>6. ASSUME NEW s \in Side, NEW c \in Ids, RespondBegin(s, c) PROVE Moves
    <2>1. /\ handler[s][c] = "running" /\ handler' = [handler EXCEPT ![s][c] = "answering"]
          /\ UNCHANGED <<caller, received>>
      BY <1>6 DEF RespondBegin
    <2>2. HandlerMoves BY <1>0, <2>1 DEF HandlerMoves, Typed
    <2> QED BY <1>0, <2>1, <2>2, CallerRests DEF Moves, Typed
  <1>7. ASSUME NEW s \in Side, RespondEnd(s) PROVE Moves
    <2>1. PICK to \in {"answered", "dropped"} :
            handler' = [handler EXCEPT ![s][draft[s].id] = to]
      BY <1>7 DEF RespondEnd
    <2>2. /\ draft[s].op = "return" /\ draft' = [draft EXCEPT ![s] = Free]
          /\ UNCHANGED <<caller, received>>
      BY <1>7 DEF RespondEnd
    <2>3. draft[s].id \in Ids /\ handler[s][draft[s].id] = "answering"
      BY <2>2 DEF CallInv, Drafted
    <2>4. HandlerMoves BY <1>0, <2>1, <2>2, <2>3 DEF HandlerMoves, Typed
    <2> QED BY <1>0, <2>2, <2>4, CallerRests DEF Moves, Typed
  <1>8. ASSUME NEW s \in Side, Teardown(s) PROVE Moves
    <2>1. caller' = [caller EXCEPT ![s] = [c \in Ids |->
                       IF caller[s][c] = "waiting" THEN "failed" ELSE caller[s][c]]]
      BY <1>8 DEF Teardown, Finish
    <2>2. handler' = [handler EXCEPT ![s] = [c \in Ids |->
            IF handler[s][c] \in {"incoming", "awaiting"} THEN "dropped" ELSE handler[s][c]]]
      BY <1>8 DEF Teardown
    <2>3. stage[s] # "open" BY <1>8 DEF Teardown
    <2>4. CallerMoves /\ HandlerMoves
      BY <1>0, <2>1, <2>2, <2>3 DEF CallerMoves, HandlerMoves, Typed
    <2> QED BY <1>0, <1>8, <2>3, <2>4 DEF Moves, Typed, Teardown
  <1>9. ASSUME UNCHANGED <<caller, serving>> PROVE Moves
    BY <1>0, <1>9, CallerRests, HandlerRests DEF Moves
  <1>10. ASSUME NEW s \in Side, RespondTooLarge(s) \/ Write(s) \/ Close(s) PROVE Moves
    BY <1>9, <1>10 DEF RespondTooLarge, Write, Close
  <1>11. ASSUME NEW s \in Side, NEW k, DropImport(s, k) \/ Release(s, k) PROVE Moves
    BY <1>9, <1>11 DEF DropImport, Release
  <1>12. CASE UNCHANGED vars BY <1>9, <1>12 DEF vars
  <1> QED BY <1>1, <1>2, <1>3, <1>4, <1>5, <1>6, <1>7, <1>8, <1>10, <1>11, <1>12,
          ReceiveMoves, SessionAssumption DEF Next, Step, CloseBehind, CloseAtEnd

-----------------------------------------------------------------------------
(* How the ends, their locks and their queues move on *)

KeepsNoCall(s) ==
  /\ waiting[s] = {} /\ queued[s] = <<>>
  /\ \A c \in Ids : caller[s][c] # "waiting" /\ handler[s][c] \notin {"incoming", "awaiting"}

StageMoves ==
  \A s \in Side :
    \/ stage'[s] = stage[s]
    \/ stage[s] = "open" /\ stage'[s] = "closing"
    \/ stage[s] = "closing" /\ stage'[s] = "closed" /\ draft[s] = Free /\ KeepsNoCall(s)'

DraftMoves ==
  \A s \in Side :
    \/ draft'[s] = draft[s]
    \/ draft'[s] = Free
    \/ /\ draft[s] = Free /\ stage[s] = "open" /\ draft'[s] # Free
       /\ draft'[s].op = "call" /\ draft'[s].id \in Ids
       /\ caller'[s][draft'[s].id] = "sending"
    \/ /\ draft'[s] # Free
       /\ draft'[s].op = "return" /\ draft'[s].id \in Ids
       /\ handler'[s][draft'[s].id] = "answering"

(* What is sent says the truth; what is queued is queued at an end that is  *)
(* not closed.                                                              *)
Flow ==
  \A s \in Side :
    /\ \A g : In(wire'[s], g) \/ In(queued'[s], g) =>
                In(wire[s], g) \/ In(queued[s], g) \/ Says(s, g)'
    /\ queued'[s] = queued[s] \/ stage[s] # "closed" \/ queued'[s] = <<>>

WaitMoves ==
  \A s \in Side : \A c \in waiting'[s] :
    \/ /\ c \in waiting[s] /\ stage[s] # "closed"
       /\ caller[s][c] \in {"waiting", "failed"} =>
            caller'[s][c] \in {"waiting", "failed"} \/ stage'[s] # "open"
    \/ /\ draft[s].op = "call" /\ c = draft[s].id
       /\ caller'[s][c] \in {"waiting", "failed"}

(* A push, of a frame that is true once it is queued. *)
LEMMA PushMoves ==
  ASSUME Typed, NEW s \in Side, NEW f \in Messages, Push(s, f), UNCHANGED stage,
         Accepts(s, f) => Says(s, f)'
  PROVE  StageMoves /\ Flow
  <1>1. /\ wire' = wire
        /\ \A t \in Side \ {s} : queued'[t] = queued[t]
        /\ \A g : In(queued'[s], g) => In(queued[s], g) \/ (Accepts(s, f) /\ g = f)
        /\ queued'[s] = IF Accepts(s, f) THEN Append(queued[s], f) ELSE queued[s]
    BY Pushed
  <1>2. queued'[s] = queued[s] \/ stage[s] # "closed" BY <1>1 DEF Accepts
  <1>3. Flow BY <1>1, <1>2 DEF Flow
  <1> QED BY <1>3 DEF StageMoves

(* No push. *)
LEMMA FlowOn ==
  ASSUME UNCHANGED queued, \A t \in Side : \A g : In(wire'[t], g) => In(wire[t], g)
  PROVE  Flow
  BY DEF Flow

LEMMA FlowMoves ==
  ASSUME CallInv, [Next]_vars
  PROVE  StageMoves /\ Flow
  <1>0. Typed BY DEF CallInv
  <1>1. ASSUME NEW s \in Side, SendBegin(s) \/ SendRefused(s) \/ RespondTooLarge(s)
        PROVE  StageMoves /\ Flow
    <2>1. UNCHANGED <<stage, queued, wire>>
      BY <1>1 DEF SendBegin, SendRefused, RespondTooLarge
    <2> QED BY <1>0, <2>1, FlowOn DEF StageMoves
  <1>2. ASSUME NEW s \in Side, SendEnd(s) PROVE StageMoves /\ Flow
    <2>1. PICK f \in Messages : f = draft[s] BY <1>0 DEF Typed
    <2>2. f.op = "call" /\ f.id \in Ids
      BY <1>2, <2>1 DEF SendEnd, Calling, CallInv, Drafted
    <2>3. caller' = [caller EXCEPT ![s][f.id] =
                       IF Accepts(s, f) THEN "waiting" ELSE "failed"]
      BY <1>2, <2>1 DEF SendEnd
    <2>4. Accepts(s, f) => caller'[s][f.id] = "waiting" BY <1>0, <2>2, <2>3 DEF Typed
    <2>5. Accepts(s, f) => Says(s, f)' BY <2>2, <2>4 DEF Says, Unsent
    <2>6. Push(s, f) /\ UNCHANGED stage BY <1>2, <2>1 DEF SendEnd
    <2> QED BY <1>0, <2>5, <2>6, PushMoves
  <1>3. ASSUME NEW s \in Side, NEW c \in Ids, CancelWrite(s, c) PROVE StageMoves /\ Flow
    <2>1. PICK f \in Messages : f = Frame("cancel", c, Data) BY FramesMade DEF Ids
    <2>2. f.op = "cancel" /\ f.id = c BY <2>1 DEF Frame
    <2>3. caller' = [caller EXCEPT ![s][c] = "cancelled"] /\ Push(s, f) /\ UNCHANGED stage
      BY <1>3, <2>1 DEF CancelWrite
    <2>4. caller'[s][c] = "cancelled" BY <1>0, <2>3 DEF Typed
    <2>5. Says(s, f)' BY <2>2, <2>4 DEF Says, Unsent
    <2> QED BY <1>0, <2>3, <2>5, PushMoves
  <1>4. ASSUME NEW s \in Side, RespondEnd(s) PROVE StageMoves /\ Flow
    <2>1. PICK f \in Messages : f = draft[s] BY <1>0 DEF Typed
    <2>2. f.op = "return" /\ f.id \in Ids
      BY <1>4, <2>1 DEF RespondEnd, CallInv, Drafted
    <2>3. handler' = [handler EXCEPT ![s][f.id] =
                        IF Accepts(s, f) THEN "answered" ELSE "dropped"]
      BY <1>4, <2>1 DEF RespondEnd
    <2>4. Accepts(s, f) => handler'[s][f.id] = "answered" BY <1>0, <2>2, <2>3 DEF Typed
    <2>5. Accepts(s, f) => Says(s, f)' BY <2>2, <2>4 DEF Says
    <2>6. Push(s, f) /\ UNCHANGED stage BY <1>4, <2>1 DEF RespondEnd
    <2> QED BY <1>0, <2>5, <2>6, PushMoves
  <1>5. ASSUME NEW s \in Side, NEW k \in DOMAIN imports[s], Release(s, k)
        PROVE  StageMoves /\ Flow
    <2>1. imports[s][k] \in ImportRecs BY <1>0 DEF Typed
    <2>2. imports[s][k].n \in Nat /\ imports[s][k].ref \in Nat BY <2>1 DEF ImportRecs
    <2>3. PICK f \in Messages : f = Frame("release", imports[s][k].n, Home(imports[s][k].ref))
      BY <2>2, FramesMade
    <2>4. f.op = "release" BY <2>3 DEF Frame
    <2>5. Says(s, f)' BY <2>4 DEF Says
    <2>6. Push(s, f) /\ UNCHANGED stage BY <1>5, <2>3 DEF Release
    <2> QED BY <1>0, <2>5, <2>6, PushMoves
  <1>6. ASSUME NEW s \in Side, Write(s) PROVE StageMoves /\ Flow
    <2>1. /\ queued[s] \in Seq(Messages) /\ queued[s] # <<>> /\ wire[s] \in Seq(Messages)
          /\ wire' = [wire EXCEPT ![s] = Append(wire[s], Head(queued[s]))]
          /\ queued' = [queued EXCEPT ![s] = Tail(queued[s])]
          /\ stage[s] = "open" /\ stage' = stage
      BY <1>0, <1>6 DEF Write, Typed
    <2>2. /\ Head(queued[s]) \in Messages /\ In(queued[s], Head(queued[s]))
          /\ \A g : In(Tail(queued[s]), g) => In(queued[s], g)
      BY <2>1, InTaken
    <2>3. \A g : In(wire'[s], g) => In(wire[s], g) \/ g = Head(queued[s])
      BY <1>0, <2>1, <2>2, InAppended DEF Typed
    <2>4. \A g : In(wire'[s], g) \/ In(queued'[s], g) => In(wire[s], g) \/ In(queued[s], g)
      BY <1>0, <2>1, <2>2, <2>3 DEF Typed
    <2>5. \A t \in Side \ {s} : wire'[t] = wire[t] /\ queued'[t] = queued[t]
      BY <1>0, <2>1 DEF Typed
    <2>6. Flow BY <2>1, <2>4, <2>5 DEF Flow
    <2> QED BY <2>1, <2>6 DEF StageMoves
  <1>7. ASSUME NEW s \in Side, Receive(s) PROVE StageMoves /\ Flow
    <2>1. /\ queued' = queued /\ stage[s] = "open"
          /\ \A t \in Side : \A g : In(wire'[t], g) => In(wire[t], g)
      BY <1>0, <1>7, Read
    <2>2. stage' = stage \/ stage' = [stage EXCEPT ![s] = "closing"]
      BY <1>7 DEF Receive, ReceiveCall, ReceiveReply, ReceiveCancel, ReceiveRelease, Refuse
    <2>3. StageMoves BY <1>0, <2>1, <2>2 DEF StageMoves, Typed
    <2> QED BY <1>0, <2>1, <2>3, FlowOn
  <1>8. ASSUME NEW s \in Side, Close(s) PROVE StageMoves /\ Flow
    BY <1>0, <1>8, FlowOn DEF Close, StageMoves, Typed
  <1>9. ASSUME NEW s \in Side, Teardown(s) PROVE StageMoves /\ Flow
    <2>1. /\ stage[s] = "closing" /\ draft[s] = Free
          /\ stage' = [stage EXCEPT ![s] = "closed"]
          /\ queued' = [queued EXCEPT ![s] = <<>>] /\ wire' = wire
      BY <1>9 DEF Teardown, Excluded, Locked
    <2>2. StageMoves
      <3>1. KeepsNoCall(s)' BY <1>0, <1>9 DEF KeepsNoCall, Teardown, Finish, Typed
      <3> QED BY <1>0, <2>1, <3>1 DEF StageMoves, Typed
    <2>3. queued'[s] = <<>> /\ \A t \in Side \ {s} : queued'[t] = queued[t]
      BY <1>0, <2>1 DEF Typed
    <2>4. Flow BY <2>1, <2>3, InNone DEF Flow
    <2> QED BY <2>2, <2>4
  <1>10. ASSUME UNCHANGED <<stage, queued, wire>> PROVE StageMoves /\ Flow
    BY <1>0, <1>10, FlowOn DEF StageMoves
  <1>11. ASSUME NEW s \in Side, NEW c \in Ids,
                \/ Consume(s, c) \/ Cancel(s, c)
                \/ Start(s, c) \/ Execute(s, c) \/ Ready(s, c) \/ RespondBegin(s, c)
         PROVE  StageMoves /\ Flow
    BY <1>10, <1>11 DEF Consume, Cancel, Start, Execute, Ready, RespondBegin
  <1>12. ASSUME NEW s \in Side, NEW k, DropImport(s, k) PROVE StageMoves /\ Flow
    BY <1>10, <1>12 DEF DropImport
  <1>13. CASE UNCHANGED vars BY <1>10, <1>13 DEF vars
  <1> QED BY <1>1, <1>2, <1>3, <1>4, <1>5, <1>6, <1>7, <1>8, <1>9, <1>11, <1>12, <1>13,
          SessionAssumption DEF Next, Step, CloseBehind, CloseAtEnd

LEMMA LockMoves ==
  ASSUME CallInv, [Next]_vars
  PROVE  DraftMoves
  <1>0. Typed BY DEF CallInv
  <1>1. ASSUME NEW s \in Side, SendBegin(s) PROVE DraftMoves
    <2>1. next[s] + 1 \in Ids
      BY <1>0, <1>1, Two, SessionAssumption, SMTT(30) DEF SendBegin, Typed, Ids
    <2>2. PICK v \in Sendable(s) : Encode(s, "call", next[s] + 1, v)
      BY <1>1 DEF SendBegin
    <2>3. /\ draft'[s].op = "call" /\ draft'[s].id = next[s] + 1 /\ draft'[s] # Free
          /\ \A t \in Side \ {s} : draft'[t] = draft[t]
      BY <1>0, <2>1, <2>2, Encoded DEF Ids
    <2>4. caller'[s][next[s] + 1] = "sending" BY <1>0, <1>1, <2>1 DEF SendBegin, Typed
    <2> QED BY <1>1, <2>1, <2>3, <2>4 DEF DraftMoves, SendBegin, Locked
  <1>2. ASSUME NEW s \in Side, NEW c \in Ids, RespondBegin(s, c) PROVE DraftMoves
    <2>1. PICK v \in Sendable(s) : Encode(s, "return", c, v) BY <1>2 DEF RespondBegin
    <2>2. /\ draft'[s].op = "return" /\ draft'[s].id = c /\ draft'[s] # Free
          /\ \A t \in Side \ {s} : draft'[t] = draft[t]
      BY <1>0, <2>1, Encoded DEF Ids
    <2>3. handler'[s][c] = "answering" BY <1>0, <1>2 DEF RespondBegin, Typed
    <2> QED BY <2>2, <2>3 DEF DraftMoves
  <1>3. ASSUME NEW s \in Side, RespondTooLarge(s) PROVE DraftMoves
    <2>1. draft[s] \in Messages /\ draft[s].op = "return" BY <1>0, <1>3 DEF Typed, RespondTooLarge
    <2>2. draft' = [draft EXCEPT ![s] = [draft[s] EXCEPT !.val = Data]] /\ handler' = handler
      BY <1>3 DEF RespondTooLarge
    <2>3. /\ draft'[s].op = "return" /\ draft'[s].id = draft[s].id
          /\ \A t \in Side \ {s} : draft'[t] = draft[t]
      BY <1>0, <2>1, <2>2 DEF Typed, Messages
    <2>4. draft[s].id \in Ids /\ handler[s][draft[s].id] = "answering"
      BY <2>1 DEF CallInv, Drafted
    <2>5. Free.op = "none" BY DEF Free, Frame
    <2> QED BY <2>2, <2>3, <2>4, <2>5 DEF DraftMoves
  <1>4. ASSUME NEW s \in Side, SendRefused(s) \/ SendEnd(s) \/ RespondEnd(s) PROVE DraftMoves
    BY <1>0, <1>4 DEF SendRefused, SendEnd, RespondEnd, DraftMoves, Typed
  <1>5. ASSUME UNCHANGED draft PROVE DraftMoves
    BY <1>5 DEF DraftMoves
  <1>6. ASSUME NEW s \in Side, NEW c \in Ids,
               \/ Consume(s, c) \/ Cancel(s, c) \/ CancelWrite(s, c)
               \/ Start(s, c) \/ Execute(s, c) \/ Ready(s, c)
        PROVE  DraftMoves
    BY <1>5, <1>6 DEF Consume, Cancel, CancelWrite, Start, Execute, Ready
  <1>7. ASSUME NEW s \in Side, Write(s) \/ Receive(s) \/ Close(s) \/ Teardown(s) PROVE DraftMoves
    BY <1>5, <1>7 DEF Write, Receive, Close, Teardown
  <1>8. ASSUME NEW s \in Side, NEW k, DropImport(s, k) \/ Release(s, k) PROVE DraftMoves
    BY <1>5, <1>8 DEF DropImport, Release
  <1>9. CASE UNCHANGED vars BY <1>5, <1>9 DEF vars
  <1> QED BY <1>1, <1>2, <1>3, <1>4, <1>6, <1>7, <1>8, <1>9, SessionAssumption
          DEF Next, Step, CloseBehind, CloseAtEnd

LEMMA WaitersMove ==
  ASSUME CallInv, [Next]_vars
  PROVE  WaitMoves
  <1>0. Typed /\ Waiters /\ Drafted /\ ClosedKeepsNoCall BY DEF CallInv
  <1>1. \A s \in Side : stage[s] = "closed" => waiting[s] = {}
    BY <1>0 DEF ClosedKeepsNoCall
  <1>2. \A s \in Side : \A c \in waiting[s] : c \in Ids /\ stage[s] # "closed"
    BY <1>0, <1>1 DEF Waiters
  <1>3. ASSUME UNCHANGED waiting,
               \A s \in Side : \A c \in Ids :
                 caller[s][c] \in {"waiting", "failed"} =>
                   caller'[s][c] \in {"waiting", "failed"} \/ stage[s] # "open"
        PROVE  WaitMoves
    <2>1. StageMoves BY FlowMoves
    <2>2. \A s \in Side : stage[s] # "open" => stage'[s] # "open" BY <2>1 DEF StageMoves
    <2> QED BY <1>2, <1>3, <2>2 DEF WaitMoves
  <1>4. ASSUME NEW s \in Side, SendEnd(s) PROVE WaitMoves
    <2>1. /\ draft[s].op = "call" /\ draft[s].id \in Ids
          /\ caller[s][draft[s].id] = "sending"
      BY <1>0, <1>4 DEF SendEnd, Calling, Drafted
    <2>2. /\ waiting' = [waiting EXCEPT ![s] = @ \cup {draft[s].id}]
          /\ \E to \in {"waiting", "failed"} :
               caller' = [caller EXCEPT ![s][draft[s].id] = to]
      BY <1>4 DEF SendEnd
    <2>5. caller'[s][draft[s].id] \in {"waiting", "failed"}
      BY <1>0, <2>1, <2>2 DEF Typed
    <2>6. waiting'[s] = waiting[s] \cup {draft[s].id}
          /\ \A t \in Side \ {s} : waiting'[t] = waiting[t]
      BY <1>0, <2>2 DEF Typed
    <2>7. \A t \in Side : \A c \in Ids :
            caller[t][c] \in {"waiting", "failed"} => caller'[t][c] = caller[t][c]
      BY <1>0, <2>1, <2>2 DEF Typed
    <2> QED BY <1>2, <2>1, <2>5, <2>6, <2>7 DEF WaitMoves
  <1>5. ASSUME NEW s \in Side, NEW c \in Ids, Cancel(s, c) PROVE WaitMoves
    <2>1. CASE stage[s] = "open"
      <3>1. /\ waiting' = [waiting EXCEPT ![s] = @ \ {c}]
            /\ caller' = [caller EXCEPT ![s][c] = "cancelling"]
        BY <1>5, <2>1 DEF Cancel, GiveUp
      <3>2. \A t \in Side : \A x \in waiting'[t] :
              x \in waiting[t] /\ caller'[t][x] = caller[t][x]
        BY <1>0, <1>2, <3>1 DEF Typed
      <3> QED BY <1>2, <3>2 DEF WaitMoves
    <2>2. CASE stage[s] # "open"
      <3>1. waiting' = waiting /\ caller' = [caller EXCEPT ![s][c] = "cancelled"]
        BY <1>5, <2>2 DEF Cancel
      <3> QED BY <1>0, <1>3, <2>2, <3>1 DEF Typed
    <2> QED BY <2>1, <2>2
  <1>6. ASSUME NEW s \in Side, Receive(s) PROVE WaitMoves
    <2> DEFINE f == Head(wire[Peer(s)])
    <2>1. f.id \in Nat BY <1>0, <1>6, Read DEF Messages
    <2> HIDE DEF f
    <2>2. CASE /\ f.op = "return" /\ f.id \in waiting[s] \cup cancelled[s] /\ Known(s, f.val)
               /\ ReceiveReply(s, f)
      <3>1. /\ waiting' = [waiting EXCEPT ![s] = @ \ {f.id}]
            /\ caller' = IF f.id \in waiting[s]
                         THEN [caller EXCEPT ![s][f.id] = "answered"] ELSE caller
        BY <2>2 DEF ReceiveReply
      <3>2. \A t \in Side : \A x \in waiting'[t] :
              x \in waiting[t] /\ caller'[t][x] = caller[t][x]
        BY <1>0, <1>2, <3>1 DEF Typed
      <3> QED BY <1>2, <3>2 DEF WaitMoves
    <2>3. CASE UNCHANGED calling BY <1>3, <2>3
    <2> QED BY <1>0, <1>6, <2>2, <2>3, ReadCases
            DEF f, ReceiveCall, ReceiveCancel, ReceiveRelease, Refuse
  <1>7. ASSUME NEW s \in Side, Teardown(s) PROVE WaitMoves
    <2>1. /\ waiting' = [waiting EXCEPT ![s] = {}]
          /\ caller' = [caller EXCEPT ![s] = [c \in Ids |->
                          IF caller[s][c] = "waiting" THEN "failed" ELSE caller[s][c]]]
      BY <1>7 DEF Teardown, Finish
    <2>2. \A t \in Side : \A x \in waiting'[t] :
            x \in waiting[t] /\ caller'[t][x] = caller[t][x]
      BY <1>0, <1>2, <2>1 DEF Typed
    <2> QED BY <1>2, <2>2 DEF WaitMoves
  <1>8. ASSUME NEW s \in Side, NEW c \in Ids, Consume(s, c) \/ CancelWrite(s, c)
        PROVE  WaitMoves
    <2>1. /\ UNCHANGED waiting /\ caller[s][c] \in {"answered", "cancelling"}
          /\ \E to \in Places : caller' = [caller EXCEPT ![s][c] = to]
      BY <1>8 DEF Consume, CancelWrite, Places
    <2>2. \A t \in Side : \A x \in Ids :
            caller[t][x] \in {"waiting", "failed"} => caller'[t][x] = caller[t][x]
      BY <1>0, <2>1 DEF Typed
    <2> QED BY <1>3, <2>1, <2>2
  <1>9. ASSUME NEW s \in Side, SendBegin(s) PROVE WaitMoves
    <2>1. /\ UNCHANGED waiting
          /\ caller' = [caller EXCEPT ![s][next[s] + 1] = "sending"]
      BY <1>9 DEF SendBegin
    <2>2. next[s] + 1 \in Ids => caller[s][next[s] + 1] = "idle"
      BY <1>0 DEF CallInv, Numbered, Typed
    <2> QED BY <1>0, <1>3, <2>1, <2>2 DEF Typed
  <1>10. ASSUME NEW s \in Side, SendRefused(s) PROVE WaitMoves
    <2>1. /\ UNCHANGED waiting
          /\ caller' = [caller EXCEPT ![s][draft[s].id] = "failed"]
          /\ caller[s][draft[s].id] = "sending"
      BY <1>0, <1>10 DEF SendRefused, Calling, Drafted
    <2> QED BY <1>0, <1>3, <2>1 DEF Typed
  <1>11. ASSUME UNCHANGED calling PROVE WaitMoves BY <1>3, <1>11
  <1>12. ASSUME NEW s \in Side, NEW c \in Ids,
                Start(s, c) \/ Execute(s, c) \/ Ready(s, c) \/ RespondBegin(s, c)
         PROVE  WaitMoves
    BY <1>11, <1>12 DEF Start, Execute, Ready, RespondBegin
  <1>13. ASSUME NEW s \in Side, RespondTooLarge(s) \/ RespondEnd(s) \/ Write(s) \/ Close(s)
         PROVE  WaitMoves
    BY <1>11, <1>13 DEF RespondTooLarge, RespondEnd, Write, Close
  <1>14. ASSUME NEW s \in Side, NEW k, DropImport(s, k) \/ Release(s, k) PROVE WaitMoves
    BY <1>11, <1>14 DEF DropImport, Release
  <1>15. CASE UNCHANGED vars BY <1>11, <1>15 DEF vars
  <1> QED BY <1>4, <1>5, <1>6, <1>7, <1>8, <1>9, <1>10, <1>12, <1>13, <1>14, <1>15,
          SessionAssumption DEF Next, Step, CloseBehind, CloseAtEnd

(* Only a send gives out an id. *)
LEMMA NextRests ==
  ASSUME Typed, [Next]_vars
  PROVE  UNCHANGED next \/ \E s \in Side : SendBegin(s)
  <1>1. ASSUME NEW s \in Side, Step(s) PROVE UNCHANGED next \/ SendBegin(s)
    <2>1. ASSUME NEW c \in Ids,
                 \/ Consume(s, c) \/ Cancel(s, c) \/ CancelWrite(s, c)
                 \/ Start(s, c) \/ Execute(s, c) \/ Ready(s, c) \/ RespondBegin(s, c)
          PROVE  UNCHANGED next
      BY <2>1 DEF Consume, Cancel, CancelWrite, Start, Execute, Ready, RespondBegin
    <2>2. ASSUME NEW k, DropImport(s, k) \/ Release(s, k) PROVE UNCHANGED next
      BY <2>2 DEF DropImport, Release
    <2>3. CASE SendRefused(s) \/ SendEnd(s) \/ RespondTooLarge(s) \/ RespondEnd(s)
      BY <2>3 DEF SendRefused, SendEnd, RespondTooLarge, RespondEnd
    <2>4. CASE Write(s) \/ Receive(s) \/ CloseBehind(s) \/ CloseAtEnd(s) \/ Teardown(s)
      BY <2>4, Read DEF Write, CloseBehind, CloseAtEnd, Close, Teardown
    <2> QED BY <1>1, <2>1, <2>2, <2>3, <2>4 DEF Step
  <1> QED BY <1>1 DEF Next, Close, vars

-----------------------------------------------------------------------------
(* The invariant holds *)

LEMMA CallInit == Init => CallInv
  <1> SUFFICES ASSUME Init PROVE CallInv OBVIOUS
  <1>1. Typed BY TypedInit
  <1>2. Numbered BY Two, SessionAssumption DEF Init, Numbered, Ids
  <1>3. Drafted /\ Taken /\ Waiters /\ ClosedKeepsNoCall
    BY Two DEF Init, Drafted, Taken, Waiters, ClosedKeepsNoCall, Free, Frame
  <1>4. Sent BY InNone DEF Init, Sent
  <1> QED BY <1>1, <1>2, <1>3, <1>4 DEF CallInv

LEMMA CallStep == CallInv /\ [Next]_vars => CallInv'
  <1> SUFFICES ASSUME CallInv, [Next]_vars PROVE CallInv' OBVIOUS
  <1>1. Typed /\ Numbered /\ Drafted /\ Sent /\ Taken /\ Waiters /\ ClosedKeepsNoCall
    BY DEF CallInv
  <1>2. Typed' BY <1>1, TypedStep
  <1>3. /\ CallerMoves /\ HandlerMoves /\ StageMoves /\ DraftMoves /\ Flow /\ WaitMoves
        /\ \A s \in Side : received'[s] >= received[s]
    BY MovesOn, FlowMoves, LockMoves, WaitersMove DEF Moves
  <1>4. \A s \in Side : Peer(s) \in Side /\ Peer(s) # s /\ Peer(Peer(s)) = s BY Two
  <1>5. Numbered'
    <2>1. ASSUME NEW s \in Side, SendBegin(s) PROVE Numbered'
      <3>1. /\ next' = [next EXCEPT ![s] = next[s] + 1] /\ next[s] + next[Peer(s)] < MaxCalls
            /\ caller' = [caller EXCEPT ![s][next[s] + 1] = "sending"]
        BY <2>1 DEF SendBegin
      <3>2. /\ next[s] \in Nat /\ next[Peer(s)] \in Nat /\ MaxCalls \in Nat
            /\ next'[s] = next[s] + 1 /\ next'[Peer(s)] = next[Peer(s)]
        BY <1>1, <1>4, <3>1, SessionAssumption DEF Typed
      <3>3. next'[s] + next'[Peer(s)] <= MaxCalls BY <3>1, <3>2
      <3>4. ASSUME NEW c \in Ids
            PROVE  /\ caller'[s][c] = "idle" <=> c > next'[s]
                   /\ caller'[Peer(s)][c] = "idle" <=> c > next'[Peer(s)]
        <4>1. caller'[s][c] = IF c = next[s] + 1 THEN "sending" ELSE caller[s][c]
          BY <1>1, <3>1 DEF Typed
        <4>2. caller'[Peer(s)] = caller[Peer(s)] BY <1>1, <1>4, <3>1 DEF Typed
        <4>3. c \in Nat BY DEF Ids
        <4>4. /\ caller[s][c] = "idle" <=> c > next[s]
              /\ caller[Peer(s)][c] = "idle" <=> c > next[Peer(s)]
          BY <1>1, <1>4 DEF Numbered
        <4> QED BY <3>2, <4>1, <4>2, <4>3, <4>4
      <3>5. next'[Peer(s)] + next'[Peer(Peer(s))] <= MaxCalls BY <1>4, <3>2, <3>3
      <3>6. \A t \in Side : t = s \/ t = Peer(s) BY Two
      <3> QED BY <3>3, <3>4, <3>5, <3>6 DEF Numbered
    <2>2. CASE next' = next
      <3>1. ASSUME NEW s \in Side, NEW c \in Ids, caller[s][c] = "idle" PROVE next'[s] # c
        BY <1>1, <2>2, <3>1 DEF Numbered, Typed, Ids
      <3>2. \A s \in Side : \A c \in Ids : caller'[s][c] = "idle" <=> caller[s][c] = "idle"
        BY <1>3, <3>1 DEF CallerMoves
      <3> QED BY <1>1, <2>2, <3>2 DEF Numbered
    <2> QED BY <1>1, <2>1, <2>2, NextRests
  <1>6. Drafted'
    <2>1. ASSUME NEW s \in Side, draft'[s] = draft[s], draft[s].op = "call"
          PROVE  caller'[s][draft[s].id] = "sending" /\ stage'[s] # "closed"
      BY <1>1, <1>3, <2>1 DEF Drafted, CallerMoves, StageMoves, Free, Frame
    <2>2. ASSUME NEW s \in Side, draft'[s] = draft[s], draft[s].op = "return"
          PROVE  handler'[s][draft[s].id] = "answering"
      BY <1>1, <1>3, <2>2 DEF Drafted, HandlerMoves, Free, Frame
    <2>3. ASSUME NEW s \in Side, stage[s] = "open" PROVE stage'[s] # "closed"
      BY <1>3, <2>3 DEF StageMoves
    <2> QED BY <1>1, <1>3, <2>1, <2>2, <2>3 DEF Drafted, DraftMoves, Free, Frame
  <1>7. ASSUME NEW s \in Side, NEW c \in Ids, ~ Unsent(s, c) PROVE ~ Unsent(s, c)'
    <2>1. stage'[s] = "open" => stage[s] = "open" BY <1>3 DEF StageMoves
    <2> QED BY <1>3, <1>7, <2>1 DEF Unsent, CallerMoves
  <1>8. Sent'
    <2>1. ASSUME NEW s \in Side, NEW g, Says(s, g) PROVE Says(s, g)'
      BY <1>3, <1>7, <2>1 DEF Says, HandlerMoves
    <2> QED BY <1>1, <1>3, <2>1 DEF Sent, Flow
  <1>9. Taken'
    <2> SUFFICES ASSUME NEW s \in Side, NEW c \in Ids, handler'[s][c] # "none"
                 PROVE  c <= received'[s] /\ ~ Unsent(Peer(s), c)'
      BY DEF Taken
    <2>1. ~ Unsent(Peer(s), c) BY <1>1, <1>3 DEF Taken, HandlerMoves
    <2>2. ~ Unsent(Peer(s), c)' BY <1>4, <1>7, <2>1
    <2>3. received[s] \in Nat /\ received'[s] \in Nat /\ c \in Nat
      BY <1>1, <1>2 DEF Typed, Ids
    <2>4. c <= received'[s]
      <3>1. CASE handler[s][c] # "none" BY <1>1, <1>3, <2>3, <3>1 DEF Taken
      <3>2. CASE handler[s][c] = "none" BY <1>3, <2>3, <3>2 DEF HandlerMoves
      <3> QED BY <3>1, <3>2
    <2> QED BY <2>2, <2>4
  <1>10. Waiters'
    <2>1. ASSUME NEW s \in Side, stage[s] # "open" PROVE stage'[s] # "open"
      BY <1>3, <2>1 DEF StageMoves
    <2>2. ASSUME NEW s \in Side, NEW c \in waiting'[s]
          PROVE  c \in Ids /\ (caller'[s][c] \in {"waiting", "failed"} \/ stage'[s] # "open")
      BY <1>1, <1>3, <2>1 DEF Waiters, WaitMoves, Drafted
    <2>3. ASSUME NEW s \in Side, NEW c \in Ids, handler[s][c] = "answered"
          PROVE  handler'[s][c] = "answered"
      BY <1>3, <2>3 DEF HandlerMoves
    <2>4. ASSUME NEW s \in Side, NEW c \in Ids, caller'[s][c] = "answered"
          PROVE  handler'[Peer(s)][c] = "answered"
      <3>1. handler[Peer(s)][c] = "answered"
        BY <1>1, <1>3, <2>4 DEF Waiters, CallerMoves
      <3> QED BY <1>4, <2>3, <3>1
    <2> QED BY <2>2, <2>4 DEF Waiters
  <1>11. ClosedKeepsNoCall'
    <2> SUFFICES ASSUME NEW s \in Side, stage'[s] = "closed"
                 PROVE  /\ waiting'[s] = {} /\ queued'[s] = <<>>
                        /\ \A c \in Ids : /\ caller'[s][c] # "waiting"
                                          /\ handler'[s][c] \notin {"incoming", "awaiting"}
      BY DEF ClosedKeepsNoCall
    <2>1. CASE stage[s] = "closed"
      <3>1. /\ waiting[s] = {} /\ queued[s] = <<>> /\ draft[s].op # "call"
            /\ \A c \in Ids : /\ caller[s][c] # "waiting"
                              /\ handler[s][c] \notin {"incoming", "awaiting"}
        BY <1>1, <2>1 DEF ClosedKeepsNoCall, Drafted
      <3>2. waiting'[s] = {} BY <1>3, <3>1 DEF WaitMoves
      <3>3. queued'[s] = <<>> BY <1>3, <2>1, <3>1 DEF Flow
      <3>4. \A c \in Ids : caller'[s][c] # "waiting" BY <1>3, <3>1 DEF CallerMoves
      <3>5. \A c \in Ids : handler'[s][c] \notin {"incoming", "awaiting"}
        BY <1>3, <2>1, <3>1 DEF HandlerMoves
      <3> QED BY <3>2, <3>3, <3>4, <3>5
    <2>2. CASE stage[s] # "closed" BY <1>3, <2>2 DEF StageMoves, KeepsNoCall
    <2> QED BY <2>1, <2>2
  <1> QED BY <1>2, <1>5, <1>6, <1>8, <1>9, <1>10, <1>11 DEF CallInv

-----------------------------------------------------------------------------
(* What a session promises of its calls *)

Calls == Side \X Ids

AskOf(at) ==
  IF at = "idle" THEN "no"
  ELSE IF at \in {"sending", "waiting", "answered"} THEN "waiting"
  ELSE IF at = "cancelling" THEN "cancelled" ELSE at

ServeOf(at) ==
  IF at \in {"none", "incoming", "starting"} THEN "no"
  ELSE IF at \in {"awaiting", "running", "answering"} THEN "serving" ELSE at

LEMMA Mapped ==
  /\ Asked = [x \in Calls |-> AskOf(caller[x[1]][x[2]])]
  /\ Served = [x \in Calls |-> ServeOf(handler[Peer(x[1])][x[2]])]
  BY DEF Asked, Served, Calls, AskOf, ServeOf

LEMMA MappedNext ==
  /\ Asked' = [x \in Calls |-> AskOf(caller'[x[1]][x[2]])]
  /\ Served' = [x \in Calls |-> ServeOf(handler'[Peer(x[1])][x[2]])]
  BY DEF Asked, Served, Calls, AskOf, ServeOf

(* One call of the two ends moves on, at its caller ... *)
LEMMA AskedSet ==
  ASSUME Typed, NEW s \in Side, NEW c \in Ids, NEW to,
         caller' = [caller EXCEPT ![s][c] = to]
  PROVE  /\ <<s, c>> \in Calls /\ Asked[<<s, c>>] = AskOf(caller[s][c])
         /\ Asked' = [Asked EXCEPT ![<<s, c>>] = AskOf(to)]
  <1>1. <<s, c>> \in Calls BY DEF Calls
  <1>2. \A t \in Side, x \in Ids :
          caller'[t][x] = IF <<t, x>> = <<s, c>> THEN to ELSE caller[t][x]
    BY DEF Typed
  <1>3. \A x \in Calls :
          AskOf(caller'[x[1]][x[2]]) = IF x = <<s, c>> THEN AskOf(to) ELSE Asked[x]
    BY <1>2, Mapped DEF Calls
  <1> QED BY <1>1, <1>3, Mapped, MappedNext

(* ... or at the far end. *)
LEMMA ServedSet ==
  ASSUME Typed, NEW s \in Side, NEW c \in Ids, NEW to,
         handler' = [handler EXCEPT ![s][c] = to]
  PROVE  /\ <<Peer(s), c>> \in Calls /\ Served[<<Peer(s), c>>] = ServeOf(handler[s][c])
         /\ Served' = [Served EXCEPT ![<<Peer(s), c>>] = ServeOf(to)]
  <1>0. \A t \in Side : Peer(t) \in Side /\ Peer(Peer(t)) = t BY Two
  <1>1. <<Peer(s), c>> \in Calls BY <1>0 DEF Calls
  <1>2. \A t \in Side, x \in Ids :
          handler'[t][x] = IF <<t, x>> = <<s, c>> THEN to ELSE handler[t][x]
    BY DEF Typed
  <1>3. ASSUME NEW x \in Calls
        PROVE  ServeOf(handler'[Peer(x[1])][x[2]])
                 = IF x = <<Peer(s), c>> THEN ServeOf(to) ELSE Served[x]
    <2>1. PICK t \in Side, i \in Ids : x = <<t, i>> BY DEF Calls
    <2>2. Served[x] = ServeOf(handler[Peer(t)][i]) BY <2>1, Mapped
    <2>3. handler'[Peer(t)][i] = IF <<Peer(t), i>> = <<s, c>> THEN to ELSE handler[Peer(t)][i]
      BY <1>0, <1>2
    <2>4. <<Peer(t), i>> = <<s, c>> <=> x = <<Peer(s), c>> BY <1>0, <2>1
    <2> QED BY <2>1, <2>2, <2>3, <2>4
  <1>4. Served[<<Peer(s), c>>] = ServeOf(handler[s][c]) BY <1>0, <1>1, Mapped
  <1> QED BY <1>1, <1>3, <1>4, Mapped, MappedNext

LEMMA AskedRests == UNCHANGED caller => UNCHANGED Asked
  BY DEF Asked

LEMMA ServedRests == UNCHANGED handler => UNCHANGED Served
  BY DEF Served

(* A call that was received was made. *)
LEMMA WasMade ==
  ASSUME CallInv, NEW s \in Side, NEW c \in Ids, handler[s][c] # "none"
  PROVE  Asked[<<Peer(s), c>>] # "no"
  <1>1. Peer(s) \in Side /\ <<Peer(s), c>> \in Calls BY Two DEF Calls
  <1>2. caller[Peer(s)][c] # "idle" BY DEF CallInv, Taken, Unsent
  <1>3. caller[Peer(s)][c] \in Places BY <1>1 DEF CallInv, Typed
  <1> QED BY <1>1, <1>2, <1>3, Mapped DEF AskOf, Places

(* One call fails, or is dropped. *)
LEMMA EndsOne ==
  ASSUME NEW x \in Calls,
         \/ Asked[x] = "waiting" /\ Asked' = [Asked EXCEPT ![x] = "failed"] /\ Served' = Served
         \/ /\ Asked[x] # "no" /\ Served[x] \in {"no", "serving"}
            /\ Served' = [Served EXCEPT ![x] = "dropped"] /\ Asked' = Asked
  PROVE  Remote!End
  <1>1. /\ Asked = [y \in Calls |-> Asked[y]] /\ Served = [y \in Calls |-> Served[y]]
    BY Mapped
  <1>2. CASE Asked[x] = "waiting" /\ Asked' = [Asked EXCEPT ![x] = "failed"] /\ Served' = Served
    <2>1. Asked' = [y \in Calls |-> IF y \in {x} THEN "failed" ELSE Asked[y]] BY <1>1, <1>2
    <2>2. Served' = [y \in Calls |-> IF y \in {} THEN "dropped" ELSE Served[y]]
      BY <1>1, <1>2
    <2>3. /\ {x} \in SUBSET {y \in Calls : Asked[y] = "waiting"}
          /\ {} \in SUBSET {y \in Calls : Asked[y] # "no" /\ Served[y] \in {"no", "serving"}}
      BY <1>2
    <2> QED BY <2>1, <2>2, <2>3 DEF Remote!End, Calls
  <1>3. CASE /\ Asked[x] # "no" /\ Served[x] \in {"no", "serving"}
             /\ Served' = [Served EXCEPT ![x] = "dropped"] /\ Asked' = Asked
    <2>1. Served' = [y \in Calls |-> IF y \in {x} THEN "dropped" ELSE Served[y]]
      BY <1>1, <1>3
    <2>2. Asked' = [y \in Calls |-> IF y \in {} THEN "failed" ELSE Asked[y]] BY <1>1, <1>3
    <2>3. /\ {} \in SUBSET {y \in Calls : Asked[y] = "waiting"}
          /\ {x} \in SUBSET {y \in Calls : Asked[y] # "no" /\ Served[y] \in {"no", "serving"}}
      BY <1>3
    <2> QED BY <2>1, <2>2, <2>3 DEF Remote!End, Calls
  <1> QED BY <1>2, <1>3

(* A step of the session is one of RemoteCall's, or none it sees. *)
Promised == Remote!Next \/ UNCHANGED <<Asked, Served>>

LEMMA PromisedQuiet == UNCHANGED <<caller, handler>> => Promised
  BY AskedRests, ServedRests DEF Promised

(* One call moves on at its caller, as RemoteCall has it ... *)
LEMMA PromisedAsked ==
  ASSUME Typed, NEW s \in Side, NEW c \in Ids, NEW to,
         caller' = [caller EXCEPT ![s][c] = to], UNCHANGED handler,
         \/ AskOf(to) = AskOf(caller[s][c])
         \/ caller[s][c] = "idle" /\ to = "sending"
         \/ caller[s][c] \in {"sending", "waiting"} /\ to = "failed"
         \/ caller[s][c] \in {"waiting", "answered"} /\ to \in {"cancelling", "cancelled"}
         \/ /\ caller[s][c] = "answered" /\ to = "replied"
            /\ handler[Peer(s)][c] = "answered"
  PROVE  Promised
  <1> DEFINE x == <<s, c>>
  <1>1. x \in Calls /\ Asked[x] = AskOf(caller[s][c])
        /\ Asked' = [Asked EXCEPT ![x] = AskOf(to)] /\ Served' = Served
    BY AskedSet, ServedRests
  <1>2. Served[x] = ServeOf(handler[Peer(s)][c]) BY <1>1, Mapped
  <1> HIDE DEF x
  <1>3. CASE AskOf(to) = AskOf(caller[s][c]) BY <1>1, <1>3, Mapped DEF Promised
  <1>4. CASE caller[s][c] = "idle" /\ to = "sending"
    <2>1. Remote!Ask(x) BY <1>1, <1>4 DEF Remote!Ask, AskOf
    <2> QED BY <1>1, <2>1 DEF Promised, Remote!Next, Calls
  <1>5. CASE caller[s][c] \in {"sending", "waiting"} /\ to = "failed"
    <2>1. Remote!End BY <1>1, <1>5, EndsOne DEF AskOf
    <2> QED BY <2>1 DEF Promised, Remote!Next
  <1>6. CASE caller[s][c] \in {"waiting", "answered"} /\ to \in {"cancelling", "cancelled"}
    <2>1. Remote!Cancel(x) BY <1>1, <1>6 DEF Remote!Cancel, AskOf
    <2> QED BY <1>1, <2>1 DEF Promised, Remote!Next, Calls
  <1>7. CASE /\ caller[s][c] = "answered" /\ to = "replied"
             /\ handler[Peer(s)][c] = "answered"
    <2>1. Remote!Learn(x) BY <1>1, <1>2, <1>7 DEF Remote!Learn, AskOf, ServeOf
    <2> QED BY <1>1, <2>1 DEF Promised, Remote!Next, Calls
  <1> QED BY <1>3, <1>4, <1>5, <1>6, <1>7

(* ... or at the far end. *)
LEMMA PromisedServed ==
  ASSUME CallInv, NEW s \in Side, NEW c \in Ids, NEW to,
         handler' = [handler EXCEPT ![s][c] = to], UNCHANGED caller,
         \/ ServeOf(to) = ServeOf(handler[s][c])
         \/ handler[s][c] = "starting" /\ to \in {"awaiting", "running"}
         \/ handler[s][c] = "answering" /\ to = "answered"
         \/ /\ handler[s][c] \in {"incoming", "starting", "awaiting", "answering"}
            /\ to = "dropped"
  PROVE  Promised
  <1> DEFINE x == <<Peer(s), c>>
  <1>1. x \in Calls /\ Served[x] = ServeOf(handler[s][c])
        /\ Served' = [Served EXCEPT ![x] = ServeOf(to)] /\ Asked' = Asked
    BY ServedSet, AskedRests DEF CallInv
  <1>2. handler[s][c] # "none" => Asked[x] # "no" BY WasMade
  <1> HIDE DEF x
  <1>3. CASE ServeOf(to) = ServeOf(handler[s][c]) BY <1>1, <1>3, Mapped DEF Promised
  <1>4. CASE handler[s][c] = "starting" /\ to \in {"awaiting", "running"}
    <2>1. Remote!Serve(x) BY <1>1, <1>2, <1>4 DEF Remote!Serve, ServeOf
    <2> QED BY <1>1, <2>1 DEF Promised, Remote!Next, Calls
  <1>5. CASE handler[s][c] = "answering" /\ to = "answered"
    <2>1. Remote!Answer(x) BY <1>1, <1>5 DEF Remote!Answer, ServeOf
    <2> QED BY <1>1, <2>1 DEF Promised, Remote!Next, Calls
  <1>6. CASE /\ handler[s][c] \in {"incoming", "starting", "awaiting", "answering"}
             /\ to = "dropped"
    <2>1. Remote!End BY <1>1, <1>2, <1>6, EndsOne DEF ServeOf
    <2> QED BY <2>1 DEF Promised, Remote!Next
  <1> QED BY <1>3, <1>4, <1>5, <1>6

(* An end of the session fails and drops what that end had. *)
LEMMA PromisedTeardown ==
  ASSUME CallInv, NEW s \in Side, Teardown(s)
  PROVE  Promised
  <1> DEFINE lost == {x \in Calls : x[1] = s /\ caller[s][x[2]] = "waiting"}
             dropped == {x \in Calls : Peer(x[1]) = s
                                       /\ handler[s][x[2]] \in {"incoming", "awaiting"}}
  <1>0. Typed BY DEF CallInv
  <1>1. \A t \in Side, c \in Ids : caller'[t][c] =
          IF t = s /\ caller[s][c] = "waiting" THEN "failed" ELSE caller[t][c]
    BY <1>0 DEF Teardown, Finish, Typed
  <1>2. \A t \in Side, c \in Ids : handler'[t][c] =
          IF t = s /\ handler[s][c] \in {"incoming", "awaiting"} THEN "dropped"
          ELSE handler[t][c]
    BY <1>0 DEF Teardown, Typed
  <1>3. ASSUME NEW x \in Calls
        PROVE  /\ Asked'[x] = IF x \in lost THEN "failed" ELSE Asked[x]
               /\ Served'[x] = IF x \in dropped THEN "dropped" ELSE Served[x]
               /\ x \in lost => Asked[x] = "waiting"
               /\ x \in dropped => Asked[x] # "no" /\ Served[x] \in {"no", "serving"}
    <2>1. PICK t \in Side, c \in Ids : x = <<t, c>> BY DEF Calls
    <2>2. Peer(t) \in Side /\ Peer(Peer(t)) = t BY Two
    <2>3. /\ Asked'[x] = AskOf(caller'[t][c]) /\ Asked[x] = AskOf(caller[t][c])
          /\ Served'[x] = ServeOf(handler'[Peer(t)][c])
          /\ Served[x] = ServeOf(handler[Peer(t)][c])
      BY <2>1, Mapped, MappedNext
    <2>4. handler[Peer(t)][c] # "none" => Asked[x] # "no" BY <2>1, <2>2, WasMade
    <2>5. x \in lost <=> t = s /\ caller[s][c] = "waiting" BY <2>1
    <2>6. x \in dropped <=> Peer(t) = s /\ handler[s][c] \in {"incoming", "awaiting"}
      BY <2>1
    <2>7. AskOf("failed") = "failed" /\ AskOf("waiting") = "waiting"
      BY DEF AskOf
    <2>8. /\ ServeOf("dropped") = "dropped" /\ ServeOf("incoming") = "no"
          /\ ServeOf("awaiting") = "serving"
      BY DEF ServeOf
    <2> HIDE DEF lost, dropped
    <2>9. Asked'[x] = IF x \in lost THEN "failed" ELSE Asked[x] BY <1>1, <2>3, <2>5, <2>7
    <2>10. Served'[x] = IF x \in dropped THEN "dropped" ELSE Served[x]
      BY <1>2, <2>2, <2>3, <2>6, <2>8
    <2>11. x \in lost => Asked[x] = "waiting" BY <2>3, <2>5, <2>7
    <2>12. x \in dropped => Asked[x] # "no" /\ Served[x] \in {"no", "serving"}
      BY <2>3, <2>4, <2>6, <2>8
    <2> QED BY <2>9, <2>10, <2>11, <2>12
  <1> HIDE DEF lost, dropped
  <1>4. lost \subseteq Calls /\ dropped \subseteq Calls BY DEF lost, dropped
  <1>5. /\ lost \in SUBSET {x \in Calls : Asked[x] = "waiting"}
        /\ dropped \in SUBSET {x \in Calls : Asked[x] # "no" /\ Served[x] \in {"no", "serving"}}
    BY <1>3, <1>4
  <1>6. /\ Asked' = [x \in Calls |-> IF x \in lost THEN "failed" ELSE Asked[x]]
        /\ Served' = [x \in Calls |-> IF x \in dropped THEN "dropped" ELSE Served[x]]
    BY <1>3, MappedNext
  <1>7. Remote!End BY <1>5, <1>6 DEF Remote!End, Calls
  <1> QED BY <1>7 DEF Promised, Remote!Next

LEMMA PromisedReceive ==
  ASSUME CallInv, NEW s \in Side, Receive(s)
  PROVE  Promised
  <1> DEFINE f == Head(wire[Peer(s)])
  <1>1. Typed /\ Says(Peer(s), f) /\ f \in Messages BY HeadSays, Read DEF CallInv
  <1>2. Peer(s) \in Side /\ stage[s] = "open" BY Two, Read, <1>1
  <1> HIDE DEF f
  <1>3. CASE f.op = "call" /\ f.id > received[s] /\ Known(s, f.val) /\ ReceiveCall(s, f)
    <2>1. handler' = [handler EXCEPT ![s][f.id] = "incoming"] /\ caller' = caller
      BY <1>3 DEF ReceiveCall
    <2>2. f.id \in Ids BY <1>1, <1>3 DEF Says
    <2>3. f.id \in Nat /\ received[s] \in Nat BY <1>1 DEF Typed, Messages
    <2>4. handler[s][f.id] = "none" BY <1>3, <2>2, <2>3 DEF CallInv, Taken, Ids
    <2>5. ServeOf("incoming") = ServeOf("none") BY DEF ServeOf
    <2> QED BY <2>1, <2>2, <2>4, <2>5, PromisedServed
  <1>4. CASE /\ f.op = "return" /\ f.id \in waiting[s] \cup cancelled[s] /\ Known(s, f.val)
             /\ ReceiveReply(s, f)
    <2>1. CASE f.id \in waiting[s]
      <3>1. f.id \in Ids /\ caller[s][f.id] = "waiting"
        BY <1>1, <1>2, <1>4, <2>1, Waited DEF Says
      <3>2. caller' = [caller EXCEPT ![s][f.id] = "answered"] /\ handler' = handler
        BY <1>4, <2>1 DEF ReceiveReply
      <3>3. AskOf("answered") = AskOf("waiting") BY DEF AskOf
      <3> QED BY <1>1, <3>1, <3>2, <3>3, PromisedAsked
    <2>2. CASE f.id \notin waiting[s] BY <1>4, <2>2, PromisedQuiet DEF ReceiveReply
    <2> QED BY <2>1, <2>2
  <1>5. CASE f.op = "cancel" /\ ReceiveCancel(s, f)
    <2>1. f.id \in Ids BY <1>1, <1>5 DEF Says
    <2>2. CASE handler[s][f.id] \in {"incoming", "awaiting"}
      <3>1. handler' = [handler EXCEPT ![s][f.id] = "dropped"] /\ caller' = caller
        BY <1>5, <2>2 DEF ReceiveCancel
      <3> QED BY <2>1, <2>2, <3>1, PromisedServed
    <2>3. CASE handler[s][f.id] \notin {"incoming", "awaiting"}
      BY <1>5, <2>3, PromisedQuiet DEF ReceiveCancel
    <2> QED BY <2>2, <2>3
  <1>6. CASE UNCHANGED <<caller, handler>> BY <1>6, PromisedQuiet
  <1> QED BY <1>1, <1>3, <1>4, <1>5, <1>6, ReadCases DEF f, ReceiveRelease, Refuse

LEMMA PromisedStep ==
  ASSUME CallInv, [Next]_vars
  PROVE  Promised
  <1>0. Typed BY DEF CallInv
  <1>1. ASSUME NEW s \in Side, SendBegin(s) PROVE Promised
    <2>1. next[s] + 1 \in Ids
      BY <1>0, <1>1, Two, SessionAssumption, SMTT(30) DEF SendBegin, Typed, Ids
    <2>2. caller[s][next[s] + 1] = "idle" BY <1>0, <2>1 DEF CallInv, Numbered, Typed
    <2>3. caller' = [caller EXCEPT ![s][next[s] + 1] = "sending"] /\ handler' = handler
      BY <1>1 DEF SendBegin
    <2> QED BY <1>0, <2>1, <2>2, <2>3, PromisedAsked
  <1>2. ASSUME NEW s \in Side, SendRefused(s) \/ SendEnd(s) PROVE Promised
    <2>1. PICK to \in {"waiting", "failed"} :
            caller' = [caller EXCEPT ![s][draft[s].id] = to] /\ handler' = handler
      BY <1>2 DEF SendRefused, SendEnd
    <2>2. draft[s].id \in Ids /\ caller[s][draft[s].id] = "sending"
      BY <1>2 DEF SendRefused, SendEnd, Calling, CallInv, Drafted
    <2>3. AskOf("waiting") = AskOf("sending") BY DEF AskOf
    <2> QED BY <1>0, <2>1, <2>2, <2>3, PromisedAsked
  <1>3. ASSUME NEW s \in Side, NEW c \in Ids, Consume(s, c) PROVE Promised
    <2>1. handler[Peer(s)][c] = "answered" BY <1>3 DEF Consume, CallInv, Waiters
    <2> QED BY <1>0, <1>3, <2>1, PromisedAsked DEF Consume
  <1>4. ASSUME NEW s \in Side, NEW c \in Ids, Cancel(s, c) PROVE Promised
    <2>1. PICK to \in {"cancelling", "cancelled"} :
            caller' = [caller EXCEPT ![s][c] = to] /\ handler' = handler
      BY <1>4 DEF Cancel
    <2> QED BY <1>0, <1>4, <2>1, PromisedAsked DEF Cancel
  <1>5. ASSUME NEW s \in Side, NEW c \in Ids, CancelWrite(s, c) PROVE Promised
    <2>1. AskOf("cancelled") = AskOf("cancelling") BY DEF AskOf
    <2> QED BY <1>0, <1>5, <2>1, PromisedAsked DEF CancelWrite
  <1>6. ASSUME NEW s \in Side, NEW c \in Ids, Start(s, c) \/ Execute(s, c) PROVE Promised
    <2>1. CASE Start(s, c)
      <3>1. ServeOf("starting") = ServeOf("incoming") BY DEF ServeOf
      <3> QED BY <2>1, <3>1, PromisedServed DEF Start
    <2>2. CASE Execute(s, c)
      <3>1. PICK to \in {"running", "awaiting", "dropped"} :
              handler' = [handler EXCEPT ![s][c] = to] /\ caller' = caller
        BY <2>2 DEF Execute
      <3> QED BY <2>2, <3>1, PromisedServed DEF Execute
    <2> QED BY <1>6, <2>1, <2>2
  <1>7. ASSUME NEW s \in Side, NEW c \in Ids, Ready(s, c) PROVE Promised
    <2>1. ServeOf("awaiting") = ServeOf("running") BY DEF ServeOf
    <2> QED BY <1>7, <2>1, PromisedServed DEF Ready
  <1>8. ASSUME NEW s \in Side, NEW c \in Ids, RespondBegin(s, c) PROVE Promised
    <2>1. ServeOf("answering") = ServeOf("running") BY DEF ServeOf
    <2> QED BY <1>8, <2>1, PromisedServed DEF RespondBegin
  <1>9. ASSUME NEW s \in Side, RespondEnd(s) PROVE Promised
    <2>1. PICK to \in {"answered", "dropped"} :
            handler' = [handler EXCEPT ![s][draft[s].id] = to] /\ caller' = caller
      BY <1>9 DEF RespondEnd
    <2>2. draft[s].id \in Ids /\ handler[s][draft[s].id] = "answering"
      BY <1>9 DEF RespondEnd, CallInv, Drafted
    <2> QED BY <2>1, <2>2, PromisedServed
  <1>10. ASSUME NEW s \in Side, RespondTooLarge(s) \/ Write(s) \/ Close(s) PROVE Promised
    BY <1>10, PromisedQuiet DEF RespondTooLarge, Write, Close
  <1>11. ASSUME NEW s \in Side, NEW k, DropImport(s, k) \/ Release(s, k) PROVE Promised
    BY <1>11, PromisedQuiet DEF DropImport, Release
  <1>12. CASE UNCHANGED vars BY <1>12, PromisedQuiet DEF vars
  <1> QED BY <1>1, <1>2, <1>3, <1>4, <1>5, <1>6, <1>7, <1>8, <1>9, <1>10, <1>11, <1>12,
          PromisedReceive, PromisedTeardown, SessionAssumption DEF Next, Step, CloseBehind, CloseAtEnd

-----------------------------------------------------------------------------
(* The theorems *)

LEMMA CallsFollowed == Spec => []CallInv
  BY CallInit, CallStep, PTL DEF Spec

(* A closed end keeps no call: nobody waits on it and nothing is queued or   *)
(* awaited for the other end, whatever was being sent while it closed (the   *)
(* lock under which the tables are taken is the one frames are made under).  *)
THEOREM ClosedEndIsEmpty == Spec => []ClosedKeepsNoCall
  <1>1. CallInv => ClosedKeepsNoCall BY DEF CallInv
  <1> QED BY <1>1, CallsFollowed, PTL

(* The session implements RemoteCall: a call is served at most once, and     *)
(* only if it was made; a result its caller sees is one the far end gave;    *)
(* and a call that is over stays over.                                       *)
THEOREM SessionServesCalls == Spec => IsRemoteCall
  <1>1. Init => Remote!Init
    BY Two DEF Init, Remote!Init, Asked, Served
  <1>2. CallInv /\ [Next]_vars => [Remote!Next]_(Remote!vars)
    BY PromisedStep DEF Promised, Remote!vars
  <1> QED BY <1>1, <1>2, CallsFollowed, PTL DEF Spec, IsRemoteCall, Remote!Spec
=============================================================================
