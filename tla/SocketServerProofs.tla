-------------------------- MODULE SocketServerProofs --------------------------
(***************************************************************************)
(* What the services are told of a socket, what waits to be written to it   *)
(* and who may write, for any number of slots, ids, senders and requests.   *)
(***************************************************************************)
EXTENDS SocketServer, FiniteSetTheorems, FunctionTheorems, SequenceTheorems, WellFoundedInduction, TLAPS

\* Every set of natural numbers that is not empty has a least element.
LEMMA LeastElement ==
    ASSUME NEW T \in SUBSET Nat, T # {}
    PROVE  \E n \in T : \A m \in T : n <= m
<1> DEFINE R == OpToRel(<, Nat)
<1>1. IsWellFoundedOn(R, Nat)  BY NatLessThanWellFounded
<1>2. \E x \in T : \A y \in T : ~(<<y, x>> \in R)
  <2> HIDE DEF R
  <2> QED  BY <1>1, WFMin
<1>3. PICK x \in T : \A y \in T : ~(<<y, x>> \in R)  BY <1>2
<1>4. \A y \in T : ~(y < x)  BY <1>3 DEF OpToRel
<1> QED  BY <1>4

Fields == {"type", "id", "tcp", "closing", "reading", "writing", "high", "low", "dw", "tag", "sending"}
Events == [k : Slots \cup {-1}, read : BOOLEAN, write : BOOLEAN, error : BOOLEAN, eof : BOOLEAN]
Forcings == [k : Slots, event : {"CLOSE", "ERR", "none"}, command : BOOLEAN]

\* The shape of what the invariant speaks of
SlotShape ==
    /\ slot = [k \in Slots |-> slot[k]] /\ \A k \in Slots : DOMAIN slot[k] = Fields
    /\ seen = [i \in Ids |-> seen[i]]
PollShape ==
    poll \in [phase : {"commands", "first", "events", "aborted"}, batch : Seq(Events),
              forcing : Forcings \cup {NotForcing}]
PipeShape == \E Elems : pipe \in Seq(Elems)

\* The services do not know yet that a socket in this state is closed
Closable == {"connecting", "listening", "accepted", "open"}

\* The state the services know a socket in, by the type of its slot
KnownAs(type) ==
    CASE type = "RESERVE" -> {"connecting", "listening"}
      [] type = "CONNECTING" -> {"connecting"}
      [] type \in {"CONNECTED", "HALFCLOSE_WRITE"} -> {"open"}
      [] type = "HALFCLOSE_READ" -> {"closed"}
      [] type \in {"PLISTEN", "LISTEN"} -> {"listening"}
      [] type = "PACCEPT" -> {"accepted"}
      [] OTHER -> {}

\* Of a slot: whose it is and what the services know of that socket; nothing is read from and
\* nothing waits to be written to a socket that is not started
Paused == {"PACCEPT", "PLISTEN"}
SlotOK(k) ==
    LET s == slot[k]
    IN  /\ s.type # "INVALID" =>
               /\ s.id \in Ids /\ HASH_ID(s.id) = k
               /\ seen[s.id] \in KnownAs(s.type)
        /\ s.type \in Paused \cup {"INVALID", "RESERVE"} => s.high = <<>> /\ s.low = <<>>
        /\ s.type \in Paused => ~s.reading /\ s.dw = <<>>

\* Of a request: who makes it knows the socket, and one to open finds the slot reserved
Opening == {"O", "L"}
RequestOK(r) ==
    /\ r.id \in Ids /\ seen[r.id] # "unborn"
    /\ r.op \in Opening =>
           /\ slot[HASH_ID(r.id)].id = r.id /\ slot[HASH_ID(r.id)].type = "RESERVE"
           /\ seen[r.id] = IF r.op = "O" THEN "connecting" ELSE "listening"

\* A socket is opened before anything else is done with it, and a reserved slot is opened
OpenedFirst ==
    \A n \in 1 .. Len(pipe) : pipe[n].op \in Opening =>
        \A m \in 1 .. n - 1 : pipe[m].id # pipe[n].id
WillOpen(k) ==
    slot[k].type = "RESERVE" =>
        \E n \in 1 .. Len(pipe) : pipe[n].op \in Opening /\ pipe[n].id = slot[k].id

EventOK(e) ==
    e.k # -1 =>
        /\ slot[e.k].type # "RESERVE"
        /\ e.read => slot[e.k].type \notin Paused

ForcingOK ==
    poll.forcing # NotForcing =>
        LET s == slot[poll.forcing.k]
        IN  /\ s.type \notin {"INVALID", "RESERVE"}
            /\ poll.forcing.event = "CLOSE" => seen[s.id] \in Closable

\* Of a sender: it knows the socket it sends on
SenderOK(t) ==
    \/ sender[t] = Idle
    \/ /\ DOMAIN sender[t] = {"pc", "msg"}
       /\ sender[t].msg.to \in Ids /\ seen[sender[t].msg.to] # "unborn"

SlotsOK == \A k \in Slots : SlotOK(k)
PipeOK ==
    /\ \A n \in 1 .. Len(pipe) : RequestOK(pipe[n])
    /\ OpenedFirst
    /\ \A k \in Slots : WillOpen(k)
BatchOK == \A n \in 1 .. Len(poll.batch) : EventOK(poll.batch[n])
SendersOK ==
    /\ sender = [t \in Senders |-> sender[t]]
    /\ \A t \in Senders : SenderOK(t)

\* Nothing was told that was not promised
ToldInOrder == \A i \in DOMAIN seen : seen[i] # "broken"

LifeInv ==
    /\ SlotShape /\ PollShape /\ PipeShape /\ ToldInOrder
    /\ SlotsOK /\ PipeOK /\ BatchOK /\ ForcingOK /\ SendersOK

-----------------------------------------------------------------------------
(* Numbers and sequences *)

\* HASH_ID gives a slot, and -1 is none.
LEMMA HashInSlots ==
    /\ \A id \in Ids : HASH_ID(id) \in Slots
    /\ -1 \notin Slots
BY SocketAssumption DEF Ids, Slots, HASH_ID

\* What comes after an element is put at the end of a sequence, or the first is taken off.
LEMMA Appending ==
    ASSUME NEW Elems, NEW q \in Seq(Elems), NEW e
    PROVE  /\ Append(q, e) \in Seq(Elems \cup {e}) /\ Len(Append(q, e)) = Len(q) + 1
           /\ \A n \in 1 .. Len(q) : Append(q, e)[n] = q[n]
           /\ Append(q, e)[Len(q) + 1] = e
           /\ Len(q) \in Nat
<1>1. q \in Seq(Elems \cup {e}) /\ e \in Elems \cup {e}
  OBVIOUS
<1> QED  BY <1>1

\* Taking the head of a sequence shifts the rest by one.
LEMMA Taking ==
    ASSUME NEW Elems, NEW q \in Seq(Elems), q # <<>>
    PROVE  /\ Tail(q) \in Seq(Elems) /\ Len(Tail(q)) = Len(q) - 1
           /\ \A n \in 1 .. Len(q) - 1 : Tail(q)[n] = q[n + 1]
           /\ Head(q) = q[1] /\ Head(q) \in Elems
           /\ Len(q) \in Nat /\ Len(q) > 0
  OBVIOUS

\* Putting an element in front shifts the rest by one.
LEMMA Pushing ==
    ASSUME NEW Elems, NEW q \in Seq(Elems), NEW e \in Elems
    PROVE  /\ <<e>> \o q \in Seq(Elems) /\ Len(<<e>> \o q) = Len(q) + 1
           /\ (<<e>> \o q)[1] = e
           /\ \A n \in 1 .. Len(q) : (<<e>> \o q)[n + 1] = q[n]
           /\ Len(q) \in Nat
  OBVIOUS

-----------------------------------------------------------------------------
(* What a step does to the slots *)

\* The slot is the same socket's, in the same state
Alike(k) ==
    /\ SlotOK(k)' /\ slot'[k].type = slot[k].type /\ slot'[k].id = slot[k].id
    /\ slot[k].type # "INVALID" => seen'[slot[k].id] = seen[slot[k].id]
\* The slot is the same socket's, in another state or free
Changed(k) ==
    /\ SlotOK(k)' /\ slot'[k].id = slot[k].id
    /\ slot[k].type \notin {"INVALID", "RESERVE"} /\ slot'[k].type # "RESERVE"
    /\ slot'[k].type \in Paused => slot[k].type \in Paused
Kept ==
    /\ SlotShape'
    /\ \A i \in Ids : seen'[i] # "broken" /\ (seen[i] # "unborn" => seen'[i] # "unborn")
    /\ \A k \in Slots : Alike(k) \/ Changed(k)

\* A slot that is not touched, of a socket of which nothing is told, is alike.
LEMMA UntouchedAlike ==
    ASSUME NEW k \in Slots, SlotOK(k), slot'[k] = slot[k],
           slot[k].type # "INVALID" => seen'[slot[k].id] = seen[slot[k].id]
    PROVE  Alike(k)
BY DEF Alike, SlotOK

\* Two slots are not of one socket.
LEMMA OneSlotEach ==
    ASSUME SlotsOK, NEW k \in Slots, NEW j \in Slots, j # k,
           slot[k].type # "INVALID", slot[j].type # "INVALID"
    PROVE  slot[j].id # slot[k].id
BY DEF SlotsOK, SlotOK

\* The socket thread changes one slot in use, and tells something of its socket.
LEMMA OneSlotChanges ==
    ASSUME SlotShape, SlotsOK, ToldInOrder,
           NEW k \in Slots, slot[k].type \notin {"INVALID", "RESERVE"},
           NEW s, DOMAIN s = Fields, s.id = slot[k].id, s.type # "RESERVE",
           s.type \in Paused => slot[k].type \in Paused,
           s.type \in Paused \cup {"INVALID"} => s.high = <<>> /\ s.low = <<>>,
           s.type \in Paused => ~s.reading /\ s.dw = <<>>,
           NEW state, state \notin {"unborn", "broken"},
           s.type # "INVALID" => state \in KnownAs(s.type),
           slot' = [slot EXCEPT ![k] = s],
           seen' = [seen EXCEPT ![slot[k].id] = state]
    PROVE  Kept
<1>1. slot[k].id \in Ids /\ HASH_ID(slot[k].id) = k
  BY DEF SlotsOK, SlotOK
<1>2. SlotShape'
  BY DEF SlotShape
<1>3. slot'[k] = s /\ seen'[slot[k].id] = state
  BY <1>1 DEF SlotShape
<1>4. \A i \in Ids : seen'[i] # "broken" /\ (seen[i] # "unborn" => seen'[i] # "unborn")
  BY <1>1 DEF SlotShape, ToldInOrder
<1>5. Changed(k)
  BY <1>1, <1>3 DEF Changed, SlotOK
<1>6. ASSUME NEW j \in Slots, j # k PROVE Alike(j)
  <2>1. slot'[j] = slot[j]  BY <1>6 DEF SlotShape
  <2>2. ASSUME slot[j].type # "INVALID" PROVE seen'[slot[j].id] = seen[slot[j].id]
    <3>1. slot[j].id # slot[k].id  BY <1>6, <2>2, OneSlotEach
    <3> QED  BY <3>1 DEF SlotShape
  <2> QED  BY <2>1, <2>2, UntouchedAlike DEF SlotsOK
<1> QED  BY <1>2, <1>4, <1>5, <1>6 DEF Kept

\* What follows for the slots, the requests and the events.
LEMMA KeptAll ==
    ASSUME SlotShape, SlotsOK, Kept
    PROVE  /\ SlotShape' /\ SlotsOK' /\ ToldInOrder'
           /\ \A r : RequestOK(r) => RequestOK(r)'
           /\ \A e \in Events : EventOK(e) => EventOK(e)'
           /\ \A k \in Slots : slot'[k].type = "RESERVE" =>
                  slot[k].type = "RESERVE" /\ slot'[k].id = slot[k].id
<1>1. SlotShape' /\ SlotsOK'
  BY DEF Kept, Alike, Changed, SlotsOK
<1>2. ToldInOrder'
  BY <1>1 DEF Kept, ToldInOrder, SlotShape
<1>3. ASSUME NEW r, RequestOK(r) PROVE RequestOK(r)'
  <2>1. r.id \in Ids /\ seen'[r.id] # "unborn"  BY <1>3 DEF RequestOK, Kept
  <2>2. CASE r.op \in Opening
    <3>1. HASH_ID(r.id) \in Slots  BY <2>1, HashInSlots
    <3>2. slot[HASH_ID(r.id)].type = "RESERVE" /\ slot[HASH_ID(r.id)].id = r.id
      BY <1>3, <2>2 DEF RequestOK
    <3>3. Alike(HASH_ID(r.id))  BY <3>1, <3>2 DEF Kept, Changed
    <3> QED  BY <1>3, <2>1, <2>2, <3>2, <3>3 DEF RequestOK, Alike
  <2>3. CASE r.op \notin Opening  BY <2>1, <2>3 DEF RequestOK
  <2> QED  BY <2>2, <2>3
<1>4. ASSUME NEW e \in Events, EventOK(e) PROVE EventOK(e)'
  <2>1. CASE e.k = -1  BY <2>1 DEF EventOK
  <2>2. CASE e.k # -1
    <3>1. e.k \in Slots  BY <2>2 DEF Events
    <3> QED  BY <1>4, <2>2, <3>1 DEF EventOK, Kept, Alike, Changed
  <2> QED  BY <2>1, <2>2
<1>5. \A k \in Slots : slot'[k].type = "RESERVE" =>
          slot[k].type = "RESERVE" /\ slot'[k].id = slot[k].id
  BY DEF Kept, Alike, Changed
<1> QED  BY <1>1, <1>2, <1>3, <1>4, <1>5

-----------------------------------------------------------------------------
(* What a step does to the requests and the events *)

\* The requests stay as they are while the sockets of those to open stay reserved.
Reserves ==
    /\ \A r : RequestOK(r) => RequestOK(r)'
    /\ \A k \in Slots : slot'[k].type = "RESERVE" =>
           slot[k].type = "RESERVE" /\ slot'[k].id = slot[k].id
\* Of the slots the batch points to, none becomes reserved or paused.
EventsStay ==
    \A e \in Events : EventOK(e) /\ (\E n \in 1 .. Len(poll.batch) : poll.batch[n].k = e.k)
        => EventOK(e)'

\* What is known of the requests holds on while the pipe is left alone and no slot becomes
\* reserved.
LEMMA PipeUnchanged ==
    ASSUME PipeShape, PipeOK, Reserves, pipe' = pipe
    PROVE  PipeShape' /\ PipeOK'
<1>1. PipeShape' /\ OpenedFirst' /\ \A k \in Slots : WillOpen(k)'
  BY DEF PipeShape, PipeOK, Reserves, OpenedFirst, WillOpen
<1>2. ASSUME NEW n \in 1 .. Len(pipe') PROVE RequestOK(pipe[n])'
  <2>1. PICK r : r = pipe[n]  OBVIOUS
  <2>2. RequestOK(r)'  BY <2>1 DEF PipeOK, Reserves
  <2> QED  BY <2>1, <2>2 DEF RequestOK
<1> QED  BY <1>1, <1>2 DEF PipeOK

\* The same when a request that opens nothing is taken from the pipe.
LEMMA RequestTaken ==
    ASSUME PipeShape, PipeOK, Reserves, pipe # <<>>, Head(pipe).op \notin Opening,
           pipe' = Tail(pipe)
    PROVE  PipeShape' /\ PipeOK'
<1>1. PICK Elems : pipe \in Seq(Elems)  BY DEF PipeShape
<1>2. /\ pipe' \in Seq(Elems) /\ Len(pipe') = Len(pipe) - 1 /\ Len(pipe) \in Nat /\ Len(pipe) > 0
      /\ \A n \in 1 .. Len(pipe) - 1 : pipe'[n] = pipe[n + 1]
      /\ Head(pipe) = pipe[1]
  BY <1>1, Taking
<1>3. ASSUME NEW n \in 1 .. Len(pipe') PROVE RequestOK(pipe[n])'
  <2>1. n + 1 \in 1 .. Len(pipe) /\ pipe'[n] = pipe[n + 1]  BY <1>2
  <2>2. PICK r : r = pipe[n + 1]  OBVIOUS
  <2>3. RequestOK(r)'  BY <2>1, <2>2 DEF PipeOK, Reserves
  <2>4. pipe'[n] = r  BY <2>1, <2>2
  <2> QED  BY <2>3, <2>4 DEF RequestOK
<1>4. OpenedFirst'
  <2> SUFFICES ASSUME NEW n \in 1 .. Len(pipe'), pipe'[n].op \in Opening, NEW m \in 1 .. n - 1
               PROVE  pipe'[m].id # pipe'[n].id
    BY DEF OpenedFirst
  <2>1. n + 1 \in 1 .. Len(pipe) /\ pipe'[n] = pipe[n + 1]  BY <1>2
  <2>2. m + 1 \in 1 .. (n + 1) - 1 /\ pipe'[m] = pipe[m + 1]  BY <1>2
  <2> QED  BY <2>1, <2>2 DEF PipeOK, OpenedFirst
<1>5. ASSUME NEW k \in Slots, slot'[k].type = "RESERVE" PROVE WillOpen(k)'
  <2>1. slot[k].type = "RESERVE" /\ slot'[k].id = slot[k].id  BY <1>5 DEF Reserves
  <2>2. PICK n \in 1 .. Len(pipe) : pipe[n].op \in Opening /\ pipe[n].id = slot[k].id
    BY <2>1 DEF PipeOK, WillOpen
  <2>3. n # 1  BY <1>2, <2>2
  <2>4. n - 1 \in 1 .. Len(pipe')  BY <1>2, <2>3
  <2>5. pipe'[n - 1] = pipe[n]  BY <1>2, <2>4
  <2> QED  BY <2>1, <2>2, <2>4, <2>5 DEF WillOpen
<1>6. ASSUME NEW k \in Slots PROVE WillOpen(k)'
  BY <1>5 DEF WillOpen
<1> QED  BY <1>2, <1>3, <1>4, <1>6 DEF PipeShape, PipeOK

\* The same when a request that opens nothing is put in the pipe.
LEMMA RequestAdded ==
    ASSUME PipeShape, PipeOK, Reserves, NEW r, r.op \notin Opening, RequestOK(r)',
           pipe' = Append(pipe, r)
    PROVE  PipeShape' /\ PipeOK'
<1>1. PICK Elems : pipe \in Seq(Elems)  BY DEF PipeShape
<1>2. /\ pipe' \in Seq(Elems \cup {r}) /\ Len(pipe') = Len(pipe) + 1 /\ Len(pipe) \in Nat
      /\ \A n \in 1 .. Len(pipe) : pipe'[n] = pipe[n]
      /\ pipe'[Len(pipe) + 1] = r
  BY <1>1, Appending
<1>3. \A n \in 1 .. Len(pipe') : n \in 1 .. Len(pipe) \/ pipe'[n] = r  BY <1>2
<1>4. ASSUME NEW n \in 1 .. Len(pipe') PROVE RequestOK(pipe[n])'
  <2>1. CASE n \in 1 .. Len(pipe)
    <3>1. pipe'[n] = pipe[n]  BY <1>2, <2>1
    <3>2. PICK q : q = pipe[n]  OBVIOUS
    <3>3. RequestOK(q)'  BY <2>1, <3>2 DEF PipeOK, Reserves
    <3> QED  BY <3>1, <3>2, <3>3 DEF RequestOK
  <2>2. CASE pipe'[n] = r  BY <2>2 DEF RequestOK
  <2> QED  BY <1>3, <2>1, <2>2
<1>5. OpenedFirst'
  <2> SUFFICES ASSUME NEW n \in 1 .. Len(pipe'), pipe'[n].op \in Opening, NEW m \in 1 .. n - 1
               PROVE  pipe'[m].id # pipe'[n].id
    BY DEF OpenedFirst
  <2>1. n \in 1 .. Len(pipe)  BY <1>3
  <2>2. m \in 1 .. Len(pipe)  BY <1>2, <2>1
  <2> QED  BY <1>2, <2>1, <2>2 DEF PipeOK, OpenedFirst
<1>6. ASSUME NEW k \in Slots, slot'[k].type = "RESERVE" PROVE WillOpen(k)'
  <2>1. slot[k].type = "RESERVE" /\ slot'[k].id = slot[k].id  BY <1>6 DEF Reserves
  <2>2. PICK n \in 1 .. Len(pipe) : pipe[n].op \in Opening /\ pipe[n].id = slot[k].id
    BY <2>1 DEF PipeOK, WillOpen
  <2>3. n \in 1 .. Len(pipe') /\ pipe'[n] = pipe[n]  BY <1>2
  <2> QED  BY <2>1, <2>2, <2>3 DEF WillOpen
<1>7. ASSUME NEW k \in Slots PROVE WillOpen(k)'
  BY <1>6 DEF WillOpen
<1> QED  BY <1>2, <1>4, <1>5, <1>7 DEF PipeShape, PipeOK

\* What is known of the events of the batch holds on while the batch is left alone.
LEMMA BatchUnchanged ==
    ASSUME PollShape, BatchOK, EventsStay, poll'.batch = poll.batch
    PROVE  BatchOK'
<1>1. poll.batch \in Seq(Events)  BY DEF PollShape
<1>2. ASSUME NEW n \in 1 .. Len(poll.batch) PROVE EventOK(poll.batch[n])'
  <2>1. PICK e : e = poll.batch[n]  OBVIOUS
  <2>2. e \in Events  BY <1>1, <2>1
  <2>3. EventOK(e)'  BY <2>1, <2>2 DEF BatchOK, EventsStay
  <2> QED  BY <2>1, <2>3 DEF EventOK
<1> QED  BY <1>2 DEF BatchOK

\* The same when its first event was handled.
LEMMA BatchAdvanced ==
    ASSUME PollShape, BatchOK, EventsStay, poll.batch # <<>>, poll'.batch = Tail(poll.batch)
    PROVE  BatchOK' /\ poll'.batch \in Seq(Events)
<1>1. poll.batch \in Seq(Events)  BY DEF PollShape
<1>2. /\ poll'.batch \in Seq(Events) /\ Len(poll'.batch) = Len(poll.batch) - 1
      /\ \A n \in 1 .. Len(poll.batch) - 1 : poll'.batch[n] = poll.batch[n + 1]
      /\ Len(poll.batch) \in Nat
  BY <1>1, Taking
<1>3. ASSUME NEW n \in 1 .. Len(poll'.batch) PROVE EventOK(poll.batch[n])'
  <2>1. PICK e : e = poll.batch[n + 1]  OBVIOUS
  <2>2. n + 1 \in 1 .. Len(poll.batch)  BY <1>2
  <2>3. e \in Events  BY <1>1, <2>1, <2>2
  <2>4. EventOK(e)'  BY <2>1, <2>2, <2>3 DEF BatchOK, EventsStay
  <2>5. poll'.batch[n] = e  BY <1>2, <2>1
  <2> QED  BY <2>4, <2>5 DEF EventOK
<1> QED  BY <1>2, <1>3 DEF BatchOK

\* The same when the first event is to be handled once more, with what is left of it.
LEMMA BatchAgain ==
    ASSUME PollShape, BatchOK, EventsStay, poll.batch # <<>>,
           NEW e \in Events, EventOK(e), e.k = Head(poll.batch).k, poll'.batch = <<e>> \o Tail(poll.batch)
    PROVE  BatchOK' /\ poll'.batch \in Seq(Events)
<1>1. poll.batch \in Seq(Events)  BY DEF PollShape
<1> DEFINE rest == Tail(poll.batch)
<1>2. /\ rest \in Seq(Events) /\ Len(rest) = Len(poll.batch) - 1
      /\ \A n \in 1 .. Len(poll.batch) - 1 : rest[n] = poll.batch[n + 1]
      /\ Len(poll.batch) \in Nat
  BY <1>1, Taking
<1>3. /\ poll'.batch \in Seq(Events) /\ Len(poll'.batch) = Len(rest) + 1
      /\ poll'.batch[1] = e
      /\ \A n \in 1 .. Len(rest) : poll'.batch[n + 1] = rest[n]
  BY <1>2, Pushing
<1>4. 1 \in 1 .. Len(poll.batch) /\ poll.batch[1].k = e.k  BY <1>1, Taking
<1>5. ASSUME NEW n \in 1 .. Len(poll'.batch) PROVE EventOK(poll.batch[n])'
  <2>1. CASE n = 1
    <3>1. EventOK(e)'  BY <1>4 DEF EventsStay
    <3> QED  BY <1>3, <2>1, <3>1 DEF EventOK
  <2>2. CASE n # 1
    <3>1. n \in 1 .. Len(poll.batch) /\ n - 1 \in 1 .. Len(rest)  BY <1>2, <1>3, <2>2
    <3>2. poll'.batch[n] = poll.batch[n]  BY <1>2, <1>3, <3>1
    <3>3. PICK old : old = poll.batch[n]  OBVIOUS
    <3>4. old \in Events  BY <1>1, <3>1, <3>3
    <3>5. EventOK(old)'  BY <3>1, <3>3, <3>4 DEF BatchOK, EventsStay
    <3> QED  BY <3>2, <3>3, <3>5 DEF EventOK
  <2> QED  BY <2>1, <2>2
<1> QED  BY <1>3, <1>5 DEF BatchOK

\* The same when the events of a closed socket are taken out.
LEMMA BatchCleared ==
    ASSUME PollShape, BatchOK, EventsStay, NEW id, poll'.batch = WithoutClosed(poll.batch, id)
    PROVE  BatchOK' /\ poll'.batch \in Seq(Events)
<1>1. poll.batch \in Seq(Events)  BY DEF PollShape
<1>2. Cleared \in Events  BY DEF Cleared, Events
<1>3. /\ DOMAIN poll'.batch = 1 .. Len(poll.batch) /\ Len(poll.batch) \in Nat
      /\ poll'.batch = [n \in 1 .. Len(poll.batch) |-> poll'.batch[n]]
      /\ \A n \in 1 .. Len(poll.batch) :
            poll'.batch[n] = poll.batch[n] \/ poll'.batch[n] = Cleared
  BY <1>1 DEF WithoutClosed
<1>4. poll'.batch \in Seq(Events) /\ Len(poll'.batch) = Len(poll.batch)
  BY <1>1, <1>2, <1>3
<1>5. ASSUME NEW n \in 1 .. Len(poll'.batch) PROVE EventOK(poll.batch[n])'
  <2>1. CASE poll'.batch[n] = Cleared  BY <2>1 DEF EventOK, Cleared
  <2>2. CASE poll'.batch[n] = poll.batch[n]
    <3>1. PICK e : e = poll.batch[n]  OBVIOUS
    <3>2. e \in Events  BY <1>1, <1>4, <3>1
    <3>3. EventOK(e)'  BY <1>4, <3>1, <3>2 DEF BatchOK, EventsStay
    <3> QED  BY <2>2, <3>1, <3>3 DEF EventOK
  <2> QED  BY <1>3, <1>4, <2>1, <2>2
<1> QED  BY <1>4, <1>5 DEF BatchOK

-----------------------------------------------------------------------------
(* The whole of a step *)

\* A step that keeps the slots makes none reserved and turns no event against its slot.
LEMMA KeptReserves ==
    ASSUME SlotShape, SlotsOK, Kept
    PROVE  Reserves /\ EventsStay
BY KeptAll DEF Reserves, EventsStay

\* of the socket thread
LEMMA ThreadKeeps ==
    ASSUME LifeInv, Kept, PipeShape', PipeOK', PollShape', BatchOK', ForcingOK', UNCHANGED sender
    PROVE  LifeInv'
<1>1. SlotShape' /\ SlotsOK' /\ ToldInOrder'  BY KeptAll DEF LifeInv
<1>2. SendersOK'  BY DEF LifeInv, SendersOK, SenderOK, Kept
<1> QED  BY <1>1, <1>2 DEF LifeInv

\* An event that keeps the slots keeps LifeInv, if it does so of the batch.
LEMMA EventKeeps ==
    ASSUME LifeInv, Kept, UNCHANGED <<pipe, sender>>, PollShape', BatchOK', ForcingOK'
    PROVE  LifeInv'
<1>1. PipeShape' /\ PipeOK'  BY PipeUnchanged, KeptReserves DEF LifeInv
<1> QED  BY <1>1, ThreadKeeps

\* A request that keeps the slots keeps LifeInv, if it does so of the batch.
LEMMA CommandKeeps ==
    ASSUME LifeInv, Kept, pipe # <<>>, Head(pipe).op \notin Opening, pipe' = Tail(pipe),
           UNCHANGED sender, PollShape', BatchOK', ForcingOK'
    PROVE  LifeInv'
<1>1. PipeShape' /\ PipeOK'  BY RequestTaken, KeptReserves DEF LifeInv
<1> QED  BY <1>1, ThreadKeeps

\* of anybody else
LEMMA BystanderKeeps ==
    ASSUME LifeInv, SlotShape', \A k \in Slots : Alike(k), UNCHANGED <<poll, seen>>,
           PipeShape', PipeOK', SendersOK'
    PROVE  LifeInv'
<1>1. Kept  BY DEF Kept, LifeInv, ToldInOrder, SlotShape
<1>2. SlotShape' /\ SlotsOK' /\ ToldInOrder'  BY <1>1, KeptAll DEF LifeInv
<1>3. BatchOK'  BY <1>1, BatchUnchanged, KeptReserves DEF LifeInv
<1>4. PollShape'  BY DEF LifeInv, PollShape
<1>5. ForcingOK'
  <2>1. CASE poll.forcing = NotForcing  BY <2>1 DEF ForcingOK
  <2>2. CASE poll.forcing # NotForcing
    <3>1. poll.forcing.k \in Slots  BY <2>2 DEF LifeInv, PollShape, Forcings
    <3> QED  BY <2>2, <3>1 DEF LifeInv, ForcingOK, Alike
  <2> QED  BY <2>1, <2>2
<1> QED  BY <1>2, <1>3, <1>4, <1>5 DEF LifeInv

-----------------------------------------------------------------------------
(* The first state, and the steps of services, senders and peers *)

\* At first every slot is free and nothing is in the pipe.
LEMMA FirstState == Init => LifeInv
<1> SUFFICES ASSUME Init PROVE LifeInv  OBVIOUS
<1>1. SlotShape  BY DEF Init, Socket!Init, SlotShape, FreeSlot, Fields
<1>2. PollShape  BY DEF Init, PollShape
<1>3. PipeShape
  <2>1. pipe \in Seq({})  BY DEF Init
  <2> QED  BY <2>1 DEF PipeShape
<1>4. ToldInOrder  BY DEF Init, Socket!Init, ToldInOrder
<1>5. SlotsOK  BY DEF Init, SlotsOK, SlotOK, FreeSlot, Paused
<1>6. PipeOK  BY DEF Init, PipeOK, OpenedFirst, WillOpen, FreeSlot
<1>7. BatchOK /\ ForcingOK  BY DEF Init, BatchOK, ForcingOK
<1>8. SendersOK  BY DEF Init, SendersOK, SenderOK
<1> QED  BY <1>1, <1>2, <1>3, <1>4, <1>5, <1>6, <1>7, <1>8 DEF LifeInv

\* It may make a request that does not open a socket.
LEMMA AskerKeeps ==
    ASSUME LifeInv, SlotShape', \A k \in Slots : Alike(k), UNCHANGED <<poll, seen>>, SendersOK',
           \/ pipe' = pipe
           \/ \E r : r.op \notin Opening /\ RequestOK(r) /\ pipe' = Append(pipe, r)
    PROVE  LifeInv'
<1>1. Kept  BY DEF Kept, LifeInv, ToldInOrder, SlotShape
<1>2. Reserves  BY <1>1, KeptReserves DEF LifeInv
<1>3. CASE pipe' = pipe  BY <1>2, <1>3, PipeUnchanged, BystanderKeeps DEF LifeInv
<1>4. ASSUME NEW r, r.op \notin Opening, RequestOK(r), pipe' = Append(pipe, r) PROVE LifeInv'
  <2>1. RequestOK(r)'  BY <1>2, <1>4 DEF Reserves
  <2>2. PipeShape' /\ PipeOK'  BY <1>2, <1>4, <2>1, RequestAdded DEF LifeInv
  <2> QED  BY <2>2, BystanderKeeps
<1> QED  BY <1>3, <1>4

\* Where no slot was changed, all are as they were.
LEMMA NoSlotTouched ==
    ASSUME LifeInv, UNCHANGED <<slot, seen>>
    PROVE  SlotShape' /\ \A k \in Slots : Alike(k)
<1>1. SlotShape'  BY DEF LifeInv, SlotShape
<1> QED  BY <1>1, UntouchedAlike DEF LifeInv, SlotsOK

\* Where no sender moved and nothing was told, the senders are as they were.
LEMMA SendersUnchanged ==
    ASSUME LifeInv, UNCHANGED <<sender, seen>>
    PROVE  SendersOK'
BY DEF LifeInv, SendersOK, SenderOK

\* A sender goes on, or is done.
LEMMA SenderMoves ==
    ASSUME LifeInv, NEW t \in Senders, sender[t] # Idle, UNCHANGED seen,
           (\E pc : GoTo(t, pc)) \/ sender' = [sender EXCEPT ![t] = Idle]
    PROVE  SendersOK'
<1>1. sender' = [u \in Senders |-> sender'[u]]  BY DEF LifeInv, SendersOK, GoTo
<1>2. ASSUME NEW u \in Senders, u # t PROVE SenderOK(u)'
  <2>1. sender'[u] = sender[u]  BY <1>2 DEF LifeInv, SendersOK, GoTo
  <2> QED  BY <2>1 DEF LifeInv, SendersOK, SenderOK
<1>3. SenderOK(t)'
  <2>1. DOMAIN sender[t] = {"pc", "msg"} /\ sender[t].msg.to \in Ids
        /\ seen[sender[t].msg.to] # "unborn"
    BY DEF LifeInv, SendersOK, SenderOK
  <2>2. CASE sender' = [sender EXCEPT ![t] = Idle]
    BY <2>2 DEF LifeInv, SendersOK, SenderOK
  <2>3. ASSUME NEW pc, GoTo(t, pc) PROVE SenderOK(t)'
    <3>1. sender'[t] = [sender[t] EXCEPT !.pc = pc]  BY <2>3 DEF GoTo, LifeInv, SendersOK
    <3>2. DOMAIN sender'[t] = {"pc", "msg"} /\ sender'[t].msg = sender[t].msg  BY <2>1, <3>1
    <3> QED  BY <2>1, <3>2 DEF SenderOK
  <2> QED  BY <2>2, <2>3
<1> QED  BY <1>1, <1>2, <1>3 DEF SendersOK

\* A socket that is in use is known, so it is not one that is not born.
LEMMA UsedIsKnown ==
    ASSUME SlotsOK, NEW k \in Slots, slot[k].type # "INVALID"
    PROVE  slot[k].id \in Ids /\ seen[slot[k].id] # "unborn"
BY DEF SlotsOK, SlotOK, KnownAs

\* A free slot is given to a new socket, reserved or for a client.
LEMMA SlotGiven ==
    ASSUME LifeInv, NEW id \in FreeIds, seen[id] = "unborn",
           NEW s, DOMAIN s = Fields, s.id = id, s.type \in {"RESERVE", "PACCEPT"},
           s.high = <<>>, s.low = <<>>, s.type \in Paused => ~s.reading /\ s.dw = <<>>,
           NEW state \in KnownAs(s.type),
           slot' = [slot EXCEPT ![HASH_ID(id)] = s],
           seen' = [seen EXCEPT ![id] = state],
           UNCHANGED sender
    PROVE  /\ SlotShape' /\ ToldInOrder' /\ SlotsOK' /\ SendersOK' /\ EventsStay
           /\ \A q : RequestOK(q) => RequestOK(q)' /\ q.id # id
           /\ slot'[HASH_ID(id)] = s /\ slot[HASH_ID(id)].type = "INVALID" /\ seen'[id] = state
           /\ \A j \in Slots : j # HASH_ID(id) => slot'[j] = slot[j]
           /\ \A j \in Slots : j # HASH_ID(id) /\ slot[j].type # "INVALID" =>
                  seen'[slot[j].id] = seen[slot[j].id]
<1> DEFINE k == HASH_ID(id)
<1>1. /\ id \in Ids /\ k \in Slots /\ slot[k].type = "INVALID"
      /\ \A n \in DOMAIN poll.batch : poll.batch[n].k # k
  BY HashInSlots DEF FreeIds
<1>2. slot'[k] = s
  BY <1>1 DEF LifeInv, SlotShape
<1>3. \A j \in Slots : j # k => slot'[j] = slot[j]
  BY DEF LifeInv, SlotShape
<1>4. state \notin {"unborn", "broken"}
  BY DEF KnownAs
<1>5. seen'[id] = state /\ \A i \in Ids : i # id => seen'[i] = seen[i]
  BY <1>1 DEF LifeInv, SlotShape
<1>6. SlotShape'
  BY <1>1, <1>2, <1>3 DEF LifeInv, SlotShape
<1>7. ToldInOrder'
  BY <1>4, <1>5, <1>6 DEF LifeInv, ToldInOrder, SlotShape
<1>8. ASSUME NEW j \in Slots, j # k, slot[j].type # "INVALID" PROVE seen'[slot[j].id] = seen[slot[j].id]
  <2>1. slot[j].id \in Ids /\ seen[slot[j].id] # "unborn"  BY <1>8, UsedIsKnown DEF LifeInv
  <2> QED  BY <1>5, <2>1
<1>9. SlotsOK'
  <2>1. SlotOK(k)'
    BY <1>1, <1>2, <1>5 DEF SlotOK
  <2>2. ASSUME NEW j \in Slots, j # k PROVE SlotOK(j)'
    BY <1>3, <1>8, <2>2, UntouchedAlike DEF Alike, LifeInv, SlotsOK
  <2> QED  BY <2>1, <2>2 DEF SlotsOK
<1>10. ASSUME NEW q, RequestOK(q) PROVE RequestOK(q)' /\ q.id # id
  <2>1. q.id \in Ids /\ q.id # id /\ seen'[q.id] # "unborn"  BY <1>5, <1>10 DEF RequestOK
  <2>2. CASE q.op \in Opening
    <3>1. HASH_ID(q.id) \in Slots /\ HASH_ID(q.id) # k  BY <1>1, <1>10, <2>1, <2>2, HashInSlots DEF RequestOK
    <3> QED  BY <1>3, <1>5, <1>10, <2>1, <2>2, <3>1 DEF RequestOK
  <2>3. CASE q.op \notin Opening  BY <2>1, <2>3 DEF RequestOK
  <2> QED  BY <2>1, <2>2, <2>3
<1>11. EventsStay
  <2> SUFFICES ASSUME NEW e \in Events, EventOK(e),
                      NEW n \in 1 .. Len(poll.batch), poll.batch[n].k = e.k
               PROVE  EventOK(e)'
    BY DEF EventsStay
  <2>1. poll.batch \in Seq(Events)  BY DEF LifeInv, PollShape
  <2>2. e.k # k  BY <1>1, <2>1
  <2> QED  BY <1>3, <2>2 DEF EventOK, Events
<1>12. SendersOK'
  <2>1. \A i \in Ids : seen[i] # "unborn" => seen'[i] # "unborn"  BY <1>4, <1>5
  <2> QED  BY <2>1 DEF LifeInv, SendersOK, SenderOK
<1> QED  BY <1>1, <1>2, <1>3, <1>5, <1>6, <1>7, <1>8, <1>9, <1>10, <1>11, <1>12

\* reserve_id and the request that follows it
LEMMA ReserveKeeps ==
    ASSUME LifeInv, NEW id \in FreeIds, NEW op \in Opening, seen[id] = "unborn",
           slot' = [slot EXCEPT ![HASH_ID(id)] = Reserved(id)],
           seen' = [seen EXCEPT ![id] = IF op = "O" THEN "connecting" ELSE "listening"],
           pipe' = Append(pipe, [op |-> op, id |-> id]),
           UNCHANGED <<poll, sender>>
    PROVE  LifeInv'
<1> DEFINE k == HASH_ID(id)
           r == [op |-> op, id |-> id]
           s == Reserved(id)
           state == IF op = "O" THEN "connecting" ELSE "listening"
<1>1. id \in Ids /\ k \in Slots /\ slot[k].type = "INVALID"
  BY HashInSlots DEF FreeIds
<1>2. /\ DOMAIN slot[k] = Fields /\ slot[k].high = <<>> /\ slot[k].low = <<>>
  BY <1>1 DEF LifeInv, SlotShape, SlotsOK, SlotOK
<1>3. /\ DOMAIN s = Fields /\ s.type = "RESERVE" /\ s.id = id /\ s.high = <<>> /\ s.low = <<>>
  BY <1>2 DEF Reserved, Fields
<1>4. state \in KnownAs(s.type) /\ s.type \notin Paused
  BY <1>3 DEF KnownAs, Paused
<1>5. /\ slot' = [slot EXCEPT ![HASH_ID(id)] = s] /\ seen' = [seen EXCEPT ![id] = state]
      /\ sender' = sender
  OBVIOUS
<1> HIDE DEF s, state
<1>6. /\ SlotShape' /\ ToldInOrder' /\ SlotsOK' /\ SendersOK' /\ EventsStay
      /\ slot'[k] = s /\ seen'[id] = state
  <2>1. SlotShape' /\ ToldInOrder' /\ SlotsOK'  BY <1>3, <1>4, <1>5, SlotGiven
  <2>2. SendersOK' /\ EventsStay  BY <1>3, <1>4, <1>5, SlotGiven
  <2>3. slot'[k] = s  BY <1>1, <1>5 DEF LifeInv, SlotShape
  <2>4. seen'[id] = state  BY <1>1, <1>5 DEF LifeInv, SlotShape
  <2> QED  BY <2>1, <2>2, <2>3, <2>4
<1>7. \A j \in Slots : j # k => slot'[j] = slot[j]
  BY DEF LifeInv, SlotShape
<1>8. ASSUME NEW j \in Slots, j # k, slot[j].type # "INVALID" PROVE seen'[slot[j].id] = seen[slot[j].id]
  BY <1>3, <1>4, <1>5, <1>8, SlotGiven
<1>9. ASSUME NEW q, RequestOK(q) PROVE RequestOK(q)' /\ q.id # id
  BY ZenonT(60), <1>3, <1>4, <1>5, <1>9, SlotGiven
<1>10. state = (IF op = "O" THEN "connecting" ELSE "listening") /\ state # "unborn"
  BY DEF state
<1>11. RequestOK(r)'
  <2>1. /\ r.id = id /\ r.op = op /\ slot'[k].id = id /\ slot'[k].type = "RESERVE"
        /\ seen'[id] = state
    BY <1>3, <1>6
  <2> QED  BY <1>1, <1>10, <2>1 DEF RequestOK
<1>12. PipeShape' /\ PipeOK'
  <2>1. PICK Elems : pipe \in Seq(Elems)  BY DEF LifeInv, PipeShape
  <2>2. /\ pipe' \in Seq(Elems \cup {r}) /\ Len(pipe') = Len(pipe) + 1 /\ Len(pipe) \in Nat
        /\ \A n \in 1 .. Len(pipe) : pipe'[n] = pipe[n]
        /\ pipe'[Len(pipe) + 1] = r
    BY <2>1, Appending
  <2>3. ASSUME NEW n \in 1 .. Len(pipe') PROVE RequestOK(pipe[n])'
    <3>1. CASE n = Len(pipe) + 1
      <4>1. pipe'[n] = r  BY <2>2, <3>1
      <4> QED  BY <1>11, <4>1 DEF RequestOK
    <3>2. CASE n # Len(pipe) + 1
      <4>1. n \in 1 .. Len(pipe)  BY <2>2, <3>2
      <4>2. PICK q : q = pipe[n]  OBVIOUS
      <4>3. RequestOK(q)'  BY <1>9, <4>1, <4>2 DEF LifeInv, PipeOK
      <4>4. pipe'[n] = q  BY <2>2, <4>1, <4>2
      <4> QED  BY <4>3, <4>4 DEF RequestOK
    <3> QED  BY <3>1, <3>2
  <2>4. OpenedFirst'
    <3> SUFFICES ASSUME NEW n \in 1 .. Len(pipe'), pipe'[n].op \in Opening, NEW m \in 1 .. n - 1
                 PROVE  pipe'[m].id # pipe'[n].id
      BY DEF OpenedFirst
    <3>1. m \in 1 .. Len(pipe) /\ pipe'[m] = pipe[m]  BY <2>2
    <3>2. CASE n = Len(pipe) + 1
      <4>1. RequestOK(pipe[m])  BY <3>1 DEF LifeInv, PipeOK
      <4> QED  BY <1>9, <2>2, <3>1, <3>2, <4>1
    <3>3. CASE n # Len(pipe) + 1
      <4>1. n \in 1 .. Len(pipe) /\ pipe'[n] = pipe[n]  BY <2>2, <3>3
      <4> QED  BY <3>1, <4>1 DEF LifeInv, PipeOK, OpenedFirst
    <3> QED  BY <3>2, <3>3
  <2>5. ASSUME NEW j \in Slots PROVE WillOpen(j)'
    <3>1. CASE j = k
      <4>1. Len(pipe) + 1 \in 1 .. Len(pipe')  BY <2>2
      <4> QED  BY <1>3, <1>6, <2>2, <3>1, <4>1 DEF WillOpen
    <3>2. CASE j # k
      <4>1. \A n \in 1 .. Len(pipe) : n \in 1 .. Len(pipe')  BY <2>2
      <4> QED  BY <1>7, <2>2, <3>2, <4>1 DEF WillOpen, LifeInv, PipeOK
    <3> QED  BY <3>1, <3>2
  <2> QED  BY <2>2, <2>3, <2>4, <2>5 DEF PipeShape, PipeOK
<1>13. BatchOK'  BY <1>6, BatchUnchanged DEF LifeInv
<1>14. PollShape'  BY DEF LifeInv, PollShape
<1>15. ForcingOK'
  <2>1. CASE poll.forcing = NotForcing  BY <2>1 DEF ForcingOK
  <2>2. CASE poll.forcing # NotForcing
    <3>1. poll.forcing.k \in Slots  BY <2>2 DEF LifeInv, PollShape, Forcings
    <3>2. slot[poll.forcing.k].type \notin {"INVALID", "RESERVE"}  BY <2>2 DEF LifeInv, ForcingOK
    <3>3. poll.forcing.k # k  BY <1>1, <3>2
    <3> QED  BY <1>7, <1>8, <2>2, <3>1, <3>2, <3>3 DEF LifeInv, ForcingOK
  <2> QED  BY <2>1, <2>2
<1> QED  BY <1>6, <1>12, <1>13, <1>14, <1>15 DEF LifeInv

\* LifeInv holds on when a service asks to connect.
LEMMA ConnectKeeps ==
    ASSUME LifeInv, NEW id, Connect(id)
    PROVE  LifeInv'
<1>1. id \in FreeIds /\ seen[id] = "unborn"  BY DEF Connect, Reserve, Socket!Announce
<1>2. "O" \in Opening  BY DEF Opening
<1>3. /\ slot' = [slot EXCEPT ![HASH_ID(id)] = Reserved(id)]
      /\ seen' = [seen EXCEPT ![id] = IF "O" = "O" THEN "connecting" ELSE "listening"]
      /\ pipe' = Append(pipe, [op |-> "O", id |-> id])
      /\ UNCHANGED <<poll, sender>>
  BY DEF Connect, Request, Socket!Announce
<1> QED  BY <1>1, <1>2, <1>3, ReserveKeeps

\* LifeInv holds on when a service asks to listen.
LEMMA ListenKeeps ==
    ASSUME LifeInv, NEW id, Listen(id)
    PROVE  LifeInv'
<1>1. id \in FreeIds /\ seen[id] = "unborn"  BY DEF Listen, Reserve, Socket!Announce
<1>2. "L" \in Opening  BY DEF Opening
<1>3. /\ slot' = [slot EXCEPT ![HASH_ID(id)] = Reserved(id)]
      /\ seen' = [seen EXCEPT ![id] = IF "L" = "O" THEN "connecting" ELSE "listening"]
      /\ pipe' = Append(pipe, [op |-> "L", id |-> id])
      /\ UNCHANGED <<poll, sender>>
  BY DEF Listen, Request, Socket!Announce
<1> QED  BY <1>1, <1>2, <1>3, ReserveKeeps

\* LifeInv holds on when a service asks for something of a socket.
LEMMA AskKeeps ==
    ASSUME LifeInv, NEW id \in Ids, NEW op, Ask(op, id)
    PROVE  LifeInv'
<1> DEFINE r == [op |-> op, id |-> id]
<1>1. r.op \notin Opening /\ RequestOK(r) /\ pipe' = Append(pipe, r)
  BY DEF Ask, Request, RequestOK, Opening
<1>2. UNCHANGED <<slot, seen, poll, sender>>  BY DEF Ask
<1> QED  BY <1>1, <1>2, NoSlotTouched, SendersUnchanged, AskerKeeps

\* LifeInv holds on when a service begins to send.
LEMMA SendEnterKeeps ==
    ASSUME LifeInv, NEW t \in Senders, NEW id \in Ids, NEW low \in BOOLEAN, SendEnter(t, id, low)
    PROVE  LifeInv'
<1>1. UNCHANGED <<slot, seen, poll, pipe>>  BY DEF SendEnter
<1>2. SendersOK'
  <2> DEFINE msg == [from |-> t, left |-> left.sends[t], low |-> low, to |-> id]
  <2>1. seen[id] # "unborn"  BY DEF SendEnter
  <2>2. sender' = [sender EXCEPT ![t] = Idle]
        \/ \E pc : sender' = [sender EXCEPT ![t] = [pc |-> pc, msg |-> msg]]
    BY DEF SendEnter
  <2>3. sender' = [u \in Senders |-> sender'[u]]  BY <2>2 DEF LifeInv, SendersOK
  <2>4. ASSUME NEW u \in Senders, u # t PROVE SenderOK(u)'
    <3>1. sender'[u] = sender[u]  BY <2>2, <2>4 DEF LifeInv, SendersOK
    <3> QED  BY <1>1, <3>1 DEF LifeInv, SendersOK, SenderOK
  <2>5. SenderOK(t)'
    <3>1. CASE sender' = [sender EXCEPT ![t] = Idle]
      BY <3>1 DEF LifeInv, SendersOK, SenderOK
    <3>2. ASSUME NEW pc, sender' = [sender EXCEPT ![t] = [pc |-> pc, msg |-> msg]]
          PROVE  SenderOK(t)'
      <4>1. sender'[t] = [pc |-> pc, msg |-> msg]  BY <3>2 DEF LifeInv, SendersOK
      <4>2. DOMAIN sender'[t] = {"pc", "msg"} /\ sender'[t].msg.to = id  BY <4>1
      <4> QED  BY <1>1, <2>1, <4>2 DEF SenderOK
    <3> QED  BY <2>2, <3>1, <3>2
  <2> QED  BY <2>3, <2>4, <2>5 DEF SendersOK
<1> QED  BY <1>1, <1>2, NoSlotTouched, AskerKeeps

\* Only what is about writing is changed in a slot.
LEMMA WriteAlike ==
    ASSUME LifeInv, NEW k, NEW s, UNCHANGED seen, slot' = [slot EXCEPT ![k] = s],
           k \in Slots => /\ DOMAIN s = Fields /\ s.type = slot[k].type /\ s.id = slot[k].id
                          /\ s.type \in Paused \cup {"INVALID", "RESERVE"} =>
                                 s.high = slot[k].high /\ s.low = slot[k].low
                          /\ s.type \in Paused => (s.reading => slot[k].reading) /\ s.dw = slot[k].dw
    PROVE  SlotShape' /\ \A j \in Slots : Alike(j)
<1>1. SlotShape'  BY DEF LifeInv, SlotShape
<1>2. ASSUME NEW j \in Slots, j # k PROVE Alike(j)
  <2>1. slot'[j] = slot[j]  BY <1>2 DEF LifeInv, SlotShape
  <2> QED  BY <2>1, UntouchedAlike DEF LifeInv, SlotsOK
<1>3. ASSUME k \in Slots PROVE Alike(k)
  <2>1. slot'[k] = s  BY <1>3 DEF LifeInv, SlotShape
  <2> QED  BY <1>3, <2>1 DEF Alike, SlotOK, LifeInv, SlotsOK
<1> QED  BY <1>1, <1>2, <1>3

\* LifeInv holds on when a sender takes its next step.
LEMMA SenderStepKeeps ==
    ASSUME LifeInv, NEW t \in Senders, SenderStep(t)
    PROVE  LifeInv'
<1>1. UNCHANGED <<poll, seen>>
  BY DEF SenderStep, FirstLook, TryLock, LookAgain, WriteInstead, DirectWrite, Trigger,
         CountRequest, PushRequest
<1>2. sender[t] # Idle
  <2>1. \/ At(t, "try") \/ At(t, "lock") \/ At(t, "look") \/ At(t, "write")
        \/ At(t, "trigger") \/ At(t, "count") \/ At(t, "push")
    BY DEF SenderStep, FirstLook, TryLock, LookAgain, WriteInstead, DirectWrite, Trigger,
           CountRequest, PushRequest
  <2> QED  BY <2>1 DEF At, Idle
<1>3. (\E pc : GoTo(t, pc)) \/ sender' = [sender EXCEPT ![t] = Idle]
  BY DEF SenderStep, FirstLook, TryLock, LookAgain, WriteInstead, DirectWrite, Trigger,
         CountRequest, PushRequest
<1>4. SendersOK'  BY <1>1, <1>2, <1>3, SenderMoves
<1>5. sender[t].msg.to \in Ids /\ seen[sender[t].msg.to] # "unborn"
  BY <1>2 DEF LifeInv, SendersOK, SenderOK
<1>6. K(t) \in Slots  BY <1>5, HashInSlots DEF K
<1>7. CASE FirstLook(t) \/ TryLock(t) \/ LookAgain(t) \/ WriteInstead(t)
  <2>1. UNCHANGED <<slot, pipe>>  BY <1>7 DEF FirstLook, TryLock, LookAgain, WriteInstead
  <2> QED  BY <1>1, <1>4, <2>1, NoSlotTouched, AskerKeeps
<1>8. CASE DirectWrite(t)
  <2>1. pipe' = pipe /\ slot[K(t)].type = "CONNECTED"  BY <1>8 DEF DirectWrite, NotSending, S, K
  <2>2. SlotShape' /\ \A k \in Slots : Alike(k)
    <3>1. CASE slot' = slot  BY <1>1, <3>1, NoSlotTouched
    <3>2. ASSUME NEW dw, slot' = [slot EXCEPT ![K(t)].dw = dw]
          PROVE  SlotShape' /\ \A k \in Slots : Alike(k)
      <4> DEFINE s == [slot[K(t)] EXCEPT !.dw = dw]
      <4>1. slot' = [slot EXCEPT ![K(t)] = s]  BY <3>2
      <4>2. /\ DOMAIN s = Fields /\ s.type = slot[K(t)].type /\ s.id = slot[K(t)].id
            /\ s.type \notin Paused \cup {"INVALID", "RESERVE"}
        BY <1>6, <2>1 DEF LifeInv, SlotShape, Fields, Paused
      <4> HIDE DEF s
      <4> QED  BY <1>1, <4>1, <4>2, WriteAlike
    <3> QED  BY <1>8, <3>1, <3>2 DEF DirectWrite
  <2> QED  BY <1>1, <1>4, <2>1, <2>2, AskerKeeps
<1>9. CASE Trigger(t)
  <2> DEFINE r == [op |-> "W", id |-> sender[t].msg.to]
  <2>1. pipe' = Append(pipe, r) /\ r.op \notin Opening /\ RequestOK(r) /\ slot' = slot
    BY <1>5, <1>9 DEF Trigger, Request, Opening, RequestOK
  <2> QED  BY <1>1, <1>4, <2>1, NoSlotTouched, AskerKeeps
<1>10. CASE CountRequest(t)
  <2>1. pipe' = pipe  BY <1>10 DEF CountRequest
  <2>2. SlotShape' /\ \A k \in Slots : Alike(k)
    <3>1. CASE slot' = slot  BY <1>1, <3>1, NoSlotTouched
    <3>2. CASE slot' = [slot EXCEPT ![K(t)].sending = @ + 1]
      <4> DEFINE s == [slot[K(t)] EXCEPT !.sending = @ + 1]
      <4>1. slot' = [slot EXCEPT ![K(t)] = s]  BY <3>2
      <4>2. /\ DOMAIN s = Fields /\ s.type = slot[K(t)].type /\ s.id = slot[K(t)].id
            /\ s.high = slot[K(t)].high /\ s.low = slot[K(t)].low
            /\ s.reading = slot[K(t)].reading /\ s.dw = slot[K(t)].dw
        BY <1>6 DEF LifeInv, SlotShape, Fields
      <4> HIDE DEF s
      <4> QED  BY <1>1, <4>1, <4>2, WriteAlike
    <3> QED  BY <1>10, <3>1, <3>2 DEF CountRequest
  <2> QED  BY <1>1, <1>4, <2>1, <2>2, AskerKeeps
<1>11. CASE PushRequest(t)
  <2> DEFINE r == [op |-> IF sender[t].msg.low THEN "P" ELSE "D", id |-> sender[t].msg.to,
                   msg |-> sender[t].msg]
  <2>1. pipe' = Append(pipe, r) /\ r.op \notin Opening /\ RequestOK(r) /\ slot' = slot
    BY <1>5, <1>11 DEF PushRequest, Opening, RequestOK
  <2> QED  BY <1>1, <1>4, <2>1, NoSlotTouched, AskerKeeps
<1> QED  BY <1>7, <1>8, <1>9, <1>10, <1>11 DEF SenderStep

\* LifeInv holds on when a peer does something.
LEMMA PeerKeeps ==
    ASSUME LifeInv, NEW i \in Ids,
           PeerAccepts(i) \/ PeerRefuses(i) \/ PeerConnects(i) \/ PeerSends(i)
           \/ PeerEnds(i) \/ PeerResets(i) \/ PeerReads(i)
    PROVE  LifeInv'
<1>1. UNCHANGED <<slot, seen, poll, pipe, sender>>
  BY DEF PeerAccepts, PeerRefuses, PeerConnects, PeerSends, PeerEnds, PeerResets, PeerReads, Peer
<1> QED  BY <1>1, NoSlotTouched, SendersUnchanged, AskerKeeps

-----------------------------------------------------------------------------
(* What the socket thread does with its events *)

PollOK == PollShape /\ BatchOK /\ ForcingOK

\* What is known of the poll holds on where it is left alone.
LEMMA PollUnchanged ==
    ASSUME LifeInv, EventsStay, Polling, poll' = poll
    PROVE  PollOK'
<1>1. BatchOK'  BY BatchUnchanged DEF LifeInv
<1> QED  BY <1>1 DEF PollOK, PollShape, LifeInv, ForcingOK, Polling

\* The same when an event was handled.
LEMMA PollHandled ==
    ASSUME LifeInv, EventsStay, Polling, poll.batch # <<>>, poll' = Handled
    PROVE  PollOK'
<1>1. /\ poll'.batch = Tail(poll.batch) /\ poll'.forcing = NotForcing
      /\ poll'.phase \in {"commands", "events"}
      /\ poll' = [phase |-> poll'.phase, batch |-> poll'.batch, forcing |-> poll'.forcing]
  BY DEF Handled, PhaseAfter, LifeInv, PollShape, Polling
<1>2. BatchOK' /\ poll'.batch \in Seq(Events)  BY <1>1, BatchAdvanced DEF LifeInv
<1> QED  BY <1>1, <1>2 DEF PollOK, PollShape, ForcingOK

\* The same when an event is handled once more.
LEMMA PollAgain ==
    ASSUME LifeInv, EventsStay, Polling, poll.batch # <<>>,
           NEW e \in Events, EventOK(e), e.k = E0.k, poll' = Again(e)
    PROVE  PollOK'
<1>1. /\ poll'.batch = <<e>> \o Tail(poll.batch) /\ poll'.forcing = NotForcing
      /\ poll'.phase \in {"commands", "events"}
      /\ poll' = [phase |-> poll'.phase, batch |-> poll'.batch, forcing |-> poll'.forcing]
  BY DEF Again, PhaseAfter, LifeInv, PollShape, Polling
<1>2. BatchOK' /\ poll'.batch \in Seq(Events)  BY <1>1, BatchAgain DEF LifeInv, E0
<1> QED  BY <1>1, <1>2 DEF PollOK, PollShape, ForcingOK

\* The same when force_close begins, with the event it will tell.
LEMMA PollForces ==
    ASSUME LifeInv, EventsStay, Polling,
           NEW k \in Slots, NEW event \in {"CLOSE", "ERR", "none"}, NEW command \in BOOLEAN,
           \/ poll' = [poll EXCEPT !.forcing = ForceClose(k, event, command)]
           \/ /\ poll.batch # <<>>
              /\ poll' = [Handled EXCEPT !.forcing = ForceClose(k, event, command)]
           \/ \E e \in Events : /\ poll.batch # <<>> /\ EventOK(e) /\ e.k = E0.k
                                /\ poll' = [Again(e) EXCEPT !.forcing = ForceClose(k, event, command)],
           slot'[k].type \notin {"INVALID", "RESERVE"},
           event = "CLOSE" => seen'[slot'[k].id] \in Closable
    PROVE  PollOK'
<1> DEFINE f == ForceClose(k, event, command)
<1>1. f \in Forcings /\ f.k = k /\ f.event = event  BY DEF ForceClose, Forcings
<1> HIDE DEF f
<1>2. poll'.forcing = f => ForcingOK'
  BY <1>1 DEF ForcingOK
<1>3. CASE poll' = [poll EXCEPT !.forcing = f]
  <2>1. PollShape' /\ poll'.batch = poll.batch /\ poll'.forcing = f
    BY <1>1, <1>3 DEF LifeInv, PollShape
  <2>2. BatchOK'  BY <2>1, BatchUnchanged DEF LifeInv
  <2> QED  BY <1>2, <2>1, <2>2 DEF PollOK
<1>4. CASE poll.batch # <<>> /\ poll' = [Handled EXCEPT !.forcing = f]
  <2>1. /\ poll'.batch = Tail(poll.batch) /\ poll'.forcing = f
        /\ poll'.phase \in {"commands", "events"}
        /\ poll' = [phase |-> poll'.phase, batch |-> poll'.batch, forcing |-> poll'.forcing]
    BY <1>4 DEF Handled, PhaseAfter, LifeInv, PollShape
  <2>2. BatchOK' /\ poll'.batch \in Seq(Events)  BY <1>4, <2>1, BatchAdvanced DEF LifeInv
  <2> QED  BY <1>1, <1>2, <2>1, <2>2 DEF PollOK, PollShape
<1>5. ASSUME NEW e \in Events, poll.batch # <<>>, EventOK(e), e.k = E0.k,
             poll' = [Again(e) EXCEPT !.forcing = f]
      PROVE  PollOK'
  <2>1. /\ poll'.batch = <<e>> \o Tail(poll.batch) /\ poll'.forcing = f
        /\ poll'.phase \in {"commands", "events"}
        /\ poll' = [phase |-> poll'.phase, batch |-> poll'.batch, forcing |-> poll'.forcing]
    BY <1>5 DEF Again, PhaseAfter, LifeInv, PollShape
  <2>2. BatchOK' /\ poll'.batch \in Seq(Events)  BY <1>5, <2>1, BatchAgain DEF LifeInv, E0
  <2> QED  BY <1>1, <1>2, <2>1, <2>2 DEF PollOK, PollShape
<1> QED  BY <1>3, <1>4, <1>5 DEF f

\* The event next in turn
LEMMA HeadEvent ==
    ASSUME LifeInv, poll.batch # <<>>
    PROVE  E0 \in Events /\ EventOK(E0)
<1>1. poll.batch \in Seq(Events)  BY DEF LifeInv, PollShape
<1>2. E0 \in Events /\ E0 = poll.batch[1] /\ 1 \in 1 .. Len(poll.batch)
  BY <1>1, Taking DEF E0
<1> QED  BY <1>2 DEF LifeInv, BatchOK

\* and its slot, if it is of one of the types
LEMMA TurnFacts ==
    ASSUME LifeInv, NEW types, Turn(types), "INVALID" \notin types
    PROVE  /\ Polling /\ poll.batch # <<>>
           /\ E0.k \in Slots /\ Polled = slot[E0.k] /\ DOMAIN Polled = Fields
           /\ Polled.type \in types /\ Polled.type \notin {"INVALID", "RESERVE"}
           /\ E0.read => Polled.type \notin Paused
           /\ Polled.id \in Ids /\ seen[Polled.id] \in KnownAs(Polled.type)
<1>1. Polling /\ poll.batch # <<>> /\ E0.k # -1 /\ Polled.type \in types  BY DEF Turn, EventNext
<1>2. E0 \in Events /\ EventOK(E0)  BY <1>1, HeadEvent
<1>3. E0.k \in Slots  BY <1>1, <1>2 DEF Events
<1>4. Polled.type \notin {"INVALID", "RESERVE"} /\ (E0.read => Polled.type \notin Paused)
  BY <1>1, <1>2 DEF EventOK, Polled
<1> QED  BY <1>1, <1>3, <1>4 DEF Polled, LifeInv, SlotShape, SlotsOK, SlotOK

-----------------------------------------------------------------------------
(* What the socket thread does with requests *)

\* It changes one slot in use, and tells nothing.
LEMMA QuietChange ==
    ASSUME LifeInv,
           NEW k \in Slots, slot[k].type \notin {"INVALID", "RESERVE"},
           NEW s, DOMAIN s = Fields, s.id = slot[k].id, s.type # "RESERVE",
           s.type \in Paused => slot[k].type \in Paused,
           s.type \in Paused \cup {"INVALID"} => s.high = <<>> /\ s.low = <<>>,
           s.type \in Paused => ~s.reading /\ s.dw = <<>>,
           s.type # "INVALID" => seen[slot[k].id] \in KnownAs(s.type),
           slot' = [slot EXCEPT ![k] = s],
           UNCHANGED seen
    PROVE  Kept
<1> DEFINE state == seen[slot[k].id]
<1>1. slot[k].id \in Ids /\ state \in KnownAs(slot[k].type)  BY DEF LifeInv, SlotsOK, SlotOK
<1>2. state \notin {"unborn", "broken"}  BY <1>1 DEF KnownAs
<1>3. seen' = [seen EXCEPT ![slot[k].id] = state]  BY <1>1 DEF LifeInv, SlotShape
<1> HIDE DEF state
<1>4. s.type # "INVALID" => state \in KnownAs(s.type)  BY DEF state
<1> QED  BY <1>2, <1>3, <1>4, OneSlotChanges DEF LifeInv

\* A step that changes no slot and tells nothing keeps the slots.
LEMMA NothingChanged ==
    ASSUME LifeInv, UNCHANGED <<slot, seen>>
    PROVE  Kept
<1>1. SlotShape' /\ \A k \in Slots : Alike(k)  BY NoSlotTouched
<1> QED  BY <1>1 DEF Kept, LifeInv, ToldInOrder, SlotShape

\* It tells something of a socket that is not in use any more.
LEMMA TellFree ==
    ASSUME LifeInv, NEW id \in Ids, seen[id] # "unborn", socket_invalid(id),
           Tell(id, "ERR"), UNCHANGED slot
    PROVE  Kept
<1>1. seen[id] # "broken"  BY DEF LifeInv, ToldInOrder, SlotShape
<1>2. After(seen[id], "ERR") \notin {"unborn", "broken"}  BY <1>1 DEF After
<1>3. seen' = [seen EXCEPT ![id] = After(seen[id], "ERR")]  BY DEF Tell
<1>4. SlotShape'  BY <1>3 DEF LifeInv, SlotShape
<1>5. \A i \in Ids : seen'[i] # "broken" /\ (seen[i] # "unborn" => seen'[i] # "unborn")
  BY <1>2, <1>3 DEF LifeInv, SlotShape, ToldInOrder
<1>6. ASSUME NEW j \in Slots PROVE Alike(j)
  <2>1. ASSUME slot[j].type # "INVALID" PROVE seen'[slot[j].id] = seen[slot[j].id]
    <3>1. slot[j].id \in Ids /\ HASH_ID(slot[j].id) = j  BY <2>1 DEF LifeInv, SlotsOK, SlotOK
    <3>2. slot[j].id # id  BY <2>1, <3>1 DEF socket_invalid
    <3> QED  BY <1>3, <3>1, <3>2 DEF LifeInv, SlotShape
  <2> QED  BY <2>1, UntouchedAlike DEF LifeInv, SlotsOK
<1> QED  BY <1>4, <1>5, <1>6 DEF Kept

\* The request next in turn: who it is about, and that it does not come before the one to open.
LEMMA AskedFacts ==
    ASSUME LifeInv, pipe # <<>>
    PROVE  /\ Asked \in Ids /\ AskedSlot \in Slots /\ seen[Asked] # "unborn"
           /\ RequestOK(Head(pipe)) /\ DOMAIN slot[AskedSlot] = Fields
           /\ Head(pipe).op \notin Opening /\ ~socket_invalid(Asked) =>
                /\ slot[AskedSlot].type \notin {"INVALID", "RESERVE"}
                /\ slot[AskedSlot].id = Asked
                /\ seen[Asked] \in KnownAs(slot[AskedSlot].type)
<1>1. PICK Elems : pipe \in Seq(Elems)  BY DEF LifeInv, PipeShape
<1>2. Head(pipe) = pipe[1] /\ Len(pipe) \in Nat /\ 1 \in 1 .. Len(pipe)  BY <1>1, Taking
<1>3. RequestOK(Head(pipe))  BY <1>2 DEF LifeInv, PipeOK
<1>4. Asked \in Ids /\ seen[Asked] # "unborn"  BY <1>3 DEF Asked, RequestOK
<1>5. AskedSlot \in Slots  BY <1>4, HashInSlots DEF AskedSlot
<1>6. DOMAIN slot[AskedSlot] = Fields  BY <1>5 DEF LifeInv, SlotShape
<1>7. ASSUME Head(pipe).op \notin Opening, ~socket_invalid(Asked)
      PROVE  /\ slot[AskedSlot].type \notin {"INVALID", "RESERVE"}
             /\ slot[AskedSlot].id = Asked
             /\ seen[Asked] \in KnownAs(slot[AskedSlot].type)
  <2>1. slot[AskedSlot].id = Asked /\ slot[AskedSlot].type # "INVALID"
    BY <1>7 DEF socket_invalid, AskedSlot
  <2>2. ASSUME slot[AskedSlot].type = "RESERVE" PROVE FALSE
    <3>1. PICK n \in 1 .. Len(pipe) : pipe[n].op \in Opening /\ pipe[n].id = Asked
      BY <1>5, <2>1, <2>2 DEF LifeInv, PipeOK, WillOpen
    <3>2. n # 1  BY <1>2, <1>7, <3>1
    <3>3. 1 \in 1 .. n - 1 /\ pipe[1].id = Asked  BY <1>2, <3>2 DEF Asked
    <3> QED  BY <3>1, <3>3 DEF LifeInv, PipeOK, OpenedFirst
  <2> QED  BY <1>5, <2>1, <2>2 DEF LifeInv, SlotsOK, SlotOK
<1> QED  BY <1>3, <1>4, <1>5, <1>6, <1>7

\* The same when the events of a socket are taken out of the batch.
LEMMA PollCleared ==
    ASSUME LifeInv, EventsStay, Polling, NEW id,
           poll' = [poll EXCEPT !.batch = WithoutClosed(@, id)]
    PROVE  PollOK'
<1>1. /\ poll'.batch = WithoutClosed(poll.batch, id) /\ poll'.forcing = NotForcing
      /\ poll'.phase = poll.phase
      /\ poll' = [phase |-> poll'.phase, batch |-> poll'.batch, forcing |-> poll'.forcing]
  BY DEF LifeInv, PollShape, Polling
<1>2. BatchOK' /\ poll'.batch \in Seq(Events)  BY <1>1, BatchCleared DEF LifeInv
<1>3. poll.phase \in {"commands", "first", "events", "aborted"}  BY DEF LifeInv, PollShape
<1> QED  BY <1>1, <1>2, <1>3 DEF PollOK, PollShape, ForcingOK

\* LifeInv holds on when a socket is paused.
LEMMA PauseKeeps ==
    ASSUME LifeInv, PauseSocket
    PROVE  LifeInv'
<1> DEFINE s == [slot[AskedSlot] EXCEPT !.reading = FALSE]
<1>1. Polling /\ pipe # <<>> /\ Head(pipe).op \notin Opening /\ pipe' = Tail(pipe)
      /\ UNCHANGED <<poll, sender, seen>>
  BY DEF PauseSocket, Command, Opening
<1>2. Kept
  <2>1. CASE socket_invalid(Asked)
    <3>1. slot' = slot  BY <2>1 DEF PauseSocket
    <3> QED  BY <1>1, <3>1, NothingChanged
  <2>2. CASE ~socket_invalid(Asked)
    <3>1. /\ AskedSlot \in Slots /\ DOMAIN slot[AskedSlot] = Fields /\ slot[AskedSlot].id = Asked
          /\ slot[AskedSlot].type \notin {"INVALID", "RESERVE"}
          /\ seen[Asked] \in KnownAs(slot[AskedSlot].type)
      BY <1>1, <2>2, AskedFacts
    <3>2. slot' = [slot EXCEPT ![AskedSlot] = s]  BY <2>2 DEF PauseSocket
    <3>3. /\ DOMAIN s = Fields /\ s.id = Asked /\ s.type = slot[AskedSlot].type /\ ~s.reading
          /\ s.high = slot[AskedSlot].high /\ s.low = slot[AskedSlot].low
          /\ s.dw = slot[AskedSlot].dw
      BY <3>1 DEF Fields
    <3>4. SlotOK(AskedSlot)  BY <3>1 DEF LifeInv, SlotsOK
    <3> HIDE DEF s
    <3> QED  BY <1>1, <3>1, <3>2, <3>3, <3>4, QuietChange DEF SlotOK
  <2> QED  BY <2>1, <2>2
<1>3. PollOK'  BY <1>1, <1>2, KeptReserves, PollUnchanged DEF LifeInv
<1> QED  BY <1>1, <1>2, <1>3, CommandKeeps DEF PollOK

\* What a request that is not to open finds: nothing, or a socket in use
LEMMA ResumeKeeps ==
    ASSUME LifeInv, ResumeSocket
    PROVE  LifeInv'
<1>1. Polling /\ pipe # <<>> /\ Head(pipe).op \notin Opening /\ pipe' = Tail(pipe) /\ UNCHANGED sender
  BY DEF ResumeSocket, Command, Opening
<1>2. /\ Asked \in Ids /\ AskedSlot \in Slots /\ seen[Asked] # "unborn"
      /\ DOMAIN slot[AskedSlot] = Fields
      /\ ~socket_invalid(Asked) =>
            /\ slot[AskedSlot].type \notin {"INVALID", "RESERVE"}
            /\ slot[AskedSlot].id = Asked
            /\ seen[Asked] \in KnownAs(slot[AskedSlot].type)
  BY <1>1, AskedFacts
<1>3. Kept /\ PollOK'
  <2>1. CASE socket_invalid(Asked) \/ halfclose_read(slot[AskedSlot])
    <3>1. Tell(Asked, "ERR") /\ slot' = slot /\ poll' = [poll EXCEPT !.batch = WithoutClosed(@, Asked)]
      BY <2>1 DEF ResumeSocket
    <3>2. Kept
      <4>1. CASE socket_invalid(Asked)  BY <1>2, <3>1, <4>1, TellFree
      <4>2. CASE ~socket_invalid(Asked)
        <5>1. seen[Asked] = "closed"  BY <1>2, <2>1, <4>2 DEF halfclose_read, KnownAs
        <5>2. After(seen[Asked], "ERR") = seen[Asked]  BY <5>1 DEF After
        <5>3. seen' = seen  BY <1>2, <3>1, <5>2 DEF Tell, LifeInv, SlotShape
        <5> QED  BY <3>1, <5>3, NothingChanged
      <4> QED  BY <4>1, <4>2
    <3> QED  BY <1>1, <3>1, <3>2, KeptReserves, PollCleared DEF LifeInv
  <2>2. CASE ~(socket_invalid(Asked) \/ halfclose_read(slot[AskedSlot]))
    <3> DEFINE old == slot[AskedSlot]
               type == CASE old.type = "PACCEPT" -> "CONNECTED"
                         [] old.type = "PLISTEN" -> "LISTEN"
                         [] OTHER -> old.type
               s == [old EXCEPT !.reading = TRUE, !.type = type]
               event == IF old.type \in {"PACCEPT", "PLISTEN", "CONNECTED"} THEN "OPEN" ELSE "none"
               state == After(seen[Asked], event)
    <3>1. poll' = poll /\ slot' = [slot EXCEPT ![AskedSlot] = s]
          /\ seen' = [seen EXCEPT ![Asked] = state]
      BY <2>2 DEF ResumeSocket, Tell
    <3>2. old.type \notin {"INVALID", "RESERVE"} /\ old.id = Asked /\ seen[Asked] \in KnownAs(old.type)
      BY <1>2, <2>2
    <3>3. DOMAIN s = Fields /\ s.id = Asked /\ s.type = type
      BY <1>2, <3>2 DEF Fields
    <3>4. type \notin Paused \cup {"INVALID", "RESERVE"} /\ state \in KnownAs(type)
          /\ state \notin {"unborn", "broken"}
      BY <3>2 DEF KnownAs, Paused, After
    <3> HIDE DEF s, state, type
    <3>5. Kept  BY <1>2, <3>1, <3>2, <3>3, <3>4, OneSlotChanges DEF LifeInv
    <3> QED  BY <1>1, <3>1, <3>5, KeptReserves, PollUnchanged DEF LifeInv
  <2> QED  BY <2>1, <2>2
<1> QED  BY <1>1, <1>3, CommandKeeps DEF PollOK

\* LifeInv holds on when a write is triggered.
LEMMA TriggerKeeps ==
    ASSUME LifeInv, TriggerWrite
    PROVE  LifeInv'
<1> DEFINE s == [slot[AskedSlot] EXCEPT !.writing = TRUE]
<1>1. Polling /\ pipe # <<>> /\ Head(pipe).op \notin Opening /\ pipe' = Tail(pipe)
      /\ UNCHANGED <<poll, sender, seen>>
  BY DEF TriggerWrite, Command, Opening
<1>2. Kept
  <2>1. CASE socket_invalid(Asked)
    <3>1. slot' = slot  BY <2>1 DEF TriggerWrite
    <3> QED  BY <1>1, <3>1, NothingChanged
  <2>2. CASE ~socket_invalid(Asked)
    <3>1. /\ AskedSlot \in Slots /\ DOMAIN slot[AskedSlot] = Fields /\ slot[AskedSlot].id = Asked
          /\ slot[AskedSlot].type \notin {"INVALID", "RESERVE"}
          /\ seen[Asked] \in KnownAs(slot[AskedSlot].type)
      BY <1>1, <2>2, AskedFacts
    <3>2. slot' = [slot EXCEPT ![AskedSlot] = s]  BY <2>2 DEF TriggerWrite
    <3>3. /\ DOMAIN s = Fields /\ s.id = Asked /\ s.type = slot[AskedSlot].type
          /\ s.reading = slot[AskedSlot].reading
          /\ s.high = slot[AskedSlot].high /\ s.low = slot[AskedSlot].low
          /\ s.dw = slot[AskedSlot].dw
      BY <3>1 DEF Fields
    <3>4. SlotOK(AskedSlot)  BY <3>1 DEF LifeInv, SlotsOK
    <3> HIDE DEF s
    <3> QED  BY <1>1, <3>1, <3>2, <3>3, <3>4, QuietChange DEF SlotOK
  <2> QED  BY <2>1, <2>2
<1>3. PollOK'  BY <1>1, <1>2, KeptReserves, PollUnchanged DEF LifeInv
<1> QED  BY <1>1, <1>2, <1>3, CommandKeeps DEF PollOK

\* LifeInv holds on when a message comes out of the pipe.
LEMMA SendSocketKeeps ==
    ASSUME LifeInv, SendSocket
    PROVE  LifeInv'
<1> DEFINE s == slot[AskedSlot]
           dropped == socket_invalid(Asked) \/ s.closing
                        \/ s.type \in {"HALFCLOSE_WRITE", "PACCEPT", "PLISTEN", "LISTEN"}
           with == IF dropped THEN s ELSE Appended(s, Head(pipe).msg)
           new == Counted(with, Asked)
<1>1. Polling /\ pipe # <<>> /\ Head(pipe).op \notin Opening /\ pipe' = Tail(pipe)
      /\ UNCHANGED <<poll, sender, seen>>
  BY DEF SendSocket, Command, Opening
<1>2. /\ Asked \in Ids /\ AskedSlot \in Slots /\ DOMAIN s = Fields
      /\ ~socket_invalid(Asked) => s.type \notin {"INVALID", "RESERVE"}
  BY <1>1, AskedFacts
<1>3. slot' = [slot EXCEPT ![AskedSlot] = new]  BY DEF SendSocket
<1>4. /\ DOMAIN with = Fields /\ with.type = s.type /\ with.id = s.id
      /\ s.type \in Paused \cup {"INVALID", "RESERVE"} => with.high = s.high /\ with.low = s.low
      /\ with.reading = s.reading /\ with.dw = s.dw
  <2>1. CASE dropped  BY <1>2, <2>1
  <2>2. CASE ~dropped
    <3>1. with = Appended(s, Head(pipe).msg)  BY <2>2
    <3>2. s.type \notin Paused \cup {"INVALID", "RESERVE"}  BY <1>2, <2>2 DEF Paused
    <3>3. /\ DOMAIN with = Fields /\ with.type = s.type /\ with.id = s.id
          /\ with.reading = s.reading /\ with.dw = s.dw
      BY <1>2, <3>1 DEF Appended, Fields
    <3> QED  BY <3>2, <3>3
  <2> QED  BY <2>1, <2>2
<1> HIDE DEF with
<1>5. /\ DOMAIN new = Fields /\ new.type = s.type /\ new.id = s.id
      /\ new.high = with.high /\ new.low = with.low
      /\ new.reading = with.reading /\ new.dw = with.dw
  BY <1>4 DEF Counted, Fields
<1> HIDE DEF new
<1>6. SlotShape' /\ \A k \in Slots : Alike(k)
  BY <1>1, <1>2, <1>3, <1>4, <1>5, WriteAlike
<1>7. Kept  BY <1>1, <1>6 DEF Kept, LifeInv, ToldInOrder, SlotShape
<1>8. PollOK'  BY <1>1, <1>7, KeptReserves, PollUnchanged DEF LifeInv
<1> QED  BY <1>1, <1>7, <1>8, CommandKeeps DEF PollOK

\* LifeInv holds on when a close comes out of the pipe.
LEMMA CloseKeeps ==
    ASSUME LifeInv, CloseSocket
    PROVE  LifeInv'
<1> DEFINE old == slot[AskedSlot]
<1>1. Polling /\ pipe # <<>> /\ Head(pipe).op \notin Opening /\ pipe' = Tail(pipe) /\ UNCHANGED sender
  BY DEF CloseSocket, Command, Opening
<1>2. /\ Asked \in Ids /\ AskedSlot \in Slots /\ DOMAIN old = Fields
      /\ ~socket_invalid(Asked) =>
            /\ old.type \notin {"INVALID", "RESERVE"} /\ old.id = Asked
            /\ seen[Asked] \in KnownAs(old.type)
  BY <1>1, AskedFacts
<1>3. SlotOK(AskedSlot)  BY <1>2 DEF LifeInv, SlotsOK
<1>4. CASE UNCHANGED <<slot, seen, poll>>
  <2>1. Kept  BY <1>4, NothingChanged
  <2>2. PollOK'  BY <1>1, <1>4, <2>1, KeptReserves, PollUnchanged DEF LifeInv
  <2> QED  BY <1>1, <2>1, <2>2, CommandKeeps DEF PollOK
<1>5. ASSUME ~socket_invalid(Asked), UNCHANGED seen,
             slot' = [slot EXCEPT ![AskedSlot] = Emptied(@)],
             poll' = [poll EXCEPT !.forcing =
                    ForceClose(AskedSlot, IF halfclose_read(old) THEN "none" ELSE "CLOSE", TRUE)]
      PROVE  LifeInv'
  <2> DEFINE s == Emptied(old)
             event == IF halfclose_read(old) THEN "none" ELSE "CLOSE"
  <2>1. slot' = [slot EXCEPT ![AskedSlot] = s]  BY <1>5
  <2>2. /\ DOMAIN s = Fields /\ s.id = Asked /\ s.type = old.type /\ s.reading = old.reading
        /\ s.high = <<>> /\ s.low = <<>> /\ s.dw = old.dw
    BY <1>2, <1>5 DEF Emptied, Fields
  <2> HIDE DEF s
  <2>3. Kept  BY ZenonT(60), <1>2, <1>3, <1>5, <2>1, <2>2, QuietChange DEF SlotOK
  <2>4. slot'[AskedSlot] = s  BY <1>2, <2>1 DEF LifeInv, SlotShape
  <2>5. event \in {"CLOSE", "ERR", "none"} /\ (event = "CLOSE" => seen[Asked] \in Closable)
    BY <1>2, <1>5 DEF halfclose_read, KnownAs, Closable
  <2> HIDE DEF event
  <2>6. poll' = [poll EXCEPT !.forcing = ForceClose(AskedSlot, event, TRUE)]
    BY <1>5 DEF event
  <2>7. PollOK'
    BY <1>1, <1>2, <1>5, <2>2, <2>3, <2>4, <2>5, <2>6, KeptReserves, PollForces DEF LifeInv
  <2> QED  BY <1>1, <2>3, <2>7, CommandKeeps DEF PollOK
<1>6. ASSUME ~socket_invalid(Asked), halfclose_read(old), UNCHANGED <<seen, poll>>,
             slot' = [slot EXCEPT ![AskedSlot].closing = TRUE]
      PROVE  LifeInv'
  <2> DEFINE s == [old EXCEPT !.closing = TRUE]
  <2>1. slot' = [slot EXCEPT ![AskedSlot] = s]  BY <1>6
  <2>2. /\ DOMAIN s = Fields /\ s.id = Asked /\ s.type = old.type /\ s.reading = old.reading
        /\ s.high = old.high /\ s.low = old.low /\ s.dw = old.dw
    BY <1>2, <1>6 DEF Fields
  <2> HIDE DEF s
  <2>3. Kept
    <3>1. seen' = seen /\ old.type \notin {"INVALID", "RESERVE"} /\ old.id = Asked
          /\ seen[Asked] \in KnownAs(old.type)
      BY <1>2, <1>6
    <3> QED  BY <1>2, <1>3, <2>1, <2>2, <3>1, QuietChange DEF SlotOK
  <2>4. PollOK'  BY <1>1, <1>6, <2>3, KeptReserves, PollUnchanged DEF LifeInv
  <2> QED  BY <1>1, <2>3, <2>4, CommandKeeps DEF PollOK
<1>7. ASSUME ~socket_invalid(Asked), ~halfclose_read(old), UNCHANGED poll, Tell(Asked, "CLOSE"),
             slot' = [slot EXCEPT ![AskedSlot].closing = TRUE, ![AskedSlot].reading = FALSE,
                                  ![AskedSlot].type = "HALFCLOSE_READ"]
      PROVE  LifeInv'
  <2> DEFINE s == [old EXCEPT !.closing = TRUE, !.reading = FALSE, !.type = "HALFCLOSE_READ"]
  <2>1. slot' = [slot EXCEPT ![AskedSlot] = s]  BY <1>2, <1>7 DEF LifeInv, SlotShape
  <2>2. DOMAIN s = Fields /\ s.id = Asked /\ s.type = "HALFCLOSE_READ"
    BY <1>2, <1>7 DEF Fields
  <2> HIDE DEF s
  <2>3. After(seen[Asked], "CLOSE") = "closed"
    BY <1>2, <1>7 DEF halfclose_read, KnownAs, After
  <2>4. seen' = [seen EXCEPT ![old.id] = "closed"]  BY <1>2, <1>7, <2>3 DEF Tell
  <2>5. s.type \notin Paused \cup {"INVALID", "RESERVE"} /\ "closed" \in KnownAs(s.type)
    BY <2>2 DEF Paused, KnownAs
  <2>6. Kept
    <3>1. old.type \notin {"INVALID", "RESERVE"} /\ old.id = Asked  BY <1>2, <1>7
    <3> QED  BY <1>2, <2>1, <2>2, <2>4, <2>5, <3>1, OneSlotChanges DEF LifeInv
  <2>7. PollOK'  BY <1>1, <1>7, <2>6, KeptReserves, PollUnchanged DEF LifeInv
  <2> QED  BY <1>1, <2>6, <2>7, CommandKeeps DEF PollOK
<1> QED  BY <1>4, <1>5, <1>6, <1>7 DEF CloseSocket

\* Nothing is asked: the events are next.
LEMMA NoCommandKeeps ==
    ASSUME LifeInv, NoCommand
    PROVE  LifeInv'
<1>1. /\ UNCHANGED <<slot, seen, pipe, sender>> /\ poll'.batch = poll.batch
      /\ poll'.forcing = poll.forcing /\ poll'.phase = "events"
      /\ poll' = [phase |-> poll'.phase, batch |-> poll'.batch, forcing |-> poll'.forcing]
  BY DEF NoCommand, LifeInv, PollShape
<1>2. Kept  BY <1>1, NothingChanged
<1>3. BatchOK'  BY <1>1, <1>2, KeptReserves, BatchUnchanged DEF LifeInv
<1>4. PollShape'  BY <1>1 DEF LifeInv, PollShape
<1>5. ForcingOK'  BY <1>1 DEF LifeInv, ForcingOK, NoCommand, Polling
<1> QED  BY <1>1, <1>2, <1>3, <1>4, <1>5, EventKeeps

\* LifeInv holds on when an assertion fails.
LEMMA AbortKeeps ==
    ASSUME LifeInv, SendAborts
    PROVE  LifeInv'
<1>1. /\ UNCHANGED <<slot, seen, pipe, sender>> /\ poll'.batch = poll.batch
      /\ poll'.forcing = poll.forcing /\ poll'.phase = "aborted"
      /\ poll' = [phase |-> poll'.phase, batch |-> poll'.batch, forcing |-> poll'.forcing]
  BY DEF SendAborts, LifeInv, PollShape
<1>2. Kept  BY <1>1, NothingChanged
<1>3. BatchOK'  BY <1>1, <1>2, KeptReserves, BatchUnchanged DEF LifeInv
<1>4. PollShape'  BY <1>1 DEF LifeInv, PollShape
<1>5. ForcingOK'  BY <1>1 DEF LifeInv, ForcingOK, SendAborts, Polling
<1> QED  BY <1>1, <1>2, <1>3, <1>4, <1>5, EventKeeps

\* What epoll says is of slots in use, and of those started if there is something to read.
LEMMA WaitKeeps ==
    ASSUME LifeInv, Wait
    PROVE  LifeInv'
<1>1. UNCHANGED <<slot, seen, pipe, sender>> /\ Polling  BY DEF Wait
<1>2. Kept  BY <1>1, NothingChanged
<1>3. PICK b \in Batches, first \in {"first", "commands"} :
          poll' = [poll EXCEPT !.phase = first, !.batch = [n \in DOMAIN b |-> Event(b[n])]]
  BY DEF Wait
<1>4. Cardinality(Ready) \in Nat
  <2>1. IsFiniteSet(Slots)  BY FS_Interval, SocketAssumption DEF Slots
  <2>2. Ready \subseteq Slots  BY DEF Ready
  <2> QED  BY <2>1, <2>2, FS_Subset, FS_CardinalityType
<1>5. b \in [1 .. Cardinality(Ready) -> Ready]  BY DEF Batches
<1>6. ASSUME NEW k \in Ready PROVE Event(k) \in Events /\ Event(k).k = k /\ EventOK(Event(k))
  <2>1. k \in Slots /\ slot[k].type \notin {"INVALID", "RESERVE"} /\ SlotOK(k)
    BY DEF Ready, LifeInv, SlotsOK
  <2> DEFINE e == Event(k)
             n == net[slot[k].id]
             read == slot[k].reading /\ (n.unread > 0 \/ n.fin \/ n.peer \in Hung)
             write == slot[k].writing /\ ((n.peer = "up" /\ n.room > 0) \/ n.peer \in Hung)
             error == n.peer \in {"reset", "refused"}
             eof == n.peer \in Hung \/ (n.fin /\ slot[k].type = "HALFCLOSE_WRITE")
  <2>2. e.k = k /\ (e.read => slot[k].reading)  BY DEF Event
  <2>3. EventOK(e)  BY <2>1, <2>2 DEF EventOK, SlotOK
  <2>4. e \in Events
    <3>1. e = [k |-> k, read |-> read, write |-> write, error |-> error, eof |-> eof]
      BY DEF Event
    <3>2. read \in BOOLEAN  OBVIOUS
    <3>3. write \in BOOLEAN  OBVIOUS
    <3>4. error \in BOOLEAN  OBVIOUS
    <3>5. eof \in BOOLEAN  OBVIOUS
    <3> HIDE DEF e, read, write, error, eof
    <3> QED  BY <2>1, <3>1, <3>2, <3>3, <3>4, <3>5 DEF Events
  <2> QED  BY <2>2, <2>3, <2>4
<1>7. /\ poll'.batch \in Seq(Events) /\ Len(poll'.batch) = Cardinality(Ready)
      /\ \A n \in 1 .. Cardinality(Ready) : poll'.batch[n] = Event(b[n])
      /\ poll'.forcing = NotForcing /\ poll'.phase = first
      /\ poll' = [phase |-> poll'.phase, batch |-> poll'.batch, forcing |-> poll'.forcing]
  <2>1. poll'.batch = [n \in 1 .. Cardinality(Ready) |-> Event(b[n])] /\ poll'.phase = first
        /\ poll'.forcing = NotForcing
        /\ poll' = [phase |-> poll'.phase, batch |-> poll'.batch, forcing |-> poll'.forcing]
    BY <1>1, <1>3, <1>5 DEF LifeInv, PollShape, Polling
  <2>2. \A n \in 1 .. Cardinality(Ready) : Event(b[n]) \in Events  BY <1>5, <1>6
  <2> QED  BY <1>4, <2>1, <2>2
<1>8. PollShape' /\ ForcingOK'  BY <1>7 DEF PollShape, ForcingOK
<1>9. BatchOK'
  <2> SUFFICES ASSUME NEW n \in 1 .. Len(poll'.batch) PROVE EventOK(poll.batch[n])'
    BY DEF BatchOK
  <2>1. b[n] \in Ready /\ poll'.batch[n] = Event(b[n])  BY <1>5, <1>7
  <2>2. EventOK(Event(b[n]))  BY <1>6, <2>1
  <2>3. PICK e : e = Event(b[n])  OBVIOUS
  <2>4. EventOK(e)'  BY <1>1, <2>2, <2>3 DEF EventOK
  <2> QED  BY <2>1, <2>3, <2>4 DEF EventOK
<1> QED  BY <1>1, <1>2, <1>8, <1>9, EventKeeps

\* dw_lock is free: the slot is, and the services are told.
LEMMA ForceCloseKeeps ==
    ASSUME LifeInv, ForceCloseEnds
    PROVE  LifeInv'
<1> DEFINE k == poll.forcing.k
           s == Closed(slot[k])
           event == poll.forcing.event
           state == After(seen[slot[k].id], event)
<1>1. poll.forcing # NotForcing /\ UNCHANGED <<pipe, sender>>
  BY DEF ForceCloseEnds, Polling
<1>2. k \in Slots /\ event \in {"CLOSE", "ERR", "none"}
  BY <1>1 DEF LifeInv, PollShape, Forcings
<1>3. slot[k].type \notin {"INVALID", "RESERVE"} /\ (event = "CLOSE" => seen[slot[k].id] \in Closable)
  BY <1>1 DEF LifeInv, ForcingOK
<1>4. slot[k].id \in Ids /\ seen[slot[k].id] \in KnownAs(slot[k].type) /\ DOMAIN slot[k] = Fields
  BY <1>2, <1>3 DEF LifeInv, SlotShape, SlotsOK, SlotOK
<1>5. state \notin {"unborn", "broken"}
  <2>1. seen[slot[k].id] \notin {"unborn", "broken"}  BY <1>4 DEF KnownAs
  <2> QED  BY <1>2, <1>3, <2>1 DEF After, Closable
<1>6. slot' = [slot EXCEPT ![k] = s] /\ seen' = [seen EXCEPT ![slot[k].id] = state]
  BY DEF ForceCloseEnds, Tell
<1>7. DOMAIN s = Fields /\ s.id = slot[k].id /\ s.type = "INVALID" /\ s.high = <<>> /\ s.low = <<>>
  BY <1>4 DEF Closed, Fields
<1>8. s.type \notin Paused \cup {"RESERVE"}  BY <1>7 DEF Paused
<1>9. Kept
  <2> HIDE DEF s, state, k
  <2> QED  BY <1>2, <1>3, <1>5, <1>6, <1>7, <1>8, OneSlotChanges DEF LifeInv
<1>10. /\ poll'.forcing = NotForcing /\ poll'.phase = poll.phase
       /\ poll'.batch = poll.batch \/ \E id : poll'.batch = WithoutClosed(poll.batch, id)
       /\ poll' = [phase |-> poll'.phase, batch |-> poll'.batch, forcing |-> poll'.forcing]
  BY DEF ForceCloseEnds, LifeInv, PollShape
<1>11. BatchOK' /\ poll'.batch \in Seq(Events)
  <2>1. CASE poll'.batch = poll.batch
    BY <1>9, <2>1, KeptReserves, BatchUnchanged DEF LifeInv, PollShape
  <2>2. ASSUME NEW id, poll'.batch = WithoutClosed(poll.batch, id) PROVE BatchOK' /\ poll'.batch \in Seq(Events)
    BY <1>9, <2>2, KeptReserves, BatchCleared DEF LifeInv
  <2> QED  BY <1>10, <2>1, <2>2
<1>12. poll.phase \in {"commands", "first", "events", "aborted"}  BY DEF LifeInv, PollShape
<1>13. PollShape' /\ ForcingOK'  BY <1>10, <1>11, <1>12 DEF PollShape, ForcingOK
<1> QED  BY <1>1, <1>9, <1>11, <1>13, EventKeeps

-----------------------------------------------------------------------------
(* What the socket thread does with the event next in turn *)

\* The event's slot is free.
LEMMA EventOnInvalidKeeps ==
    ASSUME LifeInv, EventOnInvalid
    PROVE  LifeInv'
<1>1. /\ UNCHANGED <<slot, seen, pipe, sender>> /\ Polling /\ poll.batch # <<>> /\ poll' = Handled
  BY DEF EventOnInvalid, EventNext
<1>2. Kept  BY <1>1, NothingChanged
<1>3. PollOK'  BY <1>1, <1>2, KeptReserves, PollHandled DEF LifeInv
<1> QED  BY <1>1, <1>2, <1>3, EventKeeps DEF PollOK

\* LifeInv holds on when a connect is reported.
LEMMA ReportConnectKeeps ==
    ASSUME LifeInv, ReportConnect
    PROVE  LifeInv'
<1> DEFINE k == E0.k
           old == slot[k]
<1>1. /\ Polling /\ poll.batch # <<>> /\ k \in Slots /\ Polled = old /\ DOMAIN old = Fields
      /\ old.type = "CONNECTING" /\ old.id \in Ids /\ seen[old.id] \in KnownAs(old.type)
  BY TurnFacts DEF ReportConnect
<1>2. seen[old.id] = "connecting"  BY <1>1 DEF KnownAs
<1>3. UNCHANGED <<pipe, sender>>  BY DEF ReportConnect
<1>4. CASE net[Polled.id].peer \in Hung
  <2> DEFINE s == Emptied(old)
  <2>1. /\ slot' = [slot EXCEPT ![k] = s] /\ seen' = seen
        /\ poll' = [Handled EXCEPT !.forcing = ForceClose(k, "ERR", FALSE)]
    BY <1>4 DEF ReportConnect
  <2>2. /\ DOMAIN s = Fields /\ s.id = old.id /\ s.type = "CONNECTING"
        /\ s.high = <<>> /\ s.low = <<>>
    BY <1>1 DEF Emptied, Fields
  <2> HIDE DEF s
  <2>3. s.type \notin Paused  BY <2>2 DEF Paused
  <2>4. Kept  BY <1>1, <2>1, <2>2, <2>3, QuietChange
  <2>5. slot'[k] = s  BY <1>1, <2>1 DEF LifeInv, SlotShape
  <2> HIDE DEF k
  <2>6. PollOK'
    BY <1>1, <2>1, <2>2, <2>4, <2>5, KeptReserves, PollForces DEF LifeInv
  <2> QED  BY <1>3, <2>4, <2>6, EventKeeps DEF PollOK
<1>5. CASE net[Polled.id].peer \notin Hung
  <2> DEFINE s == [old EXCEPT !.type = "CONNECTED", !.writing = @ /\ ~nomore_sending_data(Polled)]
  <2>1. /\ slot' = [slot EXCEPT ![k] = s] /\ Tell(old.id, "OPEN") /\ poll' = Handled
    BY <1>1, <1>5 DEF ReportConnect, LifeInv, SlotShape
  <2>2. DOMAIN s = Fields /\ s.id = old.id /\ s.type = "CONNECTED"
    BY <1>1 DEF Fields
  <2> HIDE DEF s
  <2>3. s.type \notin Paused \cup {"INVALID", "RESERVE"} /\ "open" \in KnownAs(s.type)
    BY <2>2 DEF Paused, KnownAs
  <2>4. seen' = [seen EXCEPT ![old.id] = "open"]  BY <1>2, <2>1 DEF Tell, After
  <2>5. Kept  BY <1>1, <2>1, <2>2, <2>3, <2>4, OneSlotChanges DEF LifeInv
  <2>6. PollOK'  BY <1>1, <2>1, <2>5, KeptReserves, PollHandled DEF LifeInv
  <2> QED  BY <1>3, <2>5, <2>6, EventKeeps DEF PollOK
<1> QED  BY <1>4, <1>5

\* After the read flag, the write flag of the event is next.
LEMMA ReadOnEvent ==
    ASSUME LifeInv, poll.batch # <<>>
    PROVE  \/ ReadOn = Handled
           \/ \E e \in Events : EventOK(e) /\ e.k = E0.k /\ ReadOn = Again(e)
<1> DEFINE e == [E0 EXCEPT !.read = FALSE]
<1>1. E0 \in Events /\ EventOK(E0)  BY HeadEvent
<1>2. e \in Events /\ e.k = E0.k /\ ~e.read  BY <1>1 DEF Events
<1>3. EventOK(e)  BY <1>1, <1>2 DEF EventOK
<1>4. ReadOn = Again(e) \/ ReadOn = Handled  BY DEF ReadOn
<1> QED  BY <1>2, <1>3, <1>4

\* The same when a read is over and the event's write flag, if any, is next.
LEMMA PollReadOn ==
    ASSUME LifeInv, EventsStay, Polling, poll.batch # <<>>, poll' = ReadOn
    PROVE  PollOK'
BY ReadOnEvent, PollHandled, PollAgain

\* Nothing is told but what the services know already.
LEMMA SameToldKeeps ==
    ASSUME LifeInv, NEW id, NEW event, After(seen[id], event) = seen[id], Tell(id, event), UNCHANGED slot
    PROVE  Kept
<1>1. seen' = seen  BY DEF Tell, LifeInv, SlotShape
<1> QED  BY <1>1, NothingChanged

\* LifeInv holds on when a read fails, blocks or brings data.
LEMMA ReadKeeps ==
    ASSUME LifeInv, ReadFails \/ ReadBlocks \/ ReadData
    PROVE  LifeInv'
<1>1. /\ Polling /\ poll.batch # <<>> /\ E0.k \in Slots /\ Polled = slot[E0.k]
      /\ Polled.type \in Streams /\ Polled.type \notin Paused
      /\ Polled.id \in Ids /\ seen[Polled.id] \in KnownAs(Polled.type)
      /\ UNCHANGED <<slot, pipe, sender>>
  <2>1. Turn(Streams) /\ E0.read /\ UNCHANGED <<slot, pipe, sender>>
    BY DEF ReadFails, ReadBlocks, ReadData, Reading
  <2> QED  BY <2>1, TurnFacts DEF Streams
<1>2. seen[Polled.id] \in {"open", "closed"} /\ (~halfclose_read(Polled) => seen[Polled.id] = "open")
  BY <1>1 DEF Streams, Paused, KnownAs, halfclose_read
<1>3. Kept
  <2>1. CASE ReadFails
    <3>1. After(seen[Polled.id], "ERR") = seen[Polled.id]  BY <1>2 DEF After
    <3>2. Tell(Polled.id, "ERR")  BY <2>1 DEF ReadFails
    <3> QED  BY <1>1, <3>1, <3>2, SameToldKeeps
  <2>2. CASE seen' = seen  BY <1>1, <2>2, NothingChanged
  <2>3. CASE ~halfclose_read(Polled) /\ Tell(Polled.id, "DATA")
    <3>1. After(seen[Polled.id], "DATA") = seen[Polled.id]  BY <1>2, <2>3 DEF After
    <3> QED  BY <1>1, <2>3, <3>1, SameToldKeeps
  <2> QED  BY <2>1, <2>2, <2>3 DEF ReadBlocks, ReadData
<1>4. EventsStay  BY <1>3, KeptReserves DEF LifeInv
<1>5. PollOK'
  <2>1. CASE poll' = Handled  BY <1>1, <1>4, <2>1, PollHandled
  <2>2. CASE poll' = ReadOn  BY <1>1, <1>4, <2>2, PollReadOn
  <2>3. CASE poll' = Again(E0)
    <3>1. E0 \in Events /\ EventOK(E0)  BY <1>1, HeadEvent
    <3> QED  BY <1>1, <1>4, <2>3, <3>1, PollAgain
  <2> QED  BY <2>1, <2>2, <2>3 DEF ReadFails, ReadBlocks, ReadData
<1> QED  BY <1>1, <1>3, <1>5, EventKeeps DEF PollOK

\* force_close of the event's slot
LEMMA EventForces ==
    ASSUME LifeInv, UNCHANGED <<seen, pipe, sender>>, Polling, poll.batch # <<>>,
           NEW k \in Slots, slot[k].type \notin {"INVALID", "RESERVE"},
           slot' = [slot EXCEPT ![k] = Emptied(@)],
           NEW event \in {"CLOSE", "ERR", "none"}, event = "CLOSE" => seen[slot[k].id] \in Closable,
           \/ poll' = [Handled EXCEPT !.forcing = ForceClose(k, event, FALSE)]
           \/ poll' = [ReadOn EXCEPT !.forcing = ForceClose(k, event, FALSE)]
    PROVE  LifeInv'
<1> DEFINE s == Emptied(slot[k])
<1>1. slot' = [slot EXCEPT ![k] = s]  OBVIOUS
<1>2. SlotOK(k) /\ DOMAIN slot[k] = Fields  BY DEF LifeInv, SlotsOK, SlotShape
<1>3. /\ DOMAIN s = Fields /\ s.id = slot[k].id /\ s.type = slot[k].type
      /\ s.reading = slot[k].reading /\ s.dw = slot[k].dw /\ s.high = <<>> /\ s.low = <<>>
  BY <1>2 DEF Emptied, Fields
<1>4. slot'[k] = s  BY <1>1 DEF LifeInv, SlotShape
<1> HIDE DEF s
<1>5. Kept
  <2>1. seen' = seen /\ s.type # "RESERVE"  BY <1>3
  <2>2. s.type \in Paused => ~s.reading /\ s.dw = <<>>  BY <1>2, <1>3 DEF SlotOK
  <2>3. s.type # "INVALID" => seen[slot[k].id] \in KnownAs(s.type)  BY <1>2, <1>3 DEF SlotOK
  <2> QED  BY <1>1, <1>3, <2>1, <2>2, <2>3, QuietChange
<1>6. EventsStay  BY <1>5, KeptReserves DEF LifeInv
<1>7. slot'[k].type \notin {"INVALID", "RESERVE"} /\ (event = "CLOSE" => seen'[slot'[k].id] \in Closable)
  BY <1>3, <1>4
<1>8. \/ poll' = [Handled EXCEPT !.forcing = ForceClose(k, event, FALSE)]
      \/ \E e \in Events : /\ poll.batch # <<>> /\ EventOK(e) /\ e.k = E0.k
                           /\ poll' = [Again(e) EXCEPT !.forcing = ForceClose(k, event, FALSE)]
  BY ReadOnEvent
<1>9. FALSE \in BOOLEAN  OBVIOUS
<1>10. PollOK'  BY <1>6, <1>7, <1>8, <1>9, PollForces
<1> QED  BY <1>5, <1>10, EventKeeps DEF PollOK

\* LifeInv holds on when a read meets the peer's end.
LEMMA ReadEndKeeps ==
    ASSUME LifeInv, ReadEnd
    PROVE  LifeInv'
<1> DEFINE k == E0.k
           old == slot[k]
<1>1. /\ Polling /\ poll.batch # <<>> /\ k \in Slots /\ Polled = old /\ DOMAIN old = Fields
      /\ old.type \in Streams /\ old.type \notin Paused \cup {"INVALID", "RESERVE"}
      /\ old.id \in Ids /\ seen[old.id] \in KnownAs(old.type)
      /\ UNCHANGED <<pipe, sender>>
  <2>1. Turn(Streams) /\ E0.read /\ UNCHANGED <<pipe, sender>>  BY DEF ReadEnd, Reading
  <2> QED  BY <2>1, TurnFacts DEF Streams
<1>2. ~halfclose_read(old) => seen[old.id] = "open"
  BY <1>1 DEF Streams, Paused, KnownAs, halfclose_read
<1>3. ASSUME slot' = [slot EXCEPT ![k] = Emptied(@)], seen' = seen,
             NEW event \in {"none", "CLOSE"}, event = "CLOSE" => ~halfclose_read(old),
             \/ poll' = [Handled EXCEPT !.forcing = ForceClose(k, event, FALSE)]
             \/ poll' = [ReadOn EXCEPT !.forcing = ForceClose(k, event, FALSE)]
      PROVE  LifeInv'
  <2>1. event \in {"CLOSE", "ERR", "none"} /\ (event = "CLOSE" => seen[slot[k].id] \in Closable)
    BY <1>2, <1>3 DEF Closable
  <2> HIDE DEF k
  <2> QED  BY <1>1, <1>3, <2>1, EventForces
<1>4. ASSUME poll' = ReadOn, UNCHANGED <<slot, seen>> PROVE LifeInv'
  <2>1. Kept  BY <1>4, NothingChanged
  <2>2. PollOK'  BY <1>1, <1>4, <2>1, KeptReserves, PollReadOn DEF LifeInv
  <2> QED  BY <1>1, <2>1, <2>2, EventKeeps DEF PollOK
<1>5. ASSUME ~halfclose_read(old), poll' = Handled, Tell(old.id, "CLOSE"),
             slot' = [slot EXCEPT ![k].type = "HALFCLOSE_READ", ![k].reading = FALSE]
      PROVE  LifeInv'
  <2> DEFINE s == [old EXCEPT !.type = "HALFCLOSE_READ", !.reading = FALSE]
  <2>1. slot' = [slot EXCEPT ![k] = s]  BY <1>1, <1>5 DEF LifeInv, SlotShape
  <2>2. DOMAIN s = Fields /\ s.id = old.id /\ s.type = "HALFCLOSE_READ"
    BY <1>1 DEF Fields
  <2> HIDE DEF s
  <2>3. s.type \notin Paused \cup {"INVALID", "RESERVE"} /\ "closed" \in KnownAs(s.type)
    BY <2>2 DEF Paused, KnownAs
  <2>4. seen' = [seen EXCEPT ![old.id] = "closed"]  BY <1>2, <1>5 DEF Tell, After
  <2>5. Kept
    <3>1. k \in Slots /\ old.type \notin {"INVALID", "RESERVE"}  BY <1>1
    <3> HIDE DEF k
    <3> QED  BY <2>1, <2>2, <2>3, <2>4, <3>1, OneSlotChanges DEF LifeInv
  <2>6. PollOK'  BY <1>1, <1>5, <2>5, KeptReserves, PollHandled DEF LifeInv
  <2> QED  BY <1>1, <2>5, <2>6, EventKeeps DEF PollOK
<1>6. CASE old.closing /\ nomore_sending_data(old)
  <2>1. slot' = [slot EXCEPT ![k] = Emptied(@)] /\ seen' = seen
        /\ poll' = [ReadOn EXCEPT !.forcing = ForceClose(k, "none", FALSE)]
    BY <1>1, <1>6 DEF ReadEnd
  <2> QED  BY <1>3, <2>1
<1>7. CASE IF old.closing THEN ~nomore_sending_data(old) ELSE halfclose_read(old)
  <2>1. CASE old.closing
    <3>1. ~nomore_sending_data(old)  BY <1>7, <2>1
    <3> QED  BY <1>1, <1>4, <2>1, <3>1 DEF ReadEnd
  <2>2. CASE ~old.closing
    <3>1. halfclose_read(old)  BY <1>7, <2>2
    <3>2. old.type = "HALFCLOSE_READ"  BY <3>1 DEF halfclose_read
    <3> QED  BY <1>1, <1>4, <2>2, <3>1, <3>2 DEF ReadEnd
  <2> QED  BY <2>1, <2>2
<1>8. CASE old.type = "HALFCLOSE_WRITE" /\ ~old.closing
  <2>1. slot' = [slot EXCEPT ![k] = Emptied(@)] /\ seen' = seen /\ ~halfclose_read(old)
        /\ poll' = [Handled EXCEPT !.forcing = ForceClose(k, "CLOSE", FALSE)]
    BY <1>1, <1>8 DEF ReadEnd, halfclose_read
  <2> QED  BY <1>3, <2>1
<1>9. CASE ~old.closing /\ ~halfclose_read(old) /\ old.type # "HALFCLOSE_WRITE"
  <2>1. /\ slot' = [slot EXCEPT ![k].type = "HALFCLOSE_READ", ![k].reading = FALSE]
        /\ poll' = Handled /\ Tell(old.id, "CLOSE")
    BY <1>1, <1>9 DEF ReadEnd
  <2> QED  BY <1>5, <1>9, <2>1
<1> QED  BY <1>6, <1>7, <1>8, <1>9

\* LifeInv holds on when an EOF event is handled.
LEMMA EventEofKeeps ==
    ASSUME LifeInv, EventEof
    PROVE  LifeInv'
<1> DEFINE k == E0.k
           old == slot[k]
           event == IF halfclose_read(Polled) THEN "none" ELSE "CLOSE"
<1>1. /\ Polling /\ poll.batch # <<>> /\ k \in Slots /\ Polled = old
      /\ old.type \in Streams /\ old.type \notin {"INVALID", "RESERVE"}
      /\ old.id \in Ids /\ seen[old.id] \in KnownAs(old.type)
      /\ UNCHANGED <<seen, pipe, sender>>
  <2>1. Turn(Streams) /\ UNCHANGED <<seen, pipe, sender>>  BY DEF EventEof
  <2> QED  BY <2>1, TurnFacts DEF Streams
<1>2. event \in {"CLOSE", "ERR", "none"} /\ (event = "CLOSE" => seen[old.id] \in Closable)
  BY <1>1 DEF Streams, KnownAs, halfclose_read, Closable
<1>3. CASE E0.eof
  <2>1. slot' = [slot EXCEPT ![k] = Emptied(@)]
        /\ poll' = [Handled EXCEPT !.forcing = ForceClose(k, event, FALSE)]
    BY <1>3 DEF EventEof
  <2> HIDE DEF k, event
  <2> QED  BY <1>1, <1>2, <2>1, EventForces
<1>4. CASE ~E0.eof
  <2>1. poll' = Handled /\ slot' = slot  BY <1>4 DEF EventEof
  <2>2. Kept  BY <1>1, <2>1, NothingChanged
  <2>3. PollOK'  BY <1>1, <2>1, <2>2, KeptReserves, PollHandled DEF LifeInv
  <2> QED  BY <1>1, <2>2, <2>3, EventKeeps DEF PollOK
<1> QED  BY <1>3, <1>4

\* LifeInv holds on when an error event is handled.
LEMMA EventErrorKeeps ==
    ASSUME LifeInv, EventError
    PROVE  LifeInv'
<1>1. /\ Polling /\ poll.batch # <<>> /\ Polled.type \in Streams
      /\ seen[Polled.id] \in KnownAs(Polled.type)
  <2>1. Turn(Streams)  BY DEF EventError
  <2> QED  BY <2>1, TurnFacts DEF Streams
<1>2. /\ UNCHANGED <<slot, pipe, sender>> /\ poll' = Handled /\ Tell(Polled.id, "ERR")
  BY DEF EventError
<1>3. After(seen[Polled.id], "ERR") = seen[Polled.id]
  BY <1>1 DEF Streams, KnownAs, After
<1>4. Kept  BY <1>2, <1>3, SameToldKeeps
<1>5. PollOK'  BY <1>1, <1>2, <1>4, KeptReserves, PollHandled DEF LifeInv
<1> QED  BY <1>2, <1>4, <1>5, EventKeeps DEF PollOK

\* LifeInv holds on when a write event is left for later.
LEMMA WriteLaterKeeps ==
    ASSUME LifeInv, WriteLater
    PROVE  LifeInv'
<1>1. Turn(Streams) /\ UNCHANGED <<slot, seen, pipe, sender>> /\ poll' = Handled
  BY DEF WriteLater, Writing
<1>2. Polling /\ poll.batch # <<>>  BY <1>1 DEF Turn, EventNext
<1>3. Kept  BY <1>1, NothingChanged
<1>4. PollOK'  BY <1>1, <1>2, <1>3, KeptReserves, PollHandled DEF LifeInv
<1> QED  BY <1>1, <1>3, <1>4, EventKeeps DEF PollOK

\* The slot after send_buffer: the same, closed, or closed for writing when it was connected
LEMMA SendBufferKeeps ==
    ASSUME LifeInv, SendBuffer
    PROVE  LifeInv'
<1> DEFINE k == E0.k
           old == Polled
           s == [old EXCEPT !.high = old.dw \o @, !.dw = <<>>]
           high == SendList(s.high, net[s.id].room)
           low == IF high.rest = <<>> THEN SendList(s.low, net[s.id].room - Len(high.bytes))
                  ELSE [bytes |-> <<>>, rest |-> s.low]
           put == [s EXCEPT !.high = high.rest, !.low = low.rest]
           sent == RaiseUncomplete(put)
           after == IF ~send_buffer_empty(s) /\ net[s.id].peer # "up" THEN CloseWrite(s) ELSE Flushed(sent)
<1>1. /\ Polling /\ poll.batch # <<>> /\ k \in Slots /\ old = slot[k] /\ DOMAIN old = Fields
      /\ old.type \in Streams /\ old.type \notin {"INVALID", "RESERVE"}
      /\ old.id \in Ids /\ seen[old.id] \in KnownAs(old.type) /\ SlotOK(k)
      /\ poll' = Handled /\ UNCHANGED <<pipe, sender>>
  <2>1. Turn(Streams) /\ poll' = Handled /\ UNCHANGED <<pipe, sender>>  BY DEF SendBuffer, Writing
  <2> QED  BY <2>1, TurnFacts DEF Streams, LifeInv, SlotsOK
<1>2. /\ DOMAIN s = Fields /\ s.type = old.type /\ s.id = old.id /\ s.low = old.low
      /\ s.reading = old.reading /\ s.dw = <<>> /\ s.high = old.dw \o old.high
  BY <1>1 DEF Fields
<1>3. /\ slot' = [slot EXCEPT ![k] = after]
      /\ \/ seen' = seen
         \/ Tell(s.id, IF after.type # s.type /\ after.type = "HALFCLOSE_WRITE" THEN "ERR" ELSE "none")
  BY DEF SendBuffer
<1> HIDE DEF s, k
<1>4. /\ DOMAIN put = Fields /\ put.type = s.type /\ put.id = s.id
      /\ put.reading = s.reading /\ put.dw = <<>>
  BY <1>2 DEF Fields
<1>5. old.type \in Paused =>
        /\ send_buffer_empty(s)
        /\ put.high = <<>> /\ put.low = <<>> /\ ~put.reading
  <2> SUFFICES ASSUME old.type \in Paused PROVE send_buffer_empty(s) /\ put.high = <<>> /\ put.low = <<>> /\ ~put.reading
    OBVIOUS
  <2>1. old.high = <<>> /\ old.low = <<>> /\ old.dw = <<>> /\ ~old.reading  BY <1>1 DEF SlotOK
  <2>2. s.high = <<>> /\ s.low = <<>>  BY <1>2, <2>1
  <2>3. high.rest = <<>>  BY <2>2 DEF SendList
  <2>4. low.rest = <<>>  BY <2>2, <2>3 DEF SendList
  <2> HIDE DEF high, low
  <2> QED  BY <1>2, <2>1, <2>2, <2>3, <2>4 DEF send_buffer_empty, Fields
<1> HIDE DEF put
<1>6. /\ DOMAIN sent = Fields /\ sent.type = s.type /\ sent.id = s.id
      /\ sent.reading = s.reading /\ sent.dw = <<>>
      /\ old.type \in Paused => sent.high = <<>> /\ sent.low = <<>>
  BY <1>4, <1>5 DEF RaiseUncomplete, Fields
<1> HIDE DEF sent
<1> DEFINE same(q) ==
        /\ DOMAIN q = Fields /\ q.id = old.id /\ q.type = old.type
        /\ q.reading = old.reading /\ q.dw = <<>>
        /\ old.type \in Paused => q.high = <<>> /\ q.low = <<>>
           closed(q) ==
        DOMAIN q = Fields /\ q.id = old.id /\ q.type = "INVALID" /\ q.high = <<>> /\ q.low = <<>>
           halved(q) ==
        DOMAIN q = Fields /\ q.id = old.id /\ q.type = "HALFCLOSE_WRITE" /\ old.type = "CONNECTED"
<1>7. same(after) \/ closed(after) \/ halved(after)
  <2>1. CASE ~send_buffer_empty(s) /\ net[s.id].peer # "up"
    <3>1. after = CloseWrite(s)  BY <2>1
    <3>2. old.type \notin Paused  BY <1>5, <2>1
    <3> HIDE DEF after
    <3>3. CASE s.closing \/ halfclose_read(s)
      <4>1. after = Closed(s)  BY <3>1, <3>3 DEF CloseWrite
      <4>2. closed(after)  BY <1>2, <4>1 DEF Closed, Fields
      <4> QED  BY <4>2
    <3>4. CASE ~(s.closing \/ halfclose_read(s)) /\ s.type = "HALFCLOSE_WRITE"
      <4>1. after = s  BY <3>1, <3>4 DEF CloseWrite
      <4>2. same(after)  BY <1>2, <3>2, <4>1
      <4> QED  BY <4>2
    <3>5. CASE ~(s.closing \/ halfclose_read(s)) /\ s.type # "HALFCLOSE_WRITE"
      <4>1. after = [s EXCEPT !.type = "HALFCLOSE_WRITE", !.writing = FALSE]
        BY <3>1, <3>5 DEF CloseWrite
      <4>2. old.type = "CONNECTED"  BY <1>1, <1>2, <3>2, <3>5 DEF Streams, Paused, halfclose_read
      <4>3. halved(after)  BY <1>2, <4>1, <4>2 DEF Fields
      <4> QED  BY <4>3
    <3> QED  BY <3>3, <3>4, <3>5
  <2>2. CASE ~(~send_buffer_empty(s) /\ net[s.id].peer # "up")
    <3>1. after = Flushed(sent)  BY <2>2
    <3> HIDE DEF after
    <3>2. CASE ~send_buffer_empty(sent)
      <4>1. after = sent  BY <3>1, <3>2 DEF Flushed
      <4>2. same(after)  BY <1>2, <1>6, <4>1
      <4> QED  BY <4>2
    <3>3. CASE send_buffer_empty(sent) /\ sent.closing
      <4>1. after = Closed(sent)  BY <3>1, <3>3 DEF Flushed
      <4>2. closed(after)  BY <1>2, <1>6, <4>1 DEF Closed, Fields
      <4> QED  BY <4>2
    <3>4. CASE send_buffer_empty(sent) /\ ~sent.closing
      <4>1. after = [sent EXCEPT !.writing = FALSE]  BY <3>1, <3>4 DEF Flushed
      <4>2. same(after)  BY <1>2, <1>6, <4>1 DEF Fields
      <4> QED  BY <4>2
    <3> QED  BY <3>2, <3>3, <3>4
  <2> QED  BY <2>1, <2>2
<1> HIDE DEF after, old
<1>8. seen' = seen
  <2>1. ASSUME NEW event, Tell(old.id, event), After(seen[old.id], event) = seen[old.id] PROVE seen' = seen
    BY <2>1 DEF Tell, LifeInv, SlotShape
  <2>2. seen[old.id] \notin {"unborn", "connecting", "broken"}  BY <1>1 DEF KnownAs, Streams
  <2>3. After(seen[old.id], "ERR") = seen[old.id] /\ After(seen[old.id], "none") = seen[old.id]
    BY <2>2 DEF After
  <2> QED  BY <1>2, <1>3, <2>1, <2>3
<1>9. Kept
  <2> DEFINE q == after
  <2>1. CASE same(q)
    <3>1. q.type \in Paused => ~q.reading /\ q.high = <<>> /\ q.low = <<>>
      BY <1>1, <2>1 DEF SlotOK
    <3> QED  BY <1>1, <1>3, <1>8, <2>1, <3>1, QuietChange
  <2>2. CASE closed(q)
    <3>1. q.type \notin Paused  BY <2>2 DEF Paused
    <3> QED  BY <1>1, <1>3, <1>8, <2>2, <3>1, QuietChange
  <2>3. CASE halved(q)
    <3>1. q.type \notin Paused \cup {"INVALID", "RESERVE"} /\ seen[old.id] \in KnownAs(q.type)
      BY <1>1, <2>3 DEF Paused, KnownAs
    <3> QED  BY <1>1, <1>3, <1>8, <2>3, <3>1, QuietChange
  <2> QED  BY <1>7, <2>1, <2>2, <2>3
<1>10. PollOK'  BY <1>1, <1>9, KeptReserves, PollHandled DEF LifeInv
<1> QED  BY <1>1, <1>9, <1>10, EventKeeps DEF PollOK

\* A client is given a slot that was free, to which no event of the batch points.
LEMMA ReportAcceptKeeps ==
    ASSUME LifeInv, ReportAccept
    PROVE  LifeInv'
<1>1. /\ Polling /\ poll.batch # <<>> /\ poll' = Handled /\ UNCHANGED <<pipe, sender>>
  BY DEF ReportAccept, Turn, EventNext
<1>2. CASE UNCHANGED <<slot, seen>>
  <2>1. Kept  BY <1>2, NothingChanged
  <2>2. PollOK'  BY <1>1, <2>1, KeptReserves, PollHandled DEF LifeInv
  <2> QED  BY <1>1, <2>1, <2>2, EventKeeps DEF PollOK
<1>3. ASSUME NEW id \in Ids, Reserve(id), Socket!Announce(id, "accepted"),
             slot' = [slot EXCEPT ![HASH_ID(id)] = NewFd(id, "PACCEPT", FALSE)]
      PROVE  LifeInv'
  <2> DEFINE k == HASH_ID(id)
             s == NewFd(id, "PACCEPT", FALSE)
  <2>1. /\ id \in FreeIds /\ seen[id] = "unborn" /\ k \in Slots /\ slot[k].type = "INVALID"
        /\ seen' = [seen EXCEPT ![id] = "accepted"] /\ sender' = sender
    BY <1>1, <1>3, HashInSlots DEF Reserve, FreeIds, Socket!Announce
  <2>2. DOMAIN slot[k] = Fields /\ slot[k].high = <<>> /\ slot[k].low = <<>>
    BY <2>1 DEF LifeInv, SlotShape, SlotsOK, SlotOK
  <2>3. /\ DOMAIN s = Fields /\ s.type = "PACCEPT" /\ s.id = id /\ s.high = <<>> /\ s.low = <<>>
        /\ ~s.reading /\ s.dw = <<>>
    BY <2>2 DEF NewFd, Fields
  <2>4. "accepted" \in KnownAs(s.type)  BY <2>3 DEF KnownAs
  <2>5. slot' = [slot EXCEPT ![HASH_ID(id)] = s]  BY <1>3
  <2> HIDE DEF s
  <2>6. SlotShape' /\ ToldInOrder' /\ SlotsOK'  BY <2>1, <2>3, <2>4, <2>5, SlotGiven
  <2>7. SendersOK' /\ EventsStay  BY <2>1, <2>3, <2>4, <2>5, SlotGiven
  <2>8. \A q : RequestOK(q) => RequestOK(q)'  BY <2>1, <2>3, <2>4, <2>5, SlotGiven
  <2>9. Reserves
    <3>1. slot'[k].type = "PACCEPT" /\ \A j \in Slots : j # k => slot'[j] = slot[j]
      BY <2>1, <2>3, <2>5 DEF LifeInv, SlotShape
    <3> QED  BY <2>8, <3>1 DEF Reserves
  <2>10. PipeShape' /\ PipeOK'  BY <1>1, <2>9, PipeUnchanged DEF LifeInv
  <2>11. PollOK'  BY <1>1, <2>7, PollHandled
  <2> QED  BY <2>6, <2>7, <2>10, <2>11 DEF LifeInv, PollOK
<1>4. CASE UNCHANGED slot /\ Tell(Polled.id, "ERR")
  <2>1. Polled.id \in Ids /\ seen[Polled.id] = "listening"
    <3>1. Turn({"LISTEN"})  BY DEF ReportAccept
    <3>2. Polled.id \in Ids /\ seen[Polled.id] \in KnownAs("LISTEN")  BY <3>1, TurnFacts
    <3> QED  BY <3>2 DEF KnownAs
  <2>2. After(seen[Polled.id], "ERR") = seen[Polled.id]  BY <2>1 DEF After
  <2>3. seen' = seen  BY <1>4, <2>2 DEF Tell, LifeInv, SlotShape
  <2> QED  BY <1>2, <1>4, <2>3
<1> QED  BY <1>2, <1>3, <1>4 DEF ReportAccept

-----------------------------------------------------------------------------
(* The requests to open *)

\* The slot is the one that was reserved, and nothing else was asked of the socket before.
LEMMA OpeningTaken ==
    ASSUME LifeInv, pipe # <<>>, Head(pipe).op \in Opening, pipe' = Tail(pipe), UNCHANGED sender,
           NEW s, DOMAIN s = Fields, s.id = Asked,
           s.type \in {"INVALID", "CONNECTED", "CONNECTING", "PLISTEN"},
           s.type \in {"INVALID", "PLISTEN"} => s.high = <<>> /\ s.low = <<>>,
           s.type = "PLISTEN" => ~s.reading /\ s.dw = <<>>,
           NEW state, state \notin {"unborn", "broken"},
           s.type # "INVALID" => state \in KnownAs(s.type),
           slot' = [slot EXCEPT ![AskedSlot] = s],
           seen' = [seen EXCEPT ![Asked] = state]
    PROVE  /\ SlotShape' /\ ToldInOrder' /\ SlotsOK' /\ SendersOK' /\ EventsStay
           /\ PipeShape' /\ PipeOK'
<1>0. PICK k : k = AskedSlot  OBVIOUS
<1>1. /\ Asked \in Ids /\ k \in Slots /\ RequestOK(Head(pipe))
  BY <1>0, AskedFacts
<1>2. slot[k].type = "RESERVE" /\ slot[k].id = Asked
  BY <1>0, <1>1 DEF RequestOK, Asked, AskedSlot
<1>3. slot'[k] = s /\ \A j \in Slots : j # k => slot'[j] = slot[j]
  BY <1>0, <1>1 DEF LifeInv, SlotShape
<1>4. seen'[Asked] = state /\ \A i \in Ids : i # Asked => seen'[i] = seen[i]
  BY <1>1 DEF LifeInv, SlotShape
<1>5. SlotShape'  BY <1>1, <1>3 DEF LifeInv, SlotShape
<1>6. ToldInOrder'  BY <1>4, <1>5 DEF LifeInv, ToldInOrder, SlotShape
<1>7. \A i \in Ids : seen[i] # "unborn" => seen'[i] # "unborn"  BY <1>4
<1>8. SendersOK'  BY <1>7 DEF LifeInv, SendersOK, SenderOK
<1>9. SlotsOK'
  <2>1. SlotOK(k)'
    <3>1. HASH_ID(Asked) = k  BY <1>0 DEF AskedSlot
    <3> QED  BY <1>1, <1>3, <1>4, <3>1 DEF SlotOK, Paused
  <2>2. ASSUME NEW j \in Slots, j # k PROVE SlotOK(j)'
    <3>1. slot'[j] = slot[j]  BY <1>3, <2>2
    <3>2. ASSUME slot[j].type # "INVALID" PROVE seen'[slot[j].id] = seen[slot[j].id]
      <4>1. slot[j].id \in Ids /\ slot[j].id # Asked
        BY <1>1, <1>2, <2>2, <3>2, OneSlotEach, UsedIsKnown DEF LifeInv
      <4> QED  BY <1>4, <4>1
    <3> QED  BY <3>1, <3>2, UntouchedAlike DEF Alike, LifeInv, SlotsOK
  <2> QED  BY <2>1, <2>2 DEF SlotsOK
<1>10. EventsStay
  <2> SUFFICES ASSUME NEW e \in Events, EventOK(e) PROVE EventOK(e)'
    BY DEF EventsStay
  <2>1. CASE e.k = -1  BY <2>1 DEF EventOK
  <2>2. CASE e.k # -1
    <3>1. e.k \in Slots /\ e.k # k  BY <1>2, <2>2 DEF Events, EventOK
    <3> QED  BY <1>3, <3>1 DEF EventOK
  <2> QED  BY <2>1, <2>2
<1>11. PICK Elems : pipe \in Seq(Elems)  BY DEF LifeInv, PipeShape
<1>12. /\ pipe' \in Seq(Elems) /\ Len(pipe') = Len(pipe) - 1 /\ Len(pipe) \in Nat /\ Len(pipe) > 0
       /\ \A n \in 1 .. Len(pipe) - 1 : pipe'[n] = pipe[n + 1]
       /\ Head(pipe) = pipe[1]
  BY <1>11, Taking
<1>13. ASSUME NEW n \in 1 .. Len(pipe') PROVE RequestOK(pipe[n])'
  <2>1. n + 1 \in 1 .. Len(pipe) /\ pipe'[n] = pipe[n + 1]  BY <1>12
  <2>2. PICK q : q = pipe[n + 1]  OBVIOUS
  <2>3. RequestOK(q)  BY <2>1, <2>2 DEF LifeInv, PipeOK
  <2>4. q.id \in Ids /\ seen'[q.id] # "unborn"  BY <1>7, <2>3 DEF RequestOK
  <2>5. CASE q.op \notin Opening  BY <2>1, <2>2, <2>4, <2>5 DEF RequestOK
  <2>6. CASE q.op \in Opening
    <3>1. 1 \in 1 .. (n + 1) - 1  BY <1>12
    <3>2. pipe[1].id # q.id  BY <2>1, <2>2, <2>6, <3>1 DEF LifeInv, PipeOK, OpenedFirst
    <3>3. q.id # Asked  BY <1>12, <3>2 DEF Asked
    <3>4. slot[HASH_ID(q.id)].id = q.id  BY <2>3, <2>6 DEF RequestOK
    <3>5. HASH_ID(q.id) \in Slots /\ HASH_ID(q.id) # k  BY <1>2, <2>4, <3>3, <3>4, HashInSlots
    <3>6. slot'[HASH_ID(q.id)] = slot[HASH_ID(q.id)] /\ seen'[q.id] = seen[q.id]
      BY <1>3, <1>4, <2>4, <3>3, <3>5
    <3>7. pipe'[n] = q  BY <2>1, <2>2
    <3> QED  BY <2>3, <2>4, <2>6, <3>6, <3>7 DEF RequestOK
  <2> QED  BY <2>5, <2>6
<1>14. OpenedFirst'
  <2> SUFFICES ASSUME NEW n \in 1 .. Len(pipe'), pipe'[n].op \in Opening, NEW m \in 1 .. n - 1
               PROVE  pipe'[m].id # pipe'[n].id
    BY DEF OpenedFirst
  <2>1. n + 1 \in 1 .. Len(pipe) /\ pipe'[n] = pipe[n + 1]  BY <1>12
  <2>2. m + 1 \in 1 .. (n + 1) - 1 /\ pipe'[m] = pipe[m + 1]  BY <1>12
  <2> QED  BY <2>1, <2>2 DEF LifeInv, PipeOK, OpenedFirst
<1>15. ASSUME NEW j \in Slots, slot'[j].type = "RESERVE" PROVE WillOpen(j)'
  <2>1. j # k  BY <1>3, <1>15
  <2>2. slot'[j] = slot[j] /\ slot[j].type = "RESERVE"  BY <1>3, <1>15, <2>1
  <2>3. PICK n \in 1 .. Len(pipe) : pipe[n].op \in Opening /\ pipe[n].id = slot[j].id
    BY <2>2 DEF LifeInv, PipeOK, WillOpen
  <2>4. slot[j].id # Asked  BY <1>1, <1>2, <2>1, <2>2, OneSlotEach DEF LifeInv
  <2>5. n # 1  BY <1>12, <2>3, <2>4 DEF Asked
  <2>6. n - 1 \in 1 .. Len(pipe')  BY <1>12, <2>5
  <2>7. pipe'[n - 1] = pipe[n]  BY <1>12, <2>6
  <2> QED  BY <2>2, <2>3, <2>6, <2>7 DEF WillOpen
<1>16. ASSUME NEW j \in Slots PROVE WillOpen(j)'
  BY <1>15 DEF WillOpen
<1>17. PipeShape' /\ PipeOK'
  BY <1>12, <1>13, <1>14, <1>16 DEF PipeShape, PipeOK
<1> QED  BY <1>5, <1>6, <1>8, <1>9, <1>10, <1>17

\* LifeInv holds on when an open comes out of the pipe.
LEMMA OpenKeeps ==
    ASSUME LifeInv, OpenSocket
    PROVE  LifeInv'
<1> DEFINE old == slot[AskedSlot]
<1>1. /\ Polling /\ pipe # <<>> /\ Head(pipe).op = "O" /\ pipe' = Tail(pipe) /\ sender' = sender
  BY DEF OpenSocket, Command
<1>2. Head(pipe).op \in Opening  BY <1>1 DEF Opening
<1>3. /\ Asked \in Ids /\ AskedSlot \in Slots /\ DOMAIN old = Fields /\ RequestOK(Head(pipe))
  BY <1>1, AskedFacts
<1>4. seen[Asked] = "connecting" /\ old.type = "RESERVE" /\ old.id = Asked
  BY <1>1, <1>2, <1>3 DEF RequestOK, Asked, AskedSlot
<1>5. old.high = <<>> /\ old.low = <<>>
  BY <1>3, <1>4 DEF LifeInv, SlotsOK, SlotOK
<1>6. CASE /\ slot' = [slot EXCEPT ![AskedSlot].type = "INVALID"] /\ Tell(Asked, "ERR")
           /\ poll' = [poll EXCEPT !.batch = WithoutClosed(@, Asked)]
  <2> DEFINE s == [old EXCEPT !.type = "INVALID"]
  <2>1. DOMAIN s = Fields /\ s.id = Asked /\ s.type = "INVALID" /\ s.high = <<>> /\ s.low = <<>>
    BY <1>3, <1>4, <1>5 DEF Fields
  <2>2. slot' = [slot EXCEPT ![AskedSlot] = s]  BY <1>6
  <2>3. seen' = [seen EXCEPT ![Asked] = "failed"]  BY <1>4, <1>6 DEF Tell, After
  <2> HIDE DEF s
  <2>4. /\ SlotShape' /\ ToldInOrder' /\ SlotsOK' /\ SendersOK' /\ EventsStay
        /\ PipeShape' /\ PipeOK'
    BY <1>1, <1>2, <2>1, <2>2, <2>3, OpeningTaken
  <2>5. PollOK'  BY <1>1, <1>6, <2>4, PollCleared
  <2> QED  BY <2>4, <2>5 DEF LifeInv, PollOK
<1>7. CASE /\ slot' = [slot EXCEPT ![AskedSlot] = NewFd(Asked, "CONNECTED", TRUE)]
           /\ Tell(Asked, "OPEN") /\ poll' = poll
  <2> DEFINE s == NewFd(Asked, "CONNECTED", TRUE)
  <2>1. DOMAIN s = Fields /\ s.id = Asked /\ s.type = "CONNECTED"
    BY <1>3 DEF NewFd, AskedSlot, Fields
  <2>2. slot' = [slot EXCEPT ![AskedSlot] = s]  BY <1>7
  <2>3. seen' = [seen EXCEPT ![Asked] = "open"]  BY <1>4, <1>7 DEF Tell, After
  <2> HIDE DEF s
  <2>4. "open" \in KnownAs(s.type)  BY <2>1 DEF KnownAs
  <2>5. /\ SlotShape' /\ ToldInOrder' /\ SlotsOK' /\ SendersOK' /\ EventsStay
        /\ PipeShape' /\ PipeOK'
    BY <1>1, <1>2, <2>1, <2>2, <2>3, <2>4, OpeningTaken
  <2>6. PollOK'  BY <1>1, <1>7, <2>5, PollUnchanged
  <2> QED  BY <2>5, <2>6 DEF LifeInv, PollOK
<1>8. CASE /\ slot' = [slot EXCEPT ![AskedSlot] =
                        [NewFd(Asked, "CONNECTING", TRUE) EXCEPT !.writing = TRUE]]
           /\ UNCHANGED <<poll, seen>>
  <2> DEFINE s == [NewFd(Asked, "CONNECTING", TRUE) EXCEPT !.writing = TRUE]
  <2>1. DOMAIN s = Fields /\ s.id = Asked /\ s.type = "CONNECTING"
    BY <1>3 DEF NewFd, AskedSlot, Fields
  <2>2. slot' = [slot EXCEPT ![AskedSlot] = s]  BY <1>8
  <2>3. seen' = [seen EXCEPT ![Asked] = "connecting"]  BY <1>3, <1>4, <1>8 DEF LifeInv, SlotShape
  <2> HIDE DEF s
  <2>4. "connecting" \in KnownAs(s.type)  BY <2>1 DEF KnownAs
  <2>5. /\ SlotShape' /\ ToldInOrder' /\ SlotsOK' /\ SendersOK' /\ EventsStay
        /\ PipeShape' /\ PipeOK'
    BY <1>1, <1>2, <2>1, <2>2, <2>3, <2>4, OpeningTaken
  <2>6. PollOK'  BY <1>1, <1>8, <2>5, PollUnchanged
  <2> QED  BY <2>5, <2>6 DEF LifeInv, PollOK
<1> QED  BY <1>6, <1>7, <1>8 DEF OpenSocket

\* LifeInv holds on when a listen comes out of the pipe.
LEMMA ListenSocketKeeps ==
    ASSUME LifeInv, ListenSocket
    PROVE  LifeInv'
<1> DEFINE old == slot[AskedSlot]
<1>1. /\ Polling /\ pipe # <<>> /\ Head(pipe).op = "L" /\ pipe' = Tail(pipe) /\ sender' = sender
  BY DEF ListenSocket, Command
<1>2. Head(pipe).op \in Opening  BY <1>1 DEF Opening
<1>3. /\ Asked \in Ids /\ AskedSlot \in Slots /\ DOMAIN old = Fields /\ RequestOK(Head(pipe))
  BY <1>1, AskedFacts
<1>4. seen[Asked] = "listening" /\ old.type = "RESERVE" /\ old.id = Asked
  BY <1>1, <1>2, <1>3 DEF RequestOK, Asked, AskedSlot
<1>5. old.high = <<>> /\ old.low = <<>>
  BY <1>3, <1>4 DEF LifeInv, SlotsOK, SlotOK
<1>6. CASE /\ slot' = [slot EXCEPT ![AskedSlot].type = "INVALID"] /\ Tell(Asked, "ERR")
           /\ poll' = [poll EXCEPT !.batch = WithoutClosed(@, Asked)]
  <2> DEFINE s == [old EXCEPT !.type = "INVALID"]
  <2>1. DOMAIN s = Fields /\ s.id = Asked /\ s.type = "INVALID" /\ s.high = <<>> /\ s.low = <<>>
    BY <1>3, <1>4, <1>5 DEF Fields
  <2>2. slot' = [slot EXCEPT ![AskedSlot] = s]  BY <1>6
  <2>3. seen' = [seen EXCEPT ![Asked] = "listening"]  BY <1>4, <1>6 DEF Tell, After
  <2> HIDE DEF s
  <2>4. /\ SlotShape' /\ ToldInOrder' /\ SlotsOK' /\ SendersOK' /\ EventsStay
        /\ PipeShape' /\ PipeOK'
    BY <1>1, <1>2, <2>1, <2>2, <2>3, OpeningTaken
  <2>5. PollOK'  BY <1>1, <1>6, <2>4, PollCleared
  <2> QED  BY <2>4, <2>5 DEF LifeInv, PollOK
<1>7. CASE slot' = [slot EXCEPT ![AskedSlot] = NewFd(Asked, "PLISTEN", FALSE)] /\ UNCHANGED <<poll, seen>>
  <2> DEFINE s == NewFd(Asked, "PLISTEN", FALSE)
  <2>1. /\ DOMAIN s = Fields /\ s.id = Asked /\ s.type = "PLISTEN" /\ s.high = <<>> /\ s.low = <<>>
        /\ ~s.reading /\ s.dw = <<>>
    BY <1>3, <1>5 DEF NewFd, AskedSlot, Fields
  <2>2. slot' = [slot EXCEPT ![AskedSlot] = s]  BY <1>7
  <2>3. seen' = [seen EXCEPT ![Asked] = "listening"]  BY <1>3, <1>4, <1>7 DEF LifeInv, SlotShape
  <2> HIDE DEF s
  <2>4. "listening" \in KnownAs(s.type)  BY <2>1 DEF KnownAs
  <2>5. /\ SlotShape' /\ ToldInOrder' /\ SlotsOK' /\ SendersOK' /\ EventsStay
        /\ PipeShape' /\ PipeOK'
    BY <1>1, <1>2, <2>1, <2>2, <2>3, <2>4, OpeningTaken
  <2>6. PollOK'  BY <1>1, <1>7, <2>5, PollUnchanged
  <2> QED  BY <2>5, <2>6 DEF LifeInv, PollOK
<1> QED  BY <1>6, <1>7 DEF ListenSocket

-----------------------------------------------------------------------------
(* The theorems *)

\* Every step keeps the invariant.
LEMMA LifeInvStep == LifeInv /\ [Next]_vars => LifeInv'
<1> SUFFICES ASSUME LifeInv, [Next]_vars PROVE LifeInv'  OBVIOUS
<1>1. CASE UNCHANGED vars
  BY <1>1, NoSlotTouched, SendersUnchanged, AskerKeeps DEF vars
<1>2. ASSUME NEW id \in Ids, Connect(id) \/ Listen(id) PROVE LifeInv'
  BY <1>2, ConnectKeeps, ListenKeeps
<1>3. ASSUME NEW id \in Ids, NEW op, Ask(op, id) PROVE LifeInv'
  BY <1>3, AskKeeps
<1>4. ASSUME NEW t \in Senders, SenderStep(t) PROVE LifeInv'
  BY <1>4, SenderStepKeeps
<1>5. ASSUME NEW t \in Senders, NEW id \in Ids, NEW low \in BOOLEAN, SendEnter(t, id, low) PROVE LifeInv'
  BY <1>5, SendEnterKeeps
<1>6. CASE SocketThread
  <2>1. CASE ForceCloseEnds \/ NoCommand \/ Wait \/ SendAborts
    BY <2>1, ForceCloseKeeps, NoCommandKeeps, WaitKeeps, AbortKeeps
  <2>2. CASE OpenSocket \/ ListenSocket \/ ResumeSocket \/ PauseSocket \/ CloseSocket
    BY <2>2, OpenKeeps, ListenSocketKeeps, ResumeKeeps, PauseKeeps, CloseKeeps
  <2>3. CASE TriggerWrite \/ SendSocket
    BY <2>3, TriggerKeeps, SendSocketKeeps
  <2>4. CASE EventOnInvalid \/ ReportConnect \/ ReportAccept
    BY <2>4, EventOnInvalidKeeps, ReportConnectKeeps, ReportAcceptKeeps
  <2>5. CASE ReadFails \/ ReadBlocks \/ ReadData \/ ReadEnd
    BY <2>5, ReadKeeps, ReadEndKeeps
  <2>6. CASE WriteLater \/ SendBuffer \/ EventError \/ EventEof
    BY <2>6, WriteLaterKeeps, SendBufferKeeps, EventErrorKeeps, EventEofKeeps
  <2> QED  BY <1>6, <2>1, <2>2, <2>3, <2>4, <2>5, <2>6 DEF SocketThread
<1>7. ASSUME NEW i \in Ids,
             PeerAccepts(i) \/ PeerRefuses(i) \/ PeerConnects(i) \/ PeerSends(i)
             \/ PeerEnds(i) \/ PeerResets(i) \/ PeerReads(i)
      PROVE  LifeInv'
  BY <1>7, PeerKeeps
<1> QED  BY <1>1, <1>2, <1>3, <1>4, <1>5, <1>6, <1>7 DEF Next

\* Slots, requests, events and what the services know of the sockets always fit together.
THEOREM LifeInvAlways == Spec => []LifeInv
<1>1. Init => LifeInv  BY FirstState
<1>2. LifeInv /\ [Next]_vars => LifeInv'  BY LifeInvStep
<1> QED  BY <1>1, <1>2, PTL DEF Spec

\* What is told of a socket is a step of Connection, or nothing new.
LEMMA TellIsPromised ==
    ASSUME LifeInv, ToldInOrder', NEW id, NEW event \in {"OPEN", "DATA", "CLOSE", "ERR", "none"},
           Tell(id, event)
    PROVE  [Socket!Next]_seen
<1> DEFINE state == After(seen[id], event)
<1>1. seen' = [seen EXCEPT ![id] = state]  BY DEF Tell
<1>2. CASE id \notin Ids
  BY <1>1, <1>2 DEF LifeInv, SlotShape
<1>3. CASE id \in Ids
  <2>1. seen'[id] = state /\ state # "broken"  BY <1>1, <1>3 DEF LifeInv, SlotShape, ToldInOrder
  <2>2. CASE state = seen[id]  BY <1>1, <2>2 DEF LifeInv, SlotShape
  <2>3. CASE state # seen[id]
    <3>1. CASE event = "OPEN"
      <4>1. seen[id] \in {"connecting", "accepted", "open"} /\ state = "open"
        BY <2>1, <2>3, <3>1 DEF After
      <4>2. Socket!Open(id)  BY <1>1, <4>1 DEF Socket!Open
      <4> QED  BY <1>3, <4>2 DEF Socket!Next
    <3>2. CASE event = "CLOSE"
      <4>1. seen[id] \in Closable /\ state = "closed"
        BY <2>1, <2>3, <3>2 DEF After, Closable
      <4>2. Socket!Close(id)  BY <1>1, <4>1 DEF Socket!Close, Closable
      <4> QED  BY <1>3, <4>2 DEF Socket!Next
    <3>3. CASE event = "ERR"
      <4>1. seen[id] = "connecting" /\ state = "failed"
        BY <2>1, <2>3, <3>3 DEF After
      <4>2. Socket!Error(id)  BY <1>1, <4>1 DEF Socket!Error
      <4> QED  BY <1>3, <4>2 DEF Socket!Next
    <3>4. CASE event \in {"DATA", "none"}
      <4>1. state = seen[id]  BY <2>1, <3>4 DEF After
      <4> QED  BY <2>3, <4>1
    <3> QED  BY <3>1, <3>2, <3>3, <3>4
  <2> QED  BY <2>2, <2>3
<1> QED  BY <1>2, <1>3

\* An id that is given out is a step of Connection.
LEMMA AnnounceIsPromised ==
    ASSUME NEW id \in Ids, NEW state \in {"connecting", "listening", "accepted"}, Socket!Announce(id, state)
    PROVE  Socket!Next
<1>1. state \in Socket!States  BY DEF Socket!States
<1> QED  BY <1>1 DEF Socket!Next

\* Where what is told is told in order, a step is one of Connection or a stutter.
LEMMA StepIsPromised ==
    ASSUME LifeInv, ToldInOrder', [Next]_vars
    PROVE  [Socket!Next]_seen
<1>1. CASE UNCHANGED vars  BY <1>1 DEF vars
<1>2. ASSUME NEW id \in Ids, Connect(id) \/ Listen(id) PROVE [Socket!Next]_seen
  BY <1>2, AnnounceIsPromised DEF Connect, Listen
<1>3. ASSUME NEW id \in Ids, NEW op, Ask(op, id) PROVE [Socket!Next]_seen
  BY <1>3 DEF Ask
<1>4. ASSUME NEW t \in Senders, SenderStep(t) PROVE [Socket!Next]_seen
  BY <1>4 DEF SenderStep, FirstLook, TryLock, LookAgain, WriteInstead, DirectWrite, Trigger,
         CountRequest, PushRequest
<1>5. ASSUME NEW t \in Senders, NEW id \in Ids, NEW low \in BOOLEAN, SendEnter(t, id, low)
      PROVE  [Socket!Next]_seen
  BY <1>5 DEF SendEnter
<1>6. CASE SocketThread
  <2>1. CASE ForceCloseEnds
    <3>1. poll.forcing.event \in {"OPEN", "DATA", "CLOSE", "ERR", "none"}
      BY <2>1 DEF ForceCloseEnds, Polling, LifeInv, PollShape, Forcings
    <3>2. Tell(slot[poll.forcing.k].id, poll.forcing.event)
      BY <2>1 DEF ForceCloseEnds
    <3> QED  BY <3>1, <3>2, TellIsPromised
  <2>2. CASE NoCommand \/ Wait \/ PauseSocket \/ TriggerWrite \/ SendSocket \/ SendAborts
             \/ EventOnInvalid \/ ReadBlocks \/ WriteLater \/ EventEof
    <3>1. seen' = seen
      BY <2>2 DEF NoCommand, Wait, PauseSocket, TriggerWrite, SendSocket, SendAborts,
             EventOnInvalid, ReadBlocks, WriteLater, EventEof
    <3> QED  BY <3>1
  <2>3. CASE OpenSocket \/ ListenSocket
    <3>1. seen' = seen \/ Tell(Asked, "ERR") \/ Tell(Asked, "OPEN")  BY <2>3 DEF OpenSocket, ListenSocket
    <3> QED  BY <3>1, TellIsPromised
  <2>4. CASE ResumeSocket
    <3>1. Tell(Asked, "ERR") \/ Tell(Asked, "OPEN") \/ Tell(Asked, "none")
      BY <2>4 DEF ResumeSocket
    <3> QED  BY <3>1, TellIsPromised
  <2>5. CASE CloseSocket
    <3>1. seen' = seen \/ Tell(Asked, "CLOSE")  BY <2>5 DEF CloseSocket
    <3> QED  BY <3>1, TellIsPromised
  <2>6. CASE ReportConnect
    <3>1. seen' = seen \/ Tell(Polled.id, "OPEN")  BY <2>6 DEF ReportConnect
    <3> QED  BY <3>1, TellIsPromised
  <2>7. CASE ReportAccept
    <3>1. seen' = seen \/ Tell(Polled.id, "ERR") \/ \E id \in Ids : Socket!Announce(id, "accepted")
      BY <2>7 DEF ReportAccept
    <3> QED  BY <3>1, AnnounceIsPromised, TellIsPromised
  <2>8. CASE ReadFails \/ ReadData \/ EventError
    <3>1. seen' = seen \/ Tell(Polled.id, "ERR") \/ Tell(Polled.id, "DATA")
      BY <2>8 DEF ReadFails, ReadData, EventError
    <3> QED  BY <3>1, TellIsPromised
  <2>9. CASE ReadEnd
    <3>1. seen' = seen \/ Tell(Polled.id, "CLOSE")  BY <2>9 DEF ReadEnd
    <3> QED  BY <3>1, TellIsPromised
  <2>10. CASE SendBuffer
    <3>1. seen' = seen \/ \E id : Tell(id, "ERR") \/ Tell(id, "none")  BY <2>10 DEF SendBuffer
    <3> QED  BY <3>1, TellIsPromised
  <2> QED  BY <1>6, <2>1, <2>2, <2>3, <2>4, <2>5, <2>6, <2>7, <2>8, <2>9, <2>10 DEF SocketThread
<1>7. ASSUME NEW i \in Ids,
             PeerAccepts(i) \/ PeerRefuses(i) \/ PeerConnects(i) \/ PeerSends(i)
             \/ PeerEnds(i) \/ PeerResets(i) \/ PeerReads(i)
      PROVE  [Socket!Next]_seen
  BY <1>7 DEF PeerAccepts, PeerRefuses, PeerConnects, PeerSends, PeerEnds, PeerResets, PeerReads, Peer
<1> QED  BY <1>1, <1>2, <1>3, <1>4, <1>5, <1>6, <1>7 DEF Next

\* The socket server implements Connection: however requests, events and closing sockets
\* interleave, and however often a slot is used again, the services are told of each socket what
\* they were promised (forward_message, close_socket, force_close and resume_socket).
THEOREM PromisedAlways == Spec => Promised
<1>1. Init => Socket!Init  BY DEF Init, Socket!Init
<1>2. LifeInv /\ LifeInv' /\ [Next]_vars => [Socket!Next]_seen
  BY StepIsPromised DEF LifeInv
<1> QED  BY <1>1, <1>2, LifeInvAlways, PTL DEF Spec, Promised, Socket!Spec

\* ASSERT of new_fd and of force_close: a request to open finds its slot as it was reserved, and
\* a slot that is being closed is in use (socket_server.c, lines 564 and 495).
THEOREM OpenFindsReservedAlways == Spec => []OpenFindsReserved
<1>1. LifeInv => OpenFindsReserved
  <2> SUFFICES ASSUME LifeInv PROVE OpenFindsReserved  OBVIOUS
  <2>1. DOMAIN slot = Slots  BY DEF LifeInv, SlotShape
  <2>2. PICK Elems : pipe \in Seq(Elems)  BY DEF LifeInv, PipeShape
  <2>3. ASSUME NEW n \in DOMAIN pipe, pipe[n].op \in {"O", "L"}
        PROVE  \E k \in DOMAIN slot : slot[k].id = pipe[n].id /\ slot[k].type = "RESERVE"
    <3>1. RequestOK(pipe[n])  BY <2>2, <2>3 DEF LifeInv, PipeOK
    <3>2. HASH_ID(pipe[n].id) \in Slots  BY <3>1, HashInSlots DEF RequestOK
    <3> QED  BY <2>1, <2>3, <3>1, <3>2 DEF RequestOK, Opening
  <2>4. ~Polling => slot[poll.forcing.k].type \notin {"INVALID", "RESERVE"}
    BY DEF LifeInv, ForcingOK, Polling
  <2> QED  BY <2>3, <2>4 DEF OpenFindsReserved
<1> QED  BY <1>1, LifeInvAlways, PTL

-----------------------------------------------------------------------------
(* What waits to be written, and who may write *)

Msgs == [from : Senders, left : Nat, low : BOOLEAN, to : Ids]
Buffers == [msg : Msgs, ptr : 0 .. MsgSize - 1]
Budget == [opens : Nat, asks : Nat, sends : [Senders -> Nat]]
NetFields == {"peer", "unread", "fin", "room"}
Calls == {"try", "lock", "look", "write", "trigger", "count", "push"}

\* What the services know of a socket to which something may have been written; it stays so
Sendable == {"accepted", "open", "closed"}

Unused == {"INVALID", "RESERVE"}
Carried == {"D", "P"}

\* Of a slot: the lists are of write buffers, of which only one of the high list is begun; from
\* new_fd on it is known to be TCP and `sending' counts for the slot's own socket
SlotTyped(s) ==
    /\ s.high \in Seq(Buffers) /\ s.low \in Seq(Buffers) /\ s.dw \in Seq(Buffers)
    /\ \A j \in 1 .. Len(s.low) : s.low[j].ptr = 0
    /\ s.type \in Unused => s.dw = <<>>
    /\ s.sending \in Int
    /\ \/ s.tcp = TRUE /\ s.tag = s.id /\ s.type # "RESERVE"
       \/ s.tcp = FALSE /\ s.type \in Unused

\* Of a request with a message, and of a sender: the message is for a socket the services
\* know
RequestTyped(r) == r.op \in Carried => r.msg \in Msgs /\ seen[r.id] # "unborn"
SenderTyped(t) ==
    sender[t] # Idle =>
        sender[t].pc \in Calls /\ sender[t].msg \in Msgs /\ seen[sender[t].msg.to] # "unborn"

\* Of dw_lock: who holds it sends on the slot's socket, and who writes holds it
LockOK ==
    /\ dw_lock \in [Slots -> Senders \cup {Free}]
    /\ \A k \in Slots : dw_lock[k] # Free =>
           LET t == dw_lock[k] IN sender[t].pc \in {"look", "write"} /\ K(t) = k
    /\ \A t \in Senders :
           /\ sender[t].pc \in {"look", "write"} => dw_lock[K(t)] = t
           /\ sender[t].pc = "write" => slot[K(t)].id = sender[t].msg.to

InPipe(i) == {n \in 1 .. Len(pipe) : pipe[n].op \in Carried /\ pipe[n].id = i}
AtPush(i) == {t \in Senders : sender[t].pc = "push" /\ sender[t].msg.to = i}
Underway(i) == Cardinality(InPipe(i)) + Cardinality(AtPush(i))
\* What a slot counts, also after it is closed and until it is used again
Tally(s) == IF s.tcp THEN s.sending ELSE 0
CountOK ==
    \A i \in Ids : LET s == slot[HASH_ID(i)]
                   IN  s.id = i /\ i \notin early => Tally(s) = Underway(i)

NetOK ==
    /\ net = [i \in Ids |-> net[i]]
    /\ \A i \in Ids : DOMAIN net[i] = NetFields /\ net[i].room \in Nat

SlotsTyped == \A k \in Slots : SlotTyped(slot[k])
RequestsTyped == \A n \in 1 .. Len(pipe) : RequestTyped(pipe[n])
SendersTyped == \A t \in Senders : SenderTyped(t)

SendInv ==
    /\ left \in Budget /\ NetOK
    /\ SlotsTyped /\ RequestsTyped /\ SendersTyped
    /\ LockOK /\ CountOK

-----------------------------------------------------------------------------
(* The messages under way, counted *)

\* The library's Cardinality is of finite sets; these are.
LEMMA UnderwayFinite ==
    ASSUME NEW i, NEW Elems, pipe \in Seq(Elems)
    PROVE  /\ IsFiniteSet(InPipe(i)) /\ Cardinality(InPipe(i)) \in Nat
           /\ IsFiniteSet(AtPush(i)) /\ Cardinality(AtPush(i)) \in Nat
<1>1. IsFiniteSet(1 .. Len(pipe))
  <2>1. 1 \in Int /\ Len(pipe) \in Int  OBVIOUS
  <2> QED  BY <2>1, FS_Interval
<1>2. InPipe(i) \in SUBSET (1 .. Len(pipe)) /\ AtPush(i) \in SUBSET Senders
  BY DEF InPipe, AtPush
<1>3. IsFiniteSet(InPipe(i)) /\ IsFiniteSet(AtPush(i))
  BY <1>1, <1>2, FS_Subset, SocketAssumption
<1> QED  BY <1>3, FS_CardinalityType

\* A request put at the end of the pipe.
LEMMA PipeGrows ==
    ASSUME NEW Elems, pipe \in Seq(Elems), NEW r, pipe' = Append(pipe, r), NEW i
    PROVE  Cardinality(InPipe(i)') =
               Cardinality(InPipe(i)) + (IF r.op \in Carried /\ r.id = i THEN 1 ELSE 0)
<1>1. /\ Len(pipe') = Len(pipe) + 1 /\ Len(pipe) \in Nat
      /\ \A n \in 1 .. Len(pipe) : pipe'[n] = pipe[n]
      /\ pipe'[Len(pipe) + 1] = r
  BY Appending
<1>2. IsFiniteSet(InPipe(i)) /\ Cardinality(InPipe(i)) \in Nat  BY UnderwayFinite
<1>3. Len(pipe) + 1 \notin InPipe(i)  BY <1>1 DEF InPipe
<1>4. CASE r.op \in Carried /\ r.id = i
  <2>1. InPipe(i)' = InPipe(i) \cup {Len(pipe) + 1}  BY <1>1, <1>4 DEF InPipe
  <2> QED  BY <1>2, <1>3, <1>4, <2>1, FS_AddElement
<1>5. CASE ~(r.op \in Carried /\ r.id = i)
  <2>1. InPipe(i)' = InPipe(i)  BY <1>1, <1>5 DEF InPipe
  <2> QED  BY <1>2, <1>5, <2>1
<1> QED  BY <1>4, <1>5

\* The first request taken off it.
LEMMA PipeShrinks ==
    ASSUME NEW Elems, pipe \in Seq(Elems), pipe # <<>>, pipe' = Tail(pipe), NEW i
    PROVE  Cardinality(InPipe(i)) = Cardinality(InPipe(i)') +
               (IF Head(pipe).op \in Carried /\ Head(pipe).id = i THEN 1 ELSE 0)
<1>1. /\ Len(pipe') = Len(pipe) - 1 /\ Len(pipe) \in Nat /\ Len(pipe) > 0
      /\ \A n \in 1 .. Len(pipe) - 1 : pipe'[n] = pipe[n + 1]
      /\ Head(pipe) = pipe[1]
  BY Taking
<1>2. IsFiniteSet(InPipe(i)) /\ Cardinality(InPipe(i)) \in Nat  BY UnderwayFinite
<1> DEFINE Later == InPipe(i) \ {1}
           Before == [n \in Later |-> n - 1]
<1>3. /\ \A n \in Later : n \in 2 .. Len(pipe) /\ n - 1 \in 1 .. Len(pipe')
                          /\ pipe'[n - 1] = pipe[n] /\ n - 1 \in InPipe(i)'
      /\ \A m \in InPipe(i)' : m + 1 \in Later /\ (m + 1) - 1 = m
  BY <1>1 DEF InPipe
<1>4. IsFiniteSet(Later)
      /\ Cardinality(Later) = IF 1 \in InPipe(i) THEN Cardinality(InPipe(i)) - 1
                              ELSE Cardinality(InPipe(i))
  BY <1>2, FS_RemoveElement
<1>5. Before \in Bijection(Later, InPipe(i)')
  <2>1. Before \in [Later -> InPipe(i)']  BY <1>3
  <2>2. \A n, m \in Later : Before[n] = Before[m] => n = m  BY <1>3
  <2>3. \A m \in InPipe(i)' : \E n \in Later : Before[n] = m  BY <1>3
  <2> HIDE DEF Later, Before
  <2> QED  BY <2>1, <2>2, <2>3, Fun_IsBij
<1>6. ExistsBijection(Later, InPipe(i)')  BY <1>5 DEF ExistsBijection
<1>7. Cardinality(InPipe(i)') = Cardinality(Later)
  <2> HIDE DEF Later, Before
  <2> QED  BY <1>4, <1>6, FS_Bijection
<1>8. 1 \in InPipe(i) <=> Head(pipe).op \in Carried /\ Head(pipe).id = i
  BY <1>1 DEF InPipe
<1> HIDE DEF Later, Before
<1> QED  BY <1>2, <1>4, <1>7, <1>8

\* One sender goes on.
LEMMA SenderCounts ==
    ASSUME NEW t \in Senders, \A u \in Senders : u # t => sender'[u] = sender[u], NEW i
    PROVE  Cardinality(AtPush(i)') + (IF t \in AtPush(i) THEN 1 ELSE 0)
           = Cardinality(AtPush(i)) + (IF t \in AtPush(i)' THEN 1 ELSE 0)
<1>1. AtPush(i) \in SUBSET Senders /\ AtPush(i)' \in SUBSET Senders  BY DEF AtPush
<1>2. IsFiniteSet(AtPush(i)) /\ IsFiniteSet(AtPush(i)')
  BY <1>1, FS_Subset, SocketAssumption
<1>3. Cardinality(AtPush(i)) \in Nat /\ Cardinality(AtPush(i)') \in Nat
  BY <1>2, FS_CardinalityType
<1>4. AtPush(i) \ {t} = AtPush(i)' \ {t}  BY DEF AtPush
<1>5. Cardinality(AtPush(i) \ {t})
          = IF t \in AtPush(i) THEN Cardinality(AtPush(i)) - 1 ELSE Cardinality(AtPush(i))
  BY <1>2, FS_RemoveElement
<1>6. Cardinality(AtPush(i)' \ {t})
          = IF t \in AtPush(i)' THEN Cardinality(AtPush(i)') - 1 ELSE Cardinality(AtPush(i)')
  BY <1>2, FS_RemoveElement
<1> PICK old : old = AtPush(i)  OBVIOUS
<1> PICK new : new = AtPush(i)'  OBVIOUS
<1>7. Cardinality(old \ {t}) = Cardinality(new \ {t})  BY <1>4
<1>8. /\ Cardinality(old \ {t}) = IF t \in old THEN Cardinality(old) - 1 ELSE Cardinality(old)
      /\ Cardinality(new \ {t}) = IF t \in new THEN Cardinality(new) - 1 ELSE Cardinality(new)
      /\ Cardinality(old) \in Nat /\ Cardinality(new) \in Nat
  BY <1>3, <1>5, <1>6
<1>9. Cardinality(new) + (IF t \in old THEN 1 ELSE 0) = Cardinality(old) + (IF t \in new THEN 1 ELSE 0)
  BY ONLY <1>7, <1>8
<1> QED  BY <1>9

-----------------------------------------------------------------------------
(* What send_list_tcp leaves *)

\* up is the sum of the bytes left in the first buffers of a list, for each number of them
Sums(list, up) ==
    up = [j \in 0 .. Len(list) |-> IF j = 0 THEN 0 ELSE up[j - 1] + Left(list[j])]
TheSums(list) == CHOOSE up : Sums(list, up)

\* It exists: there is no least number of buffers without one.
LEMMA SumsExist ==
    ASSUME NEW list \in Seq(Buffers)
    PROVE  /\ TheSums(list) \in [0 .. Len(list) -> Nat]
           /\ TheSums(list)[0] = 0
           /\ \A j \in 1 .. Len(list) :
                 /\ Left(list[j]) \in Nat \ {0} /\ list[j] \in Buffers
                 /\ TheSums(list)[j] = TheSums(list)[j - 1] + Left(list[j])
<1> DEFINE Upto(m, up) == /\ up \in [0 .. m -> Nat]
                          /\ \A j \in 0 .. m : up[j] = IF j = 0 THEN 0 ELSE up[j - 1] + Left(list[j])
           Without == {m \in Nat : m <= Len(list) /\ ~ \E up : Upto(m, up)}
<1>0. /\ Len(list) \in Nat
      /\ \A j \in 1 .. Len(list) : list[j] \in Buffers /\ Left(list[j]) \in Nat \ {0}
  <2>1. Len(list) \in Nat /\ \A j \in 1 .. Len(list) : list[j] \in Buffers  OBVIOUS
  <2>2. MsgSize \in Nat \ {0}  BY SocketAssumption
  <2>3. \A b \in Buffers : b.ptr \in 0 .. MsgSize - 1  BY DEF Buffers
  <2> QED  BY <2>1, <2>2, <2>3 DEF Left
<1>1. Without = {}
  <2> SUFFICES ASSUME Without # {} PROVE FALSE  OBVIOUS
  <2>1. PICK m \in Without : \A n \in Without : m <= n
    <3>1. Without \in SUBSET Nat  OBVIOUS
    <3> HIDE DEF Without
    <3> QED  BY <3>1, LeastElement
  <2>2. m \in Nat /\ m <= Len(list)  OBVIOUS
  <2>3. CASE m = 0
    <3>1. Upto(0, [j \in 0 .. 0 |-> 0])  OBVIOUS
    <3> QED  BY <2>3, <3>1
  <2>4. CASE m # 0
    <3>1. m - 1 \in Nat /\ m - 1 <= Len(list) /\ ~(m <= m - 1) /\ m \in 1 .. Len(list)
      BY <1>0, <2>2, <2>4
    <3>2. PICK up : Upto(m - 1, up)  BY <2>1, <3>1
    <3> DEFINE next == [j \in 0 .. m |-> IF j = m THEN up[m - 1] + Left(list[m]) ELSE up[j]]
    <3>3. up[m - 1] \in Nat /\ Left(list[m]) \in Nat  BY <1>0, <3>1, <3>2
    <3>4. next \in [0 .. m -> Nat]  BY <2>2, <3>2, <3>3
    <3>5. ASSUME NEW j \in 0 .. m
          PROVE  next[j] = IF j = 0 THEN 0 ELSE next[j - 1] + Left(list[j])
      <4>1. CASE j = m  BY <2>2, <2>4, <3>1, <4>1
      <4>2. CASE j # m
        <5>1. j \in 0 .. m - 1 /\ next[j] = up[j]  BY <2>2, <4>2
        <5>2. j # 0 => next[j - 1] = up[j - 1]  BY <2>2, <4>2
        <5> QED  BY <3>2, <5>1, <5>2
      <4> QED  BY <4>1, <4>2
    <3>6. Upto(m, next)
      <4> HIDE DEF next
      <4> QED  BY <3>4, <3>5
    <3> QED  BY <3>6
  <2> QED  BY <2>3, <2>4
<1>2. PICK up : Upto(Len(list), up)
  <2>1. Len(list) \in Nat /\ Len(list) <= Len(list) /\ Len(list) \notin Without  BY <1>0, <1>1
  <2> QED  BY <2>1
<1>3. Sums(list, up)  BY <1>2 DEF Sums
<1> PICK s : s = TheSums(list)  OBVIOUS
<1>4. Sums(list, s)  BY <1>3 DEF TheSums
<1>5. \A j \in 0 .. Len(list) : s[j] = IF j = 0 THEN 0 ELSE s[j - 1] + Left(list[j])
  BY <1>4 DEF Sums
<1> DEFINE Odd == {j \in Nat : j <= Len(list) /\ s[j] \notin Nat}
<1>6. Odd = {}
  <2> SUFFICES ASSUME Odd # {} PROVE FALSE  OBVIOUS
  <2>1. PICK m \in Odd : \A n \in Odd : m <= n
    <3>1. Odd \in SUBSET Nat  OBVIOUS
    <3> HIDE DEF Odd
    <3> QED  BY <3>1, LeastElement
  <2>2. m \in Nat /\ m <= Len(list) /\ s[m] \notin Nat  OBVIOUS
  <2>3. m # 0  BY <1>0, <1>5, <2>2
  <2>4. m - 1 \in Nat /\ m - 1 <= Len(list) /\ ~(m <= m - 1) /\ m \in 1 .. Len(list)
    BY <1>0, <2>2, <2>3
  <2>5. s[m - 1] \in Nat  BY <2>1, <2>4
  <2> QED  BY <1>0, <1>5, <2>2, <2>3, <2>4, <2>5
<1>7. s \in [0 .. Len(list) -> Nat]
  <2>1. \A j \in 0 .. Len(list) : s[j] \in Nat  BY <1>0, <1>6
  <2> QED  BY <1>4, <2>1 DEF Sums
<1>8. s[0] = 0 /\ \A j \in 1 .. Len(list) : s[j] = s[j - 1] + Left(list[j])
  BY <1>0, <1>5
<1> QED  BY <1>0, <1>7, <1>8

\* No more bytes are written than there is room for, and of what is left only the first may be
\* begun.
LEMMA SendListFacts ==
    ASSUME NEW list \in Seq(Buffers), NEW room \in Nat
    PROVE  LET r == SendList(list, room)
           IN  /\ r.rest \in Seq(Buffers)
               /\ Len(r.bytes) \in 0 .. room
               /\ \A j \in 2 .. Len(r.rest) : \E i \in 1 .. Len(list) : r.rest[j] = list[i]
<1>1. CASE list = <<>>
  <2>1. SendList(list, room) = [bytes |-> <<>>, rest |-> <<>>]  BY <1>1 DEF SendList
  <2> QED  BY <2>1, SocketAssumption
<1>2. CASE list # <<>>
  <2> PICK up : up = TheSums(list)  OBVIOUS
  <2> DEFINE n == Min(room, up[Len(list)])
             Of(x) == CHOOSE j \in 1 .. Len(list) : up[j - 1] < x /\ x <= up[j]
             bytes == [x \in 1 .. n |-> [msg |-> list[Of(x)].msg,
                                         byte |-> list[Of(x)].ptr + x - up[Of(x) - 1]]]
             Done(j) == up[j] <= n /\ (j < Len(list) => n < up[j + 1])
             done == CHOOSE j \in 0 .. Len(list) : Done(j)
             rest == [j \in 1 .. Len(list) - done |->
                         IF j = 1 THEN [list[done + 1] EXCEPT !.ptr = @ + n - up[done]]
                         ELSE list[done + j]]
  <2>1. SendList(list, room) = [bytes |-> bytes, rest |-> rest]
    BY SMTT(60), <1>2 DEF SendList, TheSums, Sums
  <2>2. /\ up \in [0 .. Len(list) -> Nat] /\ up[0] = 0 /\ Len(list) \in Nat
        /\ \A j \in 1 .. Len(list) :
              /\ list[j] \in Buffers
              /\ up[j] = up[j - 1] + Left(list[j])
    BY SumsExist
  <2>3. n \in 0 .. room /\ n <= up[Len(list)] /\ n \in Nat
    BY <2>2 DEF Min
  <2> HIDE DEF n
  <2>4. Len(bytes) = n
    <3> HIDE DEF Of
    <3> QED  BY <2>3
  <2>5. \E j \in 0 .. Len(list) : Done(j)
    <3> DEFINE Above == {j \in Nat : j \in 1 .. Len(list) /\ n < up[j]}
    <3>1. CASE Above = {}
      <4>1. Done(Len(list))
        <5>1. Len(list) \in Nat \ {0} /\ up[Len(list)] \in Nat  BY <1>2, <2>2
        <5>2. Len(list) \notin Above  BY <3>1
        <5>3. ~(n < up[Len(list)])  BY <5>1, <5>2
        <5> QED  BY <2>3, <5>1, <5>3
      <4>2. Len(list) \in 0 .. Len(list)  BY <2>2
      <4> HIDE DEF Done
      <4> QED  BY <4>1, <4>2
    <3>2. CASE Above # {}
      <4>1. PICK m \in Above : \A j \in Above : m <= j
        <5>1. Above \in SUBSET Nat  OBVIOUS
        <5> HIDE DEF Above
        <5> QED  BY <3>2, <5>1, LeastElement
      <4>2. m \in 1 .. Len(list) /\ n < up[m] /\ m - 1 \in 0 .. Len(list) /\ m - 1 \in Nat
            /\ (m - 1) + 1 = m /\ ~(m <= m - 1)
        BY <2>2
      <4>3. m - 1 \notin Above  BY <4>1, <4>2
      <4>4. up[m - 1] <= n
        <5>1. CASE m - 1 = 0  BY <2>2, <2>3, <5>1
        <5>2. CASE m - 1 # 0
          <6>1. m - 1 \in 1 .. Len(list)  BY <2>2, <4>2, <5>2
          <6>2. ~(n < up[m - 1])  BY <4>2, <4>3, <6>1
          <6>3. up[m - 1] \in Nat  BY <2>2, <4>2
          <6> QED  BY <2>3, <6>2, <6>3
        <5> QED  BY <5>1, <5>2
      <4>5. Done(m - 1)  BY <4>2, <4>4
      <4> HIDE DEF Done, Above
      <4> QED  BY <4>2, <4>5
    <3> QED  BY <3>1, <3>2
  <2>6. done \in 0 .. Len(list) /\ Done(done)
    <3> HIDE DEF Done
    <3> QED  BY <2>5
  <2> HIDE DEF done
  <2>7. \A j \in 1 .. Len(list) - done : done + j \in 1 .. Len(list)
    BY <2>2, <2>6
  <2>8. ASSUME NEW j \in 1 .. Len(list) - done
        PROVE  /\ rest[j] \in Buffers
               /\ j # 1 => rest[j] = list[done + j]
    <3>1. CASE j = 1
      <4>1. done + 1 \in 1 .. Len(list) /\ done < Len(list) /\ done \in 0 .. Len(list)
            /\ (done + 1) - 1 = done
        BY <2>2, <2>6, <2>7, <3>1
      <4> PICK b : b = list[done + 1]  OBVIOUS
      <4>2. b \in Buffers /\ up[done + 1] = up[done] + Left(b)  BY <2>2, <4>1
      <4>3. up[done] <= n /\ n < up[done] + Left(b) /\ up[done] \in Nat
        BY <2>2, <2>6, <4>1, <4>2
      <4>4. /\ b = [msg |-> b.msg, ptr |-> b.ptr] /\ b.msg \in Msgs /\ b.ptr \in 0 .. MsgSize - 1
            /\ MsgSize \in Nat
        BY <4>2, SocketAssumption DEF Buffers
      <4>5. b.ptr + n - up[done] \in 0 .. MsgSize - 1  BY SMTT(60), <2>3, <4>3, <4>4 DEF Left
      <4>6. [b EXCEPT !.ptr = @ + n - up[done]] = [msg |-> b.msg, ptr |-> b.ptr + n - up[done]]
        BY <4>4
      <4>7. rest[j] = [b EXCEPT !.ptr = @ + n - up[done]]  BY <3>1
      <4>8. rest[j] \in Buffers
        <5> PICK ptr : ptr = b.ptr + n - up[done]  OBVIOUS
        <5>1. rest[j] = [msg |-> b.msg, ptr |-> ptr] /\ ptr \in 0 .. MsgSize - 1
          BY <4>5, <4>6, <4>7
        <5> QED  BY ONLY <4>4, <5>1 DEF Buffers
      <4> QED  BY <3>1, <4>8
    <3>2. CASE j # 1
      <4>1. rest[j] = list[done + j]  BY <3>2
      <4> QED  BY <2>2, <2>7, <4>1
    <3> QED  BY <3>1, <3>2
  <2>9. rest \in Seq(Buffers) /\ Len(rest) = Len(list) - done
    <3>1. Len(list) - done \in Nat  BY <2>2, <2>6
    <3>2. rest = [j \in 1 .. Len(list) - done |-> rest[j]]  OBVIOUS
    <3> HIDE DEF rest
    <3> QED  BY <2>8, <3>1, <3>2
  <2>10. \A j \in 2 .. Len(rest) : \E i \in 1 .. Len(list) : rest[j] = list[i]
    <3> HIDE DEF rest
    <3> SUFFICES ASSUME NEW j \in 2 .. Len(rest) PROVE \E i \in 1 .. Len(list) : rest[j] = list[i]
      OBVIOUS
    <3>1. j \in 1 .. Len(list) - done /\ j # 1  BY <2>2, <2>6, <2>9
    <3> QED  BY <2>7, <2>8, <3>1
  <2> HIDE DEF bytes, rest
  <2> QED  BY <2>1, <2>3, <2>4, <2>9, <2>10
<1> QED  BY <1>1, <1>2

-----------------------------------------------------------------------------
(* What most steps leave alone *)

\* A socket that may have been written to stays so: nothing told takes that back.
SeenStays ==
    /\ \A i \in Ids : seen'[i] = "unborn" => seen[i] = "unborn"
    /\ \A i \in Ids : seen[i] \in Sendable => seen'[i] \in Sendable

\* Every step of Connection leaves such a socket so.
LEMMA SendableStays ==
    ASSUME LifeInv, ToldInOrder', [Next]_vars
    PROVE  SeenStays
<1>1. [Socket!Next]_seen  BY StepIsPromised
<1>2. seen = [i \in Ids |-> seen[i]]  BY DEF LifeInv, SlotShape
<1>3. CASE seen' = seen  BY <1>3 DEF SeenStays
<1>4. ASSUME NEW i \in Ids, NEW state \in Socket!States, Socket!Announce(i, state) PROVE SeenStays
  BY <1>2, <1>4 DEF Socket!Announce, SeenStays, Sendable
<1>5. ASSUME NEW i \in Ids, Socket!Open(i) PROVE SeenStays
  BY <1>2, <1>5 DEF Socket!Open, SeenStays, Sendable
<1>6. ASSUME NEW i \in Ids, Socket!Data(i) PROVE SeenStays
  BY <1>6 DEF Socket!Data, SeenStays
<1>7. ASSUME NEW i \in Ids, Socket!Error(i) PROVE SeenStays
  BY <1>2, <1>7 DEF Socket!Error, SeenStays, Sendable
<1>8. ASSUME NEW i \in Ids, Socket!Close(i) PROVE SeenStays
  BY <1>2, <1>8 DEF Socket!Close, SeenStays, Sendable
<1> QED  BY <1>1, <1>3, <1>4, <1>5, <1>6, <1>7, <1>8 DEF Socket!Next

\* The pipe neither loses nor gets a request with a message.
QuietPipe ==
    \/ pipe' = pipe
    \/ pipe # <<>> /\ Head(pipe).op \notin Carried /\ pipe' = Tail(pipe)
    \/ \E r : r.op \notin Carried /\ pipe' = Append(pipe, r)

\* Then the requests with a message are as they were, for each socket as many.
LEMMA RequestsStay ==
    ASSUME PipeShape, PipeOK, RequestsTyped, SeenStays, QuietPipe
    PROVE  /\ RequestsTyped'
           /\ \A i : Cardinality(InPipe(i)') = Cardinality(InPipe(i))
<1>1. PICK Elems : pipe \in Seq(Elems)  BY DEF PipeShape
<1>2. ASSUME NEW n \in 1 .. Len(pipe), NEW r, r = pipe[n] PROVE RequestTyped(r)'
  <2>1. r.id \in Ids  BY <1>2 DEF PipeOK, RequestOK
  <2>2. RequestTyped(r)  BY <1>2 DEF RequestsTyped
  <2>3. seen[r.id] # "unborn" => seen'[r.id] # "unborn"  BY <2>1 DEF SeenStays
  <2> QED  BY <2>2, <2>3 DEF RequestTyped
<1>3. \A i : Cardinality(InPipe(i)) \in Nat  BY <1>1, UnderwayFinite
<1>4. CASE pipe' = pipe
  <2>1. ASSUME NEW n \in 1 .. Len(pipe') PROVE RequestTyped(pipe[n])'
    <3> PICK r : r = pipe[n]  OBVIOUS
    <3>1. RequestTyped(r)' /\ pipe'[n] = r  BY <1>2, <1>4, <2>1
    <3> QED  BY <3>1 DEF RequestTyped
  <2> QED  BY <1>4, <2>1 DEF RequestsTyped, InPipe
<1>5. CASE pipe # <<>> /\ Head(pipe).op \notin Carried /\ pipe' = Tail(pipe)
  <2>1. /\ Len(pipe') = Len(pipe) - 1 /\ Len(pipe) \in Nat
        /\ \A n \in 1 .. Len(pipe) - 1 : pipe'[n] = pipe[n + 1]
    BY <1>1, <1>5, Taking
  <2>2. ASSUME NEW n \in 1 .. Len(pipe') PROVE RequestTyped(pipe[n])'
    <3> PICK r : r = pipe[n + 1]  OBVIOUS
    <3>1. n + 1 \in 1 .. Len(pipe) /\ pipe'[n] = r  BY <2>1
    <3>2. RequestTyped(r)'  BY <1>2, <3>1
    <3> QED  BY <3>1, <3>2 DEF RequestTyped
  <2>3. ASSUME NEW i PROVE Cardinality(InPipe(i)') = Cardinality(InPipe(i))
    <3>1. Cardinality(InPipe(i)) = Cardinality(InPipe(i)') + 0  BY <1>1, <1>5, PipeShrinks
    <3>2. IsFiniteSet(InPipe(i)')
      <4>1. IsFiniteSet(1 .. Len(pipe'))
        <5>1. 1 \in Int /\ Len(pipe') \in Int  BY <2>1
        <5> QED  BY <5>1, FS_Interval
      <4>2. InPipe(i)' \in SUBSET (1 .. Len(pipe'))  BY DEF InPipe
      <4> QED  BY <4>1, <4>2, FS_Subset
    <3>3. Cardinality(InPipe(i)') \in Nat  BY <3>2, FS_CardinalityType
    <3> QED  BY <3>1, <3>3
  <2> QED  BY <2>2, <2>3 DEF RequestsTyped
<1>6. ASSUME NEW r, r.op \notin Carried, pipe' = Append(pipe, r)
      PROVE  RequestsTyped' /\ \A i : Cardinality(InPipe(i)') = Cardinality(InPipe(i))
  <2>1. /\ Len(pipe') = Len(pipe) + 1 /\ Len(pipe) \in Nat
        /\ \A n \in 1 .. Len(pipe) : pipe'[n] = pipe[n]
        /\ pipe'[Len(pipe) + 1] = r
    BY <1>1, <1>6, Appending
  <2>2. ASSUME NEW n \in 1 .. Len(pipe') PROVE RequestTyped(pipe[n])'
    <3>1. CASE n \in 1 .. Len(pipe)
      <4> PICK q : q = pipe[n]  OBVIOUS
      <4>1. RequestTyped(q)' /\ pipe'[n] = q  BY <1>2, <2>1, <3>1
      <4> QED  BY <4>1 DEF RequestTyped
    <3>2. CASE n = Len(pipe) + 1  BY <1>6, <2>1, <3>2 DEF RequestTyped
    <3> QED  BY <2>1, <3>1, <3>2
  <2>3. ASSUME NEW i PROVE Cardinality(InPipe(i)') = Cardinality(InPipe(i))
    <3>1. Cardinality(InPipe(i)') = Cardinality(InPipe(i)) + 0  BY <1>1, <1>6, PipeGrows
    <3> QED  BY <1>3, <3>1
  <2> QED  BY <2>2, <2>3 DEF RequestsTyped
<1> QED  BY <1>4, <1>5, <1>6 DEF QuietPipe

\* The senders are where they were.
LEMMA SendersStay ==
    ASSUME SendersTyped, SeenStays, UNCHANGED sender
    PROVE  SendersTyped' /\ \A i : AtPush(i)' = AtPush(i)
<1>1. ASSUME NEW t \in Senders, sender[t] # Idle
      PROVE  seen'[sender[t].msg.to] # "unborn"
  <2>1. sender[t].msg \in Msgs /\ seen[sender[t].msg.to] # "unborn"
    BY <1>1 DEF SendersTyped, SenderTyped
  <2>2. PICK i : i = sender[t].msg.to  OBVIOUS
  <2>3. i \in Ids  BY <2>1, <2>2 DEF Msgs
  <2> QED  BY <2>1, <2>2, <2>3 DEF SeenStays
<1> QED  BY <1>1 DEF SendersTyped, SenderTyped, AtPush

\* Nobody takes or leaves a lock, and a locked slot stays the same socket's.
LEMMA LocksStay ==
    ASSUME SendersTyped, LockOK, UNCHANGED <<dw_lock, sender>>,
           \A k \in Slots : slot'[k].id = slot[k].id \/ dw_lock[k] = Free
    PROVE  LockOK'
<1>1. ASSUME NEW t \in Senders, sender[t].pc = "write"
      PROVE  slot'[K(t)].id = sender[t].msg.to
  <2>1. sender[t].msg.to \in Ids  BY <1>1 DEF SendersTyped, SenderTyped, Idle, Msgs
  <2>2. K(t) \in Slots  BY <2>1, HashInSlots DEF K
  <2>3. dw_lock[K(t)] # Free  BY <1>1, SocketAssumption DEF LockOK
  <2> QED  BY <1>1, <2>2, <2>3 DEF LockOK
<1> QED  BY <1>1 DEF LockOK, K

\* The counters, each with the messages under way for its socket
LEMMA CountsAre ==
    ASSUME \A i \in Ids : slot'[HASH_ID(i)].id = i /\ i \notin early'
               => (IF slot'[HASH_ID(i)].tcp THEN slot'[HASH_ID(i)].sending ELSE 0) = Underway(i)'
    PROVE  CountOK'
BY DEF CountOK, Tally, Underway, InPipe, AtPush

\* The slot counts for the same socket what it did.
Steady(s, new) ==
    /\ SlotTyped(new) /\ new.sending = s.sending /\ new.id = s.id /\ new.tcp = s.tcp
    /\ new.type \notin Unused => s.type \notin Unused

\* Where neither the counters nor the messages under way change, they agree as they did.
LEMMA CountsStay ==
    ASSUME CountOK, UNCHANGED early,
           \A i : Cardinality(InPipe(i)') = Cardinality(InPipe(i)),
           \A i : AtPush(i)' = AtPush(i),
           \A k \in Slots : /\ slot'[k].id = slot[k].id /\ slot'[k].tcp = slot[k].tcp
                           /\ slot'[k].sending = slot[k].sending
    PROVE  CountOK'
<1>1. ASSUME NEW i \in Ids, slot'[HASH_ID(i)].id = i, i \notin early'
      PROVE  (IF slot'[HASH_ID(i)].tcp THEN slot'[HASH_ID(i)].sending ELSE 0) = Underway(i)'
  <2>1. HASH_ID(i) \in Slots  BY HashInSlots
  <2>2. Tally(slot[HASH_ID(i)]) = Cardinality(InPipe(i)) + Cardinality(AtPush(i))
    BY <1>1, <2>1 DEF CountOK, Underway
  <2> QED  BY <2>1, <2>2 DEF Tally, Underway
<1> QED  BY <1>1, CountsAre

\* A step that leaves senders, locks and messages under way alone keeps the invariant if every slot is steady.
LEMMA QuietSends ==
    ASSUME LifeInv, SendInv, SeenStays, QuietPipe, NetOK', UNCHANGED <<dw_lock, sender, early>>, left' \in Budget,
           \A k \in Slots : Steady(slot[k], slot'[k])
    PROVE  SendInv'
<1>1. RequestsTyped' /\ \A i : Cardinality(InPipe(i)') = Cardinality(InPipe(i))
  BY RequestsStay DEF LifeInv, SendInv
<1>2. SendersTyped' /\ \A i : AtPush(i)' = AtPush(i)
  BY SendersStay DEF SendInv
<1>3. LockOK'
  BY LocksStay DEF SendInv, Steady
<1>4. SlotsTyped'
  BY DEF SlotsTyped, Steady
<1>5. CountOK'  BY <1>1, <1>2, CountsStay DEF SendInv, Steady
<1> QED  BY <1>1, <1>2, <1>3, <1>4, <1>5 DEF SendInv

\* No message is under way for a socket of which nothing is told that lets one send.
LEMMA NothingUnderway ==
    ASSUME NEW i, seen[i] = "unborn", RequestsTyped, SendersTyped
    PROVE  Underway(i) = 0
<1>1. InPipe(i) = {}  BY DEF InPipe, RequestsTyped, RequestTyped
<1>2. AtPush(i) = {}  BY DEF AtPush, SendersTyped, SenderTyped, Idle
<1> QED  BY <1>1, <1>2, FS_EmptySet DEF Underway

\* A slot is given to a socket for which nothing is under way that would be counted.
LEMMA GivenSends ==
    ASSUME LifeInv, SendInv, SeenStays, QuietPipe, NetOK', UNCHANGED <<dw_lock, sender, early>>, left' \in Budget,
           NEW id \in Ids, id \notin early => Underway(id) = 0,
           slot[HASH_ID(id)].id = id \/ dw_lock[HASH_ID(id)] = Free,
           NEW s, s.id = id, SlotTyped(s), Tally(s) = 0,
           slot' = [slot EXCEPT ![HASH_ID(id)] = s]
    PROVE  SendInv'
<1> DEFINE k == HASH_ID(id)
<1>1. RequestsTyped' /\ \A i : Cardinality(InPipe(i)') = Cardinality(InPipe(i))
  BY RequestsStay DEF LifeInv, SendInv
<1>2. SendersTyped' /\ \A i : AtPush(i)' = AtPush(i)
  BY SendersStay DEF SendInv
<1>3. k \in Slots /\ slot'[k] = s /\ \A j \in Slots : j # k => slot'[j] = slot[j]
  BY HashInSlots DEF LifeInv, SlotShape
<1> HIDE DEF k
<1>4. LockOK'
  <2>1. \A j \in Slots : slot'[j].id = slot[j].id \/ dw_lock[j] = Free  BY <1>3 DEF k
  <2> QED  BY <2>1, LocksStay DEF SendInv
<1>5. SlotsTyped'
  <2> SUFFICES ASSUME NEW j \in Slots PROVE SlotTyped(slot'[j])  BY DEF SlotsTyped, SlotTyped
  <2>1. CASE j = k  BY <1>3, <2>1
  <2>2. CASE j # k
    <3>1. slot'[j] = slot[j] /\ SlotTyped(slot[j])  BY <1>3, <2>2 DEF SendInv, SlotsTyped
    <3> QED  BY <3>1
  <2> QED  BY <2>1, <2>2
<1>6. CountOK'
  <2>1. ASSUME NEW i \in Ids, slot'[HASH_ID(i)].id = i, i \notin early'
        PROVE  (IF slot'[HASH_ID(i)].tcp THEN slot'[HASH_ID(i)].sending ELSE 0) = Underway(i)'
    <3>0. PICK j \in Slots : j = HASH_ID(i)  BY HashInSlots
    <3>1. CASE j = k
      <4>1. i = id  BY <1>3, <2>1, <3>0, <3>1
      <4>2. Cardinality(InPipe(i)) + Cardinality(AtPush(i)) = 0  BY <2>1, <4>1 DEF Underway
      <4>3. (IF slot'[j].tcp THEN slot'[j].sending ELSE 0) = 0  BY <1>3, <3>1 DEF Tally
      <4> QED  BY <1>1, <1>2, <3>0, <4>2, <4>3 DEF Underway
    <3>2. CASE j # k
      <4>1. slot'[j] = slot[j]  BY <1>3, <3>2
      <4>2. Tally(slot[j]) = Cardinality(InPipe(i)) + Cardinality(AtPush(i))
        BY <2>1, <3>0, <4>1 DEF SendInv, CountOK, Underway
      <4> QED  BY <1>1, <1>2, <3>0, <4>1, <4>2 DEF Underway, Tally
    <3> QED  BY <3>1, <3>2
  <2> QED  BY <2>1, CountsAre
<1> QED  BY <1>1, <1>2, <1>4, <1>5, <1>6 DEF SendInv

-----------------------------------------------------------------------------
(* The senders *)

Holding == {"look", "write"}

\* A sender in a call: the slot its socket's id hashes to, and whose lock it may hold
LEMMA SenderFacts ==
    ASSUME LifeInv, SendInv, NEW t \in Senders, sender[t].pc # "idle"
    PROVE  /\ sender[t] # Idle
           /\ sender[t].msg \in Msgs /\ sender[t].msg.to \in Ids /\ sender[t].pc \in Calls
           /\ seen[sender[t].msg.to] # "unborn"
           /\ K(t) \in Slots /\ K(t) = HASH_ID(sender[t].msg.to)
           /\ \A pc : [sender[t] EXCEPT !.pc = pc] = [pc |-> pc, msg |-> sender[t].msg]
<1>1. sender[t] # Idle  BY DEF Idle
<1>2. sender[t].msg \in Msgs /\ sender[t].pc \in Calls /\ seen[sender[t].msg.to] # "unborn"
  BY <1>1 DEF SendInv, SendersTyped, SenderTyped
<1>3. sender[t].msg.to \in Ids  BY <1>2 DEF Msgs
<1>4. K(t) \in Slots  BY <1>3, HashInSlots DEF K
<1>5. DOMAIN sender[t] = {"pc", "msg"}
  BY <1>1 DEF LifeInv, SendersOK, SenderOK
<1>6. \A pc : [sender[t] EXCEPT !.pc = pc] = [pc |-> pc, msg |-> sender[t].msg]
  <2> SUFFICES ASSUME NEW pc
               PROVE  [sender[t] EXCEPT !.pc = pc] = [pc |-> pc, msg |-> sender[t].msg]
    OBVIOUS
  <2> QED  BY <1>5
<1> QED  BY <1>1, <1>2, <1>3, <1>4, <1>6 DEF K

\* What a step of one sender leaves of the other senders' part
LEMMA OthersTyped ==
    ASSUME LifeInv, SendersTyped, NEW t \in Senders, NEW new,
           sender' = [sender EXCEPT ![t] = new], UNCHANGED seen,
           new = Idle \/ (new.pc \in Calls /\ new.msg \in Msgs /\ seen[new.msg.to] # "unborn")
    PROVE  /\ sender'[t] = new /\ \A u \in Senders : u # t => sender'[u] = sender[u]
           /\ SendersTyped'
<1>1. sender'[t] = new /\ \A u \in Senders : u # t => sender'[u] = sender[u]
  BY DEF LifeInv, SendersOK
<1> QED  BY <1>1 DEF SendersTyped, SenderTyped

\* A sender that neither holds the lock nor is about to push, before and after.
LEMMA AsideSends ==
    ASSUME LifeInv, SendInv, NEW t \in Senders, NEW new,
           sender' = [sender EXCEPT ![t] = new],
           sender[t].pc \notin Holding \cup {"push"}, new.pc \notin Holding \cup {"push"},
           new = Idle \/ (new.pc \in Calls /\ new.msg \in Msgs /\ seen[new.msg.to] # "unborn"),
           QuietPipe, left' \in Budget, UNCHANGED <<slot, dw_lock, net, early, seen>>
    PROVE  SendInv'
<1>1. /\ sender'[t] = new /\ \A u \in Senders : u # t => sender'[u] = sender[u]
      /\ SendersTyped'
  BY OthersTyped DEF SendInv
<1>2. SeenStays  BY DEF SeenStays
<1>3. RequestsTyped' /\ \A i : Cardinality(InPipe(i)') = Cardinality(InPipe(i))
  BY <1>2, RequestsStay DEF LifeInv, SendInv
<1>4. SlotsTyped' /\ NetOK'  BY DEF SendInv, SlotsTyped, SlotTyped, NetOK
<1>5. \A i : AtPush(i)' = AtPush(i)  BY <1>1 DEF AtPush
<1>6. LockOK'
  <2>1. ASSUME NEW k \in Slots, dw_lock[k] # Free
        PROVE  sender'[dw_lock[k]] = sender[dw_lock[k]]
    <3>1. dw_lock[k] \in Senders /\ sender[dw_lock[k]].pc \in Holding
      BY <2>1 DEF SendInv, LockOK, Holding
    <3> QED  BY <1>1, <3>1
  <2>2. ASSUME NEW u \in Senders, sender'[u].pc \in Holding PROVE sender'[u] = sender[u]
    BY <1>1, <2>2
  <2> QED  BY <2>1, <2>2 DEF SendInv, LockOK, K, Holding
<1>7. CountOK'  BY <1>3, <1>5, CountsStay DEF SendInv
<1> QED  BY <1>1, <1>3, <1>4, <1>6, <1>7 DEF SendInv

\* The pipe and the counters are left alone by the steps with the lock.
LEMMA LockedSends ==
    ASSUME LifeInv, SendInv, NEW t \in Senders, NEW new,
           sender' = [sender EXCEPT ![t] = new],
           sender[t].pc # "push", new.pc # "push",
           new = Idle \/ (new.pc \in Calls /\ new.msg \in Msgs /\ seen[new.msg.to] # "unborn"),
           \A k \in Slots : Steady(slot[k], slot'[k]), NetOK',
           UNCHANGED <<pipe, left, early, seen>>, LockOK'
    PROVE  SendInv'
<1>1. /\ sender'[t] = new /\ \A u \in Senders : u # t => sender'[u] = sender[u]
      /\ SendersTyped'
  BY OthersTyped DEF SendInv
<1>2. SeenStays  BY DEF SeenStays
<1>3. RequestsTyped' /\ \A i : Cardinality(InPipe(i)') = Cardinality(InPipe(i))
  BY <1>2, RequestsStay DEF LifeInv, SendInv, QuietPipe
<1>4. SlotsTyped'  BY DEF SlotsTyped, Steady
<1>5. \A i : AtPush(i)' = AtPush(i)  BY <1>1 DEF AtPush
<1>7. CountOK'  BY <1>3, <1>5, CountsStay DEF SendInv, Steady
<1> QED  BY <1>1, <1>3, <1>4, <1>7 DEF SendInv

\* A slot left alone is steady, and so is the kernel's side.
LEMMA SameSteady ==
    ASSUME SendInv, UNCHANGED slot
    PROVE  \A k \in Slots : Steady(slot[k], slot'[k])
BY DEF SendInv, SlotsTyped, Steady

\* What is known of the descriptors holds on where they and the slots are left alone.
LEMMA SameNet == SendInv /\ UNCHANGED net => NetOK'
BY DEF SendInv, NetOK

\* The lock is given back.
LEMMA UnlockSends ==
    ASSUME LifeInv, SendInv, NEW t \in Senders, NEW new,
           sender' = [sender EXCEPT ![t] = new],
           sender[t].pc \in Holding, new.pc \notin Holding \cup {"push"},
           new = Idle \/ (new.pc \in Calls /\ new.msg \in Msgs /\ seen[new.msg.to] # "unborn"),
           \A k \in Slots : Steady(slot[k], slot'[k]), NetOK',
           UNCHANGED <<pipe, left, early, seen>>, Unlock(K(t))
    PROVE  SendInv'
<1>1. /\ sender'[t] = new /\ \A u \in Senders : u # t => sender'[u] = sender[u]
  BY OthersTyped DEF SendInv
<1>2. K(t) \in Slots /\ dw_lock[K(t)] = t
  BY SenderFacts DEF Holding, SendInv, LockOK
<1> PICK k : k = K(t)  OBVIOUS
<1>3. /\ dw_lock' \in [Slots -> Senders \cup {Free}]
      /\ dw_lock'[k] = Free /\ \A j \in Slots : j # k => dw_lock'[j] = dw_lock[j]
  BY <1>2 DEF Unlock, SendInv, LockOK
<1>4. ASSUME NEW u \in Senders, sender'[u].pc \in Holding
      PROVE  sender'[u] = sender[u] /\ u # t /\ K(u) # k /\ K(u) \in Slots
  <2>1. sender'[u] = sender[u] /\ u # t  BY <1>1, <1>4
  <2>2. dw_lock[K(u)] = u /\ K(u) \in Slots  BY <1>4, <2>1, SenderFacts DEF Holding, SendInv, LockOK
  <2> QED  BY <1>2, <2>1, <2>2
<1>5. ASSUME NEW j \in Slots, dw_lock'[j] # Free
      PROVE  /\ dw_lock'[j] = dw_lock[j] /\ dw_lock[j] \in Senders /\ dw_lock[j] # t
             /\ sender'[dw_lock[j]] = sender[dw_lock[j]]
  <2>1. j # k /\ dw_lock'[j] = dw_lock[j]  BY <1>3, <1>5
  <2>2. dw_lock[j] \in Senders /\ K(dw_lock[j]) = j  BY <1>5, <2>1 DEF SendInv, LockOK
  <2>3. dw_lock[j] # t  BY <2>1, <2>2
  <2> QED  BY <1>1, <2>1, <2>2, <2>3
<1>6. LockOK'
  <2>1. ASSUME NEW j \in Slots, dw_lock'[j] # Free
        PROVE  sender'[dw_lock'[j]].pc \in {"look", "write"} /\ HASH_ID(sender'[dw_lock'[j]].msg.to) = j
    BY <1>5, <2>1 DEF SendInv, LockOK, K
  <2>2. ASSUME NEW u \in Senders
        PROVE  /\ sender'[u].pc \in {"look", "write"} => dw_lock'[HASH_ID(sender'[u].msg.to)] = u
               /\ sender'[u].pc = "write" => slot'[HASH_ID(sender'[u].msg.to)].id = sender'[u].msg.to
    BY <1>3, <1>4 DEF SendInv, LockOK, K, Holding, Steady
  <2> QED  BY <1>3, <2>1, <2>2 DEF LockOK, K
<1> QED  BY <1>6, LockedSends DEF Holding

\* A service begins a send (socket_server_send).
LEMMA SendEnterSends ==
    ASSUME LifeInv, SendInv, NEW t \in Senders, NEW id \in Ids, NEW low \in BOOLEAN,
           SendEnter(t, id, low)
    PROVE  SendInv'
<1> DEFINE msg == [from |-> t, left |-> left.sends[t], low |-> low, to |-> id]
           entered == [pc |-> IF low THEN "count" ELSE "try", msg |-> msg]
<1>1. /\ sender[t].pc = "idle" /\ seen[id] # "unborn" /\ left.sends[t] > 0
      /\ left' = [left EXCEPT !.sends[t] = @ - 1]
      /\ UNCHANGED <<slot, dw_lock, pipe, net, early, seen>>
      /\ \/ sender' = [sender EXCEPT ![t] = Idle]
         \/ sender' = [sender EXCEPT ![t] = entered]
  BY DEF SendEnter, At
<1>2. left \in Budget /\ left.sends \in [Senders -> Nat] /\ left.sends[t] \in Nat
  BY DEF SendInv, Budget
<1>3. left' \in Budget
  <2>1. left.sends[t] - 1 \in Nat  BY <1>1, <1>2
  <2>2. [left.sends EXCEPT ![t] = @ - 1] \in [Senders -> Nat]  BY <1>2, <2>1
  <2> QED  BY <1>1, <1>2, <2>2 DEF Budget
<1>4. msg \in Msgs  BY <1>2 DEF Msgs
<1>5. seen[id] # "unborn"  BY <1>1
<1>6. msg.to = id /\ entered.msg = msg /\ entered.pc \in {"count", "try"}  OBVIOUS
<1> HIDE DEF msg, entered
<1>7. entered.pc \in Calls \ (Holding \cup {"push"})  BY <1>6 DEF Calls, Holding
<1>8. Idle.pc \notin Holding \cup {"push"}  BY DEF Idle, Holding
<1>9. sender[t].pc \notin Holding \cup {"push"}  BY <1>1 DEF Holding
<1>10. QuietPipe  BY <1>1 DEF QuietPipe
<1>11. CASE sender' = [sender EXCEPT ![t] = Idle]
  <2> PICK new : new = Idle  OBVIOUS
  <2>1. sender' = [sender EXCEPT ![t] = new] /\ new.pc \notin Holding \cup {"push"}
    BY <1>8, <1>11
  <2> QED  BY <1>1, <1>3, <1>9, <1>10, <2>1, AsideSends
<1>12. CASE sender' = [sender EXCEPT ![t] = entered]
  BY <1>1, <1>3, <1>4, <1>5, <1>6, <1>7, <1>9, <1>10, <1>12, AsideSends
<1> QED  BY <1>1, <1>11, <1>12

\* It looks at the slot without the lock.
LEMMA FirstLookSends ==
    ASSUME LifeInv, SendInv, NEW t \in Senders, FirstLook(t)
    PROVE  SendInv'
<1>1. sender[t].pc = "try"  BY DEF FirstLook, At
<1>2. PICK pc \in {"lock", "count"} : GoTo(t, pc)  BY DEF FirstLook
<1> PICK new : new = [pc |-> pc, msg |-> sender[t].msg]  OBVIOUS
<1>3. new.msg \in Msgs /\ seen[new.msg.to] # "unborn" /\ new.pc = pc
      /\ sender' = [sender EXCEPT ![t] = new]
  BY <1>1, <1>2, SenderFacts DEF GoTo
<1>4. new.pc \in Calls \ (Holding \cup {"push"}) /\ sender[t].pc \notin Holding \cup {"push"}
  BY <1>1, <1>3 DEF Calls, Holding
<1>5. QuietPipe /\ left' \in Budget /\ UNCHANGED <<slot, dw_lock, net, early, seen>>
  BY DEF FirstLook, QuietPipe, SendInv
<1> QED  BY <1>3, <1>4, <1>5, AsideSends

\* It gets the lock, or goes by the pipe.
LEMMA TryLockSends ==
    ASSUME LifeInv, SendInv, NEW t \in Senders, TryLock(t)
    PROVE  SendInv'
<1>1. sender[t].pc = "lock" /\ UNCHANGED <<slot, pipe, left, net, early, seen>>  BY DEF TryLock, At
<1>2. PICK pc : pc = IF dw_lock[K(t)] = Free THEN "look" ELSE "count"  OBVIOUS
<1> PICK new : new = [pc |-> pc, msg |-> sender[t].msg]  OBVIOUS
<1> PICK k : k = K(t)  OBVIOUS
<1>3. /\ new.msg = sender[t].msg /\ new.msg \in Msgs /\ seen[new.msg.to] # "unborn" /\ new.pc = pc
      /\ sender' = [sender EXCEPT ![t] = new] /\ k \in Slots
  BY <1>1, <1>2, SenderFacts DEF GoTo, TryLock
<1>4. CASE dw_lock[k] # Free
  <2>1. new.pc \in Calls \ (Holding \cup {"push"}) /\ sender[t].pc \notin Holding \cup {"push"}
    BY <1>1, <1>2, <1>3, <1>4 DEF Calls, Holding
  <2>2. QuietPipe /\ left' \in Budget /\ UNCHANGED dw_lock
    BY <1>1, <1>4 DEF TryLock, QuietPipe, SendInv
  <2> QED  BY <1>1, <1>3, <2>1, <2>2, AsideSends
<1>5. CASE dw_lock[k] = Free
  <2>1. new.pc = "look"  BY <1>2, <1>3, <1>5
  <2>2. /\ dw_lock' \in [Slots -> Senders \cup {Free}]
        /\ dw_lock'[k] = t /\ \A j \in Slots : j # k => dw_lock'[j] = dw_lock[j]
    BY <1>3, <1>5 DEF TryLock, SendInv, LockOK
  <2>3. sender'[t] = new /\ \A u \in Senders : u # t => sender'[u] = sender[u]
    BY <1>3 DEF LifeInv, SendersOK
  <2>4. LockOK'
    <3>1. ASSUME NEW j \in Slots, dw_lock'[j] # Free
          PROVE  sender'[dw_lock'[j]].pc \in {"look", "write"} /\ HASH_ID(sender'[dw_lock'[j]].msg.to) = j
      <4>1. CASE j = k  BY <1>3, <2>1, <2>2, <2>3, <4>1 DEF K
      <4>2. CASE j # k
        <5>1. /\ dw_lock[j] \in Senders /\ dw_lock'[j] = dw_lock[j]
              /\ sender[dw_lock[j]].pc \in {"look", "write"} /\ K(dw_lock[j]) = j
          BY <2>2, <3>1, <4>2 DEF SendInv, LockOK
        <5>2. dw_lock[j] # t  BY <1>1, <5>1
        <5> QED  BY <2>3, <5>1, <5>2 DEF K
      <4> QED  BY <4>1, <4>2
    <3>2. ASSUME NEW u \in Senders
          PROVE  /\ sender'[u].pc \in {"look", "write"} => dw_lock'[HASH_ID(sender'[u].msg.to)] = u
                 /\ sender'[u].pc = "write" => slot'[HASH_ID(sender'[u].msg.to)].id = sender'[u].msg.to
      <4>1. CASE u = t  BY <1>3, <2>1, <2>2, <2>3, <4>1 DEF K
      <4>2. CASE u # t
        <5>1. sender'[u] = sender[u]  BY <2>3, <4>2
        <5>2. ASSUME sender[u].pc \in {"look", "write"} PROVE dw_lock'[K(u)] = u
          <6>1. dw_lock[K(u)] = u /\ K(u) \in Slots
            BY <5>2, SenderFacts DEF SendInv, LockOK
          <6>2. K(u) # k  BY <1>5, <6>1, SocketAssumption
          <6> QED  BY <2>2, <6>1, <6>2
        <5> QED  BY <1>1, <5>1, <5>2 DEF SendInv, LockOK, K
      <4> QED  BY <4>1, <4>2
    <3> QED  BY <2>2, <3>1, <3>2 DEF LockOK, K
  <2>5. new.pc # "push" /\ sender[t].pc # "push" /\ new.pc \in Calls  BY <1>1, <2>1 DEF Calls
  <2>6. \A j \in Slots : Steady(slot[j], slot'[j])  BY <1>1, SameSteady
  <2>7. NetOK'  BY <1>1, SameNet
  <2> QED  BY <1>1, <1>3, <2>4, <2>5, <2>6, <2>7, LockedSends
<1> QED  BY <1>4, <1>5

\* It looks again with the lock: the slot is still its socket's and its lists are empty, or it goes by the pipe.
LEMMA LookAgainSends ==
    ASSUME LifeInv, SendInv, NEW t \in Senders, LookAgain(t)
    PROVE  SendInv'
<1>1. sender[t].pc = "look" /\ UNCHANGED <<slot, pipe, left, net, early, seen>>  BY DEF LookAgain, At
<1>2. PICK pc : pc = IF ListsEmpty(t) THEN "write" ELSE "count"  OBVIOUS
<1> PICK new : new = [pc |-> pc, msg |-> sender[t].msg]  OBVIOUS
<1>3. /\ new.msg = sender[t].msg /\ new.msg \in Msgs /\ seen[new.msg.to] # "unborn" /\ new.pc = pc
      /\ sender' = [sender EXCEPT ![t] = new]
  BY <1>1, <1>2, SenderFacts DEF GoTo, LookAgain
<1>4. (\A j \in Slots : Steady(slot[j], slot'[j])) /\ NetOK'  BY <1>1, SameSteady, SameNet
<1>5. CASE ~ListsEmpty(t)
  <2>1. new.pc \in Calls \ (Holding \cup {"push"}) /\ sender[t].pc \in Holding
    BY <1>1, <1>2, <1>3, <1>5 DEF Calls, Holding
  <2>2. Unlock(K(t))  BY <1>5 DEF LookAgain
  <2> QED  BY <1>1, <1>3, <1>4, <2>1, <2>2, UnlockSends
<1>6. CASE ListsEmpty(t)
  <2>1. new.pc = "write" /\ UNCHANGED dw_lock /\ slot[K(t)].id = sender[t].msg.to
    BY <1>2, <1>3, <1>6 DEF LookAgain, ListsEmpty, S, K
  <2>2. sender'[t] = new /\ \A u \in Senders : u # t => sender'[u] = sender[u]
    BY <1>3 DEF LifeInv, SendersOK
  <2>3. \A u \in Senders : sender'[u].msg = sender[u].msg /\
            (sender'[u].pc \in {"look", "write"} <=> sender[u].pc \in {"look", "write"})
    <3>1. CASE \A u \in Senders : u = t  BY <1>1, <1>3, <2>1, <2>2, <3>1
    <3> QED  BY <1>1, <1>3, <2>1, <2>2
  <2>4. LockOK'
    <3>1. ASSUME NEW j \in Slots, dw_lock'[j] # Free
          PROVE  sender'[dw_lock'[j]].pc \in {"look", "write"} /\ HASH_ID(sender'[dw_lock'[j]].msg.to) = j
      BY <2>1, <2>3, <3>1 DEF SendInv, LockOK, K
    <3>2. ASSUME NEW u \in Senders
          PROVE  /\ sender'[u].pc \in {"look", "write"} => dw_lock'[HASH_ID(sender'[u].msg.to)] = u
                 /\ sender'[u].pc = "write" => slot'[HASH_ID(sender'[u].msg.to)].id = sender'[u].msg.to
      BY <1>1, <2>1, <2>2, <2>3 DEF SendInv, LockOK, K
    <3> QED  BY <2>1, <3>1, <3>2 DEF SendInv, LockOK, K
  <2>5. new.pc # "push" /\ sender[t].pc # "push" /\ new.pc \in Calls  BY <1>1, <2>1 DEF Calls
  <2> QED  BY <1>1, <1>3, <1>4, <2>4, <2>5, LockedSends
<1> QED  BY <1>5, <1>6

\* With the lock, it finds messages under way or the socket not open: it goes by the pipe too.
LEMMA WriteInsteadSends ==
    ASSUME LifeInv, SendInv, NEW t \in Senders, WriteInstead(t)
    PROVE  SendInv'
<1>1. sender[t].pc = "write" /\ UNCHANGED <<slot, pipe, left, net, early, seen>> /\ GoTo(t, "count")
      /\ Unlock(K(t))
  BY DEF WriteInstead, At
<1> PICK new : new = [pc |-> "count", msg |-> sender[t].msg]  OBVIOUS
<1>3. /\ new.msg \in Msgs /\ seen[new.msg.to] # "unborn" /\ new.pc = "count"
      /\ sender' = [sender EXCEPT ![t] = new]
  BY <1>1, SenderFacts DEF GoTo
<1>4. (\A j \in Slots : Steady(slot[j], slot'[j])) /\ NetOK'  BY <1>1, SameSteady, SameNet
<1>5. new.pc \in Calls \ (Holding \cup {"push"}) /\ sender[t].pc \in Holding
  BY <1>1, <1>3 DEF Calls, Holding
<1> QED  BY <1>1, <1>3, <1>4, <1>5, UnlockSends

\* What a write puts into dw_buffer and takes from the room to write.
LEMMA DirectWriteSends ==
    ASSUME LifeInv, SendInv, NEW t \in Senders, DirectWrite(t)
    PROVE  SendInv'
<1> PICK msg : msg = sender[t].msg  OBVIOUS
<1> PICK k : k = K(t)  OBVIOUS
<1> PICK fd : fd = S(t).id  OBVIOUS
<1> PICK n : n = IF net[fd].peer = "up" THEN Min(net[fd].room, MsgSize) ELSE 0  OBVIOUS
<1>1. /\ sender[t].pc = "write" /\ UNCHANGED <<pipe, left, early, seen>> /\ Unlock(K(t)) /\ NotSending(t)
      /\ net' = [net EXCEPT ![fd].room = @ - n]
      /\ IF n = MsgSize
         THEN sender' = [sender EXCEPT ![t] = Idle] /\ slot' = slot
         ELSE GoTo(t, "trigger") /\ slot' = [slot EXCEPT ![k].dw = <<[msg |-> msg, ptr |-> n]>>]
  BY DEF DirectWrite, At
<1>2. /\ msg \in Msgs /\ k \in Slots /\ fd = msg.to /\ fd \in Ids
  BY <1>1, SenderFacts DEF SendInv, LockOK, S, K
<1>3. net[fd].room \in Nat /\ DOMAIN net[fd] = NetFields  BY <1>2 DEF SendInv, NetOK
<1>4. n \in Nat /\ n <= net[fd].room /\ n <= MsgSize /\ MsgSize \in Nat
  BY <1>3, SocketAssumption DEF Min
<1>5. NetOK'
  <2>1. net' = [i \in Ids |-> IF i = fd THEN [net[fd] EXCEPT !.room = @ - n] ELSE net[i]]
    BY <1>1, <1>2 DEF SendInv, NetOK
  <2>2. /\ DOMAIN [net[fd] EXCEPT !.room = @ - n] = NetFields
        /\ [net[fd] EXCEPT !.room = @ - n].room \in Nat
    BY <1>3, <1>4 DEF NetFields
  <2> QED  BY <2>1, <2>2 DEF SendInv, NetOK
<1>6. \A j \in Slots : Steady(slot[j], slot'[j])
  <2>1. CASE slot' = slot  BY <2>1, SameSteady
  <2>2. CASE n # MsgSize
    <3>1. n \in 0 .. MsgSize - 1  BY <1>4, <2>2
    <3>2. [msg |-> msg, ptr |-> n] \in Buffers  BY <1>2, <3>1 DEF Buffers
    <3> PICK buf : buf = [msg |-> msg, ptr |-> n]  OBVIOUS
    <3>3. <<buf>> \in Seq(Buffers)  BY <3>2
    <3>4. slot' = [slot EXCEPT ![k].dw = <<buf>>]  BY <1>1, <2>2
    <3>5. slot[k].type = "CONNECTED" /\ SlotTyped(slot[k]) /\ DOMAIN slot[k] = Fields
      BY <1>1, <1>2 DEF NotSending, S, K, SendInv, SlotsTyped, LifeInv, SlotShape
    <3>6. slot'[k] = [slot[k] EXCEPT !.dw = <<buf>>]
          /\ \A j \in Slots : j # k => slot'[j] = slot[j]
      BY <1>2, <3>4 DEF LifeInv, SlotShape
    <3>7. Steady(slot[k], slot'[k])
      BY <3>3, <3>5, <3>6 DEF Steady, SlotTyped, Fields, Unused
    <3> QED  BY <3>6, <3>7 DEF Steady, SendInv, SlotsTyped
  <2> QED  BY <1>1, <2>1, <2>2
<1>7. sender[t].pc \in Holding  BY <1>1 DEF Holding
<1>8. CASE n = MsgSize
  <2> PICK new : new = Idle  OBVIOUS
  <2>1. sender' = [sender EXCEPT ![t] = new] /\ new.pc \notin Holding \cup {"push"}
    BY <1>1, <1>8 DEF Idle, Holding
  <2> QED  BY <1>1, <1>5, <1>6, <1>7, <2>1, UnlockSends
<1>9. CASE n # MsgSize
  <2> PICK new : new = [pc |-> "trigger", msg |-> sender[t].msg]  OBVIOUS
  <2>1. /\ new.msg \in Msgs /\ seen[new.msg.to] # "unborn" /\ new.pc = "trigger"
        /\ sender' = [sender EXCEPT ![t] = new]
    BY <1>1, <1>9, SenderFacts DEF GoTo
  <2>2. new.pc \in Calls \ (Holding \cup {"push"})  BY <2>1 DEF Calls, Holding
  <2> QED  BY <1>1, <1>5, <1>6, <1>7, <2>1, <2>2, UnlockSends
<1> QED  BY <1>8, <1>9

\* It asks the socket thread to write what is left in dw_buffer.
LEMMA TriggerSends ==
    ASSUME LifeInv, SendInv, NEW t \in Senders, Trigger(t)
    PROVE  SendInv'
<1> PICK new : new = Idle  OBVIOUS
<1> PICK r : r = [op |-> "W", id |-> sender[t].msg.to]  OBVIOUS
<1>1. /\ sender[t].pc \notin Holding \cup {"push"} /\ new.pc \notin Holding \cup {"push"}
      /\ sender' = [sender EXCEPT ![t] = new]
  BY DEF Trigger, At, Idle, Holding
<1>2. r.op \notin Carried /\ pipe' = Append(pipe, r)  BY DEF Trigger, Request, Carried
<1>3. QuietPipe /\ left' \in Budget /\ UNCHANGED <<slot, dw_lock, net, early, seen>>
  BY <1>2 DEF Trigger, QuietPipe, SendInv
<1> QED  BY <1>1, <1>3, AsideSends

\* The counter of the slot goes up with the number of messages under way for its socket, and for
\* another socket than that of the request neither changes.
LEMMA CountRequestSends ==
    ASSUME LifeInv, SendInv, NEW t \in Senders, CountRequest(t)
    PROVE  SendInv'
<1> PICK to : to = sender[t].msg.to  OBVIOUS
<1> PICK k : k = K(t)  OBVIOUS
<1> PICK new : new = [pc |-> "push", msg |-> sender[t].msg]  OBVIOUS
<1>1. /\ sender[t].pc = "count" /\ UNCHANGED <<dw_lock, pipe, left, net, seen>>
      /\ slot' = IF slot[k].tcp /\ slot[k].tag = to
                 THEN [slot EXCEPT ![k].sending = @ + 1] ELSE slot
  BY DEF CountRequest, At, S, K
<1>12. early \subseteq early' /\ (to \notin early' => slot[k].id # to \/ slot[k].tcp)
  BY DEF CountRequest, TooEarly, S, K
<1>2. /\ new.msg = sender[t].msg /\ new.msg \in Msgs /\ new.pc = "push"
      /\ seen[new.msg.to] # "unborn" /\ new.pc \in Calls
      /\ sender' = [sender EXCEPT ![t] = new] /\ k \in Slots /\ k = HASH_ID(to) /\ to \in Ids
  BY <1>1, SenderFacts DEF GoTo, CountRequest, Calls
<1>3. /\ sender'[t] = new /\ \A u \in Senders : u # t => sender'[u] = sender[u]
      /\ SendersTyped'
  BY <1>1, <1>2, OthersTyped DEF SendInv
<1>4. SeenStays  BY <1>1 DEF SeenStays
<1>5. RequestsTyped' /\ \A i : Cardinality(InPipe(i)') = Cardinality(InPipe(i))
  BY <1>1, <1>4, RequestsStay DEF LifeInv, SendInv, QuietPipe
<1>6. /\ \A j \in Slots : j # k => slot'[j] = slot[j]
      /\ SlotTyped(slot[k]) /\ DOMAIN slot[k] = Fields
  BY <1>1, <1>2 DEF LifeInv, SlotShape, SendInv, SlotsTyped
<1>7. slot'[k] = IF slot[k].tcp /\ slot[k].tag = to
                 THEN [slot[k] EXCEPT !.sending = @ + 1] ELSE slot[k]
  BY <1>1, <1>2 DEF LifeInv, SlotShape
<1>8. SlotTyped(slot'[k]) /\ slot'[k].type = slot[k].type /\ slot'[k].id = slot[k].id
  BY <1>6, <1>7 DEF SlotTyped, Fields
<1>9. SlotsTyped' /\ NetOK'
  <2>1. NetOK'  BY <1>1, SameNet
  <2>2. ASSUME NEW j \in Slots PROVE SlotTyped(slot'[j])
    <3>1. CASE j = k  BY <1>8, <3>1
    <3>2. CASE j # k  BY <1>6, <3>2 DEF SendInv, SlotsTyped
    <3> QED  BY <3>1, <3>2
  <2>3. SlotsTyped'
    <3>1. SlotsTyped' <=> \A j \in Slots : SlotTyped(slot'[j])
      BY DEF SlotsTyped, SlotTyped
    <3> QED  BY <2>2, <3>1
  <2> QED  BY <2>1, <2>3
<1>10. LockOK'
  <2>1. ASSUME NEW j \in Slots, dw_lock[j] # Free
        PROVE  dw_lock[j] \in Senders /\ sender'[dw_lock[j]] = sender[dw_lock[j]]
    <3>1. dw_lock[j] \in Senders /\ sender[dw_lock[j]].pc \in Holding
      BY <2>1 DEF SendInv, LockOK, Holding
    <3> QED  BY <1>1, <1>3, <3>1 DEF Holding
  <2>2. ASSUME NEW u \in Senders, sender'[u].pc \in Holding PROVE sender'[u] = sender[u]
    BY <1>2, <1>3, <2>2 DEF Holding
  <2>3. \A j \in Slots : slot'[j].id = slot[j].id  BY <1>6, <1>8
  <2>4. ASSUME NEW u \in Senders, sender'[u].pc = "write"
        PROVE  slot'[HASH_ID(sender'[u].msg.to)].id = sender'[u].msg.to
    <3>1. sender'[u] = sender[u]  BY <2>2, <2>4 DEF Holding
    <3>2. K(u) \in Slots /\ slot[K(u)].id = sender[u].msg.to
      BY <2>4, <3>1, SenderFacts DEF SendInv, LockOK
    <3> QED  BY <2>3, <3>1, <3>2 DEF K
  <2>5. ASSUME NEW j \in Slots, dw_lock'[j] # Free
        PROVE  sender'[dw_lock'[j]].pc \in {"look", "write"} /\ HASH_ID(sender'[dw_lock'[j]].msg.to) = j
    BY <1>1, <2>1, <2>5 DEF SendInv, LockOK, K
  <2>6. ASSUME NEW u \in Senders, sender'[u].pc \in {"look", "write"}
        PROVE  dw_lock'[HASH_ID(sender'[u].msg.to)] = u
    BY <1>1, <2>2, <2>6 DEF SendInv, LockOK, K, Holding
  <2> QED  BY <1>1, <2>4, <2>5, <2>6 DEF SendInv, LockOK, K
<1>11. CountOK'
  <2>1. ASSUME NEW i \in Ids, slot'[HASH_ID(i)].id = i, i \notin early'
        PROVE  (IF slot'[HASH_ID(i)].tcp THEN slot'[HASH_ID(i)].sending ELSE 0) = Underway(i)'
    <3>1. PICK j \in Slots : j = HASH_ID(i)  BY HashInSlots
    <3>2. SlotTyped(slot[j]) /\ slot[j].id = i  BY <1>6, <1>8, <2>1, <3>1 DEF SendInv, SlotsTyped
    <3>3. i \notin early /\ (i = to => slot[j].tcp)
      <4>1. i = to => j = k  BY <1>2, <3>1
      <4> QED  BY <1>12, <2>1, <3>2, <4>1
    <3>4. PICK old : old = Tally(slot[j])  OBVIOUS
    <3>5. old = Cardinality(InPipe(i)) + Cardinality(AtPush(i))
      BY <3>1, <3>2, <3>3, <3>4 DEF SendInv, CountOK, Underway
    <3>6. t \notin AtPush(i)  BY <1>1 DEF AtPush
    <3>7. t \in AtPush(i)' <=> i = to  BY <1>2, <1>3 DEF AtPush
    <3>8. Cardinality(AtPush(i)') + 0 = Cardinality(AtPush(i)) + (IF i = to THEN 1 ELSE 0)
      BY <1>3, <3>6, <3>7, SenderCounts
    <3>9. PICK Elems : pipe \in Seq(Elems)  BY DEF LifeInv, PipeShape
    <3>10. Cardinality(InPipe(i)) \in Nat /\ Cardinality(AtPush(i)) \in Nat
      BY <3>9, UnderwayFinite
    <3>11. IsFiniteSet(AtPush(i)')
      <4>1. AtPush(i)' \in SUBSET Senders  BY DEF AtPush
      <4> QED  BY <4>1, FS_Subset, SocketAssumption
    <3>12. Cardinality(AtPush(i)') \in Nat  BY <3>11, FS_CardinalityType
    <3>13. PICK new_ : new_ = IF slot'[j].tcp THEN slot'[j].sending ELSE 0  OBVIOUS
    <3>14. new_ = old + (IF i = to THEN 1 ELSE 0)
      <4>1. CASE i = to
        <5>1. j = k /\ slot[k].tcp = TRUE /\ slot[k].tag = to /\ slot[k].sending \in Int
          BY <1>2, <3>1, <3>2, <3>3, <4>1 DEF SlotTyped
        <5>2. slot'[k] = [slot[k] EXCEPT !.sending = slot[k].sending + 1]  BY <1>7, <5>1
        <5>3. slot'[k].tcp = TRUE /\ slot'[k].sending = slot[k].sending + 1
          BY <1>6, <5>1, <5>2 DEF Fields
        <5> QED  BY <3>4, <3>13, <4>1, <5>1, <5>3 DEF Tally
      <4>2. CASE i # to
        <5>1. slot'[j] = slot[j]  BY <1>6, <1>7, <3>2, <4>2 DEF SlotTyped
        <5>2. old \in Int  BY <3>2, <3>4 DEF Tally, SlotTyped
        <5> QED  BY <3>4, <3>13, <4>2, <5>1, <5>2 DEF Tally
      <4> QED  BY <4>1, <4>2
    <3>15. Cardinality(InPipe(i)') = Cardinality(InPipe(i))  BY <1>5
    <3>16. new_ = Cardinality(InPipe(i)') + Cardinality(AtPush(i)')
      BY ONLY <3>5, <3>8, <3>10, <3>12, <3>14, <3>15
    <3> QED  BY <3>1, <3>13, <3>16 DEF Underway
  <2> QED  BY <2>1, CountsAre
<1> QED  BY <1>1, <1>3, <1>5, <1>9, <1>10, <1>11 DEF SendInv

\* A message goes from its sender to the pipe: it is under way before and after.
LEMMA PushRequestSends ==
    ASSUME LifeInv, SendInv, NEW t \in Senders, PushRequest(t)
    PROVE  SendInv'
<1> PICK msg : msg = sender[t].msg  OBVIOUS
<1> PICK r : r = [op |-> IF msg.low THEN "P" ELSE "D", id |-> msg.to, msg |-> msg]  OBVIOUS
<1> PICK new : new = Idle  OBVIOUS
<1> PICK Elems : pipe \in Seq(Elems)  BY DEF LifeInv, PipeShape
<1>1. /\ sender[t].pc = "push" /\ UNCHANGED <<slot, dw_lock, left, net, early, seen>>
      /\ pipe' = Append(pipe, r) /\ sender' = [sender EXCEPT ![t] = new]
  BY DEF PushRequest, At
<1>2. msg \in Msgs /\ seen[msg.to] # "unborn"  BY <1>1, SenderFacts
<1>3. r.op \in Carried /\ r.id = msg.to /\ r.msg = msg  BY DEF Carried
<1>4. /\ sender'[t] = new /\ \A u \in Senders : u # t => sender'[u] = sender[u]
      /\ SendersTyped'
  BY <1>1, OthersTyped DEF SendInv
<1>5. /\ Len(pipe') = Len(pipe) + 1 /\ Len(pipe) \in Nat
      /\ \A n \in 1 .. Len(pipe) : pipe'[n] = pipe[n]
      /\ pipe'[Len(pipe) + 1] = r
  BY <1>1, Appending
<1>6. RequestsTyped'
  <2> SUFFICES ASSUME NEW n \in 1 .. Len(pipe') PROVE RequestTyped(pipe[n])'
    BY DEF RequestsTyped
  <2>1. CASE n \in 1 .. Len(pipe)
    <3>1. RequestTyped(pipe[n]) /\ pipe'[n] = pipe[n]  BY <1>5, <2>1 DEF SendInv, RequestsTyped
    <3> QED  BY <1>1, <3>1 DEF RequestTyped
  <2>2. CASE n = Len(pipe) + 1
    <3>1. pipe'[n] = r  BY <1>5, <2>2
    <3> QED  BY <1>1, <1>2, <1>3, <3>1 DEF RequestTyped
  <2> QED  BY <1>5, <2>1, <2>2
<1>7. SlotsTyped' /\ NetOK'  BY <1>1 DEF SendInv, SlotsTyped, SlotTyped, NetOK
<1>8. LockOK'
  <2>1. ASSUME NEW j \in Slots, dw_lock[j] # Free
        PROVE  dw_lock[j] \in Senders /\ sender'[dw_lock[j]] = sender[dw_lock[j]]
    <3>1. dw_lock[j] \in Senders /\ sender[dw_lock[j]].pc \in Holding
      BY <2>1 DEF SendInv, LockOK, Holding
    <3> QED  BY <1>1, <1>4, <3>1 DEF Holding
  <2>2. ASSUME NEW u \in Senders, sender'[u].pc \in Holding PROVE sender'[u] = sender[u]
    BY <1>4, <2>2 DEF Holding, Idle
  <2> QED  BY <1>1, <2>1, <2>2 DEF SendInv, LockOK, K, Holding
<1>9. CountOK'
  <2>1. ASSUME NEW i \in Ids, slot'[HASH_ID(i)].id = i, i \notin early'
        PROVE  (IF slot'[HASH_ID(i)].tcp THEN slot'[HASH_ID(i)].sending ELSE 0) = Underway(i)'
    <3>1. (IF slot[HASH_ID(i)].tcp THEN slot[HASH_ID(i)].sending ELSE 0)
              = Cardinality(InPipe(i)) + Cardinality(AtPush(i))
      BY <1>1, <2>1 DEF SendInv, CountOK, Tally, Underway
    <3>2. t \notin AtPush(i)' /\ (t \in AtPush(i) <=> i = msg.to)
      BY <1>1, <1>4 DEF AtPush, Idle
    <3>3. Cardinality(AtPush(i)') + (IF i = msg.to THEN 1 ELSE 0) = Cardinality(AtPush(i)) + 0
      BY <1>4, <3>2, SenderCounts
    <3>4. Cardinality(InPipe(i)') = Cardinality(InPipe(i)) + (IF i = msg.to THEN 1 ELSE 0)
      BY <1>1, <1>3, PipeGrows
    <3>5. Cardinality(InPipe(i)) \in Nat /\ Cardinality(AtPush(i)) \in Nat
      BY UnderwayFinite
    <3>6. IsFiniteSet(AtPush(i)')
      <4>1. AtPush(i)' \in SUBSET Senders  BY DEF AtPush
      <4> QED  BY <4>1, FS_Subset, SocketAssumption
    <3>7. Cardinality(AtPush(i)') \in Nat  BY <3>6, FS_CardinalityType
    <3> QED  BY <1>1, <3>1, <3>3, <3>4, <3>5, <3>7 DEF Underway
  <2> QED  BY <2>1, CountsAre
<1> QED  BY <1>1, <1>4, <1>6, <1>7, <1>8, <1>9 DEF SendInv

-----------------------------------------------------------------------------
(* The services and the peers *)

\* At first no slot is in use and nobody sends.
LEMMA FirstSends == Init => SendInv
<1> SUFFICES ASSUME Init PROVE SendInv  OBVIOUS
<1>1. left \in Budget  BY SocketAssumption DEF Init, Budget
<1>2. NetOK  BY DEF Init, NetOK, NoPeer, NetFields
<1>3. SlotsTyped
  <2>1. <<>> \in Seq(Buffers) /\ Len(<<>>) = 0  OBVIOUS
  <2>2. SlotTyped(FreeSlot)  BY <2>1 DEF SlotTyped, FreeSlot, Unused
  <2> QED  BY <2>2 DEF Init, SlotsTyped
<1>4. RequestsTyped  BY DEF Init, RequestsTyped
<1>5. SendersTyped  BY DEF Init, SendersTyped, SenderTyped
<1>6. LockOK  BY DEF Init, LockOK, Idle
<1>7. CountOK  BY HashInSlots DEF Init, CountOK, FreeSlot, Ids
<1> QED  BY <1>1, <1>2, <1>3, <1>4, <1>5, <1>6, <1>7 DEF SendInv

\* The peers' steps leave the server's state alone.
LEMMA PeerStepSends ==
    ASSUME LifeInv, SendInv, NEW i \in Ids,
           PeerAccepts(i) \/ PeerRefuses(i) \/ PeerConnects(i) \/ PeerSends(i)
           \/ PeerEnds(i) \/ PeerResets(i) \/ PeerReads(i)
    PROVE  SendInv'
<1>1. UNCHANGED <<slot, dw_lock, pipe, sender, early, seen>>
  BY DEF PeerAccepts, PeerRefuses, PeerConnects, PeerSends, PeerEnds, PeerResets, PeerReads, Peer
<1>2. left' \in Budget
  <2>1. left' = left \/ Spontaneous
    BY DEF PeerAccepts, PeerRefuses, PeerConnects, PeerSends, PeerEnds, PeerResets, PeerReads
  <2> QED  BY <2>1 DEF Spontaneous, SendInv, Budget
<1>3. /\ net = [j \in Ids |-> net[j]] /\ DOMAIN net[i] = NetFields /\ net[i].room \in Nat
      /\ Room \in Nat
  BY SocketAssumption DEF SendInv, NetOK
<1>4. \E new : net' = [net EXCEPT ![i] = new] /\ DOMAIN new = NetFields /\ new.room \in Nat
  <2>1. DOMAIN Connected = NetFields /\ Connected.room \in Nat
    BY <1>3 DEF Connected, NetFields
  <2>2. \A p : DOMAIN [NoPeer EXCEPT !.peer = p] = NetFields /\ [NoPeer EXCEPT !.peer = p].room \in Nat
    BY DEF NoPeer, NetFields
  <2>3. \A u : DOMAIN [net[i] EXCEPT !.unread = u] = NetFields /\ [net[i] EXCEPT !.unread = u].room \in Nat
    BY <1>3 DEF NetFields
  <2>4. \A u : DOMAIN [net[i] EXCEPT !.fin = u] = NetFields /\ [net[i] EXCEPT !.fin = u].room \in Nat
    BY <1>3 DEF NetFields
  <2>5. \A n \in Nat : DOMAIN [net[i] EXCEPT !.room = n] = NetFields /\ [net[i] EXCEPT !.room = n].room \in Nat
    BY <1>3 DEF NetFields
  <2>6. CASE PeerAccepts(i)  BY <2>1, <2>6 DEF PeerAccepts, Peer
  <2>7. CASE PeerRefuses(i)  BY <2>2, <2>7 DEF PeerRefuses, Peer
  <2>8. CASE PeerConnects(i)  BY <2>3, <2>8 DEF PeerConnects, Peer
  <2>9. CASE PeerSends(i)  BY <2>3, <2>9 DEF PeerSends, Peer
  <2>10. CASE PeerEnds(i)  BY <2>4, <2>10 DEF PeerEnds, Peer
  <2>11. CASE PeerResets(i)  BY <2>2, <2>11 DEF PeerResets, Peer
  <2>12. CASE PeerReads(i)
    <3>1. PICK n \in net[i].room + 1 .. Room : net' = [net EXCEPT ![i] = [net[i] EXCEPT !.room = n]]
      BY <2>12 DEF PeerReads, Peer
    <3>2. n \in Nat  BY <1>3
    <3> QED  BY <2>5, <3>1, <3>2
  <2> QED  BY <2>6, <2>7, <2>8, <2>9, <2>10, <2>11, <2>12
<1>5. NetOK'  BY <1>3, <1>4 DEF NetOK, SendInv
<1> QED
  BY <1>1, <1>2, <1>5 DEF SendInv, SlotsTyped, SlotTyped, RequestsTyped, RequestTyped, SendersTyped, SenderTyped,
     LockOK, K, CountOK, Tally, Underway, InPipe, AtPush

\* One slot is written, or one socket's kernel side.
LEMMA OneSteady ==
    ASSUME LifeInv, SendInv, NEW k \in Slots, NEW s, Steady(slot[k], s),
           slot' = [slot EXCEPT ![k] = s]
    PROVE  \A j \in Slots : Steady(slot[j], slot'[j])
<1>1. slot'[k] = s /\ \A j \in Slots : j # k => slot'[j] = slot[j]
  BY DEF LifeInv, SlotShape
<1> SUFFICES ASSUME NEW j \in Slots PROVE Steady(slot[j], slot'[j])  OBVIOUS
<1>2. CASE j = k  BY <1>1, <1>2
<1>3. CASE j # k
  <2>1. slot'[j] = slot[j]  BY <1>1, <1>3
  <2> QED  BY <2>1 DEF Steady, SendInv, SlotsTyped
<1> QED  BY <1>2, <1>3

\* The kernel's side of one socket is written.
LEMMA NetWritten ==
    ASSUME SendInv, NEW i, NEW new, DOMAIN new = NetFields, new.room \in Nat,
           net' = [net EXCEPT ![i] = new]
    PROVE  NetOK'
<1>1. net = [j \in Ids |-> net[j]]  BY DEF SendInv, NetOK
<1>2. net' = [j \in Ids |-> IF j = i THEN new ELSE net[j]]  BY <1>1
<1> QED  BY <1>2 DEF SendInv, NetOK

\* What the actions make of the kernel's side has its shape.
LEMMA NetShapes ==
    ASSUME SendInv
    PROVE  /\ DOMAIN Connected = NetFields /\ Connected.room \in Nat
           /\ DOMAIN NoPeer = NetFields /\ NoPeer.room \in Nat
           /\ \A p : DOMAIN [NoPeer EXCEPT !.peer = p] = NetFields /\ [NoPeer EXCEPT !.peer = p].room \in Nat
           /\ \A i \in Ids :
                 /\ DOMAIN net[i] = NetFields /\ net[i].room \in Nat
                 /\ \A p : DOMAIN [net[i] EXCEPT !.peer = p] = NetFields
                           /\ [net[i] EXCEPT !.peer = p].room \in Nat
                 /\ \A u : DOMAIN [net[i] EXCEPT !.unread = u] = NetFields
                           /\ [net[i] EXCEPT !.unread = u].room \in Nat
                 /\ \A n \in Nat : DOMAIN [net[i] EXCEPT !.room = n] = NetFields
                           /\ [net[i] EXCEPT !.room = n].room \in Nat
<1>1. Room \in Nat  BY SocketAssumption
<1>2. DOMAIN Connected = NetFields /\ Connected.room \in Nat /\ DOMAIN NoPeer = NetFields /\ NoPeer.room \in Nat
  BY <1>1 DEF Connected, NoPeer, NetFields
<1>3. \A p : DOMAIN [NoPeer EXCEPT !.peer = p] = NetFields /\ [NoPeer EXCEPT !.peer = p].room \in Nat
  BY DEF NoPeer, NetFields
<1>4. ASSUME NEW i \in Ids
      PROVE  /\ DOMAIN net[i] = NetFields /\ net[i].room \in Nat
             /\ \A p : DOMAIN [net[i] EXCEPT !.peer = p] = NetFields
                       /\ [net[i] EXCEPT !.peer = p].room \in Nat
             /\ \A u : DOMAIN [net[i] EXCEPT !.unread = u] = NetFields
                       /\ [net[i] EXCEPT !.unread = u].room \in Nat
             /\ \A n \in Nat : DOMAIN [net[i] EXCEPT !.room = n] = NetFields
                       /\ [net[i] EXCEPT !.room = n].room \in Nat
  <2>1. DOMAIN net[i] = NetFields /\ net[i].room \in Nat  BY DEF SendInv, NetOK
  <2> QED  BY <2>1 DEF NetFields
<1> QED  BY <1>2, <1>3, <1>4

\* A slot that is free, and the id that gets it
LEMMA FreeFacts ==
    ASSUME LifeInv, SendInv, NEW id \in FreeIds
    PROVE  /\ id \in Ids /\ HASH_ID(id) \in Slots /\ dw_lock[HASH_ID(id)] = Free
           /\ DOMAIN slot[HASH_ID(id)] = Fields /\ SlotTyped(slot[HASH_ID(id)])
           /\ slot[HASH_ID(id)].dw = <<>>
           /\ SlotTyped(Reserved(id)) /\ Reserved(id).id = id /\ Tally(Reserved(id)) = 0
<1>1. id \in Ids /\ slot[HASH_ID(id)].type = "INVALID" /\ dw_lock[HASH_ID(id)] = Free
  BY DEF FreeIds
<1>2. HASH_ID(id) \in Slots  BY <1>1, HashInSlots
<1>3. DOMAIN slot[HASH_ID(id)] = Fields /\ SlotTyped(slot[HASH_ID(id)])
  BY <1>2 DEF LifeInv, SlotShape, SendInv, SlotsTyped
<1>4. slot[HASH_ID(id)].dw = <<>>  BY <1>1, <1>3 DEF SlotTyped, Unused
<1>5. SlotTyped(Reserved(id)) /\ Reserved(id).id = id /\ Tally(Reserved(id)) = 0
  BY <1>3, <1>4 DEF SlotTyped, Reserved, Fields, Unused, Tally
<1> QED  BY <1>1, <1>2, <1>3, <1>4, <1>5

\* What new_fd makes of a slot
LEMMA NewFdTyped ==
    ASSUME NEW id, NEW type, NEW reading, NEW s,
           type \notin Unused, DOMAIN slot[HASH_ID(id)] = Fields, SlotTyped(slot[HASH_ID(id)]),
           NewFd(id, type, reading) = s
    PROVE  /\ SlotTyped(s) /\ s.id = id /\ Tally(s) = 0 /\ s.type = type /\ DOMAIN s = Fields
           /\ \A writing : LET w == [s EXCEPT !.writing = writing]
                           IN  SlotTyped(w) /\ w.id = id /\ Tally(w) = 0
<1>1. <<>> \in Seq(Buffers)  OBVIOUS
<1>2. /\ DOMAIN s = Fields /\ s.id = id /\ s.sending = 0 /\ s.type = type /\ s.dw = <<>>
      /\ s.high = slot[HASH_ID(id)].high /\ s.low = slot[HASH_ID(id)].low
      /\ s.tcp = TRUE /\ s.tag = id
  BY DEF NewFd, Fields
<1>3. SlotTyped(s)  BY <1>1, <1>2 DEF SlotTyped, Unused
<1>4. \A writing : LET w == [s EXCEPT !.writing = writing]
                   IN  SlotTyped(w) /\ w.id = id /\ w.sending = 0
  BY <1>2, <1>3 DEF SlotTyped, Fields
<1>5. \A writing : Tally([s EXCEPT !.writing = writing]) = 0  BY <1>2 DEF Tally, Fields
<1> QED  BY <1>2, <1>3, <1>4, <1>5 DEF Tally

\* A service asks for a socket: it reserves a slot and puts a request.
LEMMA OpensSends ==
    ASSUME LifeInv, SendInv, SeenStays, NEW id \in Ids, Connect(id) \/ Listen(id)
    PROVE  SendInv'
<1>1. /\ id \in FreeIds /\ seen[id] = "unborn" /\ left' = [left EXCEPT !.opens = @ - 1] /\ left.opens > 0
      /\ slot' = [slot EXCEPT ![HASH_ID(id)] = Reserved(id)]
      /\ UNCHANGED <<dw_lock, sender, net, early>>
      /\ \E op \in {"O", "L"} : pipe' = Append(pipe, [op |-> op, id |-> id])
  BY DEF Connect, Listen, Reserve, Request, Socket!Announce
<1>2. QuietPipe
  <2>1. PICK op \in {"O", "L"} : pipe' = Append(pipe, [op |-> op, id |-> id])  BY <1>1
  <2> PICK r : r = [op |-> op, id |-> id]  OBVIOUS
  <2>2. r.op \notin Carried /\ pipe' = Append(pipe, r)  BY <2>1 DEF Carried
  <2> QED  BY <2>2 DEF QuietPipe
<1>3. left' \in Budget  BY <1>1 DEF SendInv, Budget
<1>4. NetOK'  BY <1>1, SameNet
<1> PICK s : s = Reserved(id)  OBVIOUS
<1>5. SlotTyped(s) /\ s.id = id /\ Tally(s) = 0 /\ dw_lock[HASH_ID(id)] = Free
  BY <1>1, FreeFacts
<1>6. Underway(id) = 0  BY <1>1, NothingUnderway DEF SendInv
<1> QED  BY <1>1, <1>2, <1>3, <1>4, <1>5, <1>6, GivenSends

\* A service asks to start, close or shut down a socket.
LEMMA AskSends ==
    ASSUME LifeInv, SendInv, NEW id \in Ids, NEW op \in {"R", "S", "K", "K!"}, Ask(op, id)
    PROVE  SendInv'
<1> PICK r : r = [op |-> op, id |-> id]  OBVIOUS
<1>1. r.op \notin Carried /\ pipe' = Append(pipe, r) /\ UNCHANGED <<slot, dw_lock, sender, net, early, seen>>
      /\ left.asks > 0 /\ left' = [left EXCEPT !.asks = @ - 1]
  BY DEF Ask, Request, Carried, Spontaneous
<1>2. QuietPipe /\ SeenStays  BY <1>1 DEF QuietPipe, SeenStays
<1>3. left' \in Budget  BY <1>1 DEF SendInv, Budget
<1>4. (\A j \in Slots : Steady(slot[j], slot'[j])) /\ NetOK'  BY <1>1, SameSteady, SameNet
<1> QED  BY <1>1, <1>2, <1>3, <1>4, QuietSends

\* The socket thread takes the request to open: the reserved slot is put into use or freed.
LEMMA OpenSocketSends ==
    ASSUME LifeInv, SendInv, SeenStays, OpenSocket \/ ListenSocket
    PROVE  SendInv'
<1> PICK id : id = Asked  OBVIOUS
<1>1. /\ pipe # <<>> /\ Head(pipe).op \in Opening /\ pipe' = Tail(pipe)
      /\ UNCHANGED <<dw_lock, sender, left, early>>
  BY DEF OpenSocket, ListenSocket, Command, Opening
<1>2. /\ id \in Ids /\ AskedSlot = HASH_ID(id) /\ HASH_ID(id) \in Slots
      /\ slot[HASH_ID(id)].id = id /\ slot[HASH_ID(id)].type = "RESERVE"
      /\ seen[id] \in {"connecting", "listening"}
      /\ DOMAIN slot[HASH_ID(id)] = Fields /\ SlotTyped(slot[HASH_ID(id)])
  BY <1>1, AskedFacts DEF RequestOK, Asked, AskedSlot, SendInv, SlotsTyped
<1>3. QuietPipe
  <2>1. Head(pipe).op \notin Carried  BY <1>1 DEF Opening, Carried
  <2> QED  BY <1>1, <2>1 DEF QuietPipe
<1>4. left' \in Budget  BY <1>1 DEF SendInv
<1>11. slot[HASH_ID(id)].tcp = FALSE  BY <1>2 DEF SlotTyped
<1>12. id \notin early => Underway(id) = 0  BY <1>2, <1>11 DEF SendInv, CountOK, Tally
<1>5. ASSUME NEW s, s.id = id, SlotTyped(s), Tally(s) = 0,
             slot' = [slot EXCEPT ![HASH_ID(id)] = s], NetOK'
      PROVE  SendInv'
  BY <1>1, <1>2, <1>3, <1>4, <1>5, <1>12, GivenSends
<1>6. CASE slot' = [slot EXCEPT ![AskedSlot].type = "INVALID"] /\ UNCHANGED net
  <2> PICK s : s = [slot[HASH_ID(id)] EXCEPT !.type = "INVALID"]  OBVIOUS
  <2>1. slot' = [slot EXCEPT ![HASH_ID(id)] = s]  BY <1>2, <1>6
  <2>2. s.id = id /\ SlotTyped(s) /\ Tally(s) = 0  BY <1>2, <1>11 DEF SlotTyped, Fields, Unused, Tally
  <2>3. NetOK'  BY <1>6, SameNet
  <2> QED  BY <1>5, <2>1, <2>2, <2>3
<1>7. ASSUME NEW type \in {"CONNECTED", "PLISTEN"}, NEW reading, NEW n,
             slot' = [slot EXCEPT ![AskedSlot] = NewFd(Asked, type, reading)],
             net' = [net EXCEPT ![Asked] = n], DOMAIN n = NetFields, n.room \in Nat
      PROVE  SendInv'
  <2>0. PICK s : NewFd(id, type, reading) = s  OBVIOUS
  <2>1. slot' = [slot EXCEPT ![HASH_ID(id)] = s]  BY <1>2, <1>7, <2>0
  <2>2. type \notin Unused  BY DEF Unused
  <2>3. s.id = id /\ SlotTyped(s) /\ Tally(s) = 0  BY ONLY <1>2, <2>0, <2>2, NewFdTyped
  <2>4. NetOK'  BY <1>7, NetWritten
  <2> QED  BY <1>5, <2>1, <2>3, <2>4
<1>8. CASE slot' = [slot EXCEPT ![AskedSlot] = [NewFd(Asked, "CONNECTING", TRUE) EXCEPT !.writing = TRUE]]
           /\ net' = [net EXCEPT ![Asked] = [NoPeer EXCEPT !.peer = "connecting"]]
  <2> PICK reading : reading = TRUE  OBVIOUS
  <2>0. PICK plain : NewFd(id, "CONNECTING", reading) = plain  OBVIOUS
  <2> PICK s : s = [plain EXCEPT !.writing = TRUE]  OBVIOUS
  <2>1. slot' = [slot EXCEPT ![HASH_ID(id)] = s]  BY <1>2, <1>8, <2>0
  <2>2. "CONNECTING" \notin Unused  BY DEF Unused
  <2>3. s.id = id /\ SlotTyped(s) /\ Tally(s) = 0
    <3>1. \A writing : LET w == [plain EXCEPT !.writing = writing]
                       IN  SlotTyped(w) /\ w.id = id /\ Tally(w) = 0
      BY ONLY <1>2, <2>0, <2>2, NewFdTyped
    <3> QED  BY <3>1
  <2>4. NetOK'  BY <1>8, NetShapes, NetWritten
  <2> QED  BY <1>5, <2>1, <2>3, <2>4
<1>9. CASE OpenSocket
  <2>1. CASE slot' = [slot EXCEPT ![AskedSlot] = NewFd(Asked, "CONNECTED", TRUE)]
             /\ net' = [net EXCEPT ![Asked] = Connected]
    BY <1>7, <2>1, NetShapes
  <2> QED  BY <1>6, <1>8, <1>9, <2>1 DEF OpenSocket
<1>10. CASE ListenSocket
  <2>1. CASE /\ slot' = [slot EXCEPT ![AskedSlot] = NewFd(Asked, "PLISTEN", FALSE)]
             /\ net' = [net EXCEPT ![Asked] = [NoPeer EXCEPT !.peer = "listening"]]
    BY <1>7, <2>1, NetShapes
  <2> QED  BY <1>6, <1>10, <2>1 DEF ListenSocket
<1> QED  BY <1>9, <1>10

\* A peer is accepted on a listening socket: a slot and an id for it, paused.
LEMMA ReportAcceptSends ==
    ASSUME LifeInv, SendInv, SeenStays, ReportAccept
    PROVE  SendInv'
<1> PICK i : i = Polled.id  OBVIOUS
<1>1. i \in Ids /\ seen[i] \in KnownAs("LISTEN")
  <2>1. Turn({"LISTEN"})  BY DEF ReportAccept
  <2> QED  BY <2>1, TurnFacts
<1>6. seen[i] # "unborn"  BY <1>1 DEF KnownAs
<1>2. UNCHANGED <<pipe, dw_lock, sender, left, early>>  BY DEF ReportAccept
<1>3. QuietPipe /\ left' \in Budget  BY <1>2 DEF QuietPipe, SendInv
<1>4. CASE net' = [net EXCEPT ![Polled.id].unread = @ - 1] /\ UNCHANGED slot
  <2> PICK new : new = [net[i] EXCEPT !.unread = @ - 1]  OBVIOUS
  <2>1. new = [net[i] EXCEPT !.unread = net[i].unread - 1]  OBVIOUS
  <2>2. net' = [net EXCEPT ![i] = new] /\ DOMAIN new = NetFields /\ new.room \in Nat
    BY <1>1, <1>4, <2>1, NetShapes
  <2>3. NetOK'  BY <2>2, NetWritten
  <2>4. \A j \in Slots : Steady(slot[j], slot'[j])  BY <1>4, SameSteady
  <2> QED  BY <1>2, <1>3, <2>3, <2>4, QuietSends
<1>5. ASSUME NEW id \in Ids, Reserve(id), seen[id] = "unborn",
             slot' = [slot EXCEPT ![HASH_ID(id)] = NewFd(id, "PACCEPT", FALSE)],
             net' = [net EXCEPT ![id] = Connected, ![Polled.id].unread = @ - 1]
      PROVE  SendInv'
  <2> PICK reading : reading = FALSE  OBVIOUS
  <2>0. PICK s : NewFd(id, "PACCEPT", reading) = s  OBVIOUS
  <2>1. id \in FreeIds  BY <1>5 DEF Reserve
  <2>2. "PACCEPT" \notin Unused  BY DEF Unused
  <2>3. s.id = id /\ SlotTyped(s) /\ Tally(s) = 0 /\ dw_lock[HASH_ID(id)] = Free
    <3>1. /\ dw_lock[HASH_ID(id)] = Free
          /\ DOMAIN slot[HASH_ID(id)] = Fields /\ SlotTyped(slot[HASH_ID(id)])
      BY <2>1, FreeFacts
    <3>2. s.id = id /\ SlotTyped(s) /\ Tally(s) = 0  BY ONLY <2>0, <2>2, <3>1, NewFdTyped
    <3> QED  BY <3>1, <3>2
  <2>4. NetOK'
    <3>1. net = [j \in Ids |-> net[j]]  BY DEF SendInv, NetOK
    <3>2. id # i  BY <1>5, <1>6
    <3> PICK new : new = [net[i] EXCEPT !.unread = @ - 1]  OBVIOUS
    <3>3. new = [net[i] EXCEPT !.unread = net[i].unread - 1]  OBVIOUS
    <3>4. DOMAIN new = NetFields /\ new.room \in Nat  BY <1>1, <3>3, NetShapes
    <3>5. net' = [net EXCEPT ![id] = Connected, ![i] = new]
      BY <1>1, <1>5, <3>1, <3>2
    <3>6. net' = [j \in Ids |-> IF j = i THEN new ELSE IF j = id THEN Connected ELSE net[j]]
      BY <3>1, <3>2, <3>5
    <3>7. \A j \in Ids : DOMAIN net'[j] = NetFields /\ net'[j].room \in Nat
      BY <3>4, <3>6, NetShapes
    <3> QED  BY <3>6, <3>7 DEF NetOK
  <2>5. Underway(id) = 0  BY <1>5, NothingUnderway DEF SendInv
  <2>6. slot' = [slot EXCEPT ![HASH_ID(id)] = s]  BY <1>5, <2>0
  <2> QED  BY <1>2, <1>3, <2>3, <2>4, <2>5, <2>6, GivenSends
<1>7. CASE UNCHANGED <<slot, net>>
  <2>1. NetOK' /\ \A j \in Slots : Steady(slot[j], slot'[j])  BY <1>7, SameNet, SameSteady
  <2> QED  BY <1>2, <1>3, <2>1, QuietSends
<1> QED  BY <1>4, <1>5, <1>7 DEF ReportAccept, Socket!Announce

-----------------------------------------------------------------------------
(* The socket thread, where it touches neither counters nor messages under way *)

\* What it makes of a slot in use: lists are emptied, flags set, the type changed
LEMMA SteadyForms ==
    ASSUME NEW s, DOMAIN s = Fields, SlotTyped(s), s.type \notin Unused
    PROVE  /\ Steady(s, s) /\ Steady(s, Emptied(s)) /\ Steady(s, Closed(s))
           /\ \A new : /\ DOMAIN new = Fields /\ new.type \notin Unused
                       /\ \A f \in {"high", "low", "dw", "sending", "id", "tcp", "tag"} : new[f] = s[f]
                       => Steady(s, new)
<1>1. <<>> \in Seq(Buffers) /\ Len(<<>>) = 0  OBVIOUS
<1>2. Steady(s, s)  BY DEF Steady
<1>3. Steady(s, Emptied(s))  BY <1>1 DEF Steady, SlotTyped, Emptied, Fields
<1>4. Steady(s, Closed(s))  BY <1>1 DEF Steady, SlotTyped, Closed, Fields, Unused
<1>5. ASSUME NEW new, DOMAIN new = Fields, new.type \notin Unused,
             \A f \in {"high", "low", "dw", "sending", "id", "tcp", "tag"} : new[f] = s[f]
      PROVE  Steady(s, new)
  <2>1. /\ new.high = s.high /\ new.low = s.low /\ new.dw = s.dw /\ new.sending = s.sending
        /\ new.id = s.id /\ new.tcp = s.tcp /\ new.tag = s.tag
    BY <1>5
  <2>2. s.tcp = TRUE /\ s.tag = s.id  BY DEF SlotTyped
  <2>3. new.tcp = TRUE /\ new.tag = new.id /\ new.type # "RESERVE"  BY <1>5, <2>1, <2>2 DEF Unused
  <2>4. /\ s.high \in Seq(Buffers) /\ s.low \in Seq(Buffers) /\ s.dw \in Seq(Buffers)
        /\ \A j \in 1 .. Len(s.low) : s.low[j].ptr = 0
        /\ s.sending \in Int
    BY DEF SlotTyped
  <2>5. SlotTyped(new)  BY <1>5, <2>1, <2>3, <2>4 DEF SlotTyped
  <2> QED  BY <2>1, <2>5 DEF Steady
<1> QED  BY <1>2, <1>3, <1>4, <1>5

\* So are the flags alone.
LEMMA FlagsSteady ==
    ASSUME NEW s, DOMAIN s = Fields, SlotTyped(s), s.type \notin Unused, NEW b
    PROVE  /\ Steady(s, [s EXCEPT !.reading = b]) /\ Steady(s, [s EXCEPT !.writing = b])
           /\ Steady(s, [s EXCEPT !.closing = b])
           /\ \A type : type \notin Unused =>
                 /\ Steady(s, [s EXCEPT !.type = type, !.reading = b])
                 /\ Steady(s, [s EXCEPT !.type = type, !.writing = b])
                 /\ Steady(s, [s EXCEPT !.closing = TRUE, !.type = type, !.reading = b])
<1>1. Steady(s, [s EXCEPT !.reading = b]) /\ Steady(s, [s EXCEPT !.writing = b])
      /\ Steady(s, [s EXCEPT !.closing = b])
  BY SteadyForms DEF Fields
<1>2. ASSUME NEW type, type \notin Unused
      PROVE  /\ Steady(s, [s EXCEPT !.type = type, !.reading = b])
             /\ Steady(s, [s EXCEPT !.type = type, !.writing = b])
             /\ Steady(s, [s EXCEPT !.closing = TRUE, !.type = type, !.reading = b])
  <2>1. ASSUME NEW new,
               \/ new = [s EXCEPT !.type = type, !.reading = b]
               \/ new = [s EXCEPT !.type = type, !.writing = b]
               \/ new = [s EXCEPT !.closing = TRUE, !.type = type, !.reading = b]
        PROVE  Steady(s, new)
    <3>1. DOMAIN new = Fields /\ new.type = type  BY <2>1 DEF Fields
    <3>2. \A f \in {"high", "low", "dw", "sending", "id", "tcp", "tag"} : new[f] = s[f]
      BY <2>1 DEF Fields
    <3> QED  BY <1>2, <3>1, <3>2, SteadyForms
  <2> QED  BY <2>1
<1> QED  BY <1>1, <1>2

\* Whether a slot is written or not
LEMMA ThreadSends ==
    ASSUME LifeInv, SendInv, SeenStays, QuietPipe, NetOK', UNCHANGED <<dw_lock, sender, left, early>>,
           \/ slot' = slot
           \/ \E k \in Slots : \E s : Steady(slot[k], s) /\ slot' = [slot EXCEPT ![k] = s]
    PROVE  SendInv'
<1>1. left' \in Budget  BY DEF SendInv
<1>2. \A j \in Slots : Steady(slot[j], slot'[j])
  BY SameSteady, OneSteady
<1> QED  BY <1>1, <1>2, QuietSends

\* force_close frees the slot and its lists.
LEMMA ForceCloseSends ==
    ASSUME LifeInv, SendInv, SeenStays, ForceCloseEnds
    PROVE  SendInv'
<1> PICK k : k = poll.forcing.k  OBVIOUS
<1> PICK id : id = slot[k].id  OBVIOUS
<1>1. /\ poll.forcing # NotForcing /\ UNCHANGED <<pipe, dw_lock, sender, left, early>>
      /\ slot' = [slot EXCEPT ![k] = Closed(slot[k])] /\ net' = [net EXCEPT ![id] = NoPeer]
  BY DEF ForceCloseEnds, Polling
<1>2. k \in Slots  BY <1>1 DEF LifeInv, PollShape, Forcings
<1>3. slot[k].type \notin Unused  BY <1>1 DEF LifeInv, ForcingOK, Unused
<1>4. DOMAIN slot[k] = Fields /\ SlotTyped(slot[k])
  BY <1>2 DEF LifeInv, SlotShape, SendInv, SlotsTyped
<1>5. Steady(slot[k], Closed(slot[k]))  BY <1>3, <1>4, SteadyForms
<1>6. QuietPipe  BY <1>1 DEF QuietPipe
<1>7. NetOK'  BY <1>1, NetShapes, NetWritten
<1> QED  BY <1>1, <1>2, <1>5, <1>6, <1>7, ThreadSends

\* Nothing but the poll state, and of the sockets what is told.
LEMMA OnlyToldSends ==
    ASSUME LifeInv, SendInv, SeenStays, NoCommand \/ Wait \/ SendAborts \/ EventOnInvalid \/ ReadBlocks
    PROVE  SendInv'
<1>1. UNCHANGED <<slot, pipe, net, dw_lock, sender, left, early>>
  BY DEF NoCommand, Wait, SendAborts, EventOnInvalid, ReadBlocks, Reading
<1>2. QuietPipe /\ NetOK'  BY <1>1, SameNet DEF QuietPipe
<1> QED  BY <1>1, <1>2, ThreadSends

\* A request without a message, for a slot in use or not
LEMMA AskedTyped ==
    ASSUME LifeInv, SendInv, pipe # <<>>, Head(pipe).op \notin Opening \cup Carried
    PROVE  /\ AskedSlot \in Slots /\ DOMAIN slot[AskedSlot] = Fields /\ SlotTyped(slot[AskedSlot])
           /\ ~socket_invalid(Asked) => slot[AskedSlot].type \notin Unused
<1>1. AskedSlot \in Slots /\ DOMAIN slot[AskedSlot] = Fields  BY AskedFacts
<1>2. SlotTyped(slot[AskedSlot])  BY <1>1 DEF SendInv, SlotsTyped
<1>3. ~socket_invalid(Asked) => slot[AskedSlot].type \notin Unused
  BY AskedFacts DEF Unused
<1> QED  BY <1>1, <1>2, <1>3

\* A request without a message is handled (start, close, shutdown and the like).
LEMMA RequestSends ==
    ASSUME LifeInv, SendInv, SeenStays,
           ResumeSocket \/ PauseSocket \/ CloseSocket \/ TriggerWrite
    PROVE  SendInv'
<1> PICK k : k = AskedSlot  OBVIOUS
<1>1. /\ pipe # <<>> /\ Head(pipe).op \in {"R", "S", "K", "K!", "W"} /\ pipe' = Tail(pipe)
      /\ UNCHANGED <<dw_lock, sender, left, net, early>>
  BY DEF ResumeSocket, PauseSocket, CloseSocket, TriggerWrite, Command
<1>2. Head(pipe).op \notin Opening \cup Carried  BY <1>1 DEF Opening, Carried
<1>3. QuietPipe /\ NetOK'  BY <1>1, <1>2, SameNet DEF QuietPipe
<1>4. /\ k \in Slots /\ DOMAIN slot[k] = Fields /\ SlotTyped(slot[k])
      /\ ~socket_invalid(Asked) => slot[k].type \notin Unused
  BY <1>1, <1>2, AskedTyped
<1>5. CASE slot' = slot  BY <1>1, <1>3, <1>5, ThreadSends
<1>6. ASSUME NEW s, Steady(slot[k], s), slot' = [slot EXCEPT ![k] = s]
      PROVE  SendInv'
  BY <1>1, <1>3, <1>4, <1>6, ThreadSends
<1>11. ASSUME ~socket_invalid(Asked)
       PROVE  /\ Steady(slot[k], Emptied(slot[k]))
              /\ \A b : /\ Steady(slot[k], [slot[k] EXCEPT !.reading = b])
                        /\ Steady(slot[k], [slot[k] EXCEPT !.writing = b])
                        /\ Steady(slot[k], [slot[k] EXCEPT !.closing = b])
                        /\ \A type : type \notin Unused =>
                              /\ Steady(slot[k], [slot[k] EXCEPT !.type = type, !.reading = b])
                              /\ Steady(slot[k], [slot[k] EXCEPT !.closing = TRUE, !.type = type, !.reading = b])
  <2>1. slot[k].type \notin Unused  BY <1>4, <1>11
  <2>2. Steady(slot[k], Emptied(slot[k]))  BY <1>4, <2>1, SteadyForms
  <2> QED  BY <1>4, <2>1, <2>2, FlagsSteady
<1>7. CASE ResumeSocket
  <2>1. CASE ~socket_invalid(Asked) /\ ~halfclose_read(slot[k])
    <3> PICK type : type = CASE slot[k].type = "PACCEPT" -> "CONNECTED"
                             [] slot[k].type = "PLISTEN" -> "LISTEN"
                             [] OTHER -> slot[k].type
      OBVIOUS
    <3> PICK s : s = [slot[k] EXCEPT !.type = type, !.reading = TRUE]  OBVIOUS
    <3>1. type \notin Unused  BY <1>4, <2>1 DEF Unused
    <3>2. slot' = [slot EXCEPT ![k].reading = TRUE, ![k].type = type]
      BY <1>4, <1>7, <2>1 DEF ResumeSocket, LifeInv, SlotShape, Fields
    <3>3. slot' = [slot EXCEPT ![k] = s]
      BY <1>4, <3>2 DEF LifeInv, SlotShape, Fields
    <3>4. Steady(slot[k], s)  BY <1>11, <2>1, <3>1
    <3> QED  BY <1>6, <3>3, <3>4
  <2> QED  BY <1>5, <1>7, <2>1 DEF ResumeSocket
<1>8. CASE PauseSocket
  <2>1. CASE ~socket_invalid(Asked)
    <3> PICK s : s = [slot[k] EXCEPT !.reading = FALSE]  OBVIOUS
    <3>1. slot' = [slot EXCEPT ![k] = s]  BY <1>8, <2>1 DEF PauseSocket
    <3>2. Steady(slot[k], s)  BY <1>11, <2>1
    <3> QED  BY <1>6, <3>1, <3>2
  <2> QED  BY <1>5, <1>8, <2>1 DEF PauseSocket
<1>9. CASE TriggerWrite
  <2>1. CASE ~socket_invalid(Asked)
    <3> PICK s : s = [slot[k] EXCEPT !.writing = TRUE]  OBVIOUS
    <3>1. slot' = [slot EXCEPT ![k] = s]  BY <1>9, <2>1 DEF TriggerWrite
    <3>2. Steady(slot[k], s)  BY <1>11, <2>1
    <3> QED  BY <1>6, <3>1, <3>2
  <2> QED  BY <1>5, <1>9, <2>1 DEF TriggerWrite
<1>10. CASE CloseSocket
  <2>1. \/ slot' = slot
        \/ /\ ~socket_invalid(Asked)
           /\ \/ slot' = [slot EXCEPT ![k] = Emptied(slot[k])]
              \/ slot' = [slot EXCEPT ![k].closing = TRUE]
              \/ slot' = [slot EXCEPT ![k].closing = TRUE, ![k].reading = FALSE, ![k].type = "HALFCLOSE_READ"]
    BY <1>10 DEF CloseSocket
  <2>2. CASE ~socket_invalid(Asked) /\ slot' = [slot EXCEPT ![k] = Emptied(slot[k])]
    BY <1>6, <1>11, <2>2
  <2>3. CASE ~socket_invalid(Asked) /\ slot' = [slot EXCEPT ![k].closing = TRUE]
    <3> PICK s : s = [slot[k] EXCEPT !.closing = TRUE]  OBVIOUS
    <3>1. slot' = [slot EXCEPT ![k] = s]  BY <2>3
    <3>2. Steady(slot[k], s)  BY <1>11, <2>3
    <3> QED  BY <1>6, <3>1, <3>2
  <2>4. CASE ~socket_invalid(Asked) /\ slot' = [slot EXCEPT ![k].closing = TRUE, ![k].reading = FALSE,
                                                            ![k].type = "HALFCLOSE_READ"]
    <3> PICK s : s = [slot[k] EXCEPT !.closing = TRUE, !.type = "HALFCLOSE_READ", !.reading = FALSE]  OBVIOUS
    <3>1. slot' = [slot EXCEPT ![k] = s]
      BY <1>4, <2>4 DEF LifeInv, SlotShape, Fields
    <3>2. "HALFCLOSE_READ" \notin Unused  BY DEF Unused
    <3>3. Steady(slot[k], s)  BY <1>11, <2>4, <3>2
    <3> QED  BY <1>6, <3>1, <3>3
  <2> QED  BY <1>5, <2>1, <2>2, <2>3, <2>4
<1> QED  BY <1>7, <1>8, <1>9, <1>10

\* An event, for a slot in use
LEMMA PolledTyped ==
    ASSUME LifeInv, SendInv, NEW types, Turn(types), "INVALID" \notin types
    PROVE  /\ E0.k \in Slots /\ Polled = slot[E0.k] /\ Polled.id \in Ids
           /\ DOMAIN Polled = Fields /\ SlotTyped(Polled) /\ Polled.type \notin Unused
<1>1. /\ E0.k \in Slots /\ Polled = slot[E0.k] /\ Polled.id \in Ids
      /\ DOMAIN Polled = Fields /\ Polled.type \notin Unused
  BY TurnFacts DEF Unused
<1>2. SlotTyped(slot[E0.k])  BY <1>1 DEF SendInv, SlotsTyped
<1> QED  BY <1>1, <1>2

\* An event of the poll is handled: it connects, is read, is closed or raises an error.
LEMMA EventSends ==
    ASSUME LifeInv, SendInv, SeenStays, NetOK',
           ReportConnect \/ ReadFails \/ ReadData \/ ReadEnd \/ WriteLater \/ EventError \/ EventEof
    PROVE  SendInv'
<1> PICK k : k = E0.k  OBVIOUS
<1> PICK old : old = slot[k]  OBVIOUS
<1>1. UNCHANGED <<dw_lock, pipe, sender, left, early>>
  BY DEF ReportConnect, ReadFails, ReadData, ReadEnd, WriteLater, EventError, EventEof, Reading, Writing
<1>2. k \in Slots /\ Polled = old /\ DOMAIN old = Fields /\ SlotTyped(old) /\ old.type \notin Unused
  <2>1. Turn({"CONNECTING"}) \/ Turn(Streams)
    BY DEF ReportConnect, ReadFails, ReadData, ReadEnd, WriteLater, EventError, EventEof, Reading, Writing
  <2>2. "INVALID" \notin {"CONNECTING"} /\ "INVALID" \notin Streams  BY DEF Streams
  <2>3. CASE Turn({"CONNECTING"})  BY <2>2, <2>3, PolledTyped
  <2>4. CASE Turn(Streams)  BY <2>2, <2>4, PolledTyped
  <2> QED  BY <2>1, <2>3, <2>4
<1>3. QuietPipe  BY <1>1 DEF QuietPipe
<1>4. ASSUME NEW s, Steady(old, s), slot' = [slot EXCEPT ![k] = s]
      PROVE  SendInv'
  BY <1>1, <1>2, <1>3, <1>4, ThreadSends
<1>5. CASE slot' = slot  BY <1>1, <1>3, <1>5, ThreadSends
<1>6. CASE slot' = [slot EXCEPT ![k] = Emptied(old)]
  <2>1. Steady(old, Emptied(old))  BY <1>2, SteadyForms
  <2> QED  BY <1>4, <1>6, <2>1
<1>7. \/ slot' = slot \/ slot' = [slot EXCEPT ![k] = Emptied(old)]
      \/ \E b : slot' = [slot EXCEPT ![k].type = "CONNECTED", ![k].writing = b]
      \/ slot' = [slot EXCEPT ![k].type = "HALFCLOSE_READ", ![k].reading = FALSE]
  <2>1. CASE ReportConnect
    <3>1. CASE net[Polled.id].peer \in Hung  BY <2>1, <3>1 DEF ReportConnect
    <3>2. CASE net[Polled.id].peer \notin Hung
      <4> PICK b : b = (slot[k].writing /\ ~nomore_sending_data(Polled))  OBVIOUS
      <4>1. slot' = [slot EXCEPT ![k].type = "CONNECTED", ![k].writing = @ /\ ~nomore_sending_data(Polled)]
        BY <2>1, <3>2 DEF ReportConnect
      <4>2. slot' = [slot EXCEPT ![k].type = "CONNECTED", ![k].writing = b]
        BY <1>2, <4>1 DEF LifeInv, SlotShape, Fields
      <4> QED  BY <4>2
    <3> QED  BY <3>1, <3>2
  <2>2. CASE ReadFails \/ ReadData \/ WriteLater \/ EventError
    BY <2>2 DEF ReadFails, ReadData, WriteLater, EventError
  <2>3. CASE ReadEnd  BY <2>3 DEF ReadEnd
  <2>4. CASE EventEof  BY <2>4 DEF EventEof
  <2> QED  BY <2>1, <2>2, <2>3, <2>4
<1>8. ASSUME NEW b, slot' = [slot EXCEPT ![k].type = "CONNECTED", ![k].writing = b] PROVE SendInv'
  <2> PICK s : s = [old EXCEPT !.type = "CONNECTED", !.writing = b]  OBVIOUS
  <2>1. slot' = [slot EXCEPT ![k] = s]  BY <1>2, <1>8 DEF LifeInv, SlotShape, Fields
  <2>2. "CONNECTED" \notin Unused  BY DEF Unused
  <2>3. Steady(old, s)  BY <1>2, <2>2, FlagsSteady
  <2> QED  BY <1>4, <2>1, <2>3
<1>9. CASE slot' = [slot EXCEPT ![k].type = "HALFCLOSE_READ", ![k].reading = FALSE]
  <2> PICK s : s = [old EXCEPT !.type = "HALFCLOSE_READ", !.reading = FALSE]  OBVIOUS
  <2>1. slot' = [slot EXCEPT ![k] = s]  BY <1>2, <1>9 DEF LifeInv, SlotShape, Fields
  <2>2. "HALFCLOSE_READ" \notin Unused  BY DEF Unused
  <2>3. Steady(old, s)  BY <1>2, <2>2, FlagsSteady
  <2> QED  BY <1>4, <2>1, <2>3
<1> QED  BY <1>5, <1>6, <1>7, <1>8, <1>9

\* and the kernel's side of its socket
LEMMA EventNet ==
    ASSUME LifeInv, SendInv,
           ReportConnect \/ ReadFails \/ ReadData \/ ReadEnd \/ WriteLater \/ EventError \/ EventEof
    PROVE  NetOK'
<1> PICK i : i = Polled.id  OBVIOUS
<1>1. i \in Ids
  <2>1. Turn({"CONNECTING"}) \/ Turn(Streams)
    BY DEF ReportConnect, ReadFails, ReadData, ReadEnd, WriteLater, EventError, EventEof, Reading, Writing
  <2>2. "INVALID" \notin {"CONNECTING"} /\ "INVALID" \notin Streams  BY DEF Streams
  <2>3. CASE Turn({"CONNECTING"})  BY <2>2, <2>3, PolledTyped
  <2>4. CASE Turn(Streams)  BY <2>2, <2>4, PolledTyped
  <2> QED  BY <2>1, <2>3, <2>4
<1>2. CASE net' = net  BY <1>2, SameNet
<1>3. ASSUME NEW p, net' = [net EXCEPT ![i].peer = p] PROVE NetOK'
  <2> PICK new : new = [net[i] EXCEPT !.peer = p]  OBVIOUS
  <2>1. net' = [net EXCEPT ![i] = new]  BY <1>3
  <2>2. DOMAIN new = NetFields /\ new.room \in Nat  BY <1>1, NetShapes
  <2> QED  BY <2>1, <2>2, NetWritten
<1>4. CASE net' = [net EXCEPT ![i].unread = 0]
  <2> PICK new : new = [net[i] EXCEPT !.unread = 0]  OBVIOUS
  <2>1. net' = [net EXCEPT ![i] = new]  BY <1>4
  <2>2. DOMAIN new = NetFields /\ new.room \in Nat  BY <1>1, NetShapes
  <2> QED  BY <2>1, <2>2, NetWritten
<1>5. CASE EventError
  <2> PICK p : p = IF net[i].peer \in {"reset", "refused"} THEN "gone" ELSE net[i].peer  OBVIOUS
  <2>1. net' = [net EXCEPT ![i].peer = IF @ \in {"reset", "refused"} THEN "gone" ELSE @]  BY <1>5 DEF EventError
  <2>2. net' = [net EXCEPT ![i].peer = p]  BY <2>1
  <2> QED  BY <1>3, <2>2
<1>6. CASE ReadFails  BY <1>3, <1>6 DEF ReadFails
<1>7. CASE ReadData  BY <1>4, <1>7 DEF ReadData
<1>8. CASE ReportConnect \/ ReadEnd \/ WriteLater \/ EventEof
  BY <1>2, <1>8 DEF ReportConnect, ReadEnd, WriteLater, EventEof
<1> QED  BY <1>5, <1>6, <1>7, <1>8

-----------------------------------------------------------------------------
(* send_buffer and send_socket *)

\* Steady one after the other
LEMMA SteadyOn == \A s, t, u : Steady(s, t) /\ Steady(t, u) => Steady(s, u)
BY DEF Steady

\* The lists after send_list_tcp: of the low one, only the first may be begun, and only if
\* nothing is left of the high one.
LEMMA ListsLeft ==
    ASSUME NEW s, SlotTyped(s), NEW room \in Nat, NEW high, NEW low,
           high = SendList(s.high, room),
           high.rest = <<>> => low = SendList(s.low, room - Len(high.bytes)),
           high.rest # <<>> => low = [bytes |-> <<>>, rest |-> s.low]
    PROVE  /\ high.rest \in Seq(Buffers) /\ low.rest \in Seq(Buffers)
           /\ room - Len(high.bytes) - Len(low.bytes) \in Nat
           /\ high.rest # <<>> => low.rest = s.low
           /\ \A j \in 2 .. Len(low.rest) : \E i \in 1 .. Len(s.low) : low.rest[j] = s.low[i]
<1>1. s.high \in Seq(Buffers) /\ s.low \in Seq(Buffers)  BY DEF SlotTyped
<1>2. high.rest \in Seq(Buffers) /\ Len(high.bytes) \in 0 .. room
  BY <1>1, SendListFacts
<1>3. CASE high.rest = <<>>
  <2>1. PICK more : more = room - Len(high.bytes)  OBVIOUS
  <2>2. more \in Nat  BY <1>2, <2>1
  <2>3. low = SendList(s.low, more)  BY <1>3, <2>1
  <2>4. /\ low.rest \in Seq(Buffers) /\ Len(low.bytes) \in 0 .. more
        /\ \A j \in 2 .. Len(low.rest) : \E i \in 1 .. Len(s.low) : low.rest[j] = s.low[i]
    BY ONLY <1>1, <2>2, <2>3, SendListFacts
  <2>5. more - Len(low.bytes) \in Nat  BY ONLY <2>2, <2>4
  <2>6. room - Len(high.bytes) - Len(low.bytes) = more - Len(low.bytes)  BY ONLY <2>1
  <2> QED  BY <1>2, <1>3, <2>4, <2>5, <2>6
<1>4. CASE high.rest # <<>>
  <2>1. low = [bytes |-> <<>>, rest |-> s.low]  BY <1>4
  <2>2. low.rest = s.low /\ low.bytes = <<>>  BY ONLY <2>1
  <2>3. Len(low.bytes) = 0  BY ONLY <2>2
  <2>4. \A j \in 2 .. Len(low.rest) : j \in 1 .. Len(s.low)  BY ONLY <1>1, <2>2
  <2>5. room - Len(high.bytes) - Len(low.bytes) \in Nat  BY ONLY <1>2, <2>3, room \in Nat
  <2> QED  BY ONLY <1>1, <1>2, <2>2, <2>4, <2>5
<1> QED  BY <1>3, <1>4

\* One message may be begun, and it is raised.
LEMMA RaisedSteady ==
    ASSUME NEW s, DOMAIN s = Fields, SlotTyped(s), s.type \notin Unused,
           NEW high \in Seq(Buffers), NEW low \in Seq(Buffers),
           high # <<>> => low = s.low,
           \A j \in 2 .. Len(low) : \E i \in 1 .. Len(s.low) : low[j] = s.low[i]
    PROVE  LET sent == RaiseUncomplete([s EXCEPT !.high = high, !.low = low])
           IN  Steady(s, sent) /\ DOMAIN sent = Fields /\ sent.type = s.type
<1>0. PICK old : old = [s EXCEPT !.high = high, !.low = low]  OBVIOUS
<1> PICK sent : sent = RaiseUncomplete(old)  OBVIOUS
<1>1. /\ DOMAIN old = Fields /\ old.high = high /\ old.low = low /\ old.dw = s.dw /\ old.type = s.type
      /\ old.sending = s.sending /\ old.id = s.id /\ old.tcp = s.tcp /\ old.tag = s.tag
  BY <1>0 DEF Fields
<1>2. ASSUME NEW j \in 2 .. Len(low) PROVE low[j].ptr = 0
  <2>1. PICK i \in 1 .. Len(s.low) : low[j] = s.low[i]  OBVIOUS
  <2>2. s.low[i].ptr = 0  BY DEF SlotTyped
  <2> QED  BY <2>1, <2>2
<1>3. CASE high = <<>> /\ low # <<>> /\ Head(low).ptr > 0
  <2>0. PICK first : first = <<Head(low)>>  OBVIOUS
  <2>00. PICK rest : rest = Tail(low)  OBVIOUS
  <2>1. first \in Seq(Buffers) /\ rest \in Seq(Buffers)  BY <1>3, <2>0, <2>00
  <2>2. \A j \in 1 .. Len(rest) : rest[j].ptr = 0
    <3>1. \A j \in 1 .. Len(rest) : j + 1 \in 2 .. Len(low) /\ rest[j] = low[j + 1]  BY <1>3, <2>00
    <3> QED  BY <1>2, <3>1
  <2>3. sent = [old EXCEPT !.high = first, !.low = rest]
    BY <1>1, <1>3, <2>0, <2>00 DEF RaiseUncomplete
  <2>4. /\ DOMAIN sent = Fields /\ sent.high = first /\ sent.low = rest /\ sent.dw = s.dw /\ sent.type = s.type
        /\ sent.sending = s.sending /\ sent.id = s.id /\ sent.tcp = s.tcp /\ sent.tag = s.tag
    BY <1>1, <2>3 DEF Fields
  <2>5. Steady(s, sent) /\ DOMAIN sent = Fields /\ sent.type = s.type
    BY <2>1, <2>2, <2>4 DEF Steady, SlotTyped
  <2> QED  BY <1>0, <2>5
<1>4. CASE ~(high = <<>> /\ low # <<>> /\ Head(low).ptr > 0)
  <2>1. sent = old  BY <1>1, <1>4 DEF RaiseUncomplete
  <2>2. \A j \in 1 .. Len(low) : low[j].ptr = 0
    <3>1. CASE high # <<>>  BY <3>1 DEF SlotTyped
    <3>2. CASE high = <<>> /\ low # <<>>
      <4>1. Head(low) = low[1] /\ low[1] \in Buffers  BY <3>2
      <4>2. low[1].ptr = 0
        <5>1. low[1].ptr \in 0 .. MsgSize - 1  BY <4>1 DEF Buffers
        <5> QED  BY <1>4, <3>2, <4>1, <5>1, SocketAssumption
      <4> QED  BY <1>2, <4>2
    <3>3. CASE low = <<>>  BY <3>3
    <3> QED  BY <3>1, <3>2, <3>3
  <2>3. Steady(s, old)  BY <1>1, <2>2 DEF Steady, SlotTyped
  <2> QED  BY <1>0, <1>1, <2>1, <2>3
<1> QED  BY <1>3, <1>4

\* send_buffer, whatever is written and whatever is left
LEMMA SendBufferSends ==
    ASSUME LifeInv, SendInv, SeenStays, SendBuffer
    PROVE  SendInv'
<1> DEFINE old == Polled
           s == [Polled EXCEPT !.high = Polled.dw \o @, !.dw = <<>>]
           id == s.id
           high == SendList(s.high, net[id].room)
           low == IF high.rest = <<>> THEN SendList(s.low, net[id].room - Len(high.bytes))
                  ELSE [bytes |-> <<>>, rest |-> s.low]
           sent == RaiseUncomplete([s EXCEPT !.high = high.rest, !.low = low.rest])
           after == IF ~send_buffer_empty(s) /\ net[id].peer # "up" THEN CloseWrite(s) ELSE Flushed(sent)
<1> PICK k : k = E0.k  OBVIOUS
<1>c. PICK room : room = net[id].room  OBVIOUS
<1>1. /\ Writing /\ UNCHANGED <<dw_lock, pipe, sender, left, early>>
      /\ slot' = [slot EXCEPT ![k] = after]
      /\ \/ net' = [net EXCEPT ![id] = NoPeer]
         \/ net' = [net EXCEPT ![id] = [net[id] EXCEPT !.room = @ - Len(high.bytes) - Len(low.bytes)]]
         \/ net' = [net EXCEPT ![id] = [net[id] EXCEPT !.peer = "gone"]]
  <2>1. Writing  BY DEF SendBuffer
  <2>2. UNCHANGED <<dw_lock, pipe, sender, left, early>>  BY <2>1 DEF Writing
  <2>3. slot' = [slot EXCEPT ![k] = after]
    <3>1. slot' = [slot EXCEPT ![E0.k] = after]  BY DEF SendBuffer
    <3> HIDE DEF after
    <3> QED  BY <3>1
  <2>4. \/ net' = [net EXCEPT ![id] = IF after.type = "INVALID" THEN NoPeer
                        ELSE [net[id] EXCEPT !.room = @ - Len(high.bytes) - Len(low.bytes)]]
        \/ net' = [net EXCEPT ![id] = IF after.type = "INVALID" THEN NoPeer
                        ELSE [net[id] EXCEPT !.peer = "gone"]]
    BY DEF SendBuffer
  <2> HIDE DEF after, sent, low, high, id, s
  <2> QED  BY <2>1, <2>2, <2>3, <2>4
<1>a. s = [old EXCEPT !.high = old.dw \o @, !.dw = <<>>]  OBVIOUS
<1>b. id = s.id  OBVIOUS
<1>d. high = SendList(s.high, room)  BY <1>c
<1>e. low = IF high.rest = <<>> THEN SendList(s.low, room - Len(high.bytes))
            ELSE [bytes |-> <<>>, rest |-> s.low]
  BY <1>c
<1>f. sent = RaiseUncomplete([s EXCEPT !.high = high.rest, !.low = low.rest])  OBVIOUS
<1>g. after = IF ~send_buffer_empty(s) /\ net[id].peer # "up" THEN CloseWrite(s) ELSE Flushed(sent)
  OBVIOUS
<1>h. old = Polled  OBVIOUS
<1> HIDE DEF after, sent, low, high, id, s, old
<1>2. /\ k \in Slots /\ slot[k] = old /\ old.id \in Ids
      /\ DOMAIN old = Fields /\ SlotTyped(old) /\ old.type \notin Unused
  <2>1. Turn(Streams) /\ "INVALID" \notin Streams  BY <1>1 DEF Writing, Streams
  <2> QED  BY <1>h, <2>1, PolledTyped
<1>3. /\ DOMAIN s = Fields /\ SlotTyped(s) /\ s.type \notin Unused /\ id = old.id /\ Steady(old, s)
  <2>1. old.dw \o old.high \in Seq(Buffers) /\ <<>> \in Seq(Buffers)  BY <1>2 DEF SlotTyped
  <2>2. PICK list : list = old.dw \o old.high  OBVIOUS
  <2>3. s = [old EXCEPT !.high = list, !.dw = <<>>]  BY <1>a, <2>2
  <2>4. /\ DOMAIN s = Fields /\ s.high = list /\ s.low = old.low /\ s.dw = <<>> /\ s.type = old.type
        /\ s.sending = old.sending /\ s.id = old.id /\ s.tcp = old.tcp /\ s.tag = old.tag
    BY <1>2, <2>3 DEF Fields
  <2> QED  BY <1>b, <1>2, <2>1, <2>2, <2>4 DEF Steady, SlotTyped
<1>4. room \in Nat  BY <1>c, <1>2, <1>3 DEF SendInv, NetOK
<1>5. /\ high.rest \in Seq(Buffers) /\ low.rest \in Seq(Buffers)
      /\ room - Len(high.bytes) - Len(low.bytes) \in Nat
      /\ high.rest # <<>> => low.rest = s.low
      /\ \A j \in 2 .. Len(low.rest) : \E i \in 1 .. Len(s.low) : low.rest[j] = s.low[i]
  <2>1. PICK t : t = s  OBVIOUS
  <2>2. PICK h : h = high  OBVIOUS
  <2>3. PICK l : l = low  OBVIOUS
  <2>4. SlotTyped(t)  BY <1>3, <2>1
  <2>5. h = SendList(t.high, room)  BY <1>d, <2>1, <2>2
  <2>6. h.rest = <<>> => l = SendList(t.low, room - Len(h.bytes))
    BY ONLY <1>e, <2>1, <2>2, <2>3
  <2>7. h.rest # <<>> => l = [bytes |-> <<>>, rest |-> t.low]
    BY ONLY <1>e, <2>1, <2>2, <2>3
  <2>8. /\ h.rest \in Seq(Buffers) /\ l.rest \in Seq(Buffers)
        /\ room - Len(h.bytes) - Len(l.bytes) \in Nat
        /\ h.rest # <<>> => l.rest = t.low
        /\ \A j \in 2 .. Len(l.rest) : \E i \in 1 .. Len(t.low) : l.rest[j] = t.low[i]
    BY ONLY SMTT(60), <1>4, <2>4, <2>5, <2>6, <2>7, ListsLeft
  <2> QED  BY ONLY <2>1, <2>2, <2>3, <2>8
<1>7. Steady(s, sent) /\ DOMAIN sent = Fields /\ sent.type = s.type
  <2>1. PICK h : h = high.rest  OBVIOUS
  <2>2. PICK l : l = low.rest  OBVIOUS
  <2>3. h \in Seq(Buffers) /\ l \in Seq(Buffers) /\ (h # <<>> => l = s.low)
        /\ \A j \in 2 .. Len(l) : \E i \in 1 .. Len(s.low) : l[j] = s.low[i]
    BY <1>5, <2>1, <2>2
  <2>4. sent = RaiseUncomplete([s EXCEPT !.high = h, !.low = l])  BY <1>f, <2>1, <2>2
  <2> QED  BY ONLY <1>3, <2>3, <2>4, RaisedSteady
<1>8. Steady(s, after)
  <2>1. ASSUME NEW x, DOMAIN x = Fields, SlotTyped(x), x.type \notin Unused
        PROVE  /\ Steady(x, x) /\ Steady(x, Closed(x)) /\ Steady(x, [x EXCEPT !.writing = FALSE])
               /\ Steady(x, [x EXCEPT !.type = "HALFCLOSE_WRITE", !.writing = FALSE])
    <3>1. "HALFCLOSE_WRITE" \notin Unused  BY DEF Unused
    <3>2. Steady(x, x) /\ Steady(x, Closed(x))  BY <2>1, SteadyForms
    <3> QED  BY <2>1, <3>1, <3>2, FlagsSteady
  <2>2. Steady(s, CloseWrite(s))  BY <1>3, <2>1 DEF CloseWrite
  <2>3. DOMAIN sent = Fields /\ SlotTyped(sent) /\ sent.type \notin Unused  BY <1>3, <1>7 DEF Steady
  <2>4. Steady(sent, sent) /\ Steady(sent, Closed(sent)) /\ Steady(sent, [sent EXCEPT !.writing = FALSE])
    BY ONLY <2>1, <2>3
  <2>5. Steady(sent, Flushed(sent))
    <3>1. Flushed(sent) = sent \/ Flushed(sent) = Closed(sent)
          \/ Flushed(sent) = [sent EXCEPT !.writing = FALSE]
      BY ONLY DEF Flushed
    <3> QED  BY ONLY <2>4, <3>1
  <2>6. Steady(s, Flushed(sent))  BY ONLY <1>7, <2>5, SteadyOn
  <2> QED  BY ONLY <1>g, <2>2, <2>6
<1>9. Steady(slot[k], after)  BY <1>2, <1>3, <1>8, SteadyOn
<1>10. NetOK'
  <2>1. CASE net' = [net EXCEPT ![id] = NoPeer]  BY <2>1, NetShapes, NetWritten
  <2>2. CASE net' = [net EXCEPT ![id] = [net[id] EXCEPT !.room = @ - Len(high.bytes) - Len(low.bytes)]]
    <3>1. PICK n : n = room - Len(high.bytes) - Len(low.bytes)  OBVIOUS
    <3>2. n \in Nat  BY <1>5, <3>1
    <3>3. PICK new : new = [net[id] EXCEPT !.room = n]  OBVIOUS
    <3>4. DOMAIN new = NetFields /\ new.room \in Nat  BY <1>2, <1>3, <3>2, <3>3, NetShapes
    <3>5. net' = [net EXCEPT ![id] = [net[id] EXCEPT !.room = net[id].room - Len(high.bytes) - Len(low.bytes)]]
      BY ONLY <2>2
    <3>6. net' = [net EXCEPT ![id] = new]  BY ONLY <1>c, <3>1, <3>3, <3>5
    <3> QED  BY <3>4, <3>6, NetWritten
  <2>3. CASE net' = [net EXCEPT ![id] = [net[id] EXCEPT !.peer = "gone"]]
    <3>1. PICK new : new = [net[id] EXCEPT !.peer = "gone"]  OBVIOUS
    <3>2. DOMAIN new = NetFields /\ new.room \in Nat  BY <1>2, <1>3, <3>1, NetShapes
    <3>3. net' = [net EXCEPT ![id] = new]  BY <2>3, <3>1
    <3> QED  BY <3>2, <3>3, NetWritten
  <2> QED  BY <1>1, <2>1, <2>2, <2>3
<1>11. QuietPipe  BY <1>1 DEF QuietPipe
<1> QED  BY <1>1, <1>2, <1>9, <1>10, <1>11, ThreadSends

\* The message of a request is put behind those that wait.
LEMMA AppendedTyped ==
    ASSUME NEW s, DOMAIN s = Fields, SlotTyped(s), NEW msg \in Msgs, NEW id
    PROVE  /\ Appended(s, msg).type = s.type /\ Appended(s, msg).id = s.id
           /\ SlotTyped(Appended(s, msg)) /\ Appended(s, msg).sending = s.sending
           /\ Appended(s, msg).tcp = s.tcp /\ DOMAIN Appended(s, msg) = Fields
<1> PICK buf : buf = [msg |-> msg, ptr |-> 0]  OBVIOUS
<1> PICK new : new = Appended(s, msg)  OBVIOUS
<1>1. buf \in Buffers /\ buf.ptr = 0
  <2>1. 0 \in 0 .. MsgSize - 1  BY SocketAssumption
  <2> QED  BY <2>1 DEF Buffers
<1>2. s.high \in Seq(Buffers) /\ s.low \in Seq(Buffers) /\ \A j \in 1 .. Len(s.low) : s.low[j].ptr = 0
  BY DEF SlotTyped
<1>3. CASE new = [s EXCEPT !.high = <<buf>>, !.writing = TRUE]
  <2>1. PICK list : list = <<buf>>  OBVIOUS
  <2>2. list \in Seq(Buffers)  BY <1>1, <2>1
  <2>3. /\ new.high = list /\ new.low = s.low /\ new.dw = s.dw /\ new.type = s.type /\ new.id = s.id
        /\ new.sending = s.sending /\ new.tcp = s.tcp /\ new.tag = s.tag /\ DOMAIN new = Fields
    BY <1>3, <2>1 DEF Fields
  <2> QED  BY <2>2, <2>3 DEF SlotTyped
<1>4. CASE new = [s EXCEPT !.low = Append(@, buf)]
  <2>1. PICK list : list = Append(s.low, buf)  OBVIOUS
  <2>2. /\ list \in Seq(Buffers) /\ Len(list) = Len(s.low) + 1 /\ Len(s.low) \in Nat
        /\ \A j \in 1 .. Len(s.low) : list[j] = s.low[j]
        /\ list[Len(s.low) + 1] = buf
    BY <1>1, <1>2, <2>1
  <2>3. \A j \in 1 .. Len(list) : list[j].ptr = 0
    <3> SUFFICES ASSUME NEW j \in 1 .. Len(list) PROVE list[j].ptr = 0  OBVIOUS
    <3>1. j \in 1 .. Len(s.low) \/ j = Len(s.low) + 1  BY <2>2
    <3> QED  BY <1>1, <1>2, <2>2, <3>1
  <2>4. /\ new.high = s.high /\ new.low = list /\ new.dw = s.dw /\ new.type = s.type /\ new.id = s.id
        /\ new.sending = s.sending /\ new.tcp = s.tcp /\ new.tag = s.tag /\ DOMAIN new = Fields
    BY <1>4, <2>1 DEF Fields
  <2> QED  BY <2>2, <2>3, <2>4 DEF SlotTyped
<1>5. CASE new = [s EXCEPT !.high = Append(@, buf)]
  <2>1. PICK list : list = Append(s.high, buf)  OBVIOUS
  <2>2. list \in Seq(Buffers)  BY <1>1, <1>2, <2>1
  <2>3. /\ new.high = list /\ new.low = s.low /\ new.dw = s.dw /\ new.type = s.type /\ new.id = s.id
        /\ new.sending = s.sending /\ new.tcp = s.tcp /\ new.tag = s.tag /\ DOMAIN new = Fields
    BY <1>5, <2>1 DEF Fields
  <2> QED  BY <2>2, <2>3 DEF SlotTyped
<1> QED  BY <1>3, <1>4, <1>5 DEF Appended

\* A message leaves the pipe and its socket's counter, if the slot is still that socket's.
LEMMA SendSocketSends ==
    ASSUME LifeInv, SendInv, SendSocket
    PROVE  SendInv'
<1> PICK k : k = AskedSlot  OBVIOUS
<1> PICK id : id = Asked  OBVIOUS
<1> PICK old : old = slot[k]  OBVIOUS
<1>a. PICK dropped : dropped = (socket_invalid(Asked) \/ old.closing
            \/ old.type \in {"HALFCLOSE_WRITE", "PACCEPT", "PLISTEN", "LISTEN"})
  OBVIOUS
<1>b. PICK with : with = IF dropped THEN old ELSE Appended(old, Head(pipe).msg)  OBVIOUS
<1>c. PICK new : new = Counted(with, id)  OBVIOUS
<1> PICK Elems : pipe \in Seq(Elems)  BY DEF LifeInv, PipeShape
<1>1. /\ pipe # <<>> /\ Head(pipe).op \in Carried /\ pipe' = Tail(pipe)
      /\ UNCHANGED <<dw_lock, sender, left, net, early, seen>>
  BY DEF SendSocket, Command, Carried
<1>2. slot' = [slot EXCEPT ![k] = new]
  <2>1. slot' = [slot EXCEPT ![AskedSlot] =
            Counted(IF socket_invalid(Asked) \/ slot[AskedSlot].closing
                       \/ slot[AskedSlot].type \in {"HALFCLOSE_WRITE", "PACCEPT", "PLISTEN", "LISTEN"}
                    THEN slot[AskedSlot] ELSE Appended(slot[AskedSlot], Head(pipe).msg), Asked)]
    BY DEF SendSocket
  <2> QED  BY <1>a, <1>b, <1>c, <2>1
<1>3. /\ Len(pipe') = Len(pipe) - 1 /\ Len(pipe) \in Nat /\ Len(pipe) > 0
      /\ \A n \in 1 .. Len(pipe) - 1 : pipe'[n] = pipe[n + 1]
      /\ Head(pipe) = pipe[1]
  BY <1>1, Taking
<1>4. Head(pipe).msg \in Msgs /\ seen[id] # "unborn" /\ Head(pipe).id = id
  <2>1. RequestTyped(pipe[1]) /\ Head(pipe) = pipe[1]  BY <1>3 DEF SendInv, RequestsTyped
  <2> QED  BY <1>1, <2>1 DEF RequestTyped, Asked
<1>5. /\ k \in Slots /\ DOMAIN old = Fields /\ SlotTyped(old) /\ k = HASH_ID(id)
      /\ \A j \in Slots : j # k => slot'[j] = slot[j]
      /\ slot'[k] = new
  BY <1>1, <1>2, AskedFacts DEF SendInv, SlotsTyped, LifeInv, SlotShape, AskedSlot
<1>6. /\ with.type = old.type /\ with.id = old.id /\ SlotTyped(with) /\ with.sending = old.sending
      /\ with.tcp = old.tcp /\ DOMAIN with = Fields
  <2>1. CASE dropped  BY <1>5, <1>b, <2>1
  <2>2. CASE ~dropped  BY <1>4, <1>5, <1>b, <2>2, AppendedTyped
  <2> QED  BY <2>1, <2>2
<1>7. /\ new.type = old.type /\ new.id = old.id /\ SlotTyped(new) /\ new.tcp = old.tcp
      /\ new.sending = IF old.id = id /\ old.tcp THEN old.sending - 1 ELSE old.sending
  <2>1. with.sending \in Int  BY <1>6 DEF SlotTyped
  <2> QED  BY <1>6, <1>c, <2>1 DEF Counted, SlotTyped, Fields
<1>8. SeenStays  BY <1>1 DEF SeenStays
<1>9. SendersTyped' /\ \A i : AtPush(i)' = AtPush(i)
  BY <1>1, <1>8, SendersStay DEF SendInv
<1>10. LockOK'
  <2>1. \A j \in Slots : slot'[j].id = slot[j].id  BY <1>5, <1>7
  <2> QED  BY <1>1, <2>1, LocksStay DEF SendInv
<1>11. SlotsTyped' /\ NetOK'
  <2>1. ASSUME NEW j \in Slots PROVE SlotTyped(slot'[j])
    <3>1. CASE j = k  BY <1>5, <1>7, <3>1
    <3>2. CASE j # k
      <4>1. slot'[j] = slot[j] /\ SlotTyped(slot[j])  BY <1>5, <3>2 DEF SendInv, SlotsTyped
      <4> QED  BY <4>1
    <3> QED  BY <3>1, <3>2
  <2>2. NetOK'  BY <1>1, SameNet
  <2> QED  BY <2>1, <2>2 DEF SlotsTyped, SlotTyped
<1>12. RequestsTyped'
  <2> SUFFICES ASSUME NEW n \in 1 .. Len(pipe') PROVE RequestTyped(pipe[n])'
    BY DEF RequestsTyped
  <2>1. n + 1 \in 1 .. Len(pipe) /\ pipe'[n] = pipe[n + 1]  BY <1>3
  <2>2. RequestTyped(pipe[n + 1])  BY <2>1 DEF SendInv, RequestsTyped
  <2> QED  BY <1>1, <2>1, <2>2 DEF RequestTyped
<1>13. CountOK'
  <2>1. ASSUME NEW i \in Ids, slot'[HASH_ID(i)].id = i, i \notin early'
        PROVE  (IF slot'[HASH_ID(i)].tcp THEN slot'[HASH_ID(i)].sending ELSE 0) = Underway(i)'
    <3>1. PICK j \in Slots : j = HASH_ID(i)  BY HashInSlots
    <3>2. /\ SlotTyped(slot[j]) /\ slot[j].id = i /\ slot'[j].tcp = slot[j].tcp
      BY <1>5, <1>7, <2>1, <3>1 DEF SendInv, SlotsTyped
    <3>3. (IF slot[j].tcp THEN slot[j].sending ELSE 0) = Cardinality(InPipe(i)) + Cardinality(AtPush(i))
      BY <1>1, <2>1, <3>1, <3>2 DEF SendInv, CountOK, Underway, Tally
    <3>4. slot[j].sending \in Int  BY <3>2 DEF SlotTyped
    <3>5. Cardinality(InPipe(i)) = Cardinality(InPipe(i)') + (IF i = id THEN 1 ELSE 0)
      BY <1>1, <1>4, PipeShrinks
    <3>6. Cardinality(InPipe(i)) \in Nat /\ Cardinality(AtPush(i)) \in Nat  BY UnderwayFinite
    <3>7. IsFiniteSet(InPipe(i)')
      <4>1. IsFiniteSet(1 .. Len(pipe'))
        <5>1. 1 \in Int /\ Len(pipe') \in Int  BY <1>3
        <5> QED  BY <5>1, FS_Interval
      <4>2. InPipe(i)' \in SUBSET (1 .. Len(pipe'))  BY DEF InPipe
      <4> QED  BY <4>1, <4>2, FS_Subset
    <3>8. Cardinality(InPipe(i)') \in Nat  BY <3>7, FS_CardinalityType
    <3>9. slot'[j].sending = slot[j].sending - (IF i = id /\ slot[j].tcp THEN 1 ELSE 0)
      <4>1. CASE i = id
        <5>1. j = k  BY <1>5, <3>1, <4>1
        <5> QED  BY <1>5, <1>7, <3>2, <3>4, <4>1, <5>1
      <4>2. CASE i # id
        <5>1. slot'[j].sending = slot[j].sending
          <6>1. CASE j = k  BY <1>5, <1>7, <3>2, <4>2, <6>1
          <6>2. CASE j # k  BY <1>5, <6>2
          <6> QED  BY <6>1, <6>2
        <5> QED  BY <3>4, <4>2, <5>1
      <4> QED  BY <4>1, <4>2
    <3>10. AtPush(i)' = AtPush(i)  BY <1>9
    <3>11. slot[j].tcp \in BOOLEAN  BY <3>2 DEF SlotTyped
    <3>12. (IF slot'[j].tcp THEN slot'[j].sending ELSE 0) = Cardinality(InPipe(i)') + Cardinality(AtPush(i))
      <4>1. CASE slot[j].tcp = TRUE
        BY <3>2, <3>3, <3>4, <3>5, <3>6, <3>8, <3>9, <4>1
      <4>2. CASE slot[j].tcp = FALSE
        BY <3>2, <3>3, <3>5, <3>6, <3>8, <4>2
      <4> QED  BY <3>11, <4>1, <4>2
    <3> QED  BY <3>1, <3>10, <3>12 DEF Underway
  <2> QED  BY <2>1, CountsAre
<1> QED  BY <1>1, <1>9, <1>10, <1>11, <1>12, <1>13 DEF SendInv

-----------------------------------------------------------------------------
(* The theorem *)

\* Every step keeps the invariant.
LEMMA SendInvStep == LifeInv /\ ToldInOrder' /\ SendInv /\ [Next]_vars => SendInv'
<1> SUFFICES ASSUME LifeInv, ToldInOrder', SendInv, [Next]_vars PROVE SendInv'  OBVIOUS
<1>0. SeenStays  BY SendableStays
<1>1. CASE UNCHANGED vars
  <2>1. UNCHANGED <<slot, dw_lock, pipe, sender, left, net, early>>  BY <1>1 DEF vars
  <2>2. QuietPipe /\ NetOK'  BY <2>1, SameNet DEF QuietPipe
  <2> QED  BY <1>0, <2>1, <2>2, ThreadSends
<1>2. ASSUME NEW id \in Ids, Connect(id) \/ Listen(id) PROVE SendInv'
  BY <1>0, <1>2, OpensSends
<1>3. ASSUME NEW id \in Ids, NEW op \in {"R", "S", "K", "K!"}, Ask(op, id) PROVE SendInv'
  BY <1>3, AskSends
<1>4. ASSUME NEW t \in Senders, SenderStep(t) PROVE SendInv'
  BY <1>4, FirstLookSends, TryLockSends, LookAgainSends, WriteInsteadSends, DirectWriteSends,
     TriggerSends, CountRequestSends, PushRequestSends DEF SenderStep
<1>5. ASSUME NEW t \in Senders, NEW id \in Ids, NEW low \in BOOLEAN, SendEnter(t, id, low) PROVE SendInv'
  BY <1>5, SendEnterSends
<1>6. CASE SocketThread
  <2>1. CASE ForceCloseEnds  BY <1>0, <2>1, ForceCloseSends
  <2>2. CASE NoCommand \/ Wait \/ SendAborts \/ EventOnInvalid \/ ReadBlocks
    BY <1>0, <2>2, OnlyToldSends
  <2>3. CASE OpenSocket \/ ListenSocket  BY <1>0, <2>3, OpenSocketSends
  <2>4. CASE ResumeSocket \/ PauseSocket \/ CloseSocket \/ TriggerWrite  BY <1>0, <2>4, RequestSends
  <2>5. CASE SendSocket  BY <2>5, SendSocketSends
  <2>6. CASE ReportAccept  BY <1>0, <2>6, ReportAcceptSends
  <2>7. CASE ReportConnect \/ ReadFails \/ ReadData \/ ReadEnd \/ WriteLater \/ EventError \/ EventEof
    BY <1>0, <2>7, EventNet, EventSends
  <2>8. CASE SendBuffer  BY <1>0, <2>8, SendBufferSends
  <2> QED  BY <1>6, <2>1, <2>2, <2>3, <2>4, <2>5, <2>6, <2>7, <2>8 DEF SocketThread
<1>7. ASSUME NEW i \in Ids,
             PeerAccepts(i) \/ PeerRefuses(i) \/ PeerConnects(i) \/ PeerSends(i)
             \/ PeerEnds(i) \/ PeerResets(i) \/ PeerReads(i)
      PROVE  SendInv'
  BY <1>7, PeerStepSends
<1> QED  BY <1>1, <1>2, <1>3, <1>4, <1>5, <1>6, <1>7 DEF Next

\* The program stops for one reason, and with the message that was not counted in hand.
AbortInv == ~Running => Polling /\ pipe # <<>> /\ Head(pipe).id \in early

\* Of the socket thread's steps, only SendAborts stops it.
LEMMA PhaseStays ==
    ASSUME LifeInv, SocketThread, ~SendAborts, Running
    PROVE  poll'.phase # "aborted"
<1>1. /\ DOMAIN poll = {"phase", "batch", "forcing"} /\ poll.phase # "aborted"
      /\ PhaseAfter # "aborted"
  BY DEF LifeInv, PollShape, Running, PhaseAfter
<1>2. Handled.phase # "aborted" /\ \A e : Again(e).phase # "aborted"
  BY <1>1 DEF Handled, Again
<1>3. ReadOn.phase # "aborted"  BY <1>2 DEF ReadOn
<1>4. \A f : /\ [Handled EXCEPT !.forcing = f].phase # "aborted"
             /\ [ReadOn EXCEPT !.forcing = f].phase # "aborted"
  BY <1>2, <1>3
<1>5. \A b : [poll EXCEPT !.batch = b].phase # "aborted"  BY <1>1
<1>6. \A b, f : /\ [poll EXCEPT !.forcing = f].phase # "aborted"
                /\ [poll EXCEPT !.forcing = f, !.batch = b].phase # "aborted"
  BY <1>1
<1>7. CASE ForceCloseEnds  BY <1>6, <1>7 DEF ForceCloseEnds
<1>8. CASE NoCommand \/ Wait
  <2>1. poll'.phase \in {"first", "commands", "events"}  BY <1>1, <1>8 DEF NoCommand, Wait
  <2> QED  BY <2>1
<1>9. CASE OpenSocket \/ ListenSocket \/ ResumeSocket \/ PauseSocket \/ TriggerWrite \/ SendSocket
  <2>1. poll' = poll \/ poll' = [poll EXCEPT !.batch = WithoutClosed(poll.batch, Asked)]
    BY <1>9 DEF OpenSocket, ListenSocket, ResumeSocket, PauseSocket, TriggerWrite, SendSocket
  <2> QED  BY <1>1, <1>5, <2>1
<1>10. CASE CloseSocket
  <2>1. poll' = poll \/ \E f : poll' = [poll EXCEPT !.forcing = f]  BY <1>10 DEF CloseSocket
  <2> QED  BY <1>1, <1>6, <2>1
<1>11. CASE EventOnInvalid \/ ReportConnect \/ ReportAccept \/ ReadFails \/ ReadBlocks \/ ReadData
            \/ ReadEnd \/ WriteLater \/ SendBuffer \/ EventError \/ EventEof
  <2>1. \/ poll' = Handled \/ poll' = ReadOn \/ \E e : poll' = Again(e)
        \/ \E f : poll' = [Handled EXCEPT !.forcing = f] \/ poll' = [ReadOn EXCEPT !.forcing = f]
    BY <1>11 DEF EventOnInvalid, ReportConnect, ReportAccept, ReadFails, ReadBlocks, ReadData,
         ReadEnd, WriteLater, SendBuffer, Writing, EventError, EventEof
  <2> QED  BY <1>2, <1>3, <1>4, <2>1
<1> QED  BY <1>7, <1>8, <1>9, <1>10, <1>11 DEF SocketThread

\* Once the program is stopped, its threads take no step.
LEMMA AbortedStays ==
    ASSUME Polling, ~Running, [Next]_vars
    PROVE  UNCHANGED <<poll, pipe, early>>
<1>1. ~SocketThread
  BY DEF Running, Polling, SocketThread, ForceCloseEnds, NoCommand, Wait, OpenSocket, ListenSocket,
     ResumeSocket, PauseSocket, CloseSocket, TriggerWrite, SendSocket, SendAborts, Command,
     EventOnInvalid, EventNext, Turn, ReportConnect, ReportAccept, ReadFails, ReadBlocks, ReadData,
     ReadEnd, Reading, WriteLater, SendBuffer, Writing, EventError, EventEof
<1>2. ASSUME NEW i \in Ids,
             PeerAccepts(i) \/ PeerRefuses(i) \/ PeerConnects(i) \/ PeerSends(i)
             \/ PeerEnds(i) \/ PeerResets(i) \/ PeerReads(i)
      PROVE  UNCHANGED <<poll, pipe, early>>
  BY <1>2 DEF PeerAccepts, PeerRefuses, PeerConnects, PeerSends, PeerEnds, PeerResets, PeerReads, Peer
<1>3. CASE UNCHANGED vars  BY <1>3 DEF vars
<1> QED  BY <1>1, <1>2, <1>3 DEF Next

\* No step but SendAborts stops it, and that one finds an uncounted message only where one was
\* sent before new_fd.
LEMMA AbortInvStep == LifeInv /\ SendInv /\ AbortInv /\ [Next]_vars => AbortInv'
<1> SUFFICES ASSUME LifeInv, SendInv, AbortInv, [Next]_vars PROVE AbortInv'  OBVIOUS
<1>1. CASE UNCHANGED <<poll, pipe, early>>  BY <1>1 DEF AbortInv, Running, Polling
<1>2. CASE SendAborts
  <2>1. /\ Polling /\ pipe # <<>> /\ Head(pipe).op \in Carried /\ NothingCounted
        /\ UNCHANGED <<pipe, early>> /\ poll' = [poll EXCEPT !.phase = "aborted"]
    BY <1>2 DEF SendAborts, Carried
  <2>2. Asked \in Ids /\ AskedSlot = HASH_ID(Asked)  BY <2>1, AskedFacts DEF AskedSlot
  <2>3. Asked \in early
    <3> SUFFICES ASSUME Asked \notin early PROVE FALSE  OBVIOUS
    <3>1. Underway(Asked) = 0  BY <2>1, <2>2 DEF SendInv, CountOK, Tally, NothingCounted
    <3>2. PICK Elems : pipe \in Seq(Elems)  BY DEF LifeInv, PipeShape
    <3>3. Head(pipe) = pipe[1] /\ 1 \in 1 .. Len(pipe)  BY <2>1, <3>2, Taking
    <3>4. 1 \in InPipe(Asked)  BY <2>1, <3>3 DEF InPipe, Asked
    <3>5. IsFiniteSet(InPipe(Asked)) /\ Cardinality(InPipe(Asked)) \in Nat /\ Cardinality(AtPush(Asked)) \in Nat
      BY <3>2, UnderwayFinite
    <3>6. Cardinality(InPipe(Asked)) # 0  BY <3>4, <3>5, FS_EmptySet
    <3> QED  BY <3>1, <3>5, <3>6 DEF Underway
  <2>4. Polling'  BY <2>1 DEF Polling, LifeInv, PollShape
  <2> QED  BY <2>1, <2>3, <2>4 DEF AbortInv, Asked
<1>3. CASE Running /\ ~SendAborts
  <2>1. CASE SocketThread
    <3>1. poll'.phase # "aborted"  BY <1>3, <2>1, PhaseStays
    <3> QED  BY <3>1 DEF AbortInv, Running
  <2>2. CASE UNCHANGED poll  BY <1>3, <2>2 DEF AbortInv, Running
  <2>3. ASSUME NEW i \in Ids,
               PeerAccepts(i) \/ PeerRefuses(i) \/ PeerConnects(i) \/ PeerSends(i)
               \/ PeerEnds(i) \/ PeerResets(i) \/ PeerReads(i)
        PROVE  UNCHANGED poll
    BY <2>3 DEF PeerAccepts, PeerRefuses, PeerConnects, PeerSends, PeerEnds, PeerResets, PeerReads, Peer
  <2>4. ASSUME NEW id \in Ids, Connect(id) \/ Listen(id) PROVE UNCHANGED poll
    BY <2>4 DEF Connect, Listen
  <2>5. ASSUME NEW id \in Ids, NEW op, Ask(op, id) PROVE UNCHANGED poll  BY <2>5 DEF Ask
  <2>6. ASSUME NEW t \in Senders, SenderStep(t) PROVE UNCHANGED poll
    BY <2>6 DEF SenderStep, FirstLook, TryLock, LookAgain, WriteInstead, DirectWrite, Trigger,
       CountRequest, PushRequest
  <2>7. ASSUME NEW t \in Senders, NEW id \in Ids, NEW low, SendEnter(t, id, low) PROVE UNCHANGED poll
    BY <2>7 DEF SendEnter
  <2>8. CASE UNCHANGED vars  BY <2>2, <2>8 DEF vars
  <2> QED  BY <2>1, <2>2, <2>3, <2>4, <2>5, <2>6, <2>7, <2>8 DEF Next
<1>4. CASE ~Running
  <2>1. UNCHANGED <<poll, pipe, early>>  BY <1>4, AbortedStays DEF AbortInv
  <2> QED  BY <1>1, <2>1
<1> QED  BY <1>2, <1>3, <1>4

\* What the five parts of SocketInv say, in the model's own words.
LEMMA SocketInvFollows ==
    ASSUME LifeInv, SendInv, AbortInv
    PROVE  SendingCounted /\ OnlyEarlyAborts /\ ListsInOrder /\ WriterHasLock
<1>1. DOMAIN slot = Slots /\ DOMAIN sender = Senders
  BY DEF LifeInv, SlotShape, SendersOK
<1>2. PICK Elems : pipe \in Seq(Elems)  BY DEF LifeInv, PipeShape
<1>3. DOMAIN pipe = 1 .. Len(pipe)  BY <1>2
<1>4. SendingCounted
  <2> SUFFICES ASSUME NEW k \in Slots, slot[k].type \notin {"INVALID", "RESERVE"}, slot[k].id \notin early
               PROVE  slot[k].sending =
                   Cardinality({n \in DOMAIN pipe : pipe[n].op \in {"D", "P"} /\ pipe[n].id = slot[k].id})
                   + Cardinality({t \in DOMAIN sender : At(t, "push") /\ sender[t].msg.to = slot[k].id})
    BY <1>1 DEF SendingCounted
  <2>1. slot[k].sending = Underway(slot[k].id)
    <3>1. SlotTyped(slot[k]) /\ slot[k].id \in Ids /\ HASH_ID(slot[k].id) = k
      BY DEF SendInv, SlotsTyped, LifeInv, SlotsOK, SlotOK
    <3>2. slot[k].tcp = TRUE  BY <3>1 DEF SlotTyped, Unused
    <3> QED  BY <3>1, <3>2 DEF SendInv, CountOK, Tally
  <2> QED  BY <1>1, <1>3, <2>1 DEF Underway, InPipe, AtPush, Carried, At
<1>5. ListsInOrder
  <2> SUFFICES ASSUME NEW k \in Slots
               PROVE  /\ slot[k].low # <<>> => Head(slot[k].low).ptr = 0
                      /\ slot[k].type \in {"INVALID", "RESERVE"} =>
                             slot[k].high = <<>> /\ slot[k].low = <<>> /\ slot[k].dw = <<>>
    BY <1>1 DEF ListsInOrder
  <2>1. SlotTyped(slot[k]) /\ SlotOK(k)  BY DEF SendInv, SlotsTyped, LifeInv, SlotsOK
  <2>2. slot[k].low # <<>> => Head(slot[k].low).ptr = 0
    <3> PICK low : low = slot[k].low  OBVIOUS
    <3>1. low \in Seq(Buffers) /\ \A j \in 1 .. Len(low) : low[j].ptr = 0  BY <2>1 DEF SlotTyped
    <3>2. low # <<>> => 1 \in 1 .. Len(low) /\ Head(low) = low[1]  BY <3>1
    <3> QED  BY <3>1, <3>2
  <2> QED  BY <2>1, <2>2 DEF SlotTyped, SlotOK, Unused
<1>6. WriterHasLock
  <2>1. \A k \in Slots : dw_lock[k] # Free => sender[dw_lock[k]].pc \in {"look", "write"}
    BY DEF SendInv, LockOK
  <2>2. ASSUME NEW t \in Senders, sender[t].pc = "write"
        PROVE  \E k \in Slots : dw_lock[k] = t /\ slot[k].id = sender[t].msg.to
    <3>1. K(t) \in Slots  BY <2>2, SenderFacts
    <3>2. dw_lock[K(t)] = t /\ slot[K(t)].id = sender[t].msg.to  BY <2>2 DEF SendInv, LockOK
    <3> QED  BY <3>1, <3>2
  <2> QED  BY <1>1, <2>1, <2>2 DEF WriterHasLock, At
<1>7. OnlyEarlyAborts  BY DEF AbortInv, OnlyEarlyAborts
<1> QED  BY <1>4, <1>5, <1>6, <1>7

\* However sends, requests, events and closing sockets interleave: `sending' of a slot in use is
\* the number of its socket's messages on their way through the pipe, so that no direct write
\* goes before them, unless a service sent on the socket before new_fd (as service_harbor does);
\* dec_sending_ref takes from zero, and its assertion fails, for no other reason; a message begun
\* is at the head of the high list and a free slot has no lists; who writes has the lock of a
\* slot that is still the socket's it was asked to write to; and the assertions on reserved slots
\* hold.
THEOREM SocketInvAlways == Spec => []SocketInv
<1>1. Init => SendInv /\ AbortInv
  <2>1. Init => AbortInv  BY DEF Init, AbortInv, Running
  <2> QED  BY <2>1, FirstSends
<1>2. LifeInv /\ LifeInv' /\ SendInv /\ [Next]_vars => SendInv'  BY SendInvStep DEF LifeInv
<1>3. LifeInv /\ SendInv /\ AbortInv /\ [Next]_vars => AbortInv'  BY AbortInvStep
<1>4. LifeInv /\ SendInv /\ AbortInv /\ OpenFindsReserved => SocketInv
  BY SocketInvFollows DEF SocketInv
<1> QED  BY <1>1, <1>2, <1>3, <1>4, LifeInvAlways, OpenFindsReservedAlways, PTL DEF Spec
=============================================================================
