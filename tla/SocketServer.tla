----------------------------- MODULE SocketServer -----------------------------
(***************************************************************************)
(* socket_server.c, TCP: slots and ids, the pipe of requests, the socket    *)
(* thread's poll loop, and the two ways out for a message: written by the   *)
(* sending thread itself when nothing is waiting, or queued through the     *)
(* pipe and written by the socket thread.                                   *)
(*                                                                          *)
(* One action is one step that no other thread can look into.  Whoever      *)
(* reads a slot without dw_lock reads it again under the lock, so what the  *)
(* socket thread does under the lock is one step.  A descriptor is named by *)
(* the id it was given to; `net' is its kernel side and the peer.           *)
(***************************************************************************)
EXTENDS Integers, Sequences, FiniteSets

CONSTANTS
    Senders,        \* threads that send
    MAX_SOCKET,
    MaxId,          \* ids given out in a behaviour
    Opens,          \* requests that open a socket: "O" to connect, "L" to listen
    Budgets,        \* how often, in a behaviour, a socket is opened, a request to start,
                    \* pause or close is made or a peer acts, and each sender sends
    PipeSize,       \* requests the pipe holds before a write to it blocks
    MsgSize,        \* bytes of a message
    Room,           \* bytes the kernel takes before a write would block
    Free            \* no thread holds the lock

ASSUME SocketAssumption ==
    /\ MAX_SOCKET \in Nat \ {0} /\ MaxId \in Nat /\ Opens \subseteq {"O", "L"}
    /\ IsFiniteSet(Senders)
    /\ Budgets \subseteq [opens : Nat, asks : Nat, sends : [Senders -> Nat]]
    /\ PipeSize \in Nat \ {0} /\ MsgSize \in Nat \ {0} /\ Room \in Nat \ {0}
    /\ Free \notin Senders

Ids == 1 .. MaxId
Slots == 0 .. MAX_SOCKET - 1
HASH_ID(id) == id % MAX_SOCKET

VARIABLES
    slot,       \* ss->slot
    dw_lock,    \* who holds each slot's dw_lock
    alloc_id,
    pipe,       \* requests written to sendctrl_fd and not read yet
    poll,       \* the socket thread: phase of the loop, or "aborted"; ss->ev from event_index on,
                \* and the slot it is closing while it waits for dw_lock
    sender,     \* each sender's place in socket_server_send, and its message
    left,       \* what is left of the budget
    net,        \* of each id: the peer's state, whether it sent something that is not read
                \* yet, whether it ended, and the room to write to it
    wire,       \* bytes written to each descriptor
    early,      \* history: the ids a message was sent to, and not counted, before new_fd
    seen        \* what the services were told of each id

vars == <<slot, dw_lock, alloc_id, pipe, poll, sender, left, net, wire, early, seen>>

Socket == INSTANCE Connection

FreeSlot == [type |-> "INVALID", id |-> 0, tcp |-> FALSE, closing |-> FALSE,
             reading |-> FALSE, writing |-> FALSE, high |-> <<>>, low |-> <<>>,
             dw |-> <<>>, tag |-> 0, sending |-> 0]
NoPeer == [peer |-> "none", unread |-> 0, fin |-> FALSE, room |-> 0]
Idle == [pc |-> "idle"]
NotForcing == [k |-> -1]

Init ==
    /\ slot = [k \in Slots |-> FreeSlot]
    /\ dw_lock = [k \in Slots |-> Free]
    /\ alloc_id = 0
    /\ pipe = <<>>
    /\ poll = [phase |-> "commands", batch |-> <<>>, forcing |-> NotForcing]
    /\ sender = [t \in Senders |-> Idle]
    /\ left \in Budgets
    /\ net = [i \in Ids |-> NoPeer]
    /\ wire = [i \in Ids |-> <<>>]
    /\ early = {}
    /\ seen = [i \in Ids |-> "unborn"]

-----------------------------------------------------------------------------
(* Slots *)

socket_invalid(id) == LET s == slot[HASH_ID(id)] IN s.id # id \/ s.type = "INVALID"

send_buffer_empty(s) == s.high = <<>> /\ s.low = <<>>

\* halfclose_read: SOCKET_CLOSE was told, and is not told again
NeverToldYet(s) == FALSE
halfclose_read(s) == s.type = "HALFCLOSE_READ"

nomore_sending_data(s) ==
    \/ send_buffer_empty(s) /\ s.dw = <<>> /\ s.sending = 0
    \/ s.type = "HALFCLOSE_WRITE"

\* reserve_id: the ids that may come next are those of the next MAX_SOCKET whose slot
\* is free.  An id whose slot an event of this batch still points to, or whose dw_lock a
\* late sender has, is passed over: no rule of the code says so, but 2^16 ids would have
\* to be given out meanwhile.
FreeIds ==
    {id \in alloc_id + 1 .. alloc_id + MAX_SOCKET :
        /\ id \in Ids
        /\ slot[HASH_ID(id)].type = "INVALID" /\ dw_lock[HASH_ID(id)] = Free
        /\ \A n \in DOMAIN poll.batch : poll.batch[n].k # HASH_ID(id)}
Reserve(id) ==
    /\ id \in FreeIds /\ \A other \in FreeIds : id <= other
    /\ alloc_id' = id
Reserved(id) == [slot[HASH_ID(id)] EXCEPT !.type = "RESERVE", !.id = id, !.tcp = FALSE]

\* new_fd, for TCP
NewFd(id, type, reading) ==
    [slot[HASH_ID(id)] EXCEPT !.type = type, !.id = id, !.tcp = TRUE, !.closing = FALSE,
        !.reading = reading, !.writing = FALSE, !.dw = <<>>, !.tag = id, !.sending = 0]

Connected == [peer |-> "up", unread |-> 0, fin |-> FALSE, room |-> Room]

\* bytes of a message from `ptr' on; a write buffer is a message and its ptr
Bytes(buf, n) == [j \in 1 .. n |-> [msg |-> buf.msg, byte |-> buf.ptr + j]]
Left(buf) == MsgSize - buf.ptr
Min(m, n) == IF m < n THEN m ELSE n

Spontaneous == left.asks > 0 /\ left' = [left EXCEPT !.asks = @ - 1]

-----------------------------------------------------------------------------
(* Requests of the services.  A write to the pipe blocks while it is full. *)

Request(op, id) == Len(pipe) < PipeSize /\ pipe' = Append(pipe, [op |-> op, id |-> id])

\* socket_server_connect, socket_server_listen: reserve_id and the request are one step,
\* as nobody else knows the id yet
Connect(id) ==
    /\ "O" \in Opens /\ Reserve(id)
    /\ slot' = [slot EXCEPT ![HASH_ID(id)] = Reserved(id)]
    /\ Request("O", id)
    /\ Socket!Announce(id, "connecting")
    /\ left.opens > 0 /\ left' = [left EXCEPT !.opens = @ - 1]
    /\ UNCHANGED <<dw_lock, poll, sender, net, wire, early>>

Listen(id) ==
    /\ "L" \in Opens /\ Reserve(id)
    /\ slot' = [slot EXCEPT ![HASH_ID(id)] = Reserved(id)]
    /\ Request("L", id)
    /\ Socket!Announce(id, "listening")
    /\ left.opens > 0 /\ left' = [left EXCEPT !.opens = @ - 1]
    /\ UNCHANGED <<dw_lock, poll, sender, net, wire, early>>

\* socket_server_start, _pause, _close and _shutdown, by whoever was told the id
Ask(op, id) ==
    /\ op \in {"R", "S", "K", "K!"}
    /\ seen[id] # "unborn"
    /\ Request(op, id)
    /\ Spontaneous
    /\ UNCHANGED <<slot, dw_lock, alloc_id, poll, sender, net, wire, early, seen>>

-----------------------------------------------------------------------------
(* socket_server_send and socket_server_send_lowpriority *)

At(t, pc) == sender[t].pc = pc
GoTo(t, pc) == sender' = [sender EXCEPT ![t].pc = pc]
S(t) == slot[HASH_ID(sender[t].msg.to)]
K(t) == HASH_ID(sender[t].msg.to)
Unlock(k) == dw_lock' = [dw_lock EXCEPT ![k] = Free]

\* Entered, and the tests that drop the message.  A service may send as soon as it has the
\* id, as service_harbor does on a socket that is still connecting.
SendEnter(t, id, low) ==
    /\ At(t, "idle") /\ seen[id] # "unborn"
    /\ left.sends[t] > 0 /\ left' = [left EXCEPT !.sends[t] = @ - 1]
    /\ sender' = [sender EXCEPT ![t] =
            IF socket_invalid(id) \/ (~low /\ slot[HASH_ID(id)].closing) THEN Idle
            ELSE [pc |-> IF low THEN "count" ELSE "try",
                  msg |-> [from |-> t, left |-> left.sends[t], low |-> low, to |-> id]]]
    /\ UNCHANGED <<slot, dw_lock, alloc_id, pipe, poll, net, wire, early, seen>>

\* can_direct_write reads the lists and dw_buffer, and then `sending' and the type
ListsEmpty(t) == S(t).id = sender[t].msg.to /\ send_buffer_empty(S(t)) /\ S(t).dw = <<>>
NotSending(t) == S(t).sending = 0 /\ S(t).type = "CONNECTED"

\* the look without the lock decides only whether to try for it, and is one step
FirstLook(t) ==
    /\ At(t, "try")
    /\ GoTo(t, IF ListsEmpty(t) /\ NotSending(t) THEN "lock" ELSE "count")
    /\ UNCHANGED <<slot, dw_lock, alloc_id, pipe, poll, left, net, wire, early, seen>>

\* socket_trylock
TryLock(t) ==
    /\ At(t, "lock")
    /\ IF dw_lock[K(t)] = Free
       THEN dw_lock' = [dw_lock EXCEPT ![K(t)] = t] /\ GoTo(t, "look")
       ELSE GoTo(t, "count") /\ UNCHANGED dw_lock
    /\ UNCHANGED <<slot, alloc_id, pipe, poll, left, net, wire, early, seen>>

LookAgain(t) ==
    /\ At(t, "look")
    /\ IF ListsEmpty(t) THEN GoTo(t, "write") /\ UNCHANGED dw_lock
       ELSE GoTo(t, "count") /\ Unlock(K(t))
    /\ UNCHANGED <<slot, alloc_id, pipe, poll, left, net, wire, early, seen>>

\* write by the sender; what the kernel did not take goes to dw_buffer
WriteInstead(t) ==
    /\ At(t, "write") /\ ~NotSending(t)
    /\ GoTo(t, "count") /\ Unlock(K(t))
    /\ UNCHANGED <<slot, alloc_id, pipe, poll, left, net, wire, early, seen>>

DirectWrite(t) ==
    LET msg == sender[t].msg
        fd == S(t).id
        n == IF net[fd].peer = "up" THEN Min(net[fd].room, MsgSize) ELSE 0
    IN  /\ At(t, "write") /\ NotSending(t)
        /\ wire' = [wire EXCEPT ![fd] = @ \o Bytes([msg |-> msg, ptr |-> 0], n)]
        /\ net' = [net EXCEPT ![fd].room = @ - n]
        /\ IF n = MsgSize
           THEN sender' = [sender EXCEPT ![t] = Idle] /\ UNCHANGED slot
           ELSE GoTo(t, "trigger") /\ slot' = [slot EXCEPT ![K(t)].dw = <<[msg |-> msg, ptr |-> n]>>]
        /\ Unlock(K(t))
        /\ UNCHANGED <<alloc_id, pipe, poll, left, early, seen>>

Trigger(t) ==
    /\ At(t, "trigger")
    /\ Request("W", sender[t].msg.to)
    /\ sender' = [sender EXCEPT ![t] = Idle]
    /\ UNCHANGED <<slot, dw_lock, alloc_id, poll, left, net, wire, early, seen>>

\* inc_sending_ref: before new_fd the protocol is not known to be TCP, and nothing is counted
TooEarly(t) == S(t).id = sender[t].msg.to /\ ~S(t).tcp
CountWithoutTag(t) ==
    /\ At(t, "count")
    /\ slot' = [slot EXCEPT ![K(t)].sending = @ + 1]
    /\ early' = IF TooEarly(t) THEN early \union {sender[t].msg.to} ELSE early
    /\ GoTo(t, "push")
    /\ UNCHANGED <<dw_lock, alloc_id, pipe, poll, left, net, wire, seen>>
CountRequest(t) ==
    /\ At(t, "count")
    /\ slot' = IF S(t).tcp /\ S(t).tag = sender[t].msg.to
               THEN [slot EXCEPT ![K(t)].sending = @ + 1] ELSE slot
    /\ early' = IF TooEarly(t) THEN early \union {sender[t].msg.to} ELSE early
    /\ GoTo(t, "push")
    /\ UNCHANGED <<dw_lock, alloc_id, pipe, poll, left, net, wire, seen>>

\* request 'D', or 'P' for a message of low priority
PushRequest(t) ==
    LET msg == sender[t].msg
    IN  /\ At(t, "push") /\ Len(pipe) < PipeSize
        /\ pipe' = Append(pipe, [op |-> IF msg.low THEN "P" ELSE "D", id |-> msg.to, msg |-> msg])
        /\ sender' = [sender EXCEPT ![t] = Idle]
        /\ UNCHANGED <<slot, dw_lock, alloc_id, poll, left, net, wire, early, seen>>

SenderStep(t) ==
    \/ FirstLook(t) \/ TryLock(t) \/ LookAgain(t)
    \/ WriteInstead(t) \/ DirectWrite(t) \/ Trigger(t) \/ CountRequest(t) \/ PushRequest(t)

-----------------------------------------------------------------------------
(* The socket thread: what it tells the services, and force_close *)

After(state, event) ==
    CASE event = "OPEN" /\ state \in {"connecting", "accepted", "open"} -> "open"
      [] event = "OPEN" /\ state = "listening" -> state
      [] event = "DATA" /\ state = "open" -> state
      [] event = "CLOSE" /\ state \in {"connecting", "listening", "accepted", "open"} -> "closed"
      [] event = "ERR" /\ state = "connecting" -> "failed"
      [] event = "ERR" /\ state \notin {"unborn", "connecting"} -> state
      [] event = "none" -> state
      [] OTHER -> "broken"
Tell(id, event) == seen' = [seen EXCEPT ![id] = After(@, event)]

\* clear_closed_event, after a request that ends in SOCKET_CLOSE or SOCKET_ERR: the event of
\* this batch for the slot that was closed points to nothing
Cleared == [k |-> -1, read |-> FALSE, write |-> FALSE, error |-> FALSE, eof |-> FALSE]
WithoutClosed(batch, id) ==
    [n \in DOMAIN batch |->
        IF batch[n].k = HASH_ID(id) /\ slot[HASH_ID(id)].id = id /\ slot'[HASH_ID(id)].type = "INVALID"
        THEN Cleared ELSE batch[n]]

\* force_close, up to the wait for dw_lock; `event' is what is told in the end
ForceClose(k, event, command) ==
    [k |-> k, event |-> event, command |-> command]
Emptied(s) == [s EXCEPT !.high = <<>>, !.low = <<>>]
Closed(s) == [s EXCEPT !.type = "INVALID", !.high = <<>>, !.low = <<>>, !.dw = <<>>]

Polling == poll.forcing = NotForcing
ForceCloseEnds ==
    LET k == poll.forcing.k
        id == slot[k].id
    IN  /\ ~Polling /\ dw_lock[k] = Free
        /\ slot' = [slot EXCEPT ![k] = Closed(@)]
        /\ net' = [net EXCEPT ![id] = NoPeer]
        /\ Tell(id, poll.forcing.event)
        /\ poll' = [poll EXCEPT !.forcing = NotForcing,
                !.batch = IF poll.forcing.command /\ poll.forcing.event # "none"
                          THEN WithoutClosed(@, id) ELSE @]
        /\ UNCHANGED <<dw_lock, alloc_id, pipe, sender, left, wire, early>>

-----------------------------------------------------------------------------
(* ctrl_cmd: one request of the pipe *)

Command(op) ==
    /\ Polling /\ poll.phase = "commands"
    /\ pipe # <<>> /\ Head(pipe).op = op
    /\ pipe' = Tail(pipe)
Asked == Head(pipe).id
AskedSlot == HASH_ID(Asked)

\* open_socket fails, connects at once, or waits for the peer
OpenSocket ==
    /\ Command("O")
    /\ \/ /\ slot' = [slot EXCEPT ![AskedSlot].type = "INVALID"]
          /\ Tell(Asked, "ERR")
          /\ poll' = [poll EXCEPT !.batch = WithoutClosed(@, Asked)]
          /\ UNCHANGED net
       \/ /\ slot' = [slot EXCEPT ![AskedSlot] = NewFd(Asked, "CONNECTED", TRUE)]
          /\ net' = [net EXCEPT ![Asked] = Connected]
          /\ Tell(Asked, "OPEN")
          /\ UNCHANGED poll
       \/ /\ slot' = [slot EXCEPT ![AskedSlot] =
                        [NewFd(Asked, "CONNECTING", TRUE) EXCEPT !.writing = TRUE]]
          /\ net' = [net EXCEPT ![Asked] = [NoPeer EXCEPT !.peer = "connecting"]]
          /\ UNCHANGED <<poll, seen>>
    /\ UNCHANGED <<dw_lock, alloc_id, sender, left, wire, early>>

ListenSocket ==
    /\ Command("L")
    /\ \/ /\ slot' = [slot EXCEPT ![AskedSlot].type = "INVALID"]
          /\ Tell(Asked, "ERR")
          /\ poll' = [poll EXCEPT !.batch = WithoutClosed(@, Asked)]
          /\ UNCHANGED net
       \/ /\ slot' = [slot EXCEPT ![AskedSlot] = NewFd(Asked, "PLISTEN", FALSE)]
          /\ net' = [net EXCEPT ![Asked] = [NoPeer EXCEPT !.peer = "listening"]]
          /\ UNCHANGED <<poll, seen>>
    /\ UNCHANGED <<dw_lock, alloc_id, sender, left, wire, early>>

ResumeSocket ==
    LET s == slot[AskedSlot]
    IN  /\ Command("R")
        /\ IF socket_invalid(Asked) \/ halfclose_read(s)
           THEN /\ Tell(Asked, "ERR")
                /\ UNCHANGED slot
                /\ poll' = [poll EXCEPT !.batch = WithoutClosed(@, Asked)]
           ELSE /\ UNCHANGED poll
                /\ slot' = [slot EXCEPT ![AskedSlot].reading = TRUE,
                        ![AskedSlot].type = CASE @ = "PACCEPT" -> "CONNECTED"
                                              [] @ = "PLISTEN" -> "LISTEN"
                                              [] OTHER -> @]
                /\ Tell(Asked, IF s.type \in {"PACCEPT", "PLISTEN", "CONNECTED"} THEN "OPEN" ELSE "none")
        /\ UNCHANGED <<dw_lock, alloc_id, sender, left, net, wire, early>>

PauseSocket ==
    /\ Command("S")
    /\ slot' = IF socket_invalid(Asked) THEN slot ELSE [slot EXCEPT ![AskedSlot].reading = FALSE]
    /\ UNCHANGED <<dw_lock, alloc_id, poll, sender, left, net, wire, early, seen>>

\* close_socket, for socket_server_shutdown ("K!") and socket_server_close
CloseSocket ==
    LET s == slot[AskedSlot]
        halfclosed == halfclose_read(s)
        atOnce == Head(pipe).op = "K!" \/ nomore_sending_data(s)
    IN  /\ Command("K") \/ Command("K!")
        /\ IF socket_invalid(Asked) THEN UNCHANGED <<slot, seen, poll>>
           ELSE IF atOnce
           THEN /\ slot' = [slot EXCEPT ![AskedSlot] = Emptied(@)]
                /\ poll' = [poll EXCEPT !.forcing =
                        ForceClose(AskedSlot, IF halfclosed THEN "none" ELSE "CLOSE", TRUE)]
                /\ UNCHANGED seen
           ELSE IF halfclosed
           THEN slot' = [slot EXCEPT ![AskedSlot].closing = TRUE] /\ UNCHANGED <<seen, poll>>
           ELSE /\ slot' = [slot EXCEPT ![AskedSlot].closing = TRUE, ![AskedSlot].reading = FALSE,
                                        ![AskedSlot].type = "HALFCLOSE_READ"]
                /\ Tell(Asked, "CLOSE")
                /\ UNCHANGED poll
        /\ UNCHANGED <<dw_lock, alloc_id, sender, left, net, wire, early>>

TriggerWrite ==
    /\ Command("W")
    /\ slot' = IF socket_invalid(Asked) THEN slot ELSE [slot EXCEPT ![AskedSlot].writing = TRUE]
    /\ UNCHANGED <<dw_lock, alloc_id, poll, sender, left, net, wire, early, seen>>

\* the slot with a request's message appended, to the high list when both are empty
AppendedQuietly(s, msg) == [s EXCEPT !.high = Append(@, [msg |-> msg, ptr |-> 0])]
Appended(s, msg) ==
    LET buf == [msg |-> msg, ptr |-> 0]
    IN  IF send_buffer_empty(s) THEN [s EXCEPT !.high = <<buf>>, !.writing = TRUE]
        ELSE IF msg.low THEN [s EXCEPT !.low = Append(@, buf)]
        ELSE [s EXCEPT !.high = Append(@, buf)]
Counted(s, id) == IF s.id = id /\ s.tcp THEN [s EXCEPT !.sending = @ - 1] ELSE s

\* dec_sending_ref asserts that something is counted, and the program is aborted if nothing
\* is; the request is left in the pipe, to say which it was
NothingCounted ==
    LET s == slot[AskedSlot]
    IN  s.id = Asked /\ s.tcp /\ s.sending = 0
Running == poll.phase # "aborted"
SendAborts ==
    /\ Polling /\ poll.phase = "commands"
    /\ pipe # <<>> /\ Head(pipe).op \in {"D", "P"}
    /\ NothingCounted
    /\ poll' = [poll EXCEPT !.phase = "aborted"]
    /\ UNCHANGED <<slot, dw_lock, alloc_id, pipe, sender, left, net, wire, early, seen>>

\* send_socket and dec_sending_ref
SendSocket ==
    LET s == slot[AskedSlot]
        dropped == socket_invalid(Asked) \/ s.closing
            \/ s.type \in {"HALFCLOSE_WRITE", "PACCEPT", "PLISTEN", "LISTEN"}
    IN  /\ Command("D") \/ Command("P")
        /\ ~NothingCounted
        /\ slot' = [slot EXCEPT ![AskedSlot] =
                Counted(IF dropped THEN s ELSE Appended(s, Head(pipe).msg), Asked)]
        /\ UNCHANGED <<dw_lock, alloc_id, poll, sender, left, net, wire, early, seen>>

\* has_cmd finds nothing
NoCommand ==
    /\ Polling /\ poll.phase = "commands" /\ pipe = <<>>
    /\ poll' = [poll EXCEPT !.phase = "events"]
    /\ UNCHANGED <<slot, dw_lock, alloc_id, pipe, sender, left, net, wire, early, seen>>

-----------------------------------------------------------------------------
(* sp_wait *)

Hung == {"reset", "gone", "refused"}

\* what epoll says of a slot's descriptor
Event(k) ==
    LET s == slot[k]
        n == net[s.id]
    IN  [k |-> k,
         read |-> s.reading /\ (n.unread > 0 \/ n.fin \/ n.peer \in Hung),
         write |-> s.writing /\ ((n.peer = "up" /\ n.room > 0) \/ n.peer \in Hung),
         error |-> n.peer \in {"reset", "refused"},
         eof |-> n.peer \in Hung \/ (n.fin /\ s.type = "HALFCLOSE_WRITE")]
Ready == {k \in Slots : /\ slot[k].type \notin {"INVALID", "RESERVE"}
                        /\ LET e == Event(k) IN e.read \/ e.write \/ e.error \/ e.eof}
Batches == {b \in [1 .. Cardinality(Ready) -> Ready] : \A k \in Ready : \E n \in DOMAIN b : b[n] = k}

\* the pipe's own event, with no slot, sends the loop back to the requests; a first event
\* of a slot is handled before them
Wait ==
    /\ Polling /\ poll.phase = "events" /\ poll.batch = <<>>
    /\ Ready # {} \/ pipe # <<>>
    /\ \E b \in Batches, first \in {"first", "commands"} :
        /\ first = "first" => Ready # {}
        /\ first = "commands" => pipe # <<>>
        /\ poll' = [poll EXCEPT !.phase = first, !.batch = [n \in DOMAIN b |-> Event(b[n])]]
    /\ UNCHANGED <<slot, dw_lock, alloc_id, pipe, sender, left, net, wire, early, seen>>

-----------------------------------------------------------------------------
(* Events *)

E0 == Head(poll.batch)
Polled == slot[E0.k]
\* the event next in turn, of a slot of one of these types
EventNext == Polling /\ poll.phase \in {"first", "events"} /\ poll.batch # <<>>
Turn(types) == EventNext /\ E0.k # -1 /\ Polled.type \in types
PhaseAfter == IF poll.phase = "first" THEN "commands" ELSE "events"
\* event_index is advanced, or not
Handled == [poll EXCEPT !.phase = PhaseAfter, !.batch = Tail(@)]
Again(e) == [poll EXCEPT !.phase = PhaseAfter, !.batch = <<e>> \o Tail(@)]

Streams == {"PLISTEN", "CONNECTED", "HALFCLOSE_READ", "HALFCLOSE_WRITE", "PACCEPT"}

\* of a slot that is free by now
EventOnInvalid ==
    /\ EventNext
    /\ E0.k # -1 => Polled.type = "INVALID"
    /\ poll' = Handled
    /\ UNCHANGED <<slot, dw_lock, alloc_id, pipe, sender, left, net, wire, early, seen>>

ReportConnect ==
    /\ Turn({"CONNECTING"})
    /\ IF net[Polled.id].peer \in Hung
       THEN /\ slot' = [slot EXCEPT ![E0.k] = Emptied(@)]
            /\ poll' = [Handled EXCEPT !.forcing = ForceClose(E0.k, "ERR", FALSE)]
            /\ UNCHANGED seen
       ELSE /\ slot' = [slot EXCEPT ![E0.k].type = "CONNECTED",
                            ![E0.k].writing = @ /\ ~nomore_sending_data(Polled)]
            /\ poll' = Handled
            /\ Tell(Polled.id, "OPEN")
    /\ UNCHANGED <<dw_lock, alloc_id, pipe, sender, left, net, wire, early>>

\* report_accept: a client for whom there is no id is closed, and one for whom there is no
\* descriptor waits
ReportAccept ==
    /\ Turn({"LISTEN"})
    /\ poll' = Handled
    /\ \/ \E id \in Ids :
            /\ Reserve(id)
            /\ slot' = [slot EXCEPT ![HASH_ID(id)] = NewFd(id, "PACCEPT", FALSE)]
            /\ net' = [net EXCEPT ![id] = Connected, ![Polled.id].unread = @ - 1]
            /\ Socket!Announce(id, "accepted")
       \/ /\ FreeIds = {}
          /\ net' = [net EXCEPT ![Polled.id].unread = @ - 1]
          /\ UNCHANGED <<slot, alloc_id, seen>>
       \/ Tell(Polled.id, "ERR") /\ UNCHANGED <<slot, alloc_id, net>>
    /\ UNCHANGED <<dw_lock, pipe, sender, left, wire, early>>

\* After forward_message_tcp told nothing or data, the write flag of the event is next
ReadOn == IF E0.write THEN Again([E0 EXCEPT !.read = FALSE]) ELSE Handled
Reading == Turn(Streams) /\ E0.read /\ UNCHANGED <<dw_lock, alloc_id, pipe, sender, left, wire, early>>

ReadFails ==
    /\ Reading /\ net[Polled.id].peer \in {"reset", "refused"}
    /\ net' = [net EXCEPT ![Polled.id].peer = "gone"]
    /\ poll' = Handled
    /\ Tell(Polled.id, "ERR")
    /\ UNCHANGED slot

ReadBlocks ==
    LET n == net[Polled.id]
    IN  /\ Reading /\ n.peer = "up" /\ n.unread = 0 /\ ~n.fin /\ ~halfclose_read(Polled)
        /\ poll' = ReadOn
        /\ UNCHANGED <<slot, net, seen>>

\* read returns data; it may fill the buffer (SOCKET_MORE), and then is tried again
ReadData ==
    /\ Reading /\ net[Polled.id].peer = "up" /\ net[Polled.id].unread > 0
    /\ net' = [net EXCEPT ![Polled.id].unread = 0]
    /\ IF halfclose_read(Polled) THEN poll' = ReadOn /\ UNCHANGED seen
       ELSE /\ poll' = ReadOn \/ poll' = Again(E0)
            /\ Tell(Polled.id, "DATA")
    /\ UNCHANGED slot

\* read returns 0
ReadEnd ==
    LET n == net[Polled.id]
    IN  /\ Reading /\ n.peer \in {"up", "gone"} /\ n.unread = 0
        /\ n.fin \/ n.peer = "gone" \/ halfclose_read(Polled)
        /\ CASE Polled.closing /\ nomore_sending_data(Polled) ->
                    /\ slot' = [slot EXCEPT ![E0.k] = Emptied(@)]
                    /\ poll' = [ReadOn EXCEPT !.forcing = ForceClose(E0.k, "none", FALSE)]
                    /\ UNCHANGED seen
             [] IF Polled.closing THEN ~nomore_sending_data(Polled) ELSE halfclose_read(Polled) ->
                    poll' = ReadOn /\ UNCHANGED <<slot, seen>>
             [] Polled.type = "HALFCLOSE_WRITE" /\ ~Polled.closing ->
                    /\ slot' = [slot EXCEPT ![E0.k] = Emptied(@)]
                    /\ poll' = [Handled EXCEPT !.forcing = ForceClose(E0.k, "CLOSE", FALSE)]
                    /\ UNCHANGED seen
             [] OTHER ->
                    /\ slot' = [slot EXCEPT ![E0.k].type = "HALFCLOSE_READ", ![E0.k].reading = FALSE]
                    /\ poll' = Handled
                    /\ Tell(Polled.id, "CLOSE")
        /\ UNCHANGED net

\* send_list_tcp: the bytes that fit, and what is left of the list
SendList(list, room) ==
    IF list = <<>> THEN [bytes |-> <<>>, rest |-> <<>>] ELSE
    LET Upto[j \in 0 .. Len(list)] == IF j = 0 THEN 0 ELSE Upto[j - 1] + Left(list[j])
        n == Min(room, Upto[Len(list)])
        Of(x) == CHOOSE j \in 1 .. Len(list) : Upto[j - 1] < x /\ x <= Upto[j]
        done == CHOOSE j \in 0 .. Len(list) : Upto[j] <= n /\ (j < Len(list) => n < Upto[j + 1])
    IN  [bytes |-> [x \in 1 .. n |-> [msg |-> list[Of(x)].msg,
                                     byte |-> list[Of(x)].ptr + x - Upto[Of(x) - 1]]],
         rest |-> [j \in 1 .. Len(list) - done |->
                     IF j = 1 THEN [list[done + 1] EXCEPT !.ptr = @ + n - Upto[done]]
                     ELSE list[done + j]]]

\* list_uncomplete and raise_uncomplete
RaiseNothing(s) == s
RaiseUncomplete(s) ==
    IF s.high = <<>> /\ s.low # <<>> /\ Head(s.low).ptr > 0
    THEN [s EXCEPT !.high = <<Head(s.low)>>, !.low = Tail(@)] ELSE s

\* close_write after a failed write; the slot is closed at once, as dw_lock is held
CloseWrite(s) ==
    IF s.closing \/ halfclose_read(s) THEN Closed(s)
    ELSE IF s.type = "HALFCLOSE_WRITE" THEN s
    ELSE [s EXCEPT !.type = "HALFCLOSE_WRITE", !.writing = FALSE]

Writing ==
    /\ Turn(Streams) /\ ~E0.read /\ E0.write
    /\ poll' = Handled
    /\ UNCHANGED <<dw_lock, alloc_id, pipe, sender, left, early>>

\* send_buffer finds dw_lock taken
WriteLater == Writing /\ dw_lock[E0.k] # Free /\ UNCHANGED <<slot, net, wire, seen>>

\* steps 3 and 4 of send_buffer_
FlushedOnly(s) == IF send_buffer_empty(s) THEN [s EXCEPT !.writing = FALSE] ELSE s
Flushed(s) ==
    IF ~send_buffer_empty(s) THEN s
    ELSE IF s.closing THEN Closed(s)
    ELSE [s EXCEPT !.writing = FALSE]

\* send_buffer and send_buffer_
SendBuffer ==
    LET s == [Polled EXCEPT !.high = Polled.dw \o @, !.dw = <<>>]
        id == s.id
        high == SendList(s.high, net[id].room)
        low == IF high.rest = <<>> THEN SendList(s.low, net[id].room - Len(high.bytes))
               ELSE [bytes |-> <<>>, rest |-> s.low]
        sent == RaiseUncomplete([s EXCEPT !.high = high.rest, !.low = low.rest])
        after == IF ~send_buffer_empty(s) /\ net[id].peer # "up" THEN CloseWrite(s) ELSE Flushed(sent)
    IN  /\ Writing /\ dw_lock[E0.k] = Free
        /\ slot' = [slot EXCEPT ![E0.k] = after]
        /\ IF net[id].peer = "up"
           THEN /\ wire' = [wire EXCEPT ![id] = @ \o high.bytes \o low.bytes]
                /\ net' = [net EXCEPT ![id] = IF after.type = "INVALID" THEN NoPeer
                        ELSE [net[id] EXCEPT !.room = @ - Len(high.bytes) - Len(low.bytes)]]
                /\ UNCHANGED seen
           ELSE /\ net' = [net EXCEPT ![id] = IF after.type = "INVALID" THEN NoPeer
                        ELSE [net[id] EXCEPT !.peer = "gone"]]
                /\ Tell(id, IF after.type # s.type /\ after.type = "HALFCLOSE_WRITE" THEN "ERR" ELSE "none")
                /\ UNCHANGED wire

\* getsockopt takes the error away
EventError ==
    /\ Turn(Streams) /\ ~E0.read /\ ~E0.write /\ E0.error
    /\ poll' = Handled
    /\ net' = [net EXCEPT ![Polled.id].peer = IF @ \in {"reset", "refused"} THEN "gone" ELSE @]
    /\ Tell(Polled.id, "ERR")
    /\ UNCHANGED <<slot, dw_lock, alloc_id, pipe, sender, left, wire, early>>

EventEof ==
    /\ Turn(Streams) /\ ~E0.read /\ ~E0.write /\ ~E0.error
    /\ IF E0.eof
       THEN /\ slot' = [slot EXCEPT ![E0.k] = Emptied(@)]
            /\ poll' = [Handled EXCEPT !.forcing = ForceClose(E0.k,
                    IF halfclose_read(Polled) THEN "none" ELSE "CLOSE", FALSE)]
       ELSE poll' = Handled /\ UNCHANGED slot
    /\ UNCHANGED <<dw_lock, alloc_id, pipe, sender, left, net, wire, early, seen>>

SocketThread ==
    \/ ForceCloseEnds \/ NoCommand \/ Wait
    \/ OpenSocket \/ ListenSocket \/ ResumeSocket \/ PauseSocket \/ CloseSocket
    \/ TriggerWrite \/ SendSocket \/ SendAborts
    \/ EventOnInvalid \/ ReportConnect \/ ReportAccept
    \/ ReadFails \/ ReadBlocks \/ ReadData \/ ReadEnd
    \/ WriteLater \/ SendBuffer \/ EventError \/ EventEof

-----------------------------------------------------------------------------
(* The peers and the network *)

Peer(i, from, to) ==
    /\ net[i].peer = from
    /\ net' = [net EXCEPT ![i] = to]
    /\ UNCHANGED <<slot, dw_lock, alloc_id, pipe, poll, sender, wire, early, seen>>

PeerAccepts(i) == UNCHANGED left /\ Peer(i, "connecting", Connected)
PeerRefuses(i) == UNCHANGED left /\ Peer(i, "connecting", [NoPeer EXCEPT !.peer = "refused"])
PeerConnects(i) == Spontaneous /\ net[i].unread = 0 /\ Peer(i, "listening", [net[i] EXCEPT !.unread = 1])
PeerSends(i) ==
    /\ Spontaneous /\ net[i].unread = 0 /\ ~net[i].fin
    /\ Peer(i, "up", [net[i] EXCEPT !.unread = 1])
PeerEnds(i) == Spontaneous /\ ~net[i].fin /\ Peer(i, "up", [net[i] EXCEPT !.fin = TRUE])
PeerResets(i) == Spontaneous /\ Peer(i, "up", [NoPeer EXCEPT !.peer = "reset"])
PeerReads(i) == UNCHANGED left /\ \E n \in net[i].room + 1 .. Room : Peer(i, "up", [net[i] EXCEPT !.room = n])

Next ==
    \/ Running /\ \E id \in Ids : Connect(id) \/ Listen(id)
    \/ Running /\ \E id \in Ids, op \in {"R", "S", "K", "K!"} : Ask(op, id)
    \/ /\ Running
       /\ \E t \in Senders : SenderStep(t) \/ \E id \in Ids, low \in BOOLEAN : SendEnter(t, id, low)
    \/ SocketThread
    \/ \E i \in Ids : \/ PeerAccepts(i) \/ PeerRefuses(i) \/ PeerConnects(i) \/ PeerSends(i)
                      \/ PeerEnds(i) \/ PeerResets(i) \/ PeerReads(i)

\* Threads inside a call go on, the socket thread runs, a peer reads what it was sent, and an
\* attempt to connect comes to an end
Spec ==
    /\ Init /\ [][Next]_vars
    /\ WF_vars(SocketThread)
    /\ \A t \in Senders : WF_vars(Running /\ SenderStep(t))
    /\ \A i \in Ids : WF_vars(PeerReads(i)) /\ WF_vars(PeerAccepts(i) \/ PeerRefuses(i))

-----------------------------------------------------------------------------
(* What may never be *)

\* `sending' is the number of messages of the slot's socket on their way through the pipe,
\* so that no direct write goes before them, unless one was sent before new_fd.
SendingCounted ==
    \A k \in DOMAIN slot : slot[k].type \notin {"INVALID", "RESERVE"} /\ slot[k].id \notin early =>
        slot[k].sending =
            Cardinality({n \in DOMAIN pipe : pipe[n].op \in {"D", "P"} /\ pipe[n].id = slot[k].id})
            + Cardinality({t \in DOMAIN sender : At(t, "push") /\ sender[t].msg.to = slot[k].id})

\* dec_sending_ref takes from zero (assert, skynet-src/socket_server.c:1341) for no other reason
\* than that: the message was sent to the socket before new_fd, or another one was.
OnlyEarlyAborts == ~Running => pipe # <<>> /\ Head(pipe).id \in early

\* What raise_uncomplete, send_buffer_ and new_fd assert: a message begun is at the head of
\* the high list, and a slot has no lists when it is used again (lines 847, 868, 582).
ListsInOrder ==
    \A k \in DOMAIN slot :
        /\ slot[k].low # <<>> => Head(slot[k].low).ptr = 0
        /\ slot[k].type \in {"INVALID", "RESERVE"} =>
               slot[k].high = <<>> /\ slot[k].low = <<>> /\ slot[k].dw = <<>>

\* Only the sender that holds dw_lock writes, and the slot is still that of the socket it
\* was asked to write to.
WriterHasLock ==
    /\ \A k \in DOMAIN slot : dw_lock[k] # Free =>
           sender[dw_lock[k]].pc \in {"look", "write"}
    /\ \A t \in DOMAIN sender : At(t, "write") =>
           \E k \in DOMAIN slot : dw_lock[k] = t /\ slot[k].id = sender[t].msg.to

\* A request to open finds the slot as it was reserved (assert, line 564), and the
\* socket thread never closes a reserved one (assert, line 495).
OpenFindsReserved ==
    /\ \A n \in DOMAIN pipe : pipe[n].op \in {"O", "L"} =>
           \E k \in DOMAIN slot : slot[k].id = pipe[n].id /\ slot[k].type = "RESERVE"
    /\ ~Polling => slot[poll.forcing.k].type \notin {"INVALID", "RESERVE"}

\* The slot, the pipe and the senders agree.
SocketInv ==
    SendingCounted /\ OnlyEarlyAborts /\ ListsInOrder /\ WriterHasLock /\ OpenFindsReserved

\* force_close frees the lists before it waits for dw_lock, so a sender that has the lock
\* may still write, in the middle of a message, to a socket that is being closed.
InUse(i) ==
    \E k \in DOMAIN slot : /\ slot[k].id = i /\ slot[k].type # "INVALID"
                           /\ Polling \/ poll.forcing.k # k

\* The bytes of a message follow one another on the descriptor it was addressed to, however
\* many writes, of the sender and of the socket thread, it takes; unless the socket is on its
\* way to be closed.
Whole ==
    \A i \in DOMAIN wire : \A x \in DOMAIN wire[i] :
        /\ wire[i][x].msg.to = i
        /\ InUse(i) =>
               IF x = 1 \/ wire[i][x - 1].byte = MsgSize THEN wire[i][x].byte = 1
               ELSE wire[i][x] = [wire[i][x - 1] EXCEPT !.byte = @ + 1]

\* A message never gets to the wire before an earlier one of its sender, unless that one is
\* of low priority and it is not, or a message was sent to the socket before new_fd.
InOrder ==
    \A i \in DOMAIN wire : i \notin early => \A x, y \in DOMAIN wire[i] :
        LET m == wire[i][x].msg  n == wire[i][y].msg
        IN  x < y /\ m.from = n.from /\ m.left < n.left => n.low /\ ~m.low

StreamIntact == Whole /\ InOrder

\* The services are told what the socket server promises: nothing of a socket before it is
\* open, SOCKET_CLOSE once, and no data after it.
Promised == Socket!Spec

Held(i) == \E k \in DOMAIN slot : slot[k].id = i /\ slot[k].type # "INVALID"
Closing(i) == \E k \in DOMAIN slot : slot[k].id = i /\ slot[k].closing
Buffered(i) ==
    \E k \in DOMAIN slot : /\ slot[k].id = i /\ slot[k].type # "HALFCLOSE_WRITE"
                           /\ slot[k].dw # <<>> \/ ~send_buffer_empty(slot[k])

\* What waits to be written is written or given up, as long as the peer reads: somebody always
\* sees to it that the write event is on.  Only the failed assertion of OnlyEarlyAborts ends that.
Flushes == \A i \in Ids : Buffered(i) ~> ~Buffered(i) \/ ~Running

\* A socket closed while something waits to be written is closed after it is.
ClosesWhenFlushed == \A i \in Ids : Closing(i) /\ Buffered(i) ~> ~Held(i) \/ ~Running
=============================================================================
