---------------------------- MODULE MessageQueue ----------------------------
(***************************************************************************)
(* One message queue of skynet-src/skynet_mq.c: the ring buffer that grows  *)
(* by doubling, and the overload threshold that doubles with the backlog.   *)
(* skynet_mq_push and skynet_mq_pop hold the queue's spin lock, so each is  *)
(* one action.  skynet_mq_overload takes no lock: the worker that popped    *)
(* reads the field, copies it and clears it in separate steps, and another  *)
(* worker's pop may fall between them.                                      *)
(*                                                                          *)
(* Whether the queue is in the global queue (in_global) is Dispatch's       *)
(* subject and is left out here.                                            *)
(***************************************************************************)
EXTENDS Integers, Sequences

CONSTANTS
    Msgs,           \* messages
    NoMsg,          \* no message: an uninitialised slot, or an empty pop
    Workers,        \* worker threads that may dispatch this queue
    InitialCap,     \* DEFAULT_QUEUE_SIZE (64)
    MqOverload,     \* MQ_OVERLOAD (1024)
    MaxCap          \* bound: the buffer never grows past this

ASSUME MsgAssumption == NoMsg \notin Msgs
ASSUME CapAssumption == InitialCap \in Nat \ {0}
ASSUME OverloadAssumption == MqOverload \in Nat \ {0}
ASSUME MaxCapAssumption == MaxCap \in Nat

VARIABLES
    concurrent,         \* struct message_queue: int concurrent, set at creation
    queue,              \* struct skynet_message *queue, slots 0 .. cap - 1
    cap, head, tail,
    overload,
    overload_threshold,
    pc,                 \* where each worker is in skynet_service_message_dispatch
    local,              \* skynet_mq_overload's local variable, one per worker
    out,                \* what the last pop stored in *message
    warned,             \* history: the last length reported since the queue was last empty
    owed                \* history: the longest length noticed since then that is still to be
                        \* reported, of those no worker was about to clear

ring == <<queue, cap, head, tail>>
level == <<overload, overload_threshold>>
vars == <<concurrent, ring, level, pc, local, out, warned, owed>>

-----------------------------------------------------------------------------
(* Reading the ring *)

\* skynet_mq_length, and the length skynet_mq_pop computes
Distance(h, t, c) == IF h <= t THEN t - h ELSE t + c - h
Length == Distance(head, tail, cap)

\* the slot i places after slot h, in a buffer of c slots
Slot(h, i, c) == (h + i) % c

\* mutant: an index runs off the end of the buffer
SuccUnwrapped(i) == i + 1

\* the index after i: skynet_mq_push's and skynet_mq_pop's wrap at the end
Succ(i) == IF i + 1 >= cap THEN 0 ELSE i + 1

\* The messages between two indices of a buffer, oldest first.
Between(buffer, h, t, c) ==
    [i \in 1 .. Distance(h, t, c) |-> buffer[Slot(h, i - 1, c)]]

\* The messages in the queue.
Contents == Between(queue, head, tail, cap)

\* mutant: the old buffer is copied as it lies, not from its head
ExpandedUnrotated(buffer) ==
    [i \in 0 .. 2 * cap - 1 |-> IF i < cap THEN buffer[i] ELSE NoMsg]

\* expand_queue: the messages move to the front of a buffer of twice the size
Expanded(buffer) ==
    [i \in 0 .. 2 * cap - 1 |-> IF i < cap THEN buffer[Slot(head, i, cap)] ELSE NoMsg]

\* mutant: the threshold stays where it is
ThresholdKept(length) == overload_threshold

\* while (length > overload_threshold) overload_threshold *= 2
ThresholdFor(length) ==
    LET doubled[t \in Nat] == IF length <= t THEN t ELSE doubled[2 * t]
    IN  doubled[overload_threshold]

Idle(w) == pc[w] = "idle"

-----------------------------------------------------------------------------
\* skynet_mq_create
Init ==
    /\ concurrent \in BOOLEAN
    /\ queue = [i \in 0 .. InitialCap - 1 |-> NoMsg]
    /\ cap = InitialCap
    /\ head = 0
    /\ tail = 0
    /\ overload = 0
    /\ overload_threshold = MqOverload
    /\ pc = [w \in Workers |-> "idle"]
    /\ local = [w \in Workers |-> 0]
    /\ out = NoMsg
    /\ warned = 0
    /\ owed = 0

\* skynet_mq_push, with expand_queue when the buffer is full
Push(m) ==
    LET filled == [queue EXCEPT ![tail] = m]
        next   == Succ(tail)
    IN  \/ /\ head # next
           /\ queue' = filled
           /\ tail' = next
           /\ UNCHANGED <<cap, head>>
           /\ UNCHANGED <<concurrent, level, pc, local, out, warned, owed>>
        \/ /\ head = next
           /\ 2 * cap <= MaxCap
           /\ queue' = Expanded(filled)
           /\ head' = 0
           /\ tail' = cap
           /\ cap' = 2 * cap
           /\ UNCHANGED <<concurrent, level, pc, local, out, warned, owed>>

\* Only a concurrent queue is dispatched by several workers at once
\* (Dispatch!Exclusive).
MayPop(w) == Idle(w) /\ (concurrent \/ \A v \in Workers : Idle(v))

\* skynet_mq_pop on a queue that holds a message.  A length noticed while another worker has
\* read the field and not cleared it yet may be cleared unseen, and is not owed.
PopMessage(w) ==
    /\ MayPop(w)
    /\ head # tail
    /\ out' = queue[head]
    /\ head' = Succ(head)
    /\ LET length == Distance(head', tail, cap)
           noticed == length > overload_threshold
       IN  /\ overload' = IF noticed THEN length ELSE overload
           /\ overload_threshold' = ThresholdFor(length)
           /\ owed' = IF noticed /\ \A v \in Workers : pc[v] # "clear" THEN length ELSE owed
    /\ pc' = [pc EXCEPT ![w] = "test"]
    /\ UNCHANGED <<concurrent, queue, cap, tail, local, warned>>

\* skynet_mq_pop on an empty queue: the threshold starts again from the bottom
PopEmpty(w) ==
    /\ MayPop(w)
    /\ head = tail
    /\ out' = NoMsg
    /\ overload_threshold' = MqOverload
    /\ warned' = 0
    /\ owed' = 0
    /\ UNCHANGED <<concurrent, ring, overload, pc, local>>

\* skynet_mq_overload: if (q->overload)
TestOverload(w) ==
    /\ pc[w] = "test"
    /\ pc' = [pc EXCEPT ![w] = IF overload # 0 THEN "copy" ELSE "idle"]
    /\ UNCHANGED <<concurrent, ring, level, local, out, warned, owed>>

\* mutant: the field is cleared before it is read
CopyCleared(w) ==
    /\ pc[w] = "copy"
    /\ overload' = 0
    /\ local' = [local EXCEPT ![w] = 0]
    /\ pc' = [pc EXCEPT ![w] = "clear"]
    /\ UNCHANGED <<concurrent, ring, overload_threshold, out, warned, owed>>

\* skynet_mq_overload: int overload = q->overload
CopyOverload(w) ==
    /\ pc[w] = "copy"
    /\ local' = [local EXCEPT ![w] = overload]
    /\ pc' = [pc EXCEPT ![w] = "clear"]
    /\ UNCHANGED <<concurrent, ring, level, out, warned, owed>>

\* skynet_mq_overload clears the field; skynet_service_message_dispatch logs the
\* length it returned.  The callback that follows does not touch the queue's
\* own state except through Push.
ReportOverload(w) ==
    /\ pc[w] = "clear"
    /\ overload' = 0
    /\ warned' = IF local[w] # 0 THEN local[w] ELSE warned
    /\ owed' = IF local[w] >= owed THEN 0 ELSE owed
    /\ local' = [local EXCEPT ![w] = 0]
    /\ pc' = [pc EXCEPT ![w] = "idle"]
    /\ UNCHANGED <<concurrent, ring, overload_threshold, out>>

Next ==
    \/ \E m \in Msgs : Push(m)
    \/ \E w \in Workers :
          \/ PopMessage(w) \/ PopEmpty(w)
          \/ TestOverload(w) \/ CopyOverload(w) \/ ReportOverload(w)

Spec == Init /\ [][Next]_vars

-----------------------------------------------------------------------------
\* The ring buffer's fields stay in range; head and tail are slots of the buffer
\* even as it is replaced under them.
IsRing(buffer, h, t, c) ==
    /\ c \in Nat \ {0}
    /\ h \in 0 .. c - 1
    /\ t \in 0 .. c - 1
    /\ buffer \in [0 .. c - 1 -> Msgs \union {NoMsg}]

RingOK == IsRing(queue, head, tail, cap)

TypeOK ==
    /\ RingOK
    /\ concurrent \in BOOLEAN
    /\ overload \in Nat
    /\ overload_threshold \in Nat \ {0}
    /\ pc \in [Workers -> {"idle", "test", "copy", "clear"}]
    /\ local \in [Workers -> Nat]
    /\ out \in Msgs \union {NoMsg}
    /\ warned \in Nat /\ owed \in Nat

\* Once no worker is between a pop and the callback, every overload a pop noticed has been
\* reported, or a longer one since, and none is left to be reported in a later, quiet period:
\* whatever the workers' pops, reads and clears of the field do to each other, but for a
\* length noticed between another worker's read and clear (skynet_mq.c:143), which is lost
\* when the clear comes before the next read.
OverloadReported == (\A w \in Workers : Idle(w)) => overload = 0 /\ owed = 0

\* Each warning of a queue with one dispatching worker is of a longer backlog than the one
\* before, and no length is reported again, until the queue has been seen empty: a busy
\* service does not flood the log.  Two workers of a concurrent queue may report the same
\* length, or the lower one last.
Warns(w) == pc[w] = "clear" /\ pc'[w] # "clear" /\ local[w] # 0
WarningsRise == [][\A w \in Workers : ~concurrent /\ Warns(w) => local[w] > warned]_vars

\* The ring, growing and wrapping, is a first-in first-out queue that loses,
\* repeats and reorders nothing.
Abstract == INSTANCE Fifo WITH contents <- Contents
ImplementsFifo == Abstract!Spec
=============================================================================
