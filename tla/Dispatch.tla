------------------------------ MODULE Dispatch ------------------------------
(***************************************************************************)
(* The scheduler: service creation, skynet_mq_push, the global queue of     *)
(* message queues, and the worker threads' skynet_message_dispatch.         *)
(*                                                                          *)
(* The grain is the spin locks'.  skynet_globalmq_push and                  *)
(* skynet_globalmq_pop hold the global queue's lock, skynet_mq_push and     *)
(* skynet_mq_pop the message queue's; each is one action.  A worker may be  *)
(* stopped between any two of them.                                         *)
(*                                                                          *)
(* Services are created at any time and never closed here: closing is       *)
(* ServiceClose's subject.  Without it skynet_service_find finds every      *)
(* service whose queue is in the global queue, and the reads that           *)
(* skynet_message_dispatch makes of ctx and ctx->closing change nothing.    *)
(* harbor is not 0: the handle of slot 0 would be 0 otherwise, which        *)
(* skynet_start's caller takes for a failure.                               *)
(***************************************************************************)
EXTENDS Lists, Integers, Sequences, FiniteSets

CONSTANTS
    Services,               \* services that may be created
    ConcurrentServices,     \* those created with concurrent = 1
    Workers,                \* thread_worker threads
    Threads,                \* other sources of messages: timer and socket threads
    MaxSent,                \* bound: messages each source sends
    NoService, NoMsg

Sources == Threads \union Services
Msgs == Sources \X (1 .. MaxSent)

ASSUME ConcurrentAssumption == ConcurrentServices \subseteq Services
ASSUME NoServiceAssumption == NoService \notin Services
ASSUME NoMsgAssumption == NoMsg \notin Msgs \union (Services \X Msgs)
ASSUME MaxSentAssumption == MaxSent \in Nat

VARIABLES
    phase,      \* "none", "creating" (ctx->create running), "running"
    mq,         \* the messages of each service's queue, oldest first
    inGlobal,   \* the in_global field of each service's queue
    global,     \* the linked list Q, as the services whose queues are in it
    pc,         \* where each worker is in skynet_message_dispatch
    cur,        \* the service whose queue the worker popped (q, ctx)
    msg,        \* the message the worker's callback runs on
    sent,       \* how many messages each source has sent
    done        \* messages whose callback has returned, in that order

queues == <<mq, inGlobal, global>>
workers == <<pc, cur, msg>>
vars == <<phase, queues, workers, sent, done>>

Plain(s) == s \notin ConcurrentServices
Created(s) == phase[s] # "none"
InQueue(s) == In(s, global)
Holds(w, s) == pc[w] # "idle" /\ cur[w] = s

Init ==
    /\ phase = [s \in Services |-> "none"]
    /\ mq = [s \in Services |-> <<>>]
    /\ inGlobal = [s \in Services |-> FALSE]
    /\ global = <<>>
    /\ pc = [w \in Workers |-> "idle"]
    /\ cur = [w \in Workers |-> NoService]
    /\ msg = [w \in Workers |-> NoMsg]
    /\ sent = [p \in Sources |-> 0]
    /\ done = [s \in Services |-> <<>>]

-----------------------------------------------------------------------------
(* skynet_service_create *)

\* mutant: the new queue is not marked as in the global queue
CreateUnmarked(s) ==
    /\ phase[s] = "none"
    /\ phase' = [phase EXCEPT ![s] = "creating"]
    /\ mq' = [mq EXCEPT ![s] = <<>>]
    /\ inGlobal' = [inGlobal EXCEPT ![s] = FALSE]
    /\ UNCHANGED <<global, workers, sent, done>>

\* _create puts the service in its slot and skynet_mq_create makes its queue,
\* marked in_global so that nobody pushes it before the create function is done
CreateBegin(s) ==
    /\ phase[s] = "none"
    /\ phase' = [phase EXCEPT ![s] = "creating"]
    /\ mq' = [mq EXCEPT ![s] = <<>>]
    /\ inGlobal' = [inGlobal EXCEPT ![s] = TRUE]
    /\ UNCHANGED <<global, workers, sent, done>>

\* ctx->create has returned 0: skynet_globalmq_push(ctx->queue)
CreateEnd(s) ==
    /\ phase[s] = "creating"
    /\ phase' = [phase EXCEPT ![s] = "running"]
    /\ global' = Append(global, s)
    /\ UNCHANGED <<mq, inGlobal, workers, sent, done>>

-----------------------------------------------------------------------------
(* skynet_service_pushmsg and skynet_sendhandle, down to skynet_mq_push *)

\* mutant: every push puts the queue in the global queue
PushAlwaysQueues(s, m) ==
    /\ Created(s)
    /\ mq' = [mq EXCEPT ![s] = Append(@, m)]
    /\ inGlobal' = [inGlobal EXCEPT ![s] = TRUE]
    /\ global' = Append(global, s)

\* skynet_mq_push
Push(s, m) ==
    /\ Created(s)
    /\ mq' = [mq EXCEPT ![s] = Append(@, m)]
    /\ inGlobal' = [inGlobal EXCEPT ![s] = TRUE]
    /\ global' = IF inGlobal[s] THEN global ELSE Append(global, s)

SendFrom(p, s) ==
    /\ sent[p] < MaxSent
    /\ sent' = [sent EXCEPT ![p] = @ + 1]
    /\ Push(s, <<p, sent[p] + 1>>)
    /\ UNCHANGED <<phase, workers, done>>

\* the timer thread or the socket thread delivers a message
ThreadSend(t, s) == SendFrom(t, s)

\* a callback sends a message to a service, itself included
CallbackSend(w, s) ==
    /\ pc[w] = "callback"
    /\ SendFrom(cur[w], s)

-----------------------------------------------------------------------------
(* skynet_message_dispatch *)

\* mutant: every popped queue goes back at once, concurrent or not
PopGlobalKeepsAll(w) ==
    /\ pc[w] = "idle"
    /\ global # <<>>
    /\ cur' = [cur EXCEPT ![w] = Head(global)]
    /\ global' = Append(Tail(global), Head(global))
    /\ pc' = [pc EXCEPT ![w] = "popped"]
    /\ UNCHANGED <<phase, mq, inGlobal, msg, sent, done>>

\* skynet_globalmq_pop; a concurrent queue goes back to the end of the list
PopGlobal(w) ==
    /\ pc[w] = "idle"
    /\ global # <<>>
    /\ cur' = [cur EXCEPT ![w] = Head(global)]
    /\ global' = IF Plain(Head(global)) THEN Tail(global)
                 ELSE Append(Tail(global), Head(global))
    /\ pc' = [pc EXCEPT ![w] = "popped"]
    /\ UNCHANGED <<phase, mq, inGlobal, msg, sent, done>>

\* skynet_mq_pop on a queue that holds a message; ctx->cb is called on it
PopMessage(w) ==
    /\ pc[w] = "popped"
    /\ mq[cur[w]] # <<>>
    /\ msg' = [msg EXCEPT ![w] = Head(mq[cur[w]])]
    /\ mq' = [mq EXCEPT ![cur[w]] = Tail(@)]
    /\ pc' = [pc EXCEPT ![w] = "callback"]
    /\ UNCHANGED <<phase, inGlobal, global, cur, sent, done>>

\* mutant: in_global is left set when the queue is found empty
PopEmptyKeepsMark(w) ==
    /\ pc[w] = "popped"
    /\ mq[cur[w]] = <<>>
    /\ pc' = [pc EXCEPT ![w] = "idle"]
    /\ cur' = [cur EXCEPT ![w] = NoService]
    /\ UNCHANGED <<phase, queues, msg, sent, done>>

\* skynet_mq_pop on an empty queue: a plain queue leaves the global queue
PopEmpty(w) ==
    /\ pc[w] = "popped"
    /\ mq[cur[w]] = <<>>
    /\ inGlobal' = IF Plain(cur[w]) THEN [inGlobal EXCEPT ![cur[w]] = FALSE]
                   ELSE inGlobal
    /\ pc' = [pc EXCEPT ![w] = "idle"]
    /\ cur' = [cur EXCEPT ![w] = NoService]
    /\ UNCHANGED <<phase, mq, global, msg, sent, done>>

\* ctx->cb returns and the message is freed
CallbackEnd(w) ==
    /\ pc[w] = "callback"
    /\ done' = [done EXCEPT ![cur[w]] = Append(@, msg[w])]
    /\ msg' = [msg EXCEPT ![w] = NoMsg]
    /\ pc' = [pc EXCEPT ![w] = "requeue"]
    /\ UNCHANGED <<phase, queues, cur, sent>>

\* mutant: the queue is not pushed back after a message
RequeueForgotten(w) ==
    /\ pc[w] = "requeue"
    /\ pc' = [pc EXCEPT ![w] = "idle"]
    /\ cur' = [cur EXCEPT ![w] = NoService]
    /\ UNCHANGED <<phase, queues, msg, sent, done>>

\* a plain queue goes back to the global queue after one message
Requeue(w) ==
    /\ pc[w] = "requeue"
    /\ global' = IF Plain(cur[w]) THEN Append(global, cur[w]) ELSE global
    /\ pc' = [pc EXCEPT ![w] = "idle"]
    /\ cur' = [cur EXCEPT ![w] = NoService]
    /\ UNCHANGED <<phase, mq, inGlobal, msg, sent, done>>

-----------------------------------------------------------------------------
WorkerStep(w) ==
    PopGlobal(w) \/ PopMessage(w) \/ PopEmpty(w) \/ CallbackEnd(w) \/ Requeue(w)

Next ==
    \/ \E s \in Services : CreateBegin(s) \/ CreateEnd(s)
    \/ \E t \in Threads, s \in Services : ThreadSend(t, s)
    \/ \E w \in Workers, s \in Services : CallbackSend(w, s)
    \/ \E w \in Workers : WorkerStep(w)

Spec == Init /\ [][Next]_vars

\* A worker that has something to do is scheduled, a callback returns, and so
\* does a create function.  That an idle worker looks again when the global queue
\* is filled is Monitor's subject.
FairSpec ==
    /\ Spec
    /\ \A w \in Workers : WF_vars(WorkerStep(w))
    /\ \A s \in Services : WF_vars(CreateEnd(s))

-----------------------------------------------------------------------------
TypeOK ==
    /\ phase \in [Services -> {"none", "creating", "running"}]
    /\ mq \in [Services -> Seq(Msgs)]
    /\ inGlobal \in [Services -> BOOLEAN]
    /\ global \in Seq(Services)
    /\ pc \in [Workers -> {"idle", "popped", "callback", "requeue"}]
    /\ cur \in [Workers -> Services \union {NoService}]
    /\ msg \in [Workers -> Msgs \union {NoMsg}]
    /\ sent \in [Sources -> 0 .. MaxSent]
    /\ done \in [Services -> Seq(Msgs)]

\* A worker past the pop has a service in hand, and a message in its callback.
WorkersOK ==
    \A w \in Workers :
        /\ pc[w] # "idle" => cur[w] \in Services
        /\ pc[w] = "callback" <=> msg[w] # NoMsg

\* A message queue is in the global queue at most once: the list is linked
\* through the queue's own next field, so a second push would cut the list.
QueuedOnce == NoRepeat(global)

\* skynet_mq.c:8-9, "0 means mq is not in global mq. 1 means mq is in global mq,
\* or the message is dispatching", and skynet_mq.c:89-91 for the create function.
InGlobalExact ==
    \A s \in Services :
        /\ phase[s] = "none" => mq[s] = <<>> /\ ~inGlobal[s]
        /\ phase[s] = "creating" => inGlobal[s]
        /\ phase[s] # "running" => ~InQueue(s) /\ \A w \in Workers : ~Holds(w, s)
        /\ phase[s] = "running" /\ Plain(s) =>
             (inGlobal[s] <=> InQueue(s) \/ \E w \in Workers : Holds(w, s))
        /\ phase[s] = "running" /\ ~Plain(s) => inGlobal[s] /\ InQueue(s)

\* The queue of a plain service is in one place: in the global queue, or in the
\* hands of one worker.
OnePlace ==
    \A s \in Services : Plain(s) =>
        \A w \in Workers : Holds(w, s) =>
            /\ ~InQueue(s)
            /\ \A v \in Workers : Holds(v, s) => v = w

\* A queue with messages in it carries the mark: skynet_mq_pop takes the mark off
\* under the lock under which it saw the queue empty.
MarkedIfFull == \A s \in Services : mq[s] # <<>> => inGlobal[s]

\* The inductive invariant of the scheduler.
DispatchInv ==
    /\ TypeOK
    /\ WorkersOK
    /\ QueuedOnce
    /\ InGlobalExact
    /\ OnePlace
    /\ MarkedIfFull

\* The actor guarantee: two workers never run callbacks of the same plain
\* service at once, so a service's state needs no lock.
Exclusive ==
    \A v, w \in Workers :
        pc[v] = "callback" /\ pc[w] = "callback" /\ cur[v] = cur[w] /\ Plain(cur[v])
            => v = w

\* No message is stranded: while a running service has a message waiting, some
\* worker has its queue in hand or will find it in the global queue.
NotStranded ==
    \A s \in Services : phase[s] = "running" /\ mq[s] # <<>> =>
        InQueue(s) \/ \E w \in Workers : Holds(w, s)

\* Messages from one source to one plain service are begun, and their callbacks
\* return, in the order they were sent.
InHand(s) ==
    LET running == {w \in Workers : pc[w] = "callback" /\ cur[w] = s}
    IN  IF running = {} THEN <<>> ELSE <<msg[CHOOSE w \in running : TRUE]>>
Stream(s) == done[s] \o InHand(s) \o mq[s]
SourceOrder ==
    \A s \in Services : Plain(s) =>
        \A i, j \in 1 .. Len(Stream(s)) :
            i < j /\ Stream(s)[i][1] = Stream(s)[j][1] => Stream(s)[i][2] < Stream(s)[j][2]

\* Every message that was sent is handled: its callback runs and returns.
Handled(m) == \E s \in Services : In(m, done[s])
EventuallyHandled ==
    \A p \in Sources, n \in 1 .. MaxSent : (sent[p] >= n) ~> Handled(<<p, n>>)

\* The scheduler implements Actors: no callback before the create function has
\* returned, one callback at a time for a plain service, oldest message first.
Job(w) == IF pc[w] = "callback" THEN <<cur[w], msg[w]>> ELSE NoMsg
Abstract == INSTANCE Actors WITH
    started <- {s \in Services : phase[s] = "running"},
    inbox <- mq,
    job <- [w \in Workers |-> Job(w)],
    NoJob <- NoMsg
ImplementsActors == Abstract!Spec
=============================================================================
