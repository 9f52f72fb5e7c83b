---------------------------- MODULE ServiceClose ----------------------------
(***************************************************************************)
(* The end of a service's life: skynet_service_close, the draining branch   *)
(* of skynet_message_dispatch, skynet_service_release, and the reuse of the *)
(* slot by a later service.  Dispatch models the life before it.            *)
(*                                                                          *)
(* A context and its queue are heap objects: life is "none", "alive" or     *)
(* "freed", and a slot (a handle) holds at most one context.  Messages are  *)
(* counted, not told apart.  Using a freed object is undefined and a failed *)
(* assertion aborts: either one sets fate, and the behaviour ends there.    *)
(*                                                                          *)
(* Any thread may send to a service or close it at any time, by a context   *)
(* it looked up and that is not counted as a user of it.  race notes, for   *)
(* each context, how closing it raced with another thread.                  *)
(***************************************************************************)
EXTENDS Integers, Sequences, FiniteSets, Lists

CONSTANTS
    Ctxs,           \* service contexts (struct skynet_service), one life each
    ConcurrentCtxs, \* those created with concurrent = 1
    Handles,        \* slots
    Workers,
    Senders,        \* threads that send to a service, once each
    Closers,        \* threads that close a service, once each
    MaxMsgs,        \* bound: a context sends to itself while fewer are queued
    Null

ASSUME CtxAssumption == ConcurrentCtxs \subseteq Ctxs /\ Null \notin Ctxs \union Handles
ASSUME MaxMsgsAssumption == MaxMsgs \in Nat
ASSUME ThreadsAssumption == IsFiniteSet(Workers) /\ IsFiniteSet(Senders)

VARIABLES
    slot,       \* m->slot
    ctx,        \* struct skynet_service: life, handle, closing
    queue,      \* struct message_queue: life, length, in_global, concurrent, release
    global,     \* the global queue
    creator,    \* where skynet_service_create is, for each context
    worker,     \* skynet_message_dispatch: pc and its locals q, ctx
    sender,     \* skynet_service_pushmsg: pc and ctx
    closer,     \* skynet_service_close: pc and ctx
    owed,       \* messages put in each context's queue whose callback has not returned
    race,       \* history: the race that closing each context has lost, if any:
                \*   "late"    a message is pushed after closing is set and the mark taken off
                \*   "twice"   another service closes it, and closing is set already
                \*   "outrun"  it is drained before a closer has looked at the mark
                \*   "missed"  a closer saw the mark, and the worker that then finds the
                \*             queue empty takes it off; one of the others may follow
    fate        \* "ok"; "stale" if a worker used a freed object, "dangling" if a sender, a
                \* closer or a creator did; "abort" if an assertion failed

heap == <<slot, ctx, queue, global>>
books == <<owed, race>>
vars == <<heap, creator, worker, sender, closer, books, fate>>

AtRest == [pc |-> "idle", q |-> Null, ctx |-> Null]
Call == [pc |-> "idle", ctx |-> Null]
Over == [pc |-> "done", ctx |-> Null]

Init ==
    /\ slot = [h \in Handles |-> Null]
    /\ ctx = [c \in Ctxs |-> [life |-> "none", handle |-> Null, closing |-> FALSE]]
    /\ queue = [c \in Ctxs |-> [life |-> "none", length |-> 0, in_global |-> FALSE,
                                concurrent |-> c \in ConcurrentCtxs, release |-> FALSE]]
    /\ global = <<>>
    /\ creator = [c \in Ctxs |-> "idle"]
    /\ worker = [w \in Workers |-> AtRest]
    /\ sender = [t \in Senders |-> Call]
    /\ closer = [k \in Closers |-> Call]
    /\ owed = [c \in Ctxs |-> 0]
    /\ race = [c \in Ctxs |-> "none"]
    /\ fate = "ok"

-----------------------------------------------------------------------------
(* The heap and the queues *)

CtxAlive(c) == ctx[c].life = "alive"
QueueAlive(c) == queue[c].life = "alive"

Allocated(c) == CtxAlive(c) /\ QueueAlive(c)

Lost(how, c) == race' = [race EXCEPT ![c] = IF @ \in {"none", "missed"} THEN how ELSE @]

\* skynet_mq_push
Push(c) ==
    /\ queue' = [queue EXCEPT ![c].length = @ + 1, ![c].in_global = TRUE]
    /\ global' = IF queue[c].in_global THEN global ELSE Append(global, c)
    /\ owed' = [owed EXCEPT ![c] = @ + 1]
    /\ IF ctx[c].closing /\ ~queue[c].in_global THEN Lost("late", c) ELSE UNCHANGED race

-----------------------------------------------------------------------------
(* skynet_service_create *)

\* _create: from here on the context is found by its handle
CreateBegin(c, h) ==
    /\ creator[c] = "idle"
    /\ slot[h] = Null
    /\ slot' = [slot EXCEPT ![h] = c]
    /\ ctx' = [ctx EXCEPT ![c] = [life |-> "alive", handle |-> h, closing |-> FALSE]]
    /\ creator' = [creator EXCEPT ![c] = "begun"]
    /\ UNCHANGED <<queue, global, worker, sender, closer, books, fate>>

\* skynet_mq_create
CreateQueue(c) ==
    /\ creator[c] = "begun"
    /\ queue' = [queue EXCEPT ![c].life = "alive", ![c].in_global = TRUE]
    /\ creator' = [creator EXCEPT ![c] = "creating"]
    /\ UNCHANGED <<slot, ctx, global, worker, sender, closer, books, fate>>

\* the create function posts a message to its own service
CreateSends(c) ==
    /\ creator[c] = "creating"
    /\ ~ctx[c].closing
    /\ queue[c].length < MaxMsgs
    /\ Push(c)
    /\ UNCHANGED <<slot, ctx, creator, worker, sender, closer, fate>>

CreateSucceeds(c) ==
    /\ creator[c] = "creating"
    /\ global' = Append(global, c)
    /\ creator' = [creator EXCEPT ![c] = "report"]
    /\ UNCHANGED <<slot, ctx, queue, worker, sender, closer, books, fate>>

\* the handle is read from the context once more, to be logged and returned
CreatorReports(c) ==
    /\ creator[c] = "report"
    /\ CtxAlive(c)
    /\ creator' = [creator EXCEPT ![c] = "done"]
    /\ UNCHANGED <<heap, worker, sender, closer, books, fate>>

CreateFails(c) ==
    /\ creator[c] = "creating"
    /\ creator' = [creator EXCEPT ![c] = "unlink"]
    /\ UNCHANGED <<heap, worker, sender, closer, books, fate>>

-----------------------------------------------------------------------------
(* skynet_service_release, called by a worker or by a failed creation *)

\* the name and the slot go under the write lock
Unlink(c) == slot' = [slot EXCEPT ![ctx[c].handle] = Null]

\* skynet_mq_release: the queue of a concurrent service is still in the global
\* queue and is only marked; any other is freed with what it holds
Released(q) ==
    IF ~q.release /\ q.concurrent
    THEN [q EXCEPT !.release = TRUE, !.concurrent = FALSE]
    ELSE [q EXCEPT !.life = "freed", !.length = 0]

\* ctx->release, skynet_mq_release, skynet_free(ctx)
FreeCtx(c) ==
    /\ queue' = [queue EXCEPT ![c] = Released(@)]
    /\ ctx' = [ctx EXCEPT ![c].life = "freed"]

CreatorUnlinks(c) ==
    /\ creator[c] = "unlink"
    /\ CtxAlive(c)
    /\ Unlink(c)
    /\ creator' = [creator EXCEPT ![c] = "free"]
    /\ UNCHANGED <<ctx, queue, global, worker, sender, closer, books, fate>>

CreatorFrees(c) ==
    /\ creator[c] = "free"
    /\ Allocated(c)
    /\ FreeCtx(c)
    /\ creator' = [creator EXCEPT ![c] = "failed"]
    /\ UNCHANGED <<slot, global, worker, sender, closer, books, fate>>

\* undefined: the context was released meanwhile
CreatorTrips(c) ==
    /\ creator[c] \in {"report", "unlink", "free"}
    /\ ~CtxAlive(c)
    /\ fate' = "dangling"
    /\ UNCHANGED <<heap, creator, worker, sender, closer, books>>

-----------------------------------------------------------------------------
(* skynet_message_dispatch *)

At(w, label) == worker[w].pc = label
Goto(w, label) == worker' = [worker EXCEPT ![w].pc = label]
Return(w) == worker' = [worker EXCEPT ![w] = AtRest]
Popping(w) == At(w, "drain") \/ At(w, "one")
InCallback(w) == At(w, "drainCallback") \/ At(w, "callback")

\* skynet_globalmq_pop; a concurrent queue goes back to the end of the list
PopGlobal(w) ==
    /\ At(w, "idle")
    /\ global # <<>>
    /\ LET q == Head(global)
       IN  /\ QueueAlive(q)
           /\ global' = IF queue[q].concurrent THEN Append(Tail(global), q) ELSE Tail(global)
           /\ worker' = [worker EXCEPT ![w] = [pc |-> "find", q |-> q, ctx |-> Null]]
    /\ UNCHANGED <<slot, ctx, queue, creator, sender, closer, books, fate>>

\* skynet_service_find(skynet_mq_handle(q)): a queue whose service is gone is left
\* where it is, out of the global queue
FindCtx(w) ==
    /\ At(w, "find")
    /\ LET q == worker[w].q
           found == slot[ctx[q].handle]
       IN  /\ QueueAlive(q)
           /\ worker' = [worker EXCEPT ![w] =
                 IF found = Null THEN AtRest ELSE [pc |-> "check", q |-> q, ctx |-> found]]
    /\ UNCHANGED <<heap, creator, sender, closer, books, fate>>

\* mutant: a closing service is released with its queue undrained
CheckCtxReleases(w) ==
    /\ At(w, "check")
    /\ LET c == worker[w].ctx
       IN  /\ CtxAlive(c) /\ c = worker[w].q
           /\ Goto(w, IF ctx[c].closing THEN "unlink" ELSE "one")
    /\ UNCHANGED <<heap, creator, sender, closer, books, fate>>

\* assert(q == ctx->queue); if (ctx->closing)
CheckCtx(w) ==
    /\ At(w, "check")
    /\ LET c == worker[w].ctx
       IN  /\ CtxAlive(c) /\ c = worker[w].q
           /\ Goto(w, IF ctx[c].closing THEN "drain" ELSE "one")
    /\ UNCHANGED <<heap, creator, sender, closer, books, fate>>

CheckAborts(w) ==
    /\ At(w, "check")
    /\ CtxAlive(worker[w].ctx) /\ worker[w].ctx # worker[w].q
    /\ fate' = "abort"
    /\ UNCHANGED <<heap, creator, worker, sender, closer, books>>

\* mutant: a message is taken whether or not there is one
PopUnguarded(w) ==
    /\ Popping(w)
    /\ LET c == worker[w].ctx
       IN  /\ Allocated(c)
           /\ queue' = [queue EXCEPT ![c].length = @ - 1]
    /\ Goto(w, IF At(w, "drain") THEN "drainCallback" ELSE "callback")
    /\ UNCHANGED <<slot, ctx, global, creator, sender, closer, books, fate>>

\* skynet_mq_pop with a message, in the draining loop or for one message
PopMessage(w) ==
    /\ Popping(w)
    /\ LET c == worker[w].ctx
       IN  /\ Allocated(c)
           /\ queue[c].length > 0
           /\ queue' = [queue EXCEPT ![c].length = @ - 1]
    /\ Goto(w, IF At(w, "drain") THEN "drainCallback" ELSE "callback")
    /\ UNCHANGED <<slot, ctx, global, creator, sender, closer, books, fate>>

\* a closer of the context has set closing and not looked at the mark yet
CloserComes(c) == \E k \in Closers : closer[k].ctx = c /\ closer[k].pc = "test"

\* skynet_mq_pop with no message: a plain queue loses its mark, a drained service
\* is released
PopEmpty(w) ==
    /\ Popping(w)
    /\ LET c == worker[w].ctx
       IN  /\ Allocated(c)
           /\ queue[c].length = 0
           /\ queue' = [queue EXCEPT ![c].in_global = queue[c].concurrent /\ @]
           /\ CASE At(w, "drain") /\ CloserComes(c) -> Lost("outrun", c)
                [] At(w, "one") /\ ctx[c].closing /\ ~CloserComes(c) -> Lost("missed", c)
                [] OTHER -> UNCHANGED race
    /\ worker' = [worker EXCEPT ![w] =
          IF At(w, "drain") THEN [@ EXCEPT !.pc = "unlink"] ELSE AtRest]
    /\ UNCHANGED <<slot, ctx, global, creator, sender, closer, owed, fate>>

\* a callback sends to its own service: skynet_service_pushmsg refuses when closing
CallbackSends(w) ==
    /\ InCallback(w)
    /\ LET c == worker[w].ctx
       IN  /\ Allocated(c)
           /\ ~ctx[c].closing
           /\ queue[c].length < MaxMsgs
           /\ Push(c)
    /\ UNCHANGED <<slot, ctx, creator, worker, sender, closer, fate>>

\* mutant: close pushes the queue without looking at in_global
CallbackClosePushes(w) ==
    /\ At(w, "callback")
    /\ LET c == worker[w].ctx
       IN  /\ Allocated(c)
           /\ ~ctx[c].closing
           /\ ctx' = [ctx EXCEPT ![c].closing = TRUE]
           /\ global' = Append(global, c)
    /\ UNCHANGED <<slot, queue, creator, worker, sender, closer, books, fate>>

\* skynet_service_close by the service's own callback
CallbackCloses(w) ==
    /\ At(w, "callback")
    /\ LET c == worker[w].ctx
       IN  /\ Allocated(c)
           /\ ~ctx[c].closing
           /\ ctx' = [ctx EXCEPT ![c].closing = TRUE]
           /\ global' = IF queue[c].in_global THEN global ELSE Append(global, c)
    /\ UNCHANGED <<slot, queue, creator, worker, sender, closer, books, fate>>

\* the callback returns
CallbackEnd(w) ==
    /\ InCallback(w)
    /\ owed' = [owed EXCEPT ![worker[w].ctx] = @ - 1]
    /\ Goto(w, IF At(w, "callback") THEN "requeue" ELSE "drain")
    /\ UNCHANGED <<heap, creator, sender, closer, race, fate>>

\* mutant: a service that has begun to close is not queued again
RequeueUnlessClosing(w) ==
    /\ At(w, "requeue")
    /\ LET c == worker[w].ctx
       IN  /\ Allocated(c)
           /\ global' = IF queue[c].concurrent \/ ctx[c].closing THEN global
                        ELSE Append(global, c)
    /\ Return(w)
    /\ UNCHANGED <<slot, ctx, queue, creator, sender, closer, books, fate>>

\* if (ret == 0 && skynet_mq_concurrent(q) == 0) skynet_globalmq_push(ctx->queue)
Requeue(w) ==
    /\ At(w, "requeue")
    /\ LET c == worker[w].ctx
       IN  /\ Allocated(c)
           /\ global' = IF queue[c].concurrent THEN global ELSE Append(global, c)
    /\ Return(w)
    /\ UNCHANGED <<slot, ctx, queue, creator, sender, closer, books, fate>>

WorkerUnlinks(w) ==
    /\ At(w, "unlink")
    /\ CtxAlive(worker[w].ctx)
    /\ Unlink(worker[w].ctx)
    /\ Goto(w, "free")
    /\ UNCHANGED <<ctx, queue, global, creator, sender, closer, books, fate>>

WorkerFrees(w) ==
    /\ At(w, "free")
    /\ Allocated(worker[w].ctx)
    /\ FreeCtx(worker[w].ctx)
    /\ Return(w)
    /\ UNCHANGED <<slot, global, creator, sender, closer, books, fate>>

\* undefined: the queue or the context of the next step is freed
WorkerTrips(w) ==
    /\ \/ At(w, "idle") /\ global # <<>> /\ ~QueueAlive(Head(global))
       \/ At(w, "find") /\ ~QueueAlive(worker[w].q)
       \/ ~At(w, "idle") /\ ~At(w, "find") /\ ~CtxAlive(worker[w].ctx)
       \/ worker[w].pc \in {"drain", "one", "requeue", "free"} /\ ~QueueAlive(worker[w].ctx)
    /\ fate' = "stale"
    /\ UNCHANGED <<heap, creator, worker, sender, closer, books>>

-----------------------------------------------------------------------------
(* skynet_service_pushmsg from another thread *)

SenderFinds(t, h) ==
    /\ sender[t].pc = "idle"
    /\ slot[h] # Null
    /\ sender' = [sender EXCEPT ![t] = [pc |-> "found", ctx |-> slot[h]]]
    /\ UNCHANGED <<heap, creator, worker, closer, books, fate>>

\* if (ctx && ctx->closing == 0)
SenderTests(t) ==
    /\ sender[t].pc = "found"
    /\ LET c == sender[t].ctx
       IN  /\ CtxAlive(c)
           /\ sender' = [sender EXCEPT ![t] = IF ctx[c].closing THEN Over ELSE [@ EXCEPT !.pc = "push"]]
    /\ UNCHANGED <<heap, creator, worker, closer, books, fate>>

SenderPushes(t) ==
    /\ sender[t].pc = "push"
    /\ Allocated(sender[t].ctx)
    /\ Push(sender[t].ctx)
    /\ sender' = [sender EXCEPT ![t] = Over]
    /\ UNCHANGED <<slot, ctx, creator, worker, closer, fate>>

\* undefined: the context was released meanwhile, or has no queue yet
SenderTrips(t) ==
    /\ \/ sender[t].pc = "found" /\ ~CtxAlive(sender[t].ctx)
       \/ sender[t].pc = "push" /\ ~Allocated(sender[t].ctx)
    /\ fate' = "dangling"
    /\ UNCHANGED <<heap, creator, worker, sender, closer, books>>

-----------------------------------------------------------------------------
(* skynet_service_close from another service's callback *)

CloserFinds(k, h) ==
    /\ closer[k].pc = "idle"
    /\ slot[h] # Null
    /\ closer' = [closer EXCEPT ![k] = [pc |-> "found", ctx |-> slot[h]]]
    /\ UNCHANGED <<heap, creator, worker, sender, books, fate>>

CloserMarks(k) ==
    /\ closer[k].pc = "found"
    /\ LET c == closer[k].ctx
       IN  /\ CtxAlive(c)
           /\ ctx' = [ctx EXCEPT ![c].closing = TRUE]
           /\ IF ctx[c].closing THEN Lost("twice", c) ELSE UNCHANGED race
    /\ closer' = [closer EXCEPT ![k].pc = "test"]
    /\ UNCHANGED <<slot, queue, global, creator, worker, sender, owed, fate>>

\* if (!skynet_mq_inglobal(ctx->queue)): the field is read without the lock
CloserTests(k) ==
    /\ closer[k].pc = "test"
    /\ LET c == closer[k].ctx
       IN  /\ Allocated(c)
           /\ closer' = [closer EXCEPT ![k] =
                 IF queue[c].in_global THEN Over ELSE [@ EXCEPT !.pc = "push"]]
    /\ UNCHANGED <<heap, creator, worker, sender, books, fate>>

\* skynet_globalmq_push(ctx->queue): in_global stays as it is
CloserPushes(k) ==
    /\ closer[k].pc = "push"
    /\ LET c == closer[k].ctx
       IN  /\ Allocated(c)
           /\ global' = Append(global, c)
    /\ closer' = [closer EXCEPT ![k] = Over]
    /\ UNCHANGED <<slot, ctx, queue, creator, worker, sender, books, fate>>

\* undefined: the context was released meanwhile, or has no queue yet
CloserTrips(k) ==
    /\ \/ closer[k].pc = "found" /\ ~CtxAlive(closer[k].ctx)
       \/ closer[k].pc \in {"test", "push"} /\ ~Allocated(closer[k].ctx)
    /\ fate' = "dangling"
    /\ UNCHANGED <<heap, creator, worker, sender, closer, books>>

-----------------------------------------------------------------------------
CreatorEnds(c) ==
    \/ CreateQueue(c) \/ CreateSucceeds(c) \/ CreatorReports(c)
    \/ CreateFails(c) \/ CreatorUnlinks(c) \/ CreatorFrees(c) \/ CreatorTrips(c)

WorkerStep(w) ==
    \/ PopGlobal(w) \/ FindCtx(w) \/ CheckCtx(w) \/ CheckAborts(w)
    \/ PopMessage(w) \/ PopEmpty(w) \/ CallbackEnd(w) \/ Requeue(w)
    \/ WorkerUnlinks(w) \/ WorkerFrees(w) \/ WorkerTrips(w)

CloserStep(k) == CloserMarks(k) \/ CloserTests(k) \/ CloserPushes(k) \/ CloserTrips(k)

Next ==
    /\ fate = "ok"
    /\ \/ \E c \in Ctxs, h \in Handles : CreateBegin(c, h)
       \/ \E c \in Ctxs : CreateSends(c) \/ CreatorEnds(c)
       \/ \E w \in Workers : WorkerStep(w) \/ CallbackSends(w) \/ CallbackCloses(w)
       \/ \E t \in Senders, h \in Handles : SenderFinds(t, h)
       \/ \E t \in Senders : SenderTests(t) \/ SenderPushes(t) \/ SenderTrips(t)
       \/ \E k \in Closers, h \in Handles : CloserFinds(k, h)
       \/ \E k \in Closers : CloserStep(k)

Spec == Init /\ [][Next]_vars

\* The threads are scheduled, and callbacks and create functions return.
FairSpec ==
    /\ Spec
    /\ \A w \in Workers : WF_vars(fate = "ok" /\ WorkerStep(w))
    /\ \A c \in Ctxs : WF_vars(fate = "ok" /\ CreatorEnds(c))
    /\ \A k \in Closers : WF_vars(fate = "ok" /\ CloserStep(k))

-----------------------------------------------------------------------------
MaxLength == MaxMsgs + Cardinality(Senders)

TypeOK ==
    /\ slot \in [Handles -> Ctxs \union {Null}]
    /\ ctx \in [Ctxs -> [life : {"none", "alive", "freed"}, handle : Handles \union {Null},
                         closing : BOOLEAN]]
    /\ queue \in [Ctxs -> [life : {"none", "alive", "freed"}, length : 0 .. MaxLength,
                           in_global : BOOLEAN, concurrent : BOOLEAN, release : BOOLEAN]]
    /\ global \in Seq(Ctxs)
    /\ creator \in [Ctxs -> {"idle", "begun", "creating", "report", "done", "unlink", "free",
                             "failed"}]
    /\ worker \in [Workers ->
          [pc : {"idle", "find", "check", "drain", "drainCallback", "one", "callback",
                 "requeue", "unlink", "free"},
           q : Ctxs \union {Null}, ctx : Ctxs \union {Null}]]
    /\ sender \in [Senders -> [pc : {"idle", "found", "push", "done"},
                               ctx : Ctxs \union {Null}]]
    /\ closer \in [Closers -> [pc : {"idle", "found", "test", "push", "done"},
                               ctx : Ctxs \union {Null}]]
    /\ owed \in [Ctxs -> Nat]
    /\ race \in [Ctxs -> {"none", "late", "twice", "outrun", "missed"}]
    /\ fate \in {"ok", "stale", "dangling", "abort"}

\* skynet_server.c:18, assert(q == ctx->queue): the service a worker finds by a
\* queue's handle is the one the queue was made for.
QueueIsCtxs == fate # "abort"

\* The races after which the queue of a plain service may be in two places.
Raced(c) == race[c] \in {"late", "twice", "outrun"}
Disturbed == \E c \in Ctxs : Raced(c) \/ (c \in ConcurrentCtxs /\ ctx[c].closing)

\* Unless a concurrent service was closed or closing a service lost a race, no worker uses a
\* context or a queue that skynet_service_release freed, and the assertion of
\* skynet_server.c:18 does not fail, whoever else sends to the service or closes it.
NoUseAfterRelease == fate \in {"stale", "abort"} => Disturbed

\* No queue is in the global queue twice, and that of a plain service is in the
\* global queue or in one worker's hands, through its whole life, unless closing that very
\* service lost a race: two releases would free it twice.
InHands(c) == {w \in Workers : worker[w].q = c}
Once(c) == \A i, j \in DOMAIN global : global[i] = c /\ global[j] = c => i = j
PlacedOnce ==
    \A c \in Ctxs : ~Raced(c) =>
        /\ Once(c)
        /\ c \notin ConcurrentCtxs =>
              \A w \in InHands(c) : ~In(c, global) /\ InHands(c) = {w}

\* A plain service that was created and has been released had every message it
\* accepted handled first, unless closing it lost a race: closing drains the queue.
NothingDropped ==
    \A c \in Ctxs \ ConcurrentCtxs :
        creator[c] \in {"report", "done"} /\ ctx[c].life = "freed" /\ ~Raced(c) =>
            owed[c] = 0

\* A plain service that begins to close is released in the end, unless that close was missed.
CloseEnds ==
    \A c \in Ctxs \ ConcurrentCtxs : ctx[c].closing ~>
        ctx[c].life = "freed" \/ race[c] = "missed" \/ Disturbed \/ fate # "ok"
=============================================================================
