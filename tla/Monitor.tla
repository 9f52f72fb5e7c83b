------------------------------- MODULE Monitor -------------------------------
(***************************************************************************)
(* skynet_main.c: the worker, timer and socket threads around struct        *)
(* monitor, and skynet_shutdown, which a signal handler runs.               *)
(*                                                                          *)
(* What is in the queues is abstracted to work, the number of queues in the *)
(* global queue; Dispatch gives the rest.  sleep and quit are plain ints:   *)
(* wakeup and the loops read them without the mutex, so each read is a step *)
(* of its own.  pthread_cond_wait gives up the mutex and starts to wait in  *)
(* one step and takes the mutex again before it returns.                    *)
(*                                                                          *)
(* The timer thread's usleep and the socket thread's wait for events are    *)
(* stuttering.  skynet_start is left where its last join returns.           *)
(***************************************************************************)
EXTENDS Integers, FiniteSets

CONSTANTS
    Workers,
    Others,         \* the other threads that a signal may interrupt
    HandlerThreads, \* where a signal handler may run, of Workers \union Others
    MaxPosts,       \* bound: queues pushed to the global queue
    Nobody

ASSUME ThreadAssumption ==
    /\ IsFiniteSet(Workers) /\ Workers # {}
    /\ HandlerThreads \subseteq Workers \union Others
    /\ Workers \intersect Others = {}
    /\ Nobody \notin Workers \union Others
ASSUME PostsAssumption == MaxPosts \in Nat

VARIABLES
    work,       \* queues in the global queue
    posts,      \* queues pushed to it so far
    sleep,      \* m->sleep
    quit,       \* m->quit
    mutex,      \* the thread that holds m->mutex
    waiting,    \* workers blocked on m->cond
    place,      \* each worker's place in thread_worker
    timer,      \* thread_timer's place
    socket,     \* thread_socket's place
    handler     \* the thread skynet_shutdown runs on and its place

monitorVars == <<work, posts, sleep, quit, mutex, waiting, place, timer, socket, handler>>

count == Cardinality(Workers)

MonitorInit ==
    /\ work = 0 /\ posts = 0
    /\ sleep = 0 /\ quit = FALSE
    /\ mutex = Nobody /\ waiting = {}
    /\ place = [w \in Workers |-> "loop"]
    /\ timer = "loop" /\ socket = "loop"
    /\ handler = [on |-> Nobody, pc |-> "none"]

\* a thread whose signal handler is running does not go on below it
Interrupted(t) == handler.on = t /\ handler.pc # "done"

At(w, label) == place[w] = label /\ ~Interrupted(w)
Go(w, label) == place' = [place EXCEPT ![w] = label]

\* skynet_globalmq_push by anyone
Post ==
    /\ posts < MaxPosts
    /\ posts' = posts + 1
    /\ work' = work + 1

-----------------------------------------------------------------------------
(* thread_worker *)

\* while (!m->quit)
WorkerTestsQuit(w) ==
    /\ At(w, "loop")
    /\ Go(w, IF quit THEN "exited" ELSE "dispatch")
    /\ UNCHANGED <<work, posts, sleep, quit, mutex, waiting, timer, socket, handler>>

\* skynet_message_dispatch takes a queue
TakeWork(w) ==
    /\ At(w, "dispatch")
    /\ work > 0
    /\ work' = work - 1
    /\ Go(w, "callback")
    /\ UNCHANGED <<posts, sleep, quit, mutex, waiting, timer, socket, handler>>

\* skynet_message_dispatch returns 1
NoWork(w) ==
    /\ At(w, "dispatch")
    /\ work = 0
    /\ Go(w, "lock")
    /\ UNCHANGED <<work, posts, sleep, quit, mutex, waiting, timer, socket, handler>>

\* the callback pushes a queue, or skynet_message_dispatch its own again
CallbackPosts(w) ==
    /\ At(w, "callback")
    /\ Post
    /\ UNCHANGED <<sleep, quit, mutex, waiting, place, timer, socket, handler>>

CallbackEnd(w) ==
    /\ At(w, "callback")
    /\ Go(w, "loop")
    /\ UNCHANGED <<work, posts, sleep, quit, mutex, waiting, timer, socket, handler>>

\* pthread_mutex_lock(&m->mutex); ++ m->sleep
Lock(w) ==
    /\ At(w, "lock")
    /\ mutex = Nobody
    /\ mutex' = w
    /\ sleep' = sleep + 1
    /\ Go(w, "locked")
    /\ UNCHANGED <<work, posts, quit, waiting, timer, socket, handler>>

\* if (!m->quit)
LockedTestsQuit(w) ==
    /\ At(w, "locked")
    /\ Go(w, IF quit THEN "leave" ELSE "wait")
    /\ UNCHANGED <<work, posts, sleep, quit, mutex, waiting, timer, socket, handler>>

\* pthread_cond_wait: up to the moment it blocks
StartWaiting(w) ==
    /\ At(w, "wait")
    /\ mutex' = Nobody
    /\ waiting' = waiting \union {w}
    /\ Go(w, "waiting")
    /\ UNCHANGED <<work, posts, sleep, quit, timer, socket, handler>>

\* pthread_cond_wait returns by itself: "spurious wakeup" is harmless
SpuriousWakeup(w) ==
    /\ w \in waiting
    /\ waiting' = waiting \ {w}
    /\ UNCHANGED <<work, posts, sleep, quit, mutex, place, timer, socket, handler>>

\* pthread_cond_wait: once it no longer blocks
StopWaiting(w) ==
    /\ At(w, "waiting")
    /\ w \notin waiting
    /\ mutex = Nobody
    /\ mutex' = w
    /\ Go(w, "leave")
    /\ UNCHANGED <<work, posts, sleep, quit, waiting, timer, socket, handler>>

\* mutant: only a worker that waited is counted out
LeaveUncounted(w) ==
    /\ At(w, "leave")
    /\ sleep' = IF quit THEN sleep ELSE sleep - 1
    /\ mutex' = Nobody
    /\ Go(w, "loop")
    /\ UNCHANGED <<work, posts, quit, waiting, timer, socket, handler>>

\* -- m->sleep; pthread_mutex_unlock(&m->mutex)
Leave(w) ==
    /\ At(w, "leave")
    /\ sleep' = sleep - 1
    /\ mutex' = Nobody
    /\ Go(w, "loop")
    /\ UNCHANGED <<work, posts, quit, waiting, timer, socket, handler>>

-----------------------------------------------------------------------------
(* wakeup, thread_timer and thread_socket *)

\* if (m->sleep >= m->count - busy)
NeedsWakeup(busy) == sleep >= count - busy

\* pthread_cond_signal, which unblocks one thread if there is one
Signal == waiting' \in IF waiting = {} THEN {{}} ELSE {waiting \ {w} : w \in waiting}

TimerTestsQuit ==
    /\ timer = "loop"
    /\ timer' = IF quit THEN "exited" ELSE "update"
    /\ UNCHANGED <<work, posts, sleep, quit, mutex, waiting, place, socket, handler>>

\* skynet_updatetime, which may deliver timeouts
TimerPosts ==
    /\ timer = "update"
    /\ Post
    /\ UNCHANGED <<sleep, quit, mutex, waiting, place, timer, socket, handler>>

\* mutant: the timer thread asks, as the socket thread does, for everyone asleep
TimerReadsForAll ==
    /\ timer = "update"
    /\ timer' = IF NeedsWakeup(0) THEN "signal" ELSE "loop"
    /\ UNCHANGED <<work, posts, sleep, quit, mutex, waiting, place, socket, handler>>

\* wakeup(m, m->count - 1) reads m->sleep
TimerReadsSleep ==
    /\ timer = "update"
    /\ timer' = IF NeedsWakeup(count - 1) THEN "signal" ELSE "loop"
    /\ UNCHANGED <<work, posts, sleep, quit, mutex, waiting, place, socket, handler>>

TimerSignals ==
    /\ timer = "signal"
    /\ Signal
    /\ timer' = "loop"
    /\ UNCHANGED <<work, posts, sleep, quit, mutex, place, socket, handler>>

SocketTestsQuit ==
    /\ socket = "loop"
    /\ socket' = IF quit THEN "exited" ELSE "poll"
    /\ UNCHANGED <<work, posts, sleep, quit, mutex, waiting, place, timer, handler>>

\* skynet_socket_poll forwarded an event to its service, whose queue it pushed if it was not
\* in the global queue.  While more events of the same poll are to come, and for a type it
\* does not know, it returns -1: the loop goes on without a wakeup.
SocketPosts ==
    /\ socket = "poll"
    /\ Post \/ UNCHANGED <<work, posts>>
    /\ socket' \in {"wakeup", "loop"}
    /\ UNCHANGED <<sleep, quit, mutex, waiting, place, timer, handler>>

\* skynet_socket_poll returns 0: skynet_socket_exit was called
SocketExits ==
    /\ socket = "poll"
    /\ handler.pc \notin {"none", "exit"}
    /\ socket' = "exited"
    /\ UNCHANGED <<work, posts, sleep, quit, mutex, waiting, place, timer, handler>>

\* wakeup(m, 0) reads m->sleep
SocketReadsSleep ==
    /\ socket = "wakeup"
    /\ socket' = IF NeedsWakeup(0) THEN "signal" ELSE "loop"
    /\ UNCHANGED <<work, posts, sleep, quit, mutex, waiting, place, timer, handler>>

SocketSignals ==
    /\ socket = "signal"
    /\ Signal
    /\ socket' = "loop"
    /\ UNCHANGED <<work, posts, sleep, quit, mutex, place, timer, handler>>

-----------------------------------------------------------------------------
(* skynet_shutdown, run by a signal handler on thread t *)

\* m->quit = 1
ShutdownBegins(t) ==
    /\ handler.pc = "none"
    /\ t \in Workers => place[t] # "exited"
    /\ quit' = TRUE
    /\ handler' = [on |-> t, pc |-> "exit"]
    /\ UNCHANGED <<work, posts, sleep, mutex, waiting, place, timer, socket>>

\* skynet_socket_exit
ShutdownExitsSocket ==
    /\ handler.pc = "exit"
    /\ handler' = [handler EXCEPT !.pc = "lock"]
    /\ UNCHANGED <<work, posts, sleep, quit, mutex, waiting, place, timer, socket>>

\* mutant: the broadcast is made without the mutex
BroadcastUnlocked ==
    /\ handler.pc = "lock"
    /\ waiting' = {}
    /\ handler' = [handler EXCEPT !.pc = "done"]
    /\ UNCHANGED <<work, posts, sleep, quit, mutex, place, timer, socket>>

\* pthread_mutex_lock, pthread_cond_broadcast, pthread_mutex_unlock: nobody
\* else can use the mutex between the three
Broadcast ==
    /\ handler.pc = "lock"
    /\ mutex = Nobody
    /\ waiting' = {}
    /\ handler' = [handler EXCEPT !.pc = "done"]
    /\ UNCHANGED <<work, posts, sleep, quit, mutex, place, timer, socket>>

-----------------------------------------------------------------------------
\* a worker's own steps but a callback's
WorkerStep(w) ==
    \/ WorkerTestsQuit(w) \/ TakeWork(w) \/ NoWork(w)
    \/ Lock(w) \/ LockedTestsQuit(w) \/ StartWaiting(w) \/ StopWaiting(w) \/ Leave(w)

TimerStep == TimerTestsQuit \/ TimerReadsSleep \/ TimerSignals

SocketStep == SocketTestsQuit \/ SocketExits \/ SocketReadsSleep \/ SocketSignals

HandlerStep == ShutdownExitsSocket \/ Broadcast

MonitorNext ==
    \/ \E w \in Workers :
          WorkerStep(w) \/ CallbackPosts(w) \/ CallbackEnd(w) \/ SpuriousWakeup(w)
    \/ TimerStep \/ TimerPosts
    \/ SocketStep \/ SocketPosts
    \/ \E t \in HandlerThreads : ShutdownBegins(t)
    \/ HandlerStep

MonitorSpec == MonitorInit /\ [][MonitorNext]_monitorVars

\* Threads are scheduled and the mutex is granted in the end.  No callback needs
\* to return, no event to come, no wakeup to be spurious.
FairMonitorSpec ==
    /\ MonitorSpec
    /\ \A w \in Workers : SF_monitorVars(WorkerStep(w))
    /\ WF_monitorVars(TimerStep)
    /\ WF_monitorVars(SocketStep)
    /\ SF_monitorVars(HandlerStep)

-----------------------------------------------------------------------------
Holding == {"locked", "wait", "leave"}
Sleeping == Holding \union {"waiting"}
Places == {"loop", "dispatch", "callback", "lock", "exited"} \union Sleeping

\* the workers between ++ m->sleep and -- m->sleep
Asleep == {w \in Workers : place[w] \in Sleeping}

MonitorTypeOK ==
    /\ posts \in 0 .. MaxPosts /\ work \in 0 .. posts
    /\ quit \in BOOLEAN
    /\ mutex \in Workers \union {Nobody}
    /\ waiting \subseteq {w \in Workers : place[w] = "waiting"}
    /\ place \in [Workers -> Places]
    /\ timer \in {"loop", "update", "signal", "exited"}
    /\ socket \in {"loop", "poll", "wakeup", "signal", "exited"}
    /\ handler \in [on : Workers \union Others \union {Nobody},
                    pc : {"none", "exit", "lock", "done"}]

\* sleep counts the workers between ++ and --, which wakeup trusts without the
\* mutex: were it too small a sleeper would be overlooked for ever.
SleepExact == sleep = Cardinality(Asleep)

\* One worker at a time is between pthread_mutex_lock, or a return from
\* pthread_cond_wait, and the next pthread_cond_wait or pthread_mutex_unlock.
MutexExact ==
    \A w \in Workers : mutex = w <=> place[w] \in Holding

\* The inductive invariant: the count and the mutex agree with the workers' places.
MonitorInv == MonitorTypeOK /\ SleepExact /\ MutexExact

\* Work in the global queue is taken, even when the wakeup that came with it was
\* lost because no worker was waiting yet, or never made because the socket thread
\* had more events to forward, and even if all workers but one are in callbacks
\* that never return.
WorkIsTaken ==
    (work > 0) ~> \/ work = 0 \/ quit
                  \/ \A w \in Workers : place[w] = "callback"

\* skynet_main.c:133, "wakeup all worker thread": after a shutdown every worker
\* leaves its loop, but for those whose callback does not return.
ShutdownCompletes == quit ~> \A w \in Workers : place[w] \in {"exited", "callback"}
=============================================================================
