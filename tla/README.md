# skynet-octopus in TLA+

skynet-octopus is an actor runtime in C: services (shared libraries with a
`create`, a `callback` and a `release` function) exchange messages through
per-service queues, a pool of worker threads runs the callbacks, a timer thread
delivers timeouts and a socket thread turns socket events into messages. This
directory holds its formal models, what TLC checks of them and what TLAPS proves.

    tlc -workers 2 -config <run>.cfg <Module>     model-check a run
    tlapm <Module>Proofs.tla                      check a module's proofs

## 1. Inventory

| component | source | state | operations | talks to |
|---|---|---|---|---|
| message queue | `skynet_mq.c` | ring buffer (`queue`, `cap`, `head`, `tail`), `overload`, `overload_threshold`, `in_global`, `concurrent`, `release` | create, push, pop, overload, release | everything that sends; workers |
| global queue | `skynet_mq.c` | list of message queues linked through their own `next` | push, pop | workers, creators, closers, senders |
| dispatcher | `skynet_server.c` | a worker's locals `q`, `ctx`, `ret` | `skynet_message_dispatch`, `skynet_sendhandle`, `skynet_sendname` | queues, storage, service callbacks, harbor |
| service life cycle | `skynet_service.c` | a context: `handle`, `closing`, `queue`, `name` | create, close, release, pushmsg | queues, storage |
| service storage | `skynet_service.c` | slot table, `slot_index`, sorted name table | `_create`, find, findname, releaseall | rwlock; every sender |
| rwlock, spinlock, atomics | `skynet_rwlock.h`, `skynet_spinlock.h`, `skynet_atomic.h` | `write`, `read`; one flag | lock and unlock | storage; queues, timer, sockets |
| main loop | `skynet_main.c` | struct `monitor`: `sleep`, `quit`, mutex, condition | the three thread loops, wakeup, shutdown | dispatcher, timer, socket server |
| timer | `skynet_timer.c` | wheel `near[256]`, `t[4][64]`, `time`, clocks | register, update | pushmsg |
| socket server | `socket_server.c` | 2^16 slots: id, type, write lists, direct-write buffer, `sending`; a pipe of requests | requests from workers, poll loop of the socket thread | `skynet_socket.c`, kernel |
| socket forwarding | `skynet_socket.c` | none | `skynet_socket_poll` | pushmsg |
| gates | `service_gate.c`, `service_gatews.c`, `service_http.c`, `util/hashid.h`, `util/databuffer.h` | connection table keyed by socket id, input buffers | socket events, forward, kick | socket server, one service |
| harbor | `skynet_harbor.c`, `service_harbor.c` | own id, links to the other processes | send by name or handle, reconnect | socket server, timer |
| logger | `skynet_logger.c`, `service_logger.c` | `LOGGER`, file handle, size | print, rotate | pushmsg |
| others | config, malloc, simdb, snlua, python, mongo, http, websocket, platform | | | |

`PROJECT.json` lists the same components with their status and the reason for
what is left out.

### How they interact

A sender finds the receiver in the storage under the read lock, leaves the lock,
tests `closing`, and pushes to the receiver's queue under the queue's spin lock.
The push that finds `in_global` 0 also puts the queue in the global queue. A worker
takes a queue from the global queue, finds its service again by handle, pops one
message, runs the callback and puts the queue back; a queue it finds empty it
leaves out, with `in_global` 0. A `concurrent` service's queue never leaves the
global queue: it goes to the back of it as it is popped. A worker that finds
nothing sleeps on the monitor's condition; the timer thread wakes one sleeper every
millisecond, the socket thread one if all sleep.

A service that wants a socket reserves a slot itself and writes a request to a pipe
that only the socket thread reads. The socket thread alone opens, reads and closes
descriptors; it tells a service what happened by a message. Sending is shared: the
sender's own thread writes to the descriptor if nothing of that socket waits
anywhere, and otherwise queues the message through the pipe. What keeps the two
apart is a spin lock per slot and `sending`, a count of messages in the pipe tagged
with bits of the id. A gate is a service between sockets and one other service: it
keeps a table of its clients, cuts their bytes into packages and forwards these.

### What is hard, and what makes each part correct

* **rwlock**: readers and writers spin on two counters with no lock of their own. A
  writer must exclude everyone; a writer that won must get in although readers keep
  arriving; both builds of the atomics must agree.
* **message queue**: the buffer is replaced while it is wrapped; overload is read
  and cleared without the lock. Nothing may be lost, doubled or reordered.
* **dispatcher**: the queue's place is encoded in three parts (`in_global`, the
  list, a worker's hands) that different threads change at different moments. One
  callback at a time for a plain service, no message stranded, per-source order.
* **closing**: nothing counts references to a context; whoever found it may use it
  after the worker that drains it has freed it. Draining must handle what was
  accepted, and the slot is reused.
* **main loop**: `sleep` and `quit` are read without the mutex; wakeups may be lost;
  the shutdown runs in a signal handler.
* **timer**: five levels of wheel, 32-bit wrap, delivery outside the lock.
* **socket server**: workers write directly to a descriptor the socket thread may be
  writing or closing; a slot is reused with another id while requests and events for
  the old one are under way. A message's bytes stay together and in order; close is
  told once; what was accepted is written before the socket is closed.
* **gates, harbor**: events that arrive after their connection went; the table at its
  limit; packages in any pieces.

`PROJECT.json`, "hazards", has each hazard at its line with the properties that
cover it; sections 7 and 8 say what the models leave out and what was met on the way.

## 2. Modules

| module | models | composed with |
|---|---|---|
| `AbstractRWLock` | what a reader/writer lock promises | |
| `RWLock` | `skynet_rwlock.h` over `skynet_atomic.h`, one action per atomic access | implements `AbstractRWLock` |
| `Fifo` | what a message queue promises | |
| `MessageQueue` | one queue of `skynet_mq.c` | implements `Fifo` |
| `MessageQueueProofs` | its theorems | |
| `Actors` | what the scheduler promises the services | |
| `Lists` | lists without repetition | |
| `Dispatch` | creation, pushes, the global queue, the workers | implements `Actors`; takes `MessageQueue` as a sequence |
| `DispatchProofs` | its theorems | |
| `ServiceClose` | closing, draining, release, slot reuse, on top of the same scheduler | |
| `ServiceCloseProofs` | its theorems | |
| `Monitor` | the thread loops, wakeup and shutdown of `skynet_main.c` | |
| `LockProofs` | the theorems of `RWLock` and of `Monitor` | |
| `AlarmCalendar` | what the timer promises | |
| `Timer` | the wheel of `skynet_timer.c`, registration, the timer thread's updates | implements `AlarmCalendar` |
| `Registry` | what finding by handle and by name promises | |
| `ServiceStorage` | the slot table and the name table of `skynet_service.c` | implements `Registry`; takes `RWLock` as one action per section |
| `MCServiceStorage` | a small storage with interchangeable contexts, for TLC | |
| `ServiceStorageProofs` | its theorems | |
| `Connection` | what the socket server promises the services about each socket | |
| `SocketServer` | `socket_server.c` for TCP, with epoll and the peers | implements `Connection` |
| `MCSocketServer` | a few small socket servers in one state space, for TLC | |
| `SocketServerProofs` | its theorems, but one | |
| `StreamProofs` | that what is sent through a socket arrives whole and in order | extends `SocketServerProofs` |
| `HashId` | `util/hashid.h` as operators | |
| `Gate` | `service_gate.c` and `util/databuffer.h` | uses `HashId`; its environment is `Connection` |
| `MCGate` | a small gate with colliding clients, for TLC | |
| `TimerGateProofs` | the theorems of `Timer` and of `Gate`, which need the same lemmas about numbers, spans and recursive functions | |

**RWLock.** `write` and `read` are the struct's fields, `clear` is `rwlock_wlock`'s
local, `pc` says which atomic access comes next. A spin loop is an action that is
disabled until the loop ends. `ATOM_CAS` has two definitions, chosen by
`StdAtomics`: `__sync_bool_compare_and_swap` leaves the caller's expected value
alone; `atomic_compare_exchange_weak` overwrites it when it fails and may fail for
no reason. Memory is sequentially consistent in the model. Of the std build's
operations that is true by definition; in the `__sync` build the loads and stores
are volatile and only the read-modify-writes are barriers, so the model stands for
hardware on which a volatile access is not reordered with those.

**MessageQueue.** `skynet_mq_push` and `skynet_mq_pop` run under the queue's lock:
one action each, with `expand_queue` inside the push. `skynet_mq_overload` takes no
lock: its three accesses are three actions. Two variables are history: `warned` is the
last length logged since the queue was last empty, and `owed` the longest length a pop
has noticed since then that is still to be logged. A length noticed while another worker
is between its read of the field and its clear is not owed: that worker's clear may come
before anyone reads it, and then it is lost (section 7). `MayPop` is what `Dispatch`
shows: only a concurrent queue is popped by several workers.

**Dispatch.** `mq` is each queue as a sequence (justified by `MessageQueue`
implementing `Fifo`), `inGlobal` and `global` are the scheduling state, and each
worker is between two lock sections of `skynet_message_dispatch`: after the global
pop, in the callback, before the push back. Creation is two actions, with the
service reachable in between. A callback may send to any service, itself included.
No service closes here.

**ServiceClose.** The same dispatcher with messages counted instead of told apart,
and the closing branch added. Contexts and queues are heap objects with a life; `fate`
records the first use of a freed object or the failed assertion, and the behaviour
stops there, since what follows is undefined: "stale" if a worker used it, "dangling"
if a sender, a closer or a creator did. The guards name the objects the C code
dereferences in that step, and the `Trips` actions are the same steps without them.
`Released` is `skynet_mq_release` with its special case for concurrent queues.

No contract is assumed on who closes what and when. A sender and a closer look a service
up, and use the pointer in later steps, whatever has become of it; a sender may push
after `closing` was set, a second closer may come, a service may close itself while
another closes it, a concurrent service may be closed. Creation is in steps too: the
slot is published before `ctx->queue` is set ("begun"), and after the queue is published
the creator reads the handle from the context once more ("report"). The code does go
wrong in some of these orders, and `race` is the history that says in which:

* "late": a message is pushed after `closing` was set and `in_global` taken off, which
  queues the queue a second time (`skynet_service_close` did, or will);
* "twice": a second service closes it, and both may see `in_global` 0;
* "outrun": a worker drains and releases it before a closer has looked at the mark;
* "missed": the closer saw the mark, and the worker that finds the queue empty takes it
  off afterwards, so that nobody drains it; if a message comes later it is not lost yet,
  so one of the others may follow.

The safety properties say that a plain service is safe unless closing it lost one of
the first three, `NoUseAfterRelease` also that no concurrent service was closed, and
`CloseEnds` that a closing service is released unless its close was missed.

**Monitor.** `work` is the number of queues in the global queue. Each worker's `place`
follows `thread_worker`, with `pthread_cond_wait` split into "release and wait" and
"return with the mutex". Spurious wakeups are an action. `handler` is the signal
handler: while it runs on a thread, that thread's own steps are disabled.
`HandlerThreads` says where the system may deliver the signal. An event of the socket
thread is followed by a wakeup only if no more events of the same poll are to come:
`skynet_socket_poll` returns -1 otherwise, and `SocketPosts` goes on to either.

**Timer.** `time` and `wheel` are `T->time` and the lists of `T->near` and `T->t`;
`expire` is the field of each allocated node. `SPIN_LOCK(T)` makes actions of
`timer_add` and of the stretches of `timer_update` between two deliveries; `firing`
is the list `dispatch_list` walks with the lock given up, one message at a time, so
that registrations fall between any two of them. `timer_shift` runs with the lock
of the `timer_execute` that found nothing, hence `ExecuteAndShift`. Shifts and
masks are quotients and remainders, at any widths for which the four upper levels
cover the word exactly, as 8 + 4 * 6 = 32 does. What is promised counts in ticks:
the model has no wall clock. An alarm registered while the timer thread is behind
the clock goes off as many ticks after the thread's time, so earlier by the clock
than its delay says; the code does the same.

**ServiceStorage.** `slot`, `slot_index`, `name`, `name_cap` are the struct's
fields; the three writers are `_create`, `_handle_namehandle` and the locked part of
`skynet_service_release`, and the two lookups are operators over the state. The
binary search is a recursive function over the table's indices, shared by the three
copies the code has of it. `outcome` says what stopped the program: a failed
assertion, or, past `INDEX_MASK`, a table that doubles with slot 0 free and reads
the handle of a null context. Nothing bounds the number of services. The model ends with
"outgrown" where `_create` would double the table past what a handle tells apart (256
slots, `Outgrow`): from there on two services have one handle. What the code does not
enforce and the model assumes is a harbor id other than 0. A service is not released by
another thread before its creation registered its name; nobody knows the handle before
`skynet_service_create` returns, unless the service told it.

**SocketServer.** `slot` is `ss->slot` with the fields that decide something: type,
id, `closing`, `reading`, `writing`, the two lists, the direct-write buffer, and
`sending` with the tag that says for which id it counts. `pipe` is the request pipe;
`poll` is the socket thread: whether it reads requests or events, the rest of the
batch of events, and the slot whose `force_close` waits for `dw_lock`. `sender` is
each sender's place in `socket_server_send`: the look without the lock, the try for
the lock, the second look under it, the write, and then either nothing or
`inc_sending_ref` and the request. `net` is the other end of each descriptor: what
the kernel takes before it blocks, what came and was not read, an end or a reset. A
peer may do any of these at any moment. A message is a record and its bytes are
numbered, so that `wire`, what was written to each descriptor, tells whole messages
from torn ones. `seen` is what the services were told, and at the same time what
they know: they only ask for things about ids they were told.
One action is one step that no other thread can look into. What the socket thread
does under `dw_lock` is one action; `force_close` frees the lists before it waits
for that lock, hence two actions; and `can_direct_write` reads the lists and then
`sending`, hence two looks under the lock. A service may send as soon as it has the
id, as `service_harbor.c` does on a socket that still connects. `inc_sending_ref` does
not count such a message, as the slot is not known to be TCP before `new_fd`; but the
request to open comes first in the pipe, so `dec_sending_ref` does take it off: from what
other messages counted or, if that is 0, with a failed assertion (`SendAborts`). The history `early` is
the sockets that were sent to so early. Reuse of
a slot while an event of the current batch points to it, or while a late sender has
its lock, is left out: 2^16 ids would have to be given out meanwhile.

**HashId and Gate.** The table is a record and the hash chains are the code's own;
searches are functions over the distance walked. The gate is a plain service, which
`Dispatch` shows runs one callback at a time, so a message handled is one action.
Its environment does what `Connection` allows and nothing else: it was the socket
server's module that had to implement it. A package is its size in `HeadSize` bytes
and the bytes of its body, and a byte says which package it is of. `told` is what
the other service was sent.

## 3. Runs

| run | bounds | what it shows |
|---|---|---|
| `rwlock` | 3 threads | exclusion, exact counter, a winning writer gets in, refinement; `__sync` build |
| `rwlock_std_atomics` | 3 threads | the std build lets two writers in (violation) |
| `message_queue` | 2 messages, 2 workers, capacity 3 to 6, threshold 1 | refinement of `Fifo` through wraps and a doubling; an overload noticed is reported and none is left behind; one worker's warnings rise |
| `dispatch` | a plain and a concurrent service, 2 workers, 1 outside source, 2 messages each | one callback at a time, no stranded message, source order, every message handled, refinement of `Actors` |
| `service_close` | a plain and a concurrent context, 1 slot, 2 workers, 1 sender, 1 closer, 1 message of its own | whoever sends and closes, and unless closing lost a race: no use after free by a worker, one place per queue, drained first, released in the end |
| `service_close_concurrent` | 2 contexts, 1 slot, 1 worker | a closed concurrent service's queue meets the slot's next service (violation) |
| `monitor` | 2 workers, 3 posts, handler on the main thread | work is taken although wakeups are lost or left out; shutdown ends every worker |
| `monitor_signal` | 2 workers, handler anywhere | the handler locks a mutex its own thread holds (violation) |
| `timer` | 2 alarms, levels of 2 slots (a word of 32 ticks), delays up to 10, updates of up to 2 ticks | every alarm in its slot, none lost, fired at its tick and in order, through cascades of all levels and the wrap |
| `service_storage` | 5 contexts, 3 names, handles of 4 slots, first table of 2, `INDEX_MASK` 7 | slots, handles and names exact through growth, reuse, equal names, the wrap of `slot_index`; assertions hold; refinement of `Registry` |
| `socket_server` | one slot: 2 senders of a message each, 1 sender of 3, or 2 connections in turn with 2 requests or peer's acts; two slots: a listener and its client with 4; messages of 2 bytes, 2 bytes of room, 2 requests in the pipe | bytes of a message together and in order, on their own descriptor; `sending` exact; assertions hold through reuse, but that of a message sent before `new_fd`; SOCKET_CLOSE once and nothing after; what waits is written, and then a closed socket closes |
| `gate` | 3 entries, 4 clients with colliding hashes and places, packages of 0, 1 and -1 bytes, buffer of 6, 2 messages waiting, 1 error or kick | the table holds the sessions told and no others; a session begins and ends once; packages cut right and at once; a client to be closed is reported as gone |

Why the bounds are enough. Three threads are two writers and a reader, or two
readers and a writer: every pair of roles with a third thread to disturb it. A
capacity of 3 wraps with every head, doubles with the messages wrapped, and the
threshold of 1 doubles twice. Two workers are what a race over a queue needs, and
two messages per source what an order needs; the plain and the concurrent service
send to each other and to themselves. In `service_close` two contexts
that share one slot meet every late use of a handle and of a pointer, and a message the
service sent to itself keeps its queue going while another thread sends and one closes
it: 2.4 million states reach each of the four races and each end. In `monitor`, three posts
let one worker be in a callback, one asleep, and work arrive in between. In
`timer`, time passes every slot of every level and wraps, a delay may reach over
two boundaries of the second level, and two alarms meet in one list. In
`service_storage`, five contexts fill the first table, double it, fill the second and
outgrow it; three names are what a binary search needs to go both ways; some of the
five have the same name.

`socket_server` is several small servers in one state space, each just large enough
for one kind of case, since all of them in one would not be checked in reasonable
time. Two senders of one socket are what a race for `dw_lock` needs, and a direct
write against a queued message; one sender of three messages can have one half
written, one in the lists and one in the pipe, of either priority; two connections
one after the other in one slot meet every request, message and event of the first
that comes too late, with two closes, pauses, starts or acts of the peer placed
anywhere; the listener and its client need two slots and four such acts. Messages of
two bytes and room for two can be cut in one place, which is all the code looks at;
a pipe of two requests is full and empty. In `gate`, three of four clients hash to
one bucket, so that an entry is taken from a chain's head, middle or end, one more
client finds the table full, and the fourth's place is another's. The buffer holds
less than all the packages, so that pushes fail.

Deadlock is checked except where the system may stop: when every bounded source has
sent everything (`dispatch`, `service_close`), when `fate` ended the behaviour, and
after a shutdown (`monitor`).

`service_storage` also switches deadlock off: the null read and the outgrown table end the
behaviour. So do
`socket_server` and `gate`, where the budgets are spent in the end, or the assertion
has failed, and nothing is left to do.
Its contexts are declared symmetric, which is sound because it checks safety alone
and no definition tells contexts apart. Nothing else is symmetric: most runs
check liveness, for which TLC's symmetry reduction is unsound.

## 4. Fairness

* `RWLock`: weak fairness of each thread's steps once it called the lock. No critical
  section under this lock blocks, and a spinning thread keeps running.
* `Dispatch`, `ServiceClose`: weak fairness of each worker's step, of the return of
  a create function, and of a closer that has begun. The callbacks return; nothing
  is assumed of senders. That a worker does look again is `Monitor`'s subject.
* `Monitor`: weak fairness for the timer and socket threads, strong for a worker and
  for the handler, because both wait for the mutex, which is free again and again
  and which the system grants in the end. A callback need not return, an event need
  not come, a wakeup need not be spurious: `WorkIsTaken` holds with all workers but
  one stuck in their callbacks.
* `Timer`: weak fairness of the timer thread as a whole, whose next step is always
  enabled: between updates the clock goes on, and `Monitor` shows that the thread
  itself waits for nobody. Nothing is assumed of those who set alarms.
* `SocketServer`: weak fairness of the socket thread, of each sender inside a call,
  and of each peer's reading. The first two wait for nothing but the pipe and a lock
  whose holder does not block. A peer that never reads may keep data waiting for
  ever, and the code promises nothing then. The run takes it still weaker: *some*
  sender goes on, *some* peer reads. Progress is asked until the assertion fails, if it does.
* `Gate`: messages are handled as long as there are any, and a socket whose close was
  asked for is closed. `Dispatch` and `SocketServer` are where these come from.

## 5. What is proved

All theorems hold for every value of the constants under the named assumptions of
the modules. None depends on the bounds above.

* `LockProofs`, of `RWLock` (`StdAtomics = FALSE`, finitely many threads). The invariant
  `LockInv` adds to exclusion that `read` is exactly the number of counted readers
  and that at most one thread is behind the CAS with `write` = 1. Exclusion alone is
  not inductive: that a writer's `read = 0` means "no reader inside" needs the exact
  count, and that a reader entering later sees `write` = 1 needs the single winner.
  From it, `WriterExcludesAll`, and `LockImplementsAbstract`: each step is a step of
  `AbstractRWLock` or a stutter.
* `MessageQueueProofs`. `RingInRange` is the ring's part of the type invariant, and
  `TypeCorrect` the whole: what the loop that doubles the threshold returns is found
  from the least doubling over the length. `OverloadIsReported` needs that a raised
  `overload` always has a worker on its way to read it (`OverloadCleared`, itself a
  theorem), and that what is owed is in the field with nobody about to clear it, or read
  by a worker that is about to log it, or a longer length is (`OwedKept`); it holds for
  any number of workers. `WarningsOnlyRise`, that no length is logged again nor a shorter
  one, is of a queue that one worker dispatches, and rests on `WarnedBelow`: while one worker dispatches, what was reported is covered by the
  threshold, and what is noted or copied is above what was reported. `QueueImplementsFifo` maps the ring to the sequence from `head` to `tail`. The
  lemmas say what moving either index, overwriting the slot at `tail`, and copying
  into a doubled buffer do to that sequence.
* `DispatchProofs`. `DispatchInv`: a queue is in the global list at most once;
  `in_global` says where it is (with the exception of a service under creation);
  a plain queue is in one place; a queue with messages is marked. The last two need
  the exactness of the mark, which needs the single place: they are inductive only
  together. From it `OneCallbackAtATime`, `NoMessageStranded`, and
  `SchedulerImplementsActors`, where a callback is a job and the pop its beginning.
  `SourceOrderAlways` adds that what is done, in hand and queued of a service is one
  stream, in which each source's messages stand in the order it sent them; that only
  one worker has a message of a plain service in hand is what makes it one stream.
* `ServiceCloseProofs`, for any contexts, slots, closers and finitely many workers and
  senders, with no condition on what they do. The three safety theorems exempt only what
  `race` records, and the invariant is layered accordingly. `TypeInv` is `TypeCorrect`'s:
  a handle is read through a queue, so each context that is named anywhere must have been
  created, and no more messages are queued and in callbacks than are owed (`CountInv`).
  `Order(c)` is what no race can break, whatever else happened to the context: how its
  creation goes with its life and its queue's (`LifeOrder`), that a concurrent queue stays
  marked and is in the global queue at most once (`KindOrder`), that a context in creation
  is in nobody's hands (`NewOrder`), that nobody drains before `closing` is set
  (`CloseOrder`).

  `Safe(c)` holds of a plain context unless closing it lost a race. Its queue is in one
  place, and where it is not marked it is in no place or about to be drained with no
  closer behind (`PlaceSafe`); one closer at most is at work, and it pushes a queue only
  when that is in no place (`CloserSafe`); and what is owed is what is queued and in the
  callback (`OwedSafe`). The parts are inductive only together: that a pop may take
  the mark off needs that the queue is in one worker's hands, the closer's reading of the
  mark needs that it is exact, and the exactness needs to know who is behind. That a
  step at which this fails is one of the three races, and nothing else, is what
  `CloseNext` shows, action by action. `PlacedOnceAlways` and `NothingDroppedAlways`
  follow for each context by itself, whatever happens to the others.

  `NoUseAfterReleaseAlways` adds `SoundInv`: while no context lost a race and no concurrent
  one is closing, a slot holds the context that names it (`SlotsAgree`), and what a worker
  finds by its queue's handle is that queue's own context (`FoundOwn`).
* `ServiceStorageProofs`. `TablesInv` adds to the exact tables how their sizes go
  together: `name_cap` doubles to `slot_size`, which doubles to the number of handles;
  while a service is being created there are fewer names than slots; and, up to the
  doubling that outgrows the handles (`SizeAssumption` says that the table's sizes meet
  the number of handles), the probes
  of `_create` cover every slot but slot 0. With that a doubled table has a free
  slot, contexts that had different slots keep different slots, and no assertion
  fails (`StorageIsExact`, `StorageAsserts`), for any number of services. That the binary search finds a name if
  and only if it is in the sorted table is proved for every table from a least
  counterexample, the shortest interval on which the search would be wrong; with it
  each step is a step of `Registry` or a stutter (`StorageImplementsRegistry`).
* `LockProofs`, of `Monitor`. `MonitorInv`: `sleep` is the number of workers between `++` and
  `--`, which `wakeup` trusts without the mutex, and exactly one worker holds the
  mutex, or none, wherever the signal handler runs.
* `TimerGateProofs`, of `Timer`, for any sizes of the levels and any delays that `DelayAssumption`
  allows. `WheelInvAlways`: `WheelInv` is inductive as it stands. An alarm is put where
  `add_node` would put it at the time it is registered, and the invariant says that this
  is still so at every later time. That a tick keeps it so is a fact about the numbers
  (`Stays`): for an alarm ahead of the time, `add_node`'s answer changes at a tick only
  if the alarm is in the one slot `timer_shift` cascades then, whether the time wraps or
  not. "Ahead" has to be known, and it is from the second part, that no alarm waits more
  ticks than the largest delay: an alarm a whole turn away would share its windows with
  the present and look overdue (`Ahead`). The code's `int` delay is less than 2^31 and
  keeps clear of that; the proof needs no more than that the largest delay is a slot of
  the last level short of a turn. As a consequence the "timeout 0" branches of
  `timer_update` find nothing at all (`NearEmpty`).

  `WheelImplementsCalendar`: every step is a step of `AlarmCalendar` or a stutter. The
  calendar's list for `d` ticks from now is what is due then in the list `add_node` finds
  for that time. A list of an upper level holds alarms of many times, so the order within
  one time has to survive the cascade: `move_list` is a recursive function, and that it
  appends the nodes due at one time in their order to a list with none of that time, or
  leaves them all alone, goes by the nodes moved so far (`MovedDue`, `UnmovedDue`,
  `ShiftFacts`).
* `TimerGateProofs`, of `HashId` and `Gate`, for a table of any size, with clients that
  send packages of any sizes in any pieces, and fail, end or are kicked at any time.

  `GateInvAlways` and `SessionsAlways` rest on `GateIInv`. What the code promises of its
  table, that a search finds what was put in, is not inductive: whether a removal spoils
  another search depends on how the chains hang together. `TableOK` says so: what a link
  leads to is an entry in use with the link's own hash, no two links lead to one entry,
  no id is in the table twice, every entry in use is met on the walk from its bucket, and
  `count` is their number. A walk through a chain is a recursive function of the distance
  (`WalkGoes`, `OneWay`); that it meets each entry once and comes to its end within `Cap`
  steps is from the links not being shared (`SearchOrderly`). Removing the head and
  removing a later entry both leave every other walk as it was but for one step
  (`RemoveDrops`, `DropOK`). The other parts tie the table to the rest: what is in it is
  what the other service takes for connected (`TableServes`), and each socket is accepted
  once at most (`AcceptedOnce`), without which a second `connect` would follow and an id
  would enter the table twice. That a client is accepted once is what `Connection` says of
  its environment.

  `FramedAlways` rests on `StreamIInv`, which adds to it, of every client in the table
  that the gate has not asked to close, a place in the stream of its bytes up to which
  they have come into the buffer (`InOrder`): the packages forwarded are the first ones
  and in order, the buffer is the stream from the end of the last of them to that place
  and holds no whole package (`Parsed`), and the pieces in the mail go on from there,
  each where the one before ended, to what the client has sent (`Waiting`). The last part
  is what makes it inductive, as a piece is taken from the mail long after it was sent. A
  socket is not in the table before it is told, and no data of it is under way before the
  gate has asked to start it (`NotStarted`). The parser goes on at the end of a package, so the byte at the head of
  the buffer is the next package's and tells its size (`Ends`), and taking it away leaves
  the buffer at the end of that one (`ParsedMore`), until none is whole. With
  a size of 0 `databuffer_readpack` answers 0 for ever; the theorem says nothing whole
  waits unless such a package is at the head, as the code does.
* `SocketServerProofs`. `PromisedAlways`: the socket server implements `Connection`,
  for any number of slots, ids, senders and requests. `OpenFindsReservedAlways`: the
  assertions of `new_fd` and `force_close` hold. Both rest on `LifeInv`, which ties
  the slot's type to what the services know of its socket (a `HALFCLOSE_READ` slot's
  socket is known as closed, a `CONNECTED` one's as open, ...). That alone is not
  inductive. An `O` or `L` request overwrites whatever is in its slot, so it must
  find the slot reserved for its id: hence the part that a reserved slot has its
  opening request in the pipe, before any other request of that id. An event of the
  batch may be handled after its slot was closed and reserved again: hence the part
  that no event points to a reserved slot, nor one that reads to a paused one. And
  `force_close` tells its event only after it waited for `dw_lock`: hence the part
  that the event it holds is still one the service may be told.

  `SocketInvAlways` (finitely many senders): `SocketInv` holds, which needs `LifeInv`
  and a second invariant, `SendInv`, of what waits to be written. `CountOK`: `sending`
  of a slot in use is the number of its socket's messages in the pipe and of the senders
  about to put one there, unless a message was sent to it before `new_fd`. A slot is given
  to the next socket with the count 0, so no message of that socket may be counted yet;
  hence `RequestsTyped` and `SendersTyped`, that a message is under way only for a socket
  that has been opened, or is in `early`. `OnlyEarlyAborts` follows: where the count is
  exact the message taken from the pipe is counted, so the assertion of
  `dec_sending_ref` can fail of a socket in `early` only. `LockOK` says who holds `dw_lock` and
  that the slot of the sender who writes is still its socket's, which it is as the
  socket thread frees no slot without the lock. `SlotsTyped` says that of what waits
  only the head of the high list, or the rest in `dw_buffer`, is begun. `send_list_tcp`
  stops within a message, and where it does is a sum over the list: that there is a sum
  for each length, and that no more is written than there is room for, is proved from
  the least length for which it were not so (`SumsExist`, `SendListFacts`).
* `StreamProofs`. `StreamIntactAlways`: the bytes of a message follow one another on
  the descriptor, whatever is written there by senders on their own threads and by the
  socket thread from the lists, and a sender's messages are written in the order sent,
  but for one of low priority that a message of high priority overtakes, and for sockets in
  `early`. It holds for
  messages of any size and for any room the kernel leaves. Beyond `LifeInv` and
  `SendInv` it takes two invariants, one for each half. `WholeInv`: of each slot whose
  socket is not on its way to be closed, the wire ends with a whole message, or
  `dw_buffer`, or else the head of the high list, has the rest of the message at its
  end (`LiveWhole`); and a sender that found the lists empty under `dw_lock` still
  begins a message when it comes to write (`WritersBegin`). For the step of
  `send_socket` this needs what `send_list_tcp` writes and leaves, byte by byte
  (`SendListParts`). `OrderInv`: a message is numbered by the sends its sender has left,
  so that a later one has a lower number. What is written or waits was sent before
  what is in the pipe (`PipeInOrder`), the lists of a slot go on from its wire in this
  order (`SlotsInOrder`), and, what makes the direct write safe, a sender that tries to
  write itself has nothing else on its way to that socket (`NothingOnTheWay`): this is
  where `sending` being counted before the request is in the pipe, and the slot being
  looked at again under the lock, are used.

## 6. What is only model-checked

Liveness (`WriterGetsIn`, `EventuallyHandled`, `CloseEnds`, `WorkIsTaken`,
`ShutdownCompletes`, `EventuallyFires`, `Flushes`, `ClosesWhenFlushed`, `Disconnects`)
is out of the prover's reach.

The provers cannot use an induction theorem of the library, as its parameter is an
operator. Where a proof needs induction over data, it takes the least of the numbers for
which the claim were false (`LeastElement`), which has to be set up by hand for each
recursive function. That is done for the overload threshold, for the binary search, for
what `send_list_tcp` writes, for the lists of the timer, for the chains of `hashid.h` and
for the packages a buffer is cut into. Every safety property that a passing run checks is
a theorem.

## 7. Problems met on the way

The three runs that expect a violation are reported in `PROJECT.json`, "findings".
What follows is what reading the code for the models showed besides. No line of the
repository claims otherwise, so there is no finding for it; the models do what the
code does, or state the contract that keeps them clear of it.

Scheduler and storage:

* A service that others still send to, or close, cannot be closed safely: nothing
  counts references (`fate` and `race` of `ServiceClose`). A plain service whose closer
  reads `in_global` just before a worker takes it off is not released at all.
* The creator of a service reads its handle after it has published the queue
  (`skynet_service.c:250`), when a worker may have run a message that closes it.
* Two workers of a concurrent queue can lose a warning: one reads `overload`, another's
  pop sets it higher, the first clears it. They can also log one length twice.
* With more than 256 services two have the same handle (`skynet_harbor.c:32`); the next
  doubling of the table fails the assertion at `skynet_service.c:113`.
* With harbor 0 the service in slot 0 has handle 0, which `skynet_service_create`'s
  callers read as failure (`skynet_service.c:97`).
* The main thread joins the workers only and frees the monitor while the timer and
  socket threads may still read it (`skynet_main.c:124`).
* `LOGGER` is read twice without a lock (`skynet_logger.c:72`), and when a new log
  file cannot be opened the next rotation calls `fclose(NULL)` (`service_logger.c:96`).

Socket server:

* A close requested while another service's message is behind it in the pipe finds
  `sending` raised, sets `closing` and waits; the message is then dropped because of
  `closing`, and the socket is never closed. `ClosesWhenFlushed` asks for data that
  already is in the slot.
* A message sent on an id before it is connected is not counted in `sending`, as the
  protocol is not set yet, and is taken from a count of zero when it is read from the
  pipe, after `new_fd` (`socket_server.c:1341` asserts that something is counted). The harbor
  does send that early (`service_harbor.c:94`, 153 and 174). `SendAborts` is that step,
  and `SocketInv` says that nothing else leads to it.
* `W`, the request of a sender whose write was cut short, turns the write event on
  again after a failed write turned it off for good: with the socket half closed and
  nothing to write, the loop spins until the socket is closed.
* When `force_close` has nothing to tell, the events of the batch that point to the
  slot are not cleared (`socket_server.c:1626`), and only the slot's type stops them.
* `can_direct_write` reads the lists before `sending`, so a message of *another*
  sender may be overtaken. `InOrder` speaks of one sender's messages.
* `force_close` frees the lists before it waits for the lock; a sender that has the
  lock may write to a socket on its way to be closed. `Whole` exempts it.
* Requests are handled before events as long as there are any.

Gates and harbor:

* `hashid_lookup(...) <= 0` takes entry 0 for no entry: a gate closes the client it
  put there, and a gate for one client serves nobody. The http and websocket gates
  have the same line.
* A gate does not close the socket when it is told SOCKET_CLOSE; after the client's
  end the server keeps the slot half closed until somebody does. It treats SOCKET_ERR
  as the end of the connection, and does not close the socket either.
* After a push that failed, the gate goes on with a gap in the bytes until the close
  comes; an empty package looks like none and blocks what follows it.
* `gate_create` returns 1 before `ctx->hook` is set, and the release function reads
  through it; the websocket and http gates are alike.
* `harbor_create` leaves `remote_service_count`, `hcs` and the buffers unset;
  a connect that fails at once is never tried again; the buffer is parsed after a
  push that failed (`service_harbor.c:229`).

## 8. What is not modelled and why

* **Harbor service and addressing.** Its state is partly used before it is set, so
  a faithful model would be mostly of undefined values.
* **Websocket and http gates.** Their table and events are the gate's; what they add
  parses a protocol in one connection, without a second actor.
* **Of the socket server**: UDP, `bind` of foreign descriptors, socket options, the
  warnings, user objects, failures of `epoll_ctl`, the wrap of ids, a count of 0xffff
  messages. TCP is what the services of this repository use.
* **Of the services' life**: `skynet_service_releaseall`, which runs alone at exit, and
  closing by name, which is a lookup followed by the close that is modelled.
* Third-party code, the http parser, base64 and sha1, the interpreters' bindings,
  the databases and the configuration parser hold no state of the system's own or
  run alone at start-up.
* kqueue and the Windows shims are system calls; epoll's part is in `SocketServer`.
* Allocation failure, file system failure, weak memory and integer overflow of message
  counts are outside the models. The spin lock is one test-and-set; every module takes
  what it protects as one action.
