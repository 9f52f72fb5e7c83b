----------------------------- MODULE LockProofs -----------------------------
(***************************************************************************)
(* What the threads exclude one another with: the reader/writer spin lock,  *)
(* and the mutex and the count of sleepers of struct monitor.               *)
(*                                                                          *)
(* In the __sync build the lock is a reader/writer lock for any number of   *)
(* threads.  LockInv is inductive; from it follow mutual exclusion and that *)
(* every step of the lock is a step of AbstractRWLock or a stutter.         *)
(*                                                                          *)
(* For any number of workers, m->sleep is the number of workers inside the  *)
(* mutex or waiting, and one worker holds the mutex at a time, wherever the *)
(* signal handler runs.  What the wakeups achieve is liveness and is left   *)
(* to TLC.                                                                  *)
(***************************************************************************)
EXTENDS RWLock, Monitor, FiniteSetTheorems, TLAPS

-----------------------------------------------------------------------------
(* The reader/writer lock *)

\* The set of counted threads is finite, and its size is positive when a thread
\* is in it.
LEMMA CountedFinite ==
    /\ IsFiniteSet(Counted)
    /\ Cardinality(Counted) \in Nat
    /\ (Cardinality(Counted) = 0) <=> (Counted = {})
<1>1. Counted \subseteq Threads  BY DEF Counted
<1>2. IsFiniteSet(Counted)  BY <1>1, ThreadsAssumption, FS_Subset
<1> QED  BY <1>2, FS_CardinalityType, FS_EmptySet

\* A thread that enters the counted part adds one to the count.
LEMMA CountIn ==
    ASSUME NEW t \in Threads, NEW label \in ReaderCounted,
           pc \in [Threads -> Labels], pc[t] \notin ReaderCounted, Goto(t, label)
    PROVE  Cardinality(Counted') = Cardinality(Counted) + 1
<1>1. Counted' = Counted \union {t}  BY DEF Counted, Goto
<1>2. t \notin Counted  BY DEF Counted
<1> QED  BY <1>1, <1>2, CountedFinite, FS_AddElement

\* A thread that leaves it takes one off.
LEMMA CountOut ==
    ASSUME NEW t \in Threads, NEW label \in Labels \ ReaderCounted,
           pc \in [Threads -> Labels], pc[t] \in ReaderCounted, Goto(t, label)
    PROVE  /\ Cardinality(Counted') = Cardinality(Counted) - 1
           /\ Cardinality(Counted) > 0
<1>1. Counted' = Counted \ {t}  BY DEF Counted, Goto
<1>2. t \in Counted  BY DEF Counted
<1>3. Cardinality(Counted') = Cardinality(Counted) - 1
  BY <1>1, <1>2, CountedFinite, FS_RemoveElement
<1> QED  BY <1>2, <1>3, CountedFinite

\* A move that stays on one side leaves the counted set as it is.
LEMMA CountSame ==
    ASSUME NEW t \in Threads, NEW label \in Labels,
           pc \in [Threads -> Labels], Goto(t, label),
           pc[t] \in ReaderCounted <=> label \in ReaderCounted
    PROVE  Counted' = Counted
BY DEF Counted, Goto

-----------------------------------------------------------------------------
\* The lock starts free, with nobody counted.
LEMMA LockInvInit == Init => LockInv
<1> SUFFICES ASSUME Init PROVE LockInv  OBVIOUS
<1>1. Counted = {}  BY DEF Init, Counted, ReaderCounted
<1>2. ReadCountExact  BY <1>1, FS_EmptySet DEF Init, ReadCountExact
<1>3. TypeOK  BY DEF Init, TypeOK, Labels
<1> QED  BY <1>2, <1>3 DEF Init, LockInv, OneWinner, Winner

\* Every step of the __sync build preserves the invariant.
LEMMA LockInvNext ==
    ASSUME StdAtomics = FALSE, LockInv, [Next]_vars
    PROVE  LockInv'
<1> USE DEF Labels, ReaderCounted, Winner
<1>u. CASE UNCHANGED vars
  BY <1>u DEF vars, LockInv, TypeOK, ReadCountExact, Counted, OneWinner
<1>n. CASE Next
  <2> SUFFICES ASSUME NEW t \in Threads,
                      CallRLock(t) \/ CallWLock(t) \/ Step(t)
               PROVE  LockInv'
    BY <1>n DEF Next
  <2>1. CASE CallRLock(t) \/ AwaitNoWriter(t)
    <3>1. Counted' = Counted
      BY <2>1, CountSame DEF CallRLock, AwaitNoWriter, LockInv, TypeOK
    <3> QED
      BY <2>1, <3>1 DEF CallRLock, AwaitNoWriter, Goto, LockInv, TypeOK,
                        ReadCountExact, OneWinner
  <2>2. CASE CallWLock(t)
    <3>1. Counted' = Counted
      BY <2>2, CountSame DEF CallWLock, LockInv, TypeOK
    <3> QED
      BY <2>2, <3>1 DEF CallWLock, Goto, LockInv, TypeOK, ReadCountExact, OneWinner
  <2>3. CASE CountReader(t)
    <3>1. Cardinality(Counted') = Cardinality(Counted) + 1
      BY <2>3, CountIn DEF CountReader, LockInv, TypeOK
    <3>2. ReadCountExact'
      BY <2>3, <3>1 DEF CountReader, LockInv, ReadCountExact
    <3> QED
      BY <2>3, <3>2 DEF CountReader, Goto, LockInv, TypeOK, OneWinner
  <2>4. CASE RecheckWriter(t)
    <3>1. Counted' = Counted
      BY <2>4, CountSame DEF RecheckWriter, LockInv, TypeOK
    <3> QED
      BY <2>4, <3>1 DEF RecheckWriter, Goto, LockInv, TypeOK, ReadCountExact, OneWinner
  <2>5. CASE BackOff(t) \/ RUnlock(t)
    <3>1. /\ Cardinality(Counted') = Cardinality(Counted) - 1
          /\ Cardinality(Counted) > 0
      BY <2>5, CountOut DEF BackOff, RUnlock, LockInv, TypeOK
    <3>2. ReadCountExact' /\ read' \in Nat
      BY <2>5, <3>1 DEF BackOff, RUnlock, LockInv, TypeOK, ReadCountExact
    <3> QED
      BY <2>5, <3>2 DEF BackOff, RUnlock, Goto, LockInv, TypeOK, OneWinner
  <2>6. CASE CasTakes(t)
    <3>1. Counted' = Counted
      BY <2>6, CountSame DEF CasTakes, LockInv, TypeOK
    <3> QED
      BY <2>6, <3>1 DEF CasTakes, Goto, LockInv, TypeOK, ReadCountExact, OneWinner
  <2>7. CASE CasFails(t)
    BY <2>7 DEF CasFails, LockInv, TypeOK, ReadCountExact, Counted, OneWinner
  <2>8. CASE AwaitReaders(t)
    <3>1. Counted' = Counted
      BY <2>8, CountSame DEF AwaitReaders, LockInv, TypeOK
    <3>2. Counted = {}
      BY <2>8, CountedFinite DEF AwaitReaders, LockInv, ReadCountExact
    <3>3. \A u \in Threads : pc[u] # "reading"
      BY <3>2 DEF Counted
    <3> QED
      BY <2>8, <3>1, <3>3 DEF AwaitReaders, Goto, LockInv, TypeOK, ReadCountExact, OneWinner
  <2>9. CASE WUnlock(t)
    <3>1. Counted' = Counted
      BY <2>9, CountSame DEF WUnlock, LockInv, TypeOK
    <3> QED
      BY <2>9, <3>1 DEF WUnlock, Goto, LockInv, TypeOK, ReadCountExact, OneWinner
  <2> QED
    BY <2>1, <2>2, <2>3, <2>4, <2>5, <2>6, <2>7, <2>8, <2>9 DEF Step
<1> QED  BY <1>u, <1>n

-----------------------------------------------------------------------------
\* LockInv holds in every state of the __sync build: the read counter counts the
\* readers inside rwlock_rlock, and one writer at a time is behind the CAS.
THEOREM LockInvAlways ==
    ASSUME StdAtomics = FALSE
    PROVE  Spec => []LockInv
<1>1. LockInv /\ [Next]_vars => LockInv'  BY LockInvNext
<1> QED  BY LockInvInit, <1>1, PTL DEF Spec

\* rwlock_wlock of the __sync build excludes every other writer and reader.
THEOREM WriterExcludesAll ==
    ASSUME StdAtomics = FALSE
    PROVE  Spec => []MutualExclusion
<1>1. LockInv => MutualExclusion
  BY DEF LockInv, MutualExclusion, Writing, Reading, OneWinner, Winner
<1> QED  BY LockInvAlways, <1>1, PTL

\* The lock of the __sync build implements the abstract reader/writer lock.
THEOREM LockImplementsAbstract ==
    ASSUME StdAtomics = FALSE
    PROVE  Spec => ImplementsAbstract
<1>1. Init => Abstract!Init
  BY DEF Init, Abstract!Init, Reading, Writing
<1>2. LockInv /\ LockInv' /\ [Next]_vars => [Abstract!Next]_(Abstract!vars)
  <2> SUFFICES ASSUME LockInv, LockInv', [Next]_vars
               PROVE  [Abstract!Next]_(Abstract!vars)
    OBVIOUS
  <2> USE DEF Abstract!vars, Reading, Writing, LockInv, TypeOK
  <2>u. CASE UNCHANGED vars  BY <2>u DEF vars
  <2>n. CASE Next
    <3> SUFFICES ASSUME NEW t \in Threads,
                        CallRLock(t) \/ CallWLock(t) \/ Step(t)
                 PROVE  [Abstract!Next]_(Abstract!vars)
      BY <2>n DEF Next
    <3>1. CASE CallRLock(t) \/ CallWLock(t) \/ AwaitNoWriter(t) \/ CountReader(t)
               \/ BackOff(t) \/ CasTakes(t) \/ CasFails(t)
      BY <3>1 DEF CallRLock, CallWLock, AwaitNoWriter, CountReader, BackOff,
                  CasTakes, CasFails, Goto
    <3>2. CASE RecheckWriter(t)
      <4>1. CASE write = 0
        <5>1. Writing = {}  BY <4>1 DEF OneWinner, Winner
        <5>2. Abstract!AcquireRead(t)
          BY <3>2, <4>1, <5>1 DEF RecheckWriter, Goto, Abstract!AcquireRead
        <5> QED  BY <5>2 DEF Abstract!Next
      <4>2. CASE write # 0
        BY <3>2, <4>2 DEF RecheckWriter, Goto
      <4> QED  BY <4>1, <4>2
    <3>3. CASE RUnlock(t)
      <4>1. Abstract!ReleaseRead(t)
        BY <3>3 DEF RUnlock, Goto, Abstract!ReleaseRead
      <4> QED  BY <4>1 DEF Abstract!Next
    <3>4. CASE AwaitReaders(t)
      <4>1. Reading = {}
        BY <3>4, CountedFinite DEF AwaitReaders, ReadCountExact, Counted, ReaderCounted
      <4>2. Writing = {} /\ Writing' = {t}
        BY <3>4 DEF AwaitReaders, Goto, OneWinner, Winner
      <4>3. Abstract!AcquireWrite(t)
        BY <3>4, <4>1, <4>2 DEF AwaitReaders, Goto, Abstract!AcquireWrite
      <4> QED  BY <4>3 DEF Abstract!Next
    <3>5. CASE WUnlock(t)
      <4>1. Abstract!ReleaseWrite(t)
        BY <3>5 DEF WUnlock, Goto, Abstract!ReleaseWrite
      <4> QED  BY <4>1 DEF Abstract!Next
    <3> QED
      BY <3>1, <3>2, <3>3, <3>4, <3>5 DEF Step
  <2> QED  BY <2>u, <2>n
<1> QED
  BY <1>1, <1>2, LockInvAlways, PTL DEF Spec, ImplementsAbstract, Abstract!Spec
-----------------------------------------------------------------------------
(* The monitor *)

\* There are finitely many sleepers.
LEMMA AsleepFinite ==
    /\ IsFiniteSet(Asleep)
    /\ Cardinality(Asleep) \in Nat
<1>1. Asleep \subseteq Workers  BY DEF Asleep
<1>2. IsFiniteSet(Asleep)  BY <1>1, ThreadAssumption, FS_Subset
<1> QED  BY <1>2, FS_CardinalityType

\* A worker that takes the mutex after a fruitless dispatch adds one sleeper.
LEMMA AsleepIn ==
    ASSUME NEW w \in Workers, NEW label \in Sleeping,
           place \in [Workers -> Places], place[w] \notin Sleeping, Go(w, label)
    PROVE  Cardinality(Asleep') = Cardinality(Asleep) + 1
<1>1. Asleep' = Asleep \union {w}  BY DEF Asleep, Go, Sleeping, Holding
<1>2. w \notin Asleep  BY DEF Asleep
<1> QED  BY <1>1, <1>2, AsleepFinite, FS_AddElement

\* A worker that unlocks takes one away.
LEMMA AsleepOut ==
    ASSUME NEW w \in Workers, NEW label \in Places \ Sleeping,
           place \in [Workers -> Places], place[w] \in Sleeping, Go(w, label)
    PROVE  Cardinality(Asleep') = Cardinality(Asleep) - 1
<1>1. Asleep' = Asleep \ {w}  BY DEF Asleep, Go
<1>2. w \in Asleep  BY DEF Asleep
<1> QED  BY <1>1, <1>2, AsleepFinite, FS_RemoveElement

\* Any other move leaves the sleepers as they are.
LEMMA AsleepSame ==
    ASSUME NEW w \in Workers, NEW label \in Places,
           place \in [Workers -> Places], Go(w, label),
           place[w] \in Sleeping <=> label \in Sleeping
    PROVE  Asleep' = Asleep
BY DEF Asleep, Go

-----------------------------------------------------------------------------
\* Nobody sleeps at the start.
LEMMA MonitorInvInit == MonitorInit => MonitorInv
<1> SUFFICES ASSUME MonitorInit PROVE MonitorInv  OBVIOUS
<1>1. Asleep = {}  BY DEF MonitorInit, Asleep, Sleeping, Holding
<1>2. SleepExact  BY <1>1, FS_EmptySet DEF MonitorInit, SleepExact
<1>3. place \in [Workers -> Places]  BY DEF MonitorInit, Places
<1>4. handler \in [on : Workers \union Others \union {Nobody},
                   pc : {"none", "exit", "lock", "done"}]
  BY DEF MonitorInit
<1>5. posts \in 0 .. MaxPosts /\ work \in 0 .. posts
  BY PostsAssumption DEF MonitorInit
<1>6. MonitorTypeOK  BY <1>3, <1>4, <1>5 DEF MonitorInit, MonitorTypeOK
<1>7. MutexExact  BY ThreadAssumption DEF MonitorInit, MutexExact, Holding
<1> QED  BY <1>2, <1>6, <1>7 DEF MonitorInv

\* The workers' own steps preserve the invariant.
LEMMA MonitorWorker ==
    ASSUME NEW w \in Workers, MonitorInv,
           WorkerStep(w) \/ CallbackPosts(w) \/ CallbackEnd(w) \/ SpuriousWakeup(w)
    PROVE  MonitorInv'
<1> USE DEF Places, Sleeping, Holding
<1>1. CASE WorkerTestsQuit(w) \/ NoWork(w) \/ CallbackEnd(w) \/ TakeWork(w)
  <2>1. Asleep' = Asleep
    BY <1>1, AsleepSame DEF WorkerTestsQuit, NoWork, CallbackEnd, TakeWork, At,
                            MonitorInv, MonitorTypeOK
  <2> QED
    BY <1>1, <2>1 DEF WorkerTestsQuit, NoWork, CallbackEnd, TakeWork, At, Go, MonitorInv,
                      MonitorTypeOK, SleepExact, MutexExact
<1>2. CASE CallbackPosts(w)
  BY <1>2, PostsAssumption DEF CallbackPosts, Post, MonitorInv, MonitorTypeOK, SleepExact, Asleep,
                               MutexExact
<1>3. CASE Lock(w)
  <2>1. Cardinality(Asleep') = Cardinality(Asleep) + 1
    BY <1>3, AsleepIn DEF Lock, At, MonitorInv, MonitorTypeOK
  <2>2. SleepExact'
    BY <1>3, <2>1 DEF Lock, MonitorInv, SleepExact
  <2> QED
    BY <1>3, <2>2, ThreadAssumption DEF Lock, At, Go, MonitorInv, MonitorTypeOK, MutexExact
<1>4. CASE LockedTestsQuit(w)
  <2>1. Asleep' = Asleep
    BY <1>4, AsleepSame DEF LockedTestsQuit, At, MonitorInv, MonitorTypeOK
  <2> QED
    BY <1>4, <2>1 DEF LockedTestsQuit, At, Go, MonitorInv, MonitorTypeOK, SleepExact, MutexExact
<1>5. CASE StartWaiting(w)
  <2>1. Asleep' = Asleep
    BY <1>5, AsleepSame DEF StartWaiting, At, MonitorInv, MonitorTypeOK
  <2> QED
    BY <1>5, <2>1, ThreadAssumption
    DEF StartWaiting, At, Go, MonitorInv, MonitorTypeOK, SleepExact, MutexExact
<1>6. CASE StopWaiting(w)
  <2>1. Asleep' = Asleep
    BY <1>6, AsleepSame DEF StopWaiting, At, MonitorInv, MonitorTypeOK
  <2> QED
    BY <1>6, <2>1, ThreadAssumption
    DEF StopWaiting, At, Go, MonitorInv, MonitorTypeOK, SleepExact, MutexExact
<1>7. CASE Leave(w)
  <2>1. Cardinality(Asleep') = Cardinality(Asleep) - 1
    BY <1>7, AsleepOut DEF Leave, At, MonitorInv, MonitorTypeOK
  <2>2. SleepExact'
    BY <1>7, <2>1 DEF Leave, MonitorInv, SleepExact
  <2> QED
    BY <1>7, <2>2, ThreadAssumption DEF Leave, At, Go, MonitorInv, MonitorTypeOK, MutexExact
<1>8. CASE SpuriousWakeup(w)
  BY <1>8 DEF SpuriousWakeup, MonitorInv, MonitorTypeOK, SleepExact, Asleep, MutexExact
<1> QED
  BY <1>1, <1>2, <1>3, <1>4, <1>5, <1>6, <1>7, <1>8 DEF WorkerStep

\* A signal leaves the waiting set the same or smaller.
LEMMA SignalShrinks == Signal => waiting' \subseteq waiting
BY DEF Signal

\* The timer thread, the socket thread and the signal handler touch neither the
\* mutex nor the count.
LEMMA MonitorOthers ==
    ASSUME MonitorInv,
           \/ TimerStep \/ TimerPosts
           \/ SocketStep \/ SocketPosts
           \/ \E t \in HandlerThreads : ShutdownBegins(t)
           \/ HandlerStep
    PROVE  MonitorInv'
<1>1. place' = place /\ mutex' = mutex /\ sleep' = sleep
  BY DEF TimerStep, TimerTestsQuit, TimerReadsSleep, TimerSignals, TimerPosts,
         SocketStep, SocketTestsQuit, SocketExits, SocketReadsSleep, SocketSignals,
         SocketPosts, ShutdownBegins, HandlerStep, ShutdownExitsSocket, Broadcast
<1>2. SleepExact' /\ MutexExact'
  BY <1>1 DEF MonitorInv, SleepExact, Asleep, MutexExact
<1>3. MonitorTypeOK'
  <2> USE <1>1 DEF MonitorInv, MonitorTypeOK
  <2>1. CASE TimerTestsQuit \/ TimerReadsSleep
    BY <2>1 DEF TimerTestsQuit, TimerReadsSleep
  <2>2. CASE TimerSignals
    BY <2>2, SignalShrinks DEF TimerSignals
  <2>3. CASE TimerPosts
    BY <2>3, PostsAssumption DEF TimerPosts, Post
  <2>4. CASE SocketTestsQuit \/ SocketExits \/ SocketReadsSleep
    BY <2>4 DEF SocketTestsQuit, SocketExits, SocketReadsSleep
  <2>5. CASE SocketSignals
    BY <2>5, SignalShrinks DEF SocketSignals
  <2>6. CASE SocketPosts
    BY <2>6, PostsAssumption DEF SocketPosts, Post
  <2>7. CASE \E t \in HandlerThreads : ShutdownBegins(t)
    BY <2>7, ThreadAssumption DEF ShutdownBegins
  <2>8. CASE ShutdownExitsSocket
    BY <2>8 DEF ShutdownExitsSocket
  <2>9. CASE Broadcast
    BY <2>9 DEF Broadcast
  <2> QED
    BY <2>1, <2>2, <2>3, <2>4, <2>5, <2>6, <2>7, <2>8, <2>9
    DEF TimerStep, SocketStep, HandlerStep
<1> QED  BY <1>2, <1>3 DEF MonitorInv

\* Every step preserves the invariant.
LEMMA MonitorInvNext == MonitorInv /\ [MonitorNext]_monitorVars => MonitorInv'
<1> SUFFICES ASSUME MonitorInv, [MonitorNext]_monitorVars PROVE MonitorInv'  OBVIOUS
<1>1. CASE UNCHANGED monitorVars
  BY <1>1 DEF monitorVars, MonitorInv, MonitorTypeOK, SleepExact, Asleep, MutexExact
<1>2. CASE MonitorNext
  BY <1>2, MonitorWorker, MonitorOthers DEF MonitorNext
<1> QED  BY <1>1, <1>2

\* m->sleep counts the workers that wakeup must consider asleep, and the mutex
\* is held by at most one worker, in every state.
THEOREM MonitorInvAlways == MonitorSpec => []MonitorInv
BY MonitorInvInit, MonitorInvNext, PTL DEF MonitorSpec
=============================================================================
