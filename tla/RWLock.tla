------------------------------- MODULE RWLock -------------------------------
(***************************************************************************)
(* The reader/writer spin lock of skynet-src/skynet_rwlock.h, one action    *)
(* per atomic access.  A spin loop is an action that is not enabled until   *)
(* the loop's condition lets the thread go on.                              *)
(*                                                                          *)
(* skynet_atomic.h defines ATOM_CAS twice.  With __STDC_NO_ATOMICS__ (the   *)
(* Makefile's build) it is __sync_bool_compare_and_swap, which takes the    *)
(* expected value by value.  Without it (Makefile.cygwin, Makefile.am) it   *)
(* is atomic_compare_exchange_weak(ptr, &(oval), nval), which on failure    *)
(* stores the value it saw into the caller's variable and may also fail     *)
(* spuriously.  The constant StdAtomics chooses the build.                  *)
(***************************************************************************)
EXTENDS Integers, FiniteSets

CONSTANTS
    Threads,        \* the threads that take the lock
    StdAtomics      \* TRUE: the <stdatomic.h> build; FALSE: the __sync_* build

ASSUME BuildAssumption == StdAtomics \in BOOLEAN
ASSUME ThreadsAssumption == IsFiniteSet(Threads)

VARIABLES
    pc,             \* where each thread is
    write,          \* struct rwlock: int write
    read,           \* struct rwlock: int read
    clear           \* rwlock_wlock's local variable, one per thread

vars == <<pc, write, read, clear>>

Winner == {"wDrain", "writing"}
ReaderCounted == {"rCheck", "rBackOff", "reading"}
Labels == {"idle", "rWait", "rEnter", "wTry"} \union ReaderCounted \union Winner

Counted == {t \in Threads : pc[t] \in ReaderCounted}
Reading == {t \in Threads : pc[t] = "reading"}
Writing == {t \in Threads : pc[t] = "writing"}

Init ==
    /\ pc = [t \in Threads |-> "idle"]
    /\ write = 0
    /\ read = 0
    /\ clear = [t \in Threads |-> 0]

Goto(t, label) == pc' = [pc EXCEPT ![t] = label]

-----------------------------------------------------------------------------
(* rwlock_rlock *)

CallRLock(t) ==
    /\ pc[t] = "idle"
    /\ Goto(t, "rWait")
    /\ UNCHANGED <<write, read, clear>>

\* mutant: readers do not wait for the writer before they count themselves in
NoWaitForWriter(t) ==
    /\ pc[t] = "rWait"
    /\ Goto(t, "rEnter")
    /\ UNCHANGED <<write, read, clear>>

\* while(ATOM_LOAD(&lock->write)) {}
AwaitNoWriter(t) ==
    /\ pc[t] = "rWait"
    /\ write = 0
    /\ Goto(t, "rEnter")
    /\ UNCHANGED <<write, read, clear>>

\* ATOM_FINC(&lock->read)
CountReader(t) ==
    /\ pc[t] = "rEnter"
    /\ read' = read + 1
    /\ Goto(t, "rCheck")
    /\ UNCHANGED <<write, clear>>

\* mutant: the second look at write is left out
RecheckSkipped(t) ==
    /\ pc[t] = "rCheck"
    /\ Goto(t, "reading")
    /\ UNCHANGED <<write, read, clear>>

\* if (ATOM_LOAD(&lock->write)) ... else break
RecheckWriter(t) ==
    /\ pc[t] = "rCheck"
    /\ Goto(t, IF write = 0 THEN "reading" ELSE "rBackOff")
    /\ UNCHANGED <<write, read, clear>>

\* mutant: the reader goes round the loop and stays counted
BackOffCounted(t) ==
    /\ pc[t] = "rBackOff"
    /\ Goto(t, "rWait")
    /\ UNCHANGED <<write, read, clear>>

\* ATOM_FDEC(&lock->read), then round the loop again
BackOff(t) ==
    /\ pc[t] = "rBackOff"
    /\ read' = read - 1
    /\ Goto(t, "rWait")
    /\ UNCHANGED <<write, clear>>

RUnlock(t) ==
    /\ pc[t] = "reading"
    /\ read' = read - 1
    /\ Goto(t, "idle")
    /\ UNCHANGED <<write, clear>>

-----------------------------------------------------------------------------
(* rwlock_wlock *)

CallWLock(t) ==
    /\ pc[t] = "idle"
    /\ clear' = [clear EXCEPT ![t] = 0]
    /\ Goto(t, "wTry")
    /\ UNCHANGED <<write, read>>

\* ATOM_CAS(&lock->write, clear, 1) returns true
CasTakes(t) ==
    /\ pc[t] = "wTry"
    /\ write = clear[t]
    /\ write' = 1
    /\ Goto(t, "wDrain")
    /\ UNCHANGED <<read, clear>>

\* ATOM_CAS(&lock->write, clear, 1) returns false and the loop spins: the
\* <stdatomic.h> builtin, which may also fail for no reason, leaves the value it
\* saw in clear
CasFails(t) ==
    /\ pc[t] = "wTry"
    /\ StdAtomics \/ write # clear[t]
    /\ clear' = IF StdAtomics THEN [clear EXCEPT ![t] = write] ELSE clear
    /\ UNCHANGED <<pc, write, read>>

\* mutant: the writer does not wait for the readers it found
NoDrain(t) ==
    /\ pc[t] = "wDrain"
    /\ Goto(t, "writing")
    /\ UNCHANGED <<write, read, clear>>

\* while(ATOM_LOAD(&lock->read)) {}
AwaitReaders(t) ==
    /\ pc[t] = "wDrain"
    /\ read = 0
    /\ Goto(t, "writing")
    /\ UNCHANGED <<write, read, clear>>

WUnlock(t) ==
    /\ pc[t] = "writing"
    /\ write' = 0
    /\ Goto(t, "idle")
    /\ UNCHANGED <<read, clear>>

-----------------------------------------------------------------------------
\* The steps of a thread that has called the lock and has not left it.
Step(t) ==
    \/ AwaitNoWriter(t) \/ CountReader(t) \/ RecheckWriter(t) \/ BackOff(t)
    \/ RUnlock(t)
    \/ CasTakes(t) \/ CasFails(t) \/ AwaitReaders(t) \/ WUnlock(t)

Next == \E t \in Threads : CallRLock(t) \/ CallWLock(t) \/ Step(t)

Spec == Init /\ [][Next]_vars

\* A thread that spins, or is inside the few instructions the lock protects,
\* is never stopped for good: no critical section of the program blocks.
FairSpec == Spec /\ \A t \in Threads : WF_vars(Step(t))

-----------------------------------------------------------------------------
TypeOK ==
    /\ pc \in [Threads -> Labels]
    /\ write \in {0, 1}
    /\ read \in Nat
    /\ clear \in [Threads -> {0, 1}]

\* A writer excludes every other thread: skynet_service.c:83-119 rebuilds the
\* slot table in place under the write lock.
MutualExclusion ==
    \A w \in Writing : Writing = {w} /\ Reading = {}

\* The read counter is exactly the number of threads that have counted
\* themselves in and not yet out; an inexact one would let a writer in on top
\* of a reader, or keep writers out for ever.
ReadCountExact == read = Cardinality(Counted)

\* The thread that won the CAS is alone behind it, and write stays 1 for it.
OneWinner ==
    \A t \in Threads : pc[t] \in Winner =>
        /\ write = 1
        /\ \A u \in Threads : pc[u] \in Winner => u = t

\* The inductive invariant of the __sync build: the counter is exact, one thread
\* is behind the CAS, and no reader is inside while a writer is.
LockInv ==
    /\ TypeOK
    /\ clear = [t \in Threads |-> 0]
    /\ ReadCountExact
    /\ OneWinner
    /\ \A t, u \in Threads : ~(pc[t] = "writing" /\ pc[u] = "reading")

\* A writer that has won the CAS gets in: readers that arrive later back off
\* and cannot hold the counter above zero for ever.
WriterGetsIn == \A t \in Threads : (pc[t] = "wDrain") ~> (pc[t] = "writing")

\* The lock implements the abstract lock: it is never taken by two writers, or
\* by a writer and a reader, whatever the order of the atomic accesses.
Abstract == INSTANCE AbstractRWLock WITH readers <- Reading, writers <- Writing
ImplementsAbstract == Abstract!Spec
=============================================================================
