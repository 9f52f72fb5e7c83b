--------------------------- MODULE AbstractRWLock ---------------------------
(***************************************************************************)
(* What a reader/writer lock promises its callers (skynet_service.c takes   *)
(* it around every access to the slot table and the name table): a set of   *)
(* readers, or one writer, and never both.                                  *)
(***************************************************************************)
CONSTANT Threads

VARIABLES
    readers,    \* threads inside rwlock_rlock .. rwlock_runlock
    writers     \* threads inside rwlock_wlock .. rwlock_wunlock

vars == <<readers, writers>>

Init == readers = {} /\ writers = {}

AcquireRead(t) ==
    /\ writers = {}
    /\ t \notin readers
    /\ readers' = readers \union {t}
    /\ UNCHANGED writers

ReleaseRead(t) ==
    /\ t \in readers
    /\ readers' = readers \ {t}
    /\ UNCHANGED writers

AcquireWrite(t) ==
    /\ writers = {} /\ readers = {}
    /\ writers' = {t}
    /\ UNCHANGED readers

ReleaseWrite(t) ==
    /\ t \in writers
    /\ writers' = writers \ {t}
    /\ UNCHANGED readers

Next == \E t \in Threads :
    AcquireRead(t) \/ ReleaseRead(t) \/ AcquireWrite(t) \/ ReleaseWrite(t)

Spec == Init /\ [][Next]_vars
=============================================================================
