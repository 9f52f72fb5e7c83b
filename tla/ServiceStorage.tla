---------------------------- MODULE ServiceStorage ----------------------------
(***************************************************************************)
(* skynet_service.c's struct service_storage: the slot table that doubles,  *)
(* and the sorted table of names with its binary searches.  Each operation  *)
(* holds the storage's reader/writer lock (RWLock), so it is one action;    *)
(* the lookups change nothing and are operators.                            *)
(*                                                                          *)
(* A handle is the harbor's number and the slot, which gets 8 bits.  The    *)
(* table of the code may outgrow them when there are more services than     *)
(* that, and the model ends there (Outgrow).  A harbor id of 0 would make    *)
(* the first handle 0, and the program exits when a creation returns that   *)
(* (skynet_main.c:209).  Names are numbers, ordered as strcmp orders the    *)
(* strings.                                                                 *)
(***************************************************************************)
EXTENDS Integers, Sequences, FiniteSets

CONSTANTS
    Services,           \* the contexts that may be allocated at the same time
    Names,
    Harbor,             \* this process's harbor id
    HandleSize,         \* slots a handle can tell apart (2^8)
    DefaultSlotSize,    \* DEFAULT_SLOT_SIZE (4)
    IndexMask,          \* INDEX_MASK (2^24 - 1)
    None

ASSUME HandleAssumption == Harbor \in 1 .. HandleSize - 1
\* The table doubles, and what a handle can tell apart is one of the sizes it goes
\* through: the set of its sizes, whatever it is, has HandleSize.
ASSUME SizeAssumption ==
    /\ DefaultSlotSize \in Nat \ {0} /\ DefaultSlotSize % 2 = 0
    /\ HandleSize \in Nat /\ DefaultSlotSize <= HandleSize
    /\ \A sizes \in SUBSET (1 .. HandleSize) :
          /\ DefaultSlotSize \in sizes
          /\ \A size \in sizes : 2 * size <= HandleSize => 2 * size \in sizes
          => HandleSize \in sizes
    /\ IndexMask \in Nat /\ 2 * HandleSize - 1 <= IndexMask /\ (IndexMask + 1) % HandleSize = 0
ASSUME NamesAssumption == Names \subseteq Nat /\ None \notin Services \union Names

VARIABLES
    slot,       \* m->slot, indexed 0 .. slot_size - 1
    slot_index,
    name,       \* m->name up to name_count, each entry's name and handle
    name_cap,
    handle,     \* ctx->handle of each allocated context
    ctxName,    \* ctx->name
    phase,      \* "none", "creating" (before its name is entered) or "running"
    outcome     \* "fine", or what stopped the program, "assertion" or "null read", or
                \* "outgrown": what follows is not modelled

vars == <<slot, slot_index, name, name_cap, handle, ctxName, phase, outcome>>

slot_size == Cardinality(DOMAIN slot)

Init ==
    /\ slot = [i \in 0 .. DefaultSlotSize - 1 |-> None]
    /\ slot_index = 0
    /\ name = <<>>
    /\ name_cap = DefaultSlotSize \div 2
    /\ handle = [s \in Services |-> None]
    /\ ctxName = [s \in Services |-> None]
    /\ phase = [s \in Services |-> "none"]
    /\ outcome = "fine"

-----------------------------------------------------------------------------
(* Handles and slots *)

\* skynet_harbor_handle and skynet_harbor_index
HarborHandle(i) == Harbor * HandleSize + (i % HandleSize)
HarborIndex(h) == h % HandleSize

\* the k-th index _create looks at: on from slot_index, and after INDEX_MASK from 1,
\* which passes over slot 0
Probe(k) == IF slot_index + k <= IndexMask THEN slot_index + k ELSE slot_index + k - IndexMask

\* the probes that find a free slot of a table
FreeProbes(table) ==
    LET size == Cardinality(DOMAIN table)
    IN  {k \in 0 .. size - 1 : table[Probe(k) % size] = None}

\* where the context of slot i goes in a table of twice the size
Rehash(i) == handle[slot[i]] % (2 * slot_size)

\* the table of twice the size
Occupied == {i \in DOMAIN slot : slot[i] # None}
Doubled ==
    [hash \in 0 .. 2 * slot_size - 1 |->
        IF \E i \in Occupied : Rehash(i) = hash
        THEN slot[CHOOSE i \in Occupied : Rehash(i) = hash]
        ELSE None]

\* the two assertions made on the way
MayDouble ==
    /\ 2 * slot_size - 1 <= IndexMask
    /\ \A i, j \in Occupied : Rehash(i) = Rehash(j) => i = j

\* What comes of doubling the table.  The handle of every slot's context is read,
\* so a slot that is free (the probes passed over slot 0) is a read through NULL.
Doubling ==
    IF ~MayDouble THEN "assertion" ELSE IF Occupied # DOMAIN slot THEN "null read" ELSE "fine"

\* skynet_service_find
Find(h) ==
    IF HarborIndex(h) < slot_size /\ slot[HarborIndex(h)] # None
       /\ handle[slot[HarborIndex(h)]] = h
    THEN slot[HarborIndex(h)]
    ELSE None

-----------------------------------------------------------------------------
(* The name table *)

\* The binary search that _insert_name, _delete_name and _find_name share: the
\* place of the name in the table, or where it would have to be.
Search(n) ==
    LET go[range \in (1 .. Len(name) + 1) \X (0 .. Len(name))] ==
            LET begin == range[1]
                end == range[2]
                mid == (begin + end) \div 2
            IN  IF begin > end THEN [found |-> FALSE, at |-> begin]
                ELSE IF name[mid].name = n THEN [found |-> TRUE, at |-> mid]
                ELSE IF name[mid].name < n THEN go[<<mid + 1, end>>]
                ELSE go[<<begin, mid - 1>>]
    IN  go[<<1, Len(name)>>]

\* skynet_service_findname: handle 0 stands for a name that is not in the table
FindName(n) ==
    LET search == Search(n)
    IN  Find(IF search.found THEN name[search.at].handle ELSE 0)

\* mutant: the table of names doubles one entry too early
NamesFullEarly == Len(name) + 1 >= name_cap

\* the table of names has to double
NamesFull == Len(name) >= name_cap

\* mutant: the entry goes in front of the one it should follow
InsertedEarly(entry, before) ==
    LET at == IF before > 1 THEN before - 1 ELSE before
    IN  SubSeq(name, 1, at - 1) \o <<entry>> \o SubSeq(name, at, Len(name))

\* _insert_name_before
Inserted(entry, before) ==
    SubSeq(name, 1, before - 1) \o <<entry>> \o SubSeq(name, before, Len(name))

\* mutant: the entries after it are not moved down
DeletedTail(at) == SubSeq(name, 1, at - 1)

\* _delete_name
Deleted(at) == SubSeq(name, 1, at - 1) \o SubSeq(name, at + 1, Len(name))

-----------------------------------------------------------------------------
(* The operations *)

\* _create sees no free slot, and a table of twice the size has more than a handle can tell
\* apart: two services get one handle from here on
Outgrows == FreeProbes(slot) = {} /\ 2 * slot_size > HandleSize
Outgrow(s) ==
    /\ phase[s] = "none"
    /\ Outgrows
    /\ outcome' = IF Doubling = "fine" THEN "outgrown" ELSE Doubling
    /\ UNCHANGED <<slot, slot_index, name, name_cap, handle, ctxName, phase>>

\* _create: in the first free slot it looks at, in a table of twice the size if it
\* sees none
Create(s, n) ==
    /\ phase[s] = "none"
    /\ ~Outgrows
    /\ LET grows == FreeProbes(slot) = {}
           table == IF grows THEN Doubled ELSE slot
           free == FreeProbes(table)
           index == Probe(CHOOSE k \in free : \A j \in free : k <= j)
           hash == index % Cardinality(DOMAIN table)
       IN  /\ slot' = [table EXCEPT ![hash] = s]
           /\ slot_index' = index + 1
           /\ handle' = [handle EXCEPT ![s] = HarborHandle(hash)]
           /\ outcome' = IF grows THEN Doubling ELSE "fine"
    /\ ctxName' = [ctxName EXCEPT ![s] = n]
    /\ phase' = [phase EXCEPT ![s] = "creating"]
    /\ UNCHANGED <<name, name_cap>>

\* _handle_namehandle: the name is entered unless the table has it already
RegisterName(s) ==
    /\ phase[s] = "creating"
    /\ LET search == Search(ctxName[s])
       IN  IF search.found THEN UNCHANGED <<name, name_cap, outcome>>
           ELSE /\ name' = Inserted([name |-> ctxName[s], handle |-> handle[s]], search.at)
                /\ name_cap' = IF NamesFull THEN 2 * name_cap ELSE name_cap
                /\ outcome' = IF name_cap' > slot_size THEN "assertion" ELSE "fine"
    /\ phase' = [phase EXCEPT ![s] = "running"]
    /\ UNCHANGED <<slot, slot_index, handle, ctxName>>

\* skynet_service_release, of a running service or of a failed creation
Release(s) ==
    /\ phase[s] # "none"
    /\ LET hash == HarborIndex(handle[s])
           search == Search(ctxName[s])
       IN  /\ outcome' = IF hash >= slot_size THEN "assertion" ELSE "fine"
           /\ slot' = [slot EXCEPT ![hash] = None]
           /\ name' = IF search.found THEN Deleted(search.at) ELSE name
    /\ handle' = [handle EXCEPT ![s] = None]
    /\ ctxName' = [ctxName EXCEPT ![s] = None]
    /\ phase' = [phase EXCEPT ![s] = "none"]
    /\ UNCHANGED <<slot_index, name_cap>>

Next ==
    /\ outcome = "fine"
    /\ \E s \in Services :
          RegisterName(s) \/ Release(s) \/ Outgrow(s) \/ \E n \in Names : Create(s, n)

Spec == Init /\ [][Next]_vars

-----------------------------------------------------------------------------
Handles == {HarborHandle(i) : i \in 0 .. HandleSize - 1}

TypeOK ==
    /\ slot_size <= HandleSize
    /\ slot \in [0 .. slot_size - 1 -> Services \union {None}]
    /\ slot_index \in 0 .. IndexMask + 1
    /\ name_cap \in Nat /\ Len(name) <= name_cap
    /\ handle \in [Services -> Handles \union {None}]
    /\ ctxName \in [Services -> Names \union {None}]
    /\ phase \in [Services -> {"none", "creating", "running"}]

\* Every allocated context is in the slot its handle names, and no slot keeps
\* one that was freed: skynet_service_release clears a slot by handle.
SlotsExact ==
    /\ \A s \in Services : phase[s] # "none" =>
          /\ HarborIndex(handle[s]) < slot_size
          /\ slot[HarborIndex(handle[s])] = s
    /\ \A i \in DOMAIN slot : slot[i] # None => phase[slot[i]] # "none"

\* The name table is strictly sorted, as its binary search needs, and every entry
\* is that of a running service created under the name: no entry outlives its
\* service, whose context holds the string.
NamesExact ==
    /\ \A i, j \in 1 .. Len(name) : i < j => name[i].name < name[j].name
    /\ \A i \in 1 .. Len(name) : \E s \in Services :
          phase[s] = "running" /\ ctxName[s] = name[i].name /\ handle[s] = name[i].handle

\* The invariant of the storage.
StorageInv == TypeOK /\ SlotsExact /\ NamesExact

\* However many services there are, no assertion of the storage fails while the slot table
\* has no more slots than a handle tells apart, nor when it is doubled past them: two contexts
\* never meet in one slot of the doubled table, and neither table outgrows the other
\* (skynet_service.c:108, 113, 125, 284).  The doubling after that does fail at line 113.
AssertionsHold == outcome # "assertion"

\* The storage implements the registry: what the lookups find by handle and by
\* name changes as the registry says, through growth and reuse.
Abstract == INSTANCE Registry WITH
    byHandle <- [h \in Handles |-> Find(h)],
    byName <- [n \in Names |-> FindName(n)],
    bornAs <- ctxName
ImplementsRegistry == Abstract!Spec
=============================================================================
