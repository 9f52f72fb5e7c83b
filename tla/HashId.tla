-------------------------------- MODULE HashId --------------------------------
(***************************************************************************)
(* hashid.h: the table that gives each socket id an entry.  The entries in  *)
(* use hang in chains off a hash of the id, a free one has the id -1.       *)
(***************************************************************************)
EXTENDS Integers, FiniteSets

CONSTANTS
    Cap,        \* hashid.cap
    MinHash     \* buckets at least, 16 in hashid_init

ASSUME HashIdAssumption == Cap \in Nat \ {0} /\ MinHash \in Nat \ {0}

Entries == 0 .. Cap - 1
Nil == -1   \* no entry: a null pointer, and the result of a search in vain
NoId == -1

\* hashid_init: doubled until there are as many buckets as entries
HashCap == LET Doubled[n \in 0 .. Cap] == IF n = 0 THEN MinHash ELSE 2 * Doubled[n - 1]
               times == CHOOSE n \in 0 .. Cap : Doubled[n] >= Cap /\ \A m \in 0 .. n - 1 : Doubled[m] < Cap
           IN  Doubled[times]
Buckets == 0 .. HashCap - 1
Hash(id) == id % HashCap    \* id & hashmod, as HashCap is a power of two

hashid_init == [id |-> [e \in Entries |-> NoId], next |-> [e \in Entries |-> Nil],
                hash |-> [h \in Buckets |-> Nil], count |-> 0]

\* the entries a search for the id looks at, in turn
Walk(t, id) ==
    LET At[j \in 0 .. Cap] ==
            IF j = 0 THEN t.hash[Hash(id)]
            ELSE LET before == At[j - 1] IN IF before = Nil THEN Nil ELSE t.next[before]
    IN  At
\* how far the search goes: -1 if the id is not found
Found(t, id) ==
    LET at == Walk(t, id)
        hits == {j \in 0 .. Cap : at[j] # Nil /\ t.id[at[j]] = id}
    IN  IF hits = {} THEN -1 ELSE CHOOSE j \in hits : \A other \in hits : j <= other

hashid_lookup(t, id) == IF Found(t, id) = -1 THEN Nil ELSE Walk(t, id)[Found(t, id)]

\* the link to the entry is led past it, and the entry is free
RemovedHead(t, id) ==
    LET e == hashid_lookup(t, id)
    IN  [t EXCEPT !.hash[Hash(id)] = t.next[e], !.id[e] = NoId, !.next[e] = Nil, !.count = @ - 1]
hashid_remove(t, id) ==
    LET j == Found(t, id)
        e == Walk(t, id)[j]
    IN  IF j = -1 THEN t
        ELSE IF j = 0 THEN RemovedHead(t, id)
        ELSE [t EXCEPT !.next[Walk(t, id)[j - 1]] = t.next[e],
                       !.next[e] = Nil, !.id[e] = NoId, !.count = @ - 1]

\* the first free entry from id % Cap on
FirstFree(t, id) ==
    LET free == {i \in 0 .. Cap - 1 : t.id[(i + id) % Cap] = NoId}
    IN  ((CHOOSE i \in free : \A other \in free : i <= other) + id) % Cap
hashid_insert(t, id) ==
    LET e == FirstFree(t, id)
    IN  [t EXCEPT !.id[e] = id, !.next[e] = t.hash[Hash(id)], !.hash[Hash(id)] = e, !.count = @ + 1]

hashid_full(t) == t.count = Cap

\* The table holds these ids and no others, each at an entry of its own, and a search finds
\* it; what is free can be used again.
Holds(t, ids) ==
    /\ t.count = Cardinality(ids)
    /\ {e \in Entries : t.id[e] # NoId} = {hashid_lookup(t, id) : id \in ids}
    /\ \A id \in ids : hashid_lookup(t, id) # Nil /\ t.id[hashid_lookup(t, id)] = id
    /\ \A e \in Entries : t.id[e] = NoId => t.next[e] = Nil
=============================================================================
