------------------------------- MODULE Registry -------------------------------
(***************************************************************************)
(* What the service storage promises: a handle is one live service's, a     *)
(* name is that of at most one live service, and a release takes both away. *)
(***************************************************************************)
CONSTANTS Services, Names, Handles, None

VARIABLES
    byHandle,   \* the service each handle finds
    byName,     \* the service each name finds
    bornAs      \* the name each service was created under

vars == <<byHandle, byName, bornAs>>

Init ==
    /\ byHandle = [h \in Handles |-> None]
    /\ byName = [n \in Names |-> None]
    /\ bornAs = [s \in Services |-> None]

Create(s, n, h) ==
    /\ bornAs[s] = None
    /\ byHandle[h] = None
    /\ byHandle' = [byHandle EXCEPT ![h] = s]
    /\ bornAs' = [bornAs EXCEPT ![s] = n]
    /\ UNCHANGED byName

\* the first service to come gets the name
Register(s) ==
    /\ bornAs[s] # None
    /\ byName[bornAs[s]] = None
    /\ byName' = [byName EXCEPT ![bornAs[s]] = s]
    /\ UNCHANGED <<byHandle, bornAs>>

\* a service takes the name it was created under with it, whoever has it
Release(s) ==
    /\ bornAs[s] # None
    /\ byHandle' = [h \in Handles |-> IF byHandle[h] = s THEN None ELSE byHandle[h]]
    /\ byName' = [byName EXCEPT ![bornAs[s]] = None]
    /\ bornAs' = [bornAs EXCEPT ![s] = None]

Next ==
    \E s \in Services :
        \/ Register(s) \/ Release(s)
        \/ \E n \in Names, h \in Handles : Create(s, n, h)

Spec == Init /\ [][Next]_vars
=============================================================================
