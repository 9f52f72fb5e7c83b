------------------------------ MODULE Connection ------------------------------
(***************************************************************************)
(* What the socket server promises the services about each socket: which    *)
(* messages they are told, in which order.  A socket is opened before data  *)
(* of it comes, it is closed once, and after that only errors are told.     *)
(***************************************************************************)
CONSTANT Ids

VARIABLE seen   \* of each id, what the services were told last

States == {"unborn", "connecting", "listening", "accepted", "open", "closed", "failed"}

Init == seen = [i \in Ids |-> "unborn"]

\* the id is returned by a call or named by SOCKET_ACCEPT
Announce(i, state) ==
    /\ seen[i] = "unborn"
    /\ state \in {"connecting", "listening", "accepted"}
    /\ seen' = [seen EXCEPT ![i] = state]

\* SOCKET_OPEN: connected, started, or transferred to another service
Open(i) ==
    /\ seen[i] \in {"connecting", "accepted", "open"}
    /\ seen' = [seen EXCEPT ![i] = "open"]

\* SOCKET_DATA
Data(i) == seen[i] = "open" /\ UNCHANGED seen

\* SOCKET_ERR: of a socket that was connecting it is the last message
Error(i) ==
    /\ seen[i] # "unborn"
    /\ seen' = [seen EXCEPT ![i] = IF @ = "connecting" THEN "failed" ELSE @]

\* SOCKET_CLOSE
Close(i) ==
    /\ seen[i] \in {"connecting", "listening", "accepted", "open"}
    /\ seen' = [seen EXCEPT ![i] = "closed"]

Next ==
    \E i \in Ids :
        \/ \E state \in States : Announce(i, state)
        \/ Open(i) \/ Data(i) \/ Error(i) \/ Close(i)

Spec == Init /\ [][Next]_seen
=============================================================================
