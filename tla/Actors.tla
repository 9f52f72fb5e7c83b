------------------------------- MODULE Actors -------------------------------
(***************************************************************************)
(* What the scheduler promises the services: a service's callback runs on   *)
(* one message of its mailbox at a time, oldest first, once its create      *)
(* function has returned.  A service configured as concurrent waives the    *)
(* "one at a time".                                                         *)
(***************************************************************************)
EXTENDS Integers, Sequences

CONSTANTS Services, ConcurrentServices, Workers, Msgs, NoJob

VARIABLES
    started,    \* services whose create function has returned
    inbox,      \* messages each service has been sent and not begun
    job,        \* the <<service, message>> each worker's callback is running
    done        \* messages whose callback has returned, in that order

vars == <<started, inbox, job, done>>

Init ==
    /\ started = {}
    /\ inbox = [s \in Services |-> <<>>]
    /\ job = [w \in Workers |-> NoJob]
    /\ done = [s \in Services |-> <<>>]

Start(s) ==
    /\ started' = started \union {s}
    /\ UNCHANGED <<inbox, job, done>>

Send(s, m) ==
    /\ inbox' = [inbox EXCEPT ![s] = Append(@, m)]
    /\ UNCHANGED <<started, job, done>>

Running(s) == {w \in Workers : job[w] # NoJob /\ job[w][1] = s}

Begin(w, s) ==
    /\ s \in started
    /\ job[w] = NoJob
    /\ s \in ConcurrentServices \/ Running(s) = {}
    /\ inbox[s] # <<>>
    /\ job' = [job EXCEPT ![w] = <<s, Head(inbox[s])>>]
    /\ inbox' = [inbox EXCEPT ![s] = Tail(@)]
    /\ UNCHANGED <<started, done>>

Finish(w) ==
    /\ job[w] # NoJob
    /\ done' = [done EXCEPT ![job[w][1]] = Append(@, job[w][2])]
    /\ job' = [job EXCEPT ![w] = NoJob]
    /\ UNCHANGED <<started, inbox>>

Next ==
    \/ \E s \in Services : Start(s) \/ \E m \in Msgs : Send(s, m)
    \/ \E w \in Workers : Finish(w) \/ \E s \in Services : Begin(w, s)

Spec == Init /\ [][Next]_vars
=============================================================================
