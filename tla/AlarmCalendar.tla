---------------------------- MODULE AlarmCalendar ----------------------------
(***************************************************************************)
(* What the timer promises: an alarm set for d ticks goes off at the d-th   *)
(* tick that follows, and alarms due at one tick go off in the order in     *)
(* which they were set.                                                     *)
(***************************************************************************)
EXTENDS Integers, Sequences

CONSTANTS Nodes, MaxDelay

VARIABLES
    calendar,   \* the alarms due in d ticks, for each d, in the order they were set
    firing,     \* the alarms due at this tick that have not gone off yet
    out         \* the alarm that went off last

vars == <<calendar, firing, out>>

Delays == 1 .. MaxDelay

\* an alarm that is not set
Idle(n) == \A seq \in {calendar[d] : d \in Delays} \union {firing} :
              \A i \in 1 .. Len(seq) : seq[i] # n

Init ==
    /\ calendar = [d \in Delays |-> <<>>]
    /\ firing = <<>>
    /\ out \notin Nodes

\* the alarm comes last of those due with it, and the rest of the calendar stays
Set(n, d) ==
    /\ UNCHANGED <<firing, out>>
    /\ calendar'[d] = Append(calendar[d], n)
    /\ calendar' = [calendar EXCEPT ![d] = calendar'[d]]

\* an alarm for no time at all goes off at once
SetNow(n) ==
    /\ out' = n
    /\ UNCHANGED <<calendar, firing>>

Tick ==
    /\ firing = <<>>
    /\ firing' = calendar[1]
    /\ calendar' = [d \in Delays |-> IF d < MaxDelay THEN calendar[d + 1] ELSE <<>>]
    /\ UNCHANGED out

GoOff ==
    /\ firing # <<>>
    /\ out' = Head(firing)
    /\ firing' = Tail(firing)
    /\ UNCHANGED calendar

Next ==
    \/ Tick \/ GoOff
    \/ \E n \in Nodes : Idle(n) /\ (SetNow(n) \/ \E d \in Delays : Set(n, d))

Spec == Init /\ [][Next]_vars
=============================================================================
