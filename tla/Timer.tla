-------------------------------- MODULE Timer --------------------------------
(***************************************************************************)
(* skynet_timer.c: a timing wheel of one near level and four upper levels,  *)
(* which the timer thread turns by one tick per millisecond, and            *)
(* skynet_timer_register, which any thread may call.                        *)
(*                                                                          *)
(* The sizes of the levels are constants.  As in the code, where 2^8 times  *)
(* (2^6)^4 is 2^32, the width of a time is exactly what the levels cover.   *)
(* The code's shifts and masks of powers of two are quotients and           *)
(* remainders here.                                                         *)
(*                                                                          *)
(* The wheel's spin lock makes one action of each of its sections; messages *)
(* are delivered outside it.  The clock is left out but for the number of   *)
(* milliseconds that passed between two readings of it: a reading that went *)
(* backwards changes only the reading.  An event's data travels with its    *)
(* node, and whether the service still exists changes nothing here.         *)
(***************************************************************************)
EXTENDS Integers, Sequences, Lists

CONSTANTS
    Nodes,      \* the timer nodes that may be allocated at the same time
    Near,       \* TIME_NEAR (2^8)
    Level,      \* TIME_LEVEL (2^6)
    MaxDelay,   \* the largest int (2^31 - 1)
    MaxDiff,    \* bound: milliseconds between two readings of the clock
    Free,       \* no expiry: the node is not allocated
    NoNode

\* the span of one slot of level i, where near is level 0 and t[i] is level i + 1
Unit ==
    LET span2 == Level * Near
        span3 == Level * span2
        span4 == Level * span3
    IN  <<Near, span2, span3, span4, Level * span4>>
Word == Unit[5]
Times == 0 .. Word - 1
Delays == 1 .. MaxDelay

ASSUME SizeAssumption == Near \in Nat \ {0} /\ Level \in Nat \ {0, 1} /\ MaxDiff \in Nat
ASSUME DelayAssumption == MaxDelay \in 1 .. Word - Unit[4]
ASSUME NodeAssumption == Free \notin Times /\ NoNode \notin Nodes

VARIABLES
    time,       \* T->time
    wheel,      \* T->near and T->t, the list of each slot
    expire,     \* the expire field of each allocated node
    firing,     \* the list dispatch_list walks, outside the lock
    pc,         \* the timer thread's place in timer_update
    behind,     \* the iterations skynet_updatetime has left
    out         \* the node whose message was delivered last

vars == <<time, wheel, expire, firing, pc, behind, out>>

Slots == ({0} \X (0 .. Near - 1)) \union ((1 .. 4) \X (0 .. Level - 1))
NearSlot(t) == <<0, t % Near>>
UpperSlot(i, t) == <<i, (t \div Unit[i]) % Level>>

Elements(list) == {list[i] : i \in 1 .. Len(list)}

Init ==
    /\ time = 0
    /\ wheel = [s \in Slots |-> <<>>]
    /\ expire = [n \in Nodes |-> Free]
    /\ firing = <<>>
    /\ pc = "idle"
    /\ behind = 0
    /\ out = NoNode

-----------------------------------------------------------------------------
(* The wheel *)

SameWindow(e, t, size) == e \div size = t \div size

\* mutant: the window of a level is compared one level too low
PlaceLow(e, t) ==
    IF SameWindow(e, t, Near) THEN NearSlot(e)
    ELSE LET levels == {i \in 1 .. 3 : SameWindow(e, t, Unit[i])} \union {4}
         IN  UpperSlot(CHOOSE i \in levels : \A j \in levels : i <= j, e)

\* add_node: the lowest level on which expire and time share the window
Place(e, t) ==
    IF SameWindow(e, t, Near) THEN NearSlot(e)
    ELSE LET levels == {i \in 1 .. 3 : SameWindow(e, t, Unit[i + 1])} \union {4}
         IN  UpperSlot(CHOOSE i \in levels : \A j \in levels : i <= j, e)

\* mutant: the wrap of the time is not looked for
CascadedUnwrapped(t) ==
    {UpperSlot(i, t) : i \in {i \in 1 .. 4 : t % Unit[i] = 0 /\ (t \div Unit[i]) % Level # 0}}

\* mutant: only the lowest upper level is looked at
CascadedLowest(t) ==
    IF t = 0 THEN {UpperSlot(4, 0)}
    ELSE {UpperSlot(i, t) : i \in {i \in {1} : t % Unit[i] = 0 /\ (t \div Unit[i]) % Level # 0}}

\* timer_shift: the upper slot, if any, that time t has reached the start of
Cascaded(t) ==
    IF t = 0 THEN {UpperSlot(4, 0)}
    ELSE {UpperSlot(i, t) : i \in {i \in 1 .. 4 : t % Unit[i] = 0 /\ (t \div Unit[i]) % Level # 0}}

\* move_list: a list's nodes go, in order, to the end of the lists add_node finds
MoveList(w, from, t) ==
    LET list == w[from]
        Moved[k \in 0 .. Len(list)] ==
            IF k = 0 THEN [w EXCEPT ![from] = <<>>]
            ELSE [Moved[k - 1] EXCEPT ![Place(expire[list[k]], t)] = Append(@, list[k])]
    IN  Moved[Len(list)]

\* timer_shift, to time t
Shifted(t) ==
    IF Cascaded(t) = {} THEN wheel
    ELSE MoveList(wheel, CHOOSE s \in Cascaded(t) : TRUE, t)

-----------------------------------------------------------------------------
(* skynet_timer_register, called by any thread *)

\* timer_add
Register(n, delay) ==
    /\ expire[n] = Free
    /\ LET e == (delay + time) % Word
       IN  /\ expire' = [expire EXCEPT ![n] = e]
           /\ wheel' = [wheel EXCEPT ![Place(e, time)] = Append(@, n)]
    /\ UNCHANGED <<time, firing, pc, behind, out>>

\* time <= 0: the message is pushed at once and no node is allocated
RegisterNow(n) ==
    /\ expire[n] = Free
    /\ out' = n
    /\ UNCHANGED <<time, wheel, expire, firing, pc, behind>>

-----------------------------------------------------------------------------
(* The timer thread *)

\* skynet_updatetime reads the clock
UpdateTime(diff) ==
    /\ pc = "idle"
    /\ behind' = diff
    /\ pc' = "shift"
    /\ UNCHANGED <<time, wheel, expire, firing, out>>

\* link_clear of the near list of time t, which is then dispatched
Collect(w, t) ==
    /\ firing' = w[NearSlot(t)]
    /\ wheel' = [w EXCEPT ![NearSlot(t)] = <<>>]

\* timer_update up to the first dispatch_list: timer_execute for "timeout 0",
\* and when that finds nothing timer_shift and timer_execute
ExecuteAndShift ==
    /\ pc = "shift"
    /\ firing = <<>>
    /\ IF wheel[NearSlot(time)] # <<>>
       THEN Collect(wheel, time) /\ UNCHANGED <<time, pc>>
       ELSE /\ time' = (time + 1) % Word
            /\ Collect(Shifted(time'), time')
            /\ pc' = "execute"
    /\ UNCHANGED <<expire, behind, out>>

\* dispatch_list: one message is pushed to its service and its node freed
DispatchOne ==
    /\ firing # <<>>
    /\ out' = Head(firing)
    /\ expire' = [expire EXCEPT ![Head(firing)] = Free]
    /\ firing' = Tail(firing)
    /\ UNCHANGED <<time, wheel, pc, behind>>

\* timer_execute looks at the near list again; when it is empty the iteration of
\* skynet_updatetime is over
ExecuteAgain ==
    /\ pc = "execute"
    /\ firing = <<>>
    /\ IF wheel[NearSlot(time)] # <<>>
       THEN Collect(wheel, time) /\ UNCHANGED <<pc, behind>>
       ELSE /\ behind' = behind - 1
            /\ pc' = IF behind > 1 THEN "shift" ELSE "idle"
            /\ UNCHANGED <<wheel, firing>>
    /\ UNCHANGED <<time, expire, out>>

-----------------------------------------------------------------------------
TimerStep ==
    \/ \E diff \in 1 .. MaxDiff : UpdateTime(diff)
    \/ ExecuteAndShift \/ DispatchOne \/ ExecuteAgain

Next ==
    \/ \E n \in Nodes : RegisterNow(n) \/ \E delay \in Delays : Register(n, delay)
    \/ TimerStep

Spec == Init /\ [][Next]_vars

\* The timer thread is scheduled and the clock goes on.
FairSpec == Spec /\ WF_vars(TimerStep)

-----------------------------------------------------------------------------
TypeOK ==
    /\ time \in Times
    /\ wheel \in [Slots -> Seq(Nodes)]
    /\ expire \in [Nodes -> Times \union {Free}]
    /\ firing \in Seq(Nodes)
    /\ pc \in {"idle", "shift", "execute"}
    /\ behind \in 0 .. MaxDiff /\ (pc # "idle" => behind > 0)
    /\ out \in Nodes \union {NoNode}

\* the number of ticks until time e
TicksTo(e) == (e - time) % Word

\* An alarm that waits is in the slot add_node would put it in now, however long
\* ago it was put there, and is not overdue.
WellPlaced ==
    \A s \in Slots : \A n \in Elements(wheel[s]) :
        /\ expire[n] \in Times
        /\ s = Place(expire[n], time)
        /\ TicksTo(expire[n]) \in Delays

\* An alarm that was set and has not gone off is in one list, once.
NodeLists == {wheel[s] : s \in Slots} \union {firing}
InOneList ==
    /\ \A n \in Nodes : expire[n] # Free <=> \E list \in NodeLists : n \in Elements(list)
    /\ \A s \in Slots : Elements(wheel[s]) \intersect Elements(firing) = {}
    /\ \A list \in NodeLists : NoRepeat(list)

\* The wheel's invariant: every list holds exactly the alarms it should, through
\* every cascade and every wrap of the 32-bit time.
WheelInv == TypeOK /\ WellPlaced /\ InOneList

\* the nodes of a list that expire at time e, in their order
Due(list, e) ==
    LET Among[k \in 0 .. Len(list)] ==
            IF k = 0 THEN <<>>
            ELSE IF expire[list[k]] = e THEN Append(Among[k - 1], list[k]) ELSE Among[k - 1]
    IN  Among[Len(list)]

\* The wheel implements the calendar: each alarm goes off at its tick, neither a
\* turn of a level late nor early, and alarms of one tick go off in order.
DueIn(d) ==
    LET e == (time + d) % Word
    IN  Due(wheel[Place(e, time)], e)
Abstract == INSTANCE AlarmCalendar WITH calendar <- [d \in Delays |-> DueIn(d)]
ImplementsCalendar == Abstract!Spec

\* Every alarm that was set goes off.
EventuallyFires == \A n \in Nodes : (expire[n] # Free) ~> (expire[n] = Free)
=============================================================================
