------------------------- MODULE MessageQueueProofs -------------------------
(***************************************************************************)
(* The ring buffer stays in range and implements a first-in first-out queue *)
(* for every initial capacity, every bound and every set of messages.  The  *)
(* overload threshold plays no part in it; what it does is the subject of   *)
(* the last part.                                                           *)
(***************************************************************************)
EXTENDS MessageQueue, SequenceTheorems, WellFoundedInduction, TLAPS

-----------------------------------------------------------------------------
(* Natural numbers and doubling *)

\* Every set of natural numbers that is not empty has a least element.
LEMMA LeastElement ==
    ASSUME NEW T \in SUBSET Nat, T # {}
    PROVE  \E n \in T : \A m \in T : n <= m
<1> DEFINE R == OpToRel(<, Nat)
<1>1. IsWellFoundedOn(R, Nat)  BY NatLessThanWellFounded
<1>2. \E x \in T : \A y \in T : ~(<<y, x>> \in R)
  <2> HIDE DEF R
  <2> QED  BY <1>1, WFMin
<1>3. PICK x \in T : \A y \in T : ~(<<y, x>> \in R)  BY <1>2
<1>4. \A y \in T : ~(y < x)  BY <1>3 DEF OpToRel
<1> QED  BY <1>4

\* A number reached from another by doubling it some number of times: it is in
\* every set that has the other and is closed under doubling.
Doublings(t) ==
    {u \in Nat : \A S \in SUBSET Nat : t \in S /\ (\A s \in S : 2 * s \in S) => u \in S}

\* The doublings of t are t and the doublings of 2t.
LEMMA DoublingsStep ==
    ASSUME NEW t \in Nat
    PROVE  Doublings(t) = {t} \union Doublings(2 * t)
<1>1. t \in Doublings(t)  BY DEF Doublings
<1>2. Doublings(2 * t) \subseteq Doublings(t)
  BY DEF Doublings
<1>3. ASSUME NEW u \in Doublings(t), u # t PROVE u \in Doublings(2 * t)
  <2> SUFFICES ASSUME NEW S \in SUBSET Nat, 2 * t \in S, \A s \in S : 2 * s \in S
               PROVE  u \in S
    BY DEF Doublings
  <2>1. u \in S \union {t}
    <3>1. S \union {t} \in SUBSET Nat /\ t \in S \union {t}
          /\ \A s \in S \union {t} : 2 * s \in S \union {t}
      OBVIOUS
    <3> QED  BY <3>1 DEF Doublings
  <2> QED  BY <1>3, <2>1
<1> QED  BY <1>1, <1>2, <1>3

\* The doublings of t are not below t.
LEMMA DoublingsAbove ==
    ASSUME NEW t \in Nat, NEW u \in Doublings(t)
    PROVE  t <= u
<1> DEFINE S == {s \in Nat : t <= s}
<1>1. S \in SUBSET Nat /\ t \in S /\ \A s \in S : 2 * s \in S  OBVIOUS
<1>2. u \in S  BY <1>1 DEF Doublings
<1> QED  BY <1>2

-----------------------------------------------------------------------------
(* The ring buffer *)

Slots == Msgs \union {NoMsg}

\* The slot i places after h: at most one wrap, because i is below the capacity.
LEMMA SlotValue ==
    ASSUME NEW c \in Nat \ {0}, NEW h \in 0 .. c - 1, NEW i \in 0 .. c - 1
    PROVE  Slot(h, i, c) = IF h + i < c THEN h + i ELSE h + i - c
<1>1. CASE h + i < c  BY <1>1 DEF Slot
<1>2. CASE h + i >= c  BY <1>2 DEF Slot
<1> QED  BY <1>1, <1>2

\* A message of the queue lies in a slot of the buffer, in no slot twice, and
\* never in the slot at tail: the buffer is not full.
LEMMA LiveSlots ==
    ASSUME NEW b, NEW h, NEW t, NEW c, IsRing(b, h, t, c)
    PROVE  /\ Distance(h, t, c) \in 0 .. c - 1
           /\ \A i \in 0 .. Distance(h, t, c) - 1 :
                /\ Slot(h, i, c) \in 0 .. c - 1
                /\ Slot(h, i, c) # t
           /\ Slot(h, Distance(h, t, c), c) = t
<1>1. Distance(h, t, c) \in 0 .. c - 1  BY DEF IsRing, Distance
<1>2. \A i \in 0 .. c - 1 :
          Slot(h, i, c) = IF h + i < c THEN h + i ELSE h + i - c
  BY SlotValue DEF IsRing
<1> QED  BY <1>1, <1>2 DEF IsRing, Distance

\* Between is a sequence, of the ring's length.
LEMMA BetweenSeq ==
    ASSUME NEW b, NEW h, NEW t, NEW c, IsRing(b, h, t, c)
    PROVE  LET s == Between(b, h, t, c)
               n == Distance(h, t, c)
           IN  /\ s \in Seq(Slots) /\ Len(s) = n
               /\ \A i \in 1 .. n : s[i] = b[Slot(h, i - 1, c)]
<1> DEFINE n == Distance(h, t, c)
<1>1. n \in Nat  BY LiveSlots
<1>2. \A i \in 1 .. n : b[Slot(h, i - 1, c)] \in Slots
  BY LiveSlots DEF IsRing, Slots
<1>3. Between(b, h, t, c) \in [1 .. n -> Slots]  BY <1>2 DEF Between
<1>4. Between(b, h, t, c) \in Seq(Slots)  BY <1>1, <1>3, SeqDef
<1>5. DOMAIN Between(b, h, t, c) = 1 .. n  BY DEF Between
<1>6. Len(Between(b, h, t, c)) = n  BY <1>1, <1>4, <1>5, LenProperties
<1> QED  BY <1>4, <1>6 DEF Between

\* A sequence one longer than another, equal to it where both are defined, is
\* the other with one element appended.
LEMMA AppendIs ==
    ASSUME NEW s \in Seq(Slots), NEW u \in Seq(Slots), NEW m \in Msgs,
           Len(u) = Len(s) + 1, u[Len(s) + 1] = m,
           \A i \in 1 .. Len(s) : u[i] = s[i]
    PROVE  u = Append(s, m)
<1> DEFINE a == Append(s, m)
<1>1. m \in Slots  BY DEF Slots
<1>2. a \in Seq(Slots) /\ Len(a) = Len(s) + 1
      /\ (\A i \in 1 .. Len(s) : a[i] = s[i]) /\ a[Len(s) + 1] = m
  BY <1>1, AppendProperties
<1>3. Len(s) \in Nat  BY LenProperties
<1> HIDE DEF a
<1>4. \A i \in 1 .. Len(u) : u[i] = a[i]
  <2> TAKE i \in 1 .. Len(u)
  <2>1. CASE i = Len(s) + 1  BY <1>2, <2>1
  <2>2. CASE i # Len(s) + 1
    <3>1. i \in 1 .. Len(s)  BY <1>3, <2>2
    <3> QED  BY <1>2, <3>1
  <2> QED  BY <2>1, <2>2
<1>5. u = a  BY <1>2, <1>4, SeqEqual
<1> QED  BY <1>5 DEF a

\* A sequence one shorter than another, equal to it one place on, is its tail.
LEMMA TailIs ==
    ASSUME NEW s \in Seq(Slots), NEW u \in Seq(Slots), s # <<>>,
           Len(u) = Len(s) - 1, \A i \in 1 .. Len(u) : u[i] = s[i + 1]
    PROVE  u = Tail(s)
<1>1. Tail(s) \in Seq(Slots) /\ Len(Tail(s)) = Len(s) - 1
      /\ \A i \in 1 .. Len(Tail(s)) : Tail(s)[i] = s[i + 1]
  BY HeadTailProperties
<1> QED  BY <1>1, SeqEqual

\* Storing a message at tail and moving tail on appends it.
LEMMA StoreAppends ==
    ASSUME NEW b, NEW h, NEW t, NEW c, IsRing(b, h, t, c), NEW m \in Msgs,
           NEW b2, b2 = [b EXCEPT ![t] = m],
           NEW t2, t2 = IF t + 1 >= c THEN 0 ELSE t + 1, h # t2
    PROVE  Between(b2, h, t2, c) = Append(Between(b, h, t, c), m)
<1> DEFINE n == Distance(h, t, c)
           old == Between(b, h, t, c)
           new == Between(b2, h, t2, c)
<1>0. IsRing(b2, h, t2, c)  BY DEF IsRing
<1>1. Distance(h, t2, c) = n + 1  BY DEF IsRing, Distance
<1>2. n \in Nat  BY LiveSlots
<1>3. old \in Seq(Slots) /\ Len(old) = n
      /\ \A i \in 1 .. n : old[i] = b[Slot(h, i - 1, c)]
  BY BetweenSeq
<1>4. new \in Seq(Slots) /\ Len(new) = Distance(h, t2, c)
      /\ \A i \in 1 .. Distance(h, t2, c) : new[i] = b2[Slot(h, i - 1, c)]
  <2> HIDE DEF n, old
  <2> QED  BY ONLY <1>0, BetweenSeq
<1>5. /\ Slot(h, n, c) = t
      /\ \A i \in 1 .. n : Slot(h, i - 1, c) \in 0 .. c - 1 /\ Slot(h, i - 1, c) # t
  BY <1>2, LiveSlots
<1>6. t \in 0 .. c - 1 /\ b \in [0 .. c - 1 -> Slots]  BY DEF IsRing, Slots
<1> HIDE DEF old, new, n
<1>7. \A i \in 1 .. n : new[i] = old[i]
  BY <1>1, <1>2, <1>3, <1>4, <1>5, <1>6
<1>8. new[n + 1] = m
  <2>1. new[n + 1] = b2[Slot(h, (n + 1) - 1, c)]  BY <1>1, <1>2, <1>4
  <2>2. (n + 1) - 1 = n  BY <1>2
  <2> QED  BY <2>1, <2>2, <1>5, <1>6
<1>9. new = Append(old, m)
  BY <1>1, <1>2, <1>3, <1>4, <1>7, <1>8, AppendIs
<1> QED  BY <1>9 DEF old, new

\* Moving head on drops the oldest message.
LEMMA AdvanceTakesTail ==
    ASSUME NEW b, NEW h, NEW t, NEW c, IsRing(b, h, t, c), h # t,
           NEW h2, h2 = IF h + 1 >= c THEN 0 ELSE h + 1
    PROVE  /\ Between(b, h, t, c) # <<>>
           /\ Head(Between(b, h, t, c)) = b[h]
           /\ Between(b, h2, t, c) = Tail(Between(b, h, t, c))
<1> DEFINE n == Distance(h, t, c)
           old == Between(b, h, t, c)
           new == Between(b, h2, t, c)
<1>0. IsRing(b, h2, t, c)  BY DEF IsRing
<1>1. n \in Nat \ {0} /\ Distance(h2, t, c) = n - 1  BY DEF IsRing, Distance
<1>2. old \in Seq(Slots) /\ Len(old) = n
      /\ \A i \in 1 .. n : old[i] = b[Slot(h, i - 1, c)]
  BY BetweenSeq
<1>3. new \in Seq(Slots) /\ Len(new) = Distance(h2, t, c)
      /\ \A i \in 1 .. Distance(h2, t, c) : new[i] = b[Slot(h2, i - 1, c)]
  BY <1>0, BetweenSeq
<1>4. Slot(h, 0, c) = h  BY SlotValue DEF IsRing
<1>5. \A i \in 1 .. n - 1 : Slot(h2, i - 1, c) = Slot(h, i, c)
  <2>1. n \in 0 .. c - 1 /\ c \in Nat  BY LiveSlots DEF IsRing
  <2>2. \A i \in 1 .. n - 1 : i \in 0 .. c - 1 /\ i - 1 \in 0 .. c - 1
    BY <1>1, <2>1
  <2>3. \A i \in 1 .. n - 1 :
          /\ Slot(h, i, c) = IF h + i < c THEN h + i ELSE h + i - c
          /\ Slot(h2, i - 1, c) = IF h2 + (i - 1) < c THEN h2 + (i - 1)
                                  ELSE h2 + (i - 1) - c
    BY <1>0, <2>2, SlotValue DEF IsRing
  <2> QED  BY <1>1, <2>1, <2>2, <2>3 DEF IsRing
<1> HIDE DEF old, new, n
<1>6. old # <<>>  BY <1>1, <1>2, EmptySeq
<1>7. Head(old) = b[h]
  <2>1. old[1] = b[Slot(h, 1 - 1, c)]  BY <1>1, <1>2
  <2>2. Head(old) = old[1]  BY <1>2, <1>6
  <2> QED  BY <1>4, <2>1, <2>2
<1>8. \A i \in 1 .. n - 1 : new[i] = old[i + 1]
  <2> TAKE i \in 1 .. n - 1
  <2>1. i + 1 \in 1 .. n /\ (i + 1) - 1 = i  BY <1>1
  <2>2. old[i + 1] = b[Slot(h, i, c)]  BY <1>2, <2>1
  <2>3. new[i] = b[Slot(h2, i - 1, c)]  BY <1>1, <1>3
  <2> QED  BY <1>5, <2>2, <2>3
<1>9. new = Tail(old)
  BY <1>1, <1>2, <1>3, <1>6, <1>8, TailIs
<1> QED  BY <1>6, <1>7, <1>9 DEF old, new

-----------------------------------------------------------------------------
\* A full buffer moved to one of twice the size is a ring again.
LEMMA ExpandedRing ==
    ASSUME RingOK, NEW b \in [0 .. cap - 1 -> Slots]
    PROVE  IsRing(Expanded(b), 0, cap, 2 * cap)
<1>1. \A i \in 0 .. cap - 1 : Slot(head, i, cap) \in 0 .. cap - 1
  <2> TAKE i \in 0 .. cap - 1
  <2>1. Slot(head, i, cap) = IF head + i < cap THEN head + i ELSE head + i - cap
    BY SlotValue DEF RingOK, IsRing
  <2> QED  BY <2>1 DEF RingOK, IsRing
<1> QED  BY <1>1 DEF Expanded, RingOK, IsRing, Slots

\* expand_queue keeps the messages and their order: the cap - 1 messages the ring
\* held and the one just stored at tail.
LEMMA ExpandAppends ==
    ASSUME RingOK, NEW m \in Msgs, head = Succ(tail),
           NEW filled, filled = [queue EXCEPT ![tail] = m]
    PROVE  Between(Expanded(filled), 0, cap, 2 * cap) = Append(Contents, m)
<1> DEFINE new == Between(Expanded(filled), 0, cap, 2 * cap)
           n == Distance(head, tail, cap)
<1>1. n = cap - 1 /\ n \in Nat /\ cap \in Nat
  BY DEF RingOK, IsRing, Succ, Distance
<1>2. tail \in 0 .. cap - 1 /\ queue \in [0 .. cap - 1 -> Slots]
  BY DEF RingOK, IsRing, Slots
<1>3. filled \in [0 .. cap - 1 -> Slots]  BY <1>2 DEF Slots
<1>4. IsRing(Expanded(filled), 0, cap, 2 * cap)  BY <1>3, ExpandedRing
<1>5. Distance(0, cap, 2 * cap) = cap  BY <1>1 DEF Distance
<1>6. new \in Seq(Slots) /\ Len(new) = Distance(0, cap, 2 * cap)
      /\ \A i \in 1 .. Distance(0, cap, 2 * cap) :
            new[i] = Expanded(filled)[Slot(0, i - 1, 2 * cap)]
  BY ONLY <1>4, BetweenSeq
<1>7. \A i \in 1 .. cap : Slot(0, i - 1, 2 * cap) = i - 1
  <2> TAKE i \in 1 .. cap
  <2>1. /\ 2 * cap \in Nat \ {0} /\ 0 \in 0 .. 2 * cap - 1
        /\ i - 1 \in 0 .. 2 * cap - 1 /\ 0 + (i - 1) < 2 * cap
    BY <1>1
  <2> QED  BY <2>1, SlotValue
<1>8. Contents \in Seq(Slots) /\ Len(Contents) = n
      /\ \A i \in 1 .. n : Contents[i] = queue[Slot(head, i - 1, cap)]
  BY BetweenSeq DEF RingOK, Contents
<1>9. /\ Slot(head, n, cap) = tail
      /\ \A i \in 1 .. n : /\ Slot(head, i - 1, cap) \in 0 .. cap - 1
                          /\ Slot(head, i - 1, cap) # tail
  BY <1>1, LiveSlots DEF RingOK
<1> HIDE DEF new, n
<1>10. \A i \in 1 .. cap : new[i] = filled[Slot(head, i - 1, cap)]
  <2> TAKE i \in 1 .. cap
  <2>1. new[i] = Expanded(filled)[i - 1]  BY <1>5, <1>6, <1>7
  <2>2. i - 1 \in 0 .. 2 * cap - 1 /\ i - 1 < cap  BY <1>1
  <2> QED  BY <2>1, <2>2 DEF Expanded
<1>11. \A i \in 1 .. n : new[i] = Contents[i]
  <2> TAKE i \in 1 .. n
  <2>1. i \in 1 .. cap  BY <1>1
  <2>2. new[i] = filled[Slot(head, i - 1, cap)]  BY <1>10, <2>1
  <2>3. filled[Slot(head, i - 1, cap)] = queue[Slot(head, i - 1, cap)]
    BY <1>2, <1>9
  <2> QED  BY <1>8, <2>2, <2>3
<1>12. new[n + 1] = m
  <2>1. n + 1 \in 1 .. cap /\ (n + 1) - 1 = n  BY <1>1
  <2>2. new[n + 1] = filled[Slot(head, n, cap)]  BY <1>10, <2>1
  <2> QED  BY <1>2, <1>9, <2>2
<1>13. new = Append(Contents, m)
  BY <1>1, <1>5, <1>6, <1>8, <1>11, <1>12, AppendIs
<1> QED  BY <1>13 DEF new

-----------------------------------------------------------------------------
\* The steps of skynet_mq_push and skynet_mq_pop keep the ring in range.
LEMMA RingInit == Init => RingOK
BY CapAssumption DEF Init, RingOK, IsRing

\* skynet_mq_push leaves head and tail in the ring, also when it doubles the buffer.
LEMMA RingPush ==
    ASSUME RingOK, NEW m \in Msgs, Push(m)
    PROVE  RingOK'
<1> DEFINE filled == [queue EXCEPT ![tail] = m]
<1>1. filled \in [0 .. cap - 1 -> Slots]  BY DEF RingOK, IsRing, Slots
<1>2. CASE head # Succ(tail)
  BY <1>1, <1>2 DEF Push, RingOK, IsRing, Succ, Slots
<1>3. CASE head = Succ(tail)
  <2>1. cap' = 2 * cap /\ head' = 0 /\ tail' = cap /\ queue' = Expanded(filled)
    BY <1>3 DEF Push
  <2>2. IsRing(Expanded(filled), 0, cap, 2 * cap)  BY <1>1, ExpandedRing
  <2> QED  BY <2>1, <2>2 DEF RingOK
<1> QED  BY <1>2, <1>3

\* So does every step.
LEMMA RingNext ==
    ASSUME RingOK, [Next]_vars
    PROVE  RingOK'
<1>1. CASE UNCHANGED vars  BY <1>1 DEF vars, ring, RingOK
<1>2. ASSUME NEW m \in Msgs, Push(m) PROVE RingOK'  BY <1>2, RingPush
<1>3. ASSUME NEW w \in Workers, PopMessage(w) PROVE RingOK'
  BY <1>3 DEF PopMessage, RingOK, IsRing, Succ
<1>4. ASSUME NEW w \in Workers,
             PopEmpty(w) \/ TestOverload(w) \/ CopyOverload(w) \/ ReportOverload(w)
      PROVE  RingOK'
  BY <1>4 DEF PopEmpty, TestOverload, CopyOverload, ReportOverload, ring, RingOK
<1> QED  BY <1>1, <1>2, <1>3, <1>4 DEF Next

\* head, tail and every buffer access stay inside the buffer, for every capacity.
THEOREM RingInRange == Spec => []RingOK
BY RingInit, RingNext, PTL DEF Spec

\* skynet_mq_push and skynet_mq_pop, with the buffer wrapping and growing under
\* them, implement a first-in first-out queue of any length.
THEOREM QueueImplementsFifo == Spec => ImplementsFifo
<1>1. Init => Abstract!Init
  <2> SUFFICES ASSUME Init PROVE Abstract!Init  OBVIOUS
  <2>1. RingOK /\ Distance(head, tail, cap) = 0
    BY RingInit DEF Init, Distance
  <2>2. Contents \in Seq(Slots) /\ Len(Contents) = 0
    BY <2>1, BetweenSeq DEF RingOK, Contents
  <2> QED  BY <2>2, EmptySeq DEF Init, Abstract!Init
<1>2. RingOK /\ RingOK' /\ [Next]_vars => [Abstract!Next]_(Abstract!vars)
  <2> SUFFICES ASSUME RingOK, RingOK', [Next]_vars
               PROVE  [Abstract!Next]_(Abstract!vars)
    OBVIOUS
  <2>1. CASE UNCHANGED vars
    BY <2>1 DEF vars, ring, Contents, Abstract!vars
  <2>2. ASSUME NEW m \in Msgs, Push(m) PROVE Abstract!Next
    <3>1. Contents' = Append(Contents, m)
      <4>1. CASE head # Succ(tail)
        BY <2>2, <4>1, StoreAppends DEF Push, Contents, RingOK, Succ
      <4>2. CASE head = Succ(tail)
        BY <2>2, <4>2, ExpandAppends DEF Push, Contents
      <4> QED  BY <4>1, <4>2
    <3>2. out' = out  BY <2>2 DEF Push
    <3> QED  BY <3>1, <3>2 DEF Abstract!Next, Abstract!Put
  <2>3. ASSUME NEW w \in Workers, PopMessage(w) PROVE Abstract!Next
    <3>1. Contents # <<>> /\ Head(Contents) = queue[head] /\ Contents' = Tail(Contents)
      BY <2>3, AdvanceTakesTail DEF PopMessage, Contents, RingOK, Succ
    <3> QED
      BY <2>3, <3>1 DEF PopMessage, Abstract!Next, Abstract!Take
  <2>4. ASSUME NEW w \in Workers, PopEmpty(w) PROVE Abstract!Next
    <3>1. Distance(head, tail, cap) = 0
      BY <2>4 DEF PopEmpty, RingOK, IsRing, Distance
    <3>2. Contents = <<>>
      BY <3>1, BetweenSeq, EmptySeq DEF RingOK, Contents
    <3>3. Contents' = Contents  BY <2>4 DEF PopEmpty, ring, Contents
    <3> QED
      BY <2>4, <3>2, <3>3 DEF PopEmpty, Abstract!Next, Abstract!FindEmpty
  <2>5. ASSUME NEW w \in Workers,
               TestOverload(w) \/ CopyOverload(w) \/ ReportOverload(w)
        PROVE  UNCHANGED Abstract!vars
    BY <2>5 DEF TestOverload, CopyOverload, ReportOverload, ring, Contents, Abstract!vars
  <2> QED  BY <2>1, <2>2, <2>3, <2>4, <2>5 DEF Next
<1> QED
  BY <1>1, <1>2, RingInRange, PTL DEF Spec, ImplementsFifo, Abstract!Spec

-----------------------------------------------------------------------------
(* The overload threshold *)

\* The loop of skynet_mq_pop ends: for every length there is a function that
\* satisfies the equation ThresholdFor is defined by.
LEMMA DoublingExists ==
    ASSUME NEW length \in Nat
    PROVE  \E f : f = [t \in Nat |-> IF length <= t THEN t ELSE f[2 * t]]
<1> DEFINE Enough(t) == {u \in Doublings(t) : length <= u}
           Least(S) == CHOOSE u \in S : \A v \in S : u <= v
           f == [t \in Nat |-> Least(Enough(t))]
<1>1. ASSUME NEW t \in Nat, length <= t PROVE f[t] = t
  <2>1. t \in Enough(t) /\ \A v \in Enough(t) : t <= v
    BY <1>1, DoublingsStep, DoublingsAbove
  <2>2. \A u \in Enough(t) : (\A v \in Enough(t) : u <= v) => u = t
    BY <2>1 DEF Doublings
  <2>3. Least(Enough(t)) = t
    <3> HIDE DEF Enough
    <3> QED  BY <2>1, <2>2
  <2> QED  BY <2>3
<1>2. ASSUME NEW t \in Nat, ~(length <= t) PROVE f[t] = f[2 * t]
  <2>1. Enough(t) = Enough(2 * t)  BY <1>2, DoublingsStep
  <2>2. 2 * t \in Nat  OBVIOUS
  <2> HIDE DEF Enough
  <2> QED  BY <2>1, <2>2
<1> HIDE DEF f
<1>3. f = [t \in Nat |-> f[t]]  BY DEF f
<1>4. f = [t \in Nat |-> IF length <= t THEN t ELSE f[2 * t]]
  BY <1>1, <1>2, <1>3
<1> QED  BY <1>4

\* The threshold skynet_mq_pop leaves covers the length it was computed for and
\* is no lower than before.
LEMMA ThresholdCovers ==
    ASSUME overload_threshold \in Nat \ {0}, NEW length \in Nat
    PROVE  /\ ThresholdFor(length) \in Nat \ {0}
           /\ length <= ThresholdFor(length)
           /\ overload_threshold <= ThresholdFor(length)
<1> DEFINE doubled == CHOOSE f : f = [t \in Nat |-> IF length <= t THEN t ELSE f[2 * t]]
<1>1. ThresholdFor(length) = doubled[overload_threshold]  BY DEF ThresholdFor
<1>2. doubled = [t \in Nat |-> IF length <= t THEN t ELSE doubled[2 * t]]
  BY DoublingExists
<1> HIDE DEF doubled
<1>3. \A t \in Nat : doubled[t] = IF length <= t THEN t ELSE doubled[2 * t]
  BY <1>2
<1> DEFINE Good(t) == doubled[t] \in Nat \ {0} /\ length <= doubled[t] /\ t <= doubled[t]
           Left == {n \in Nat : \E t \in Nat \ {0} : t < length /\ n = length - t /\ ~Good(t)}
<1>4. \A t \in Nat \ {0} : length <= t => Good(t)  BY <1>3
<1>5. Left = {}
  <2> SUFFICES ASSUME Left # {} PROVE FALSE  OBVIOUS
  <2>1. PICK n \in Left : \A m \in Left : n <= m
    <3>1. Left \in SUBSET Nat  OBVIOUS
    <3> HIDE DEF Left
    <3> QED  BY <3>1, LeastElement
  <2>2. PICK t \in Nat \ {0} : t < length /\ n = length - t /\ ~Good(t)  OBVIOUS
  <2>3. doubled[t] = doubled[2 * t]  BY <1>3, <2>2
  <2>4. Good(2 * t)
    <3>1. CASE length <= 2 * t  BY <1>4, <3>1
    <3>2. CASE 2 * t < length /\ ~Good(2 * t)
      <4>1. length - 2 * t \in Left  BY <3>2
      <4>2. n <= length - 2 * t  BY <2>1, <4>1
      <4> QED  BY <2>2, <4>2
    <3> QED  BY <3>1, <3>2
  <2> QED  BY <2>2, <2>3, <2>4
<1>6. Good(overload_threshold)
  <2>1. CASE length <= overload_threshold  BY <1>4, <2>1
  <2>2. CASE overload_threshold < length /\ ~Good(overload_threshold)
    <3>1. length - overload_threshold \in Left  BY <2>2
    <3> QED  BY <1>5, <3>1
  <2> QED  BY <2>1, <2>2
<1> QED  BY <1>1, <1>6

-----------------------------------------------------------------------------
(* The warning of an overload *)

\* The length skynet_mq_pop computes is a number.
LEMMA PopLength ==
    ASSUME RingOK, NEW w \in Workers, PopMessage(w)
    PROVE  Distance(head', tail, cap) \in Nat
BY DEF RingOK, IsRing, PopMessage, Succ, Distance

\* What skynet_mq_pop does to the overload and its threshold: the threshold never
\* falls, and it covers the length where that is reported.
LEMMA PopLevels ==
    ASSUME TypeOK, NEW w \in Workers, PopMessage(w)
    PROVE  /\ overload_threshold' \in Nat \ {0}
           /\ overload_threshold <= overload_threshold'
           /\ \/ overload' = overload
              \/ /\ overload' \in Nat
                 /\ overload_threshold < overload'
                 /\ overload' <= overload_threshold'
<1> DEFINE length == Distance(head', tail, cap)
<1>1. length \in Nat  BY PopLength DEF TypeOK
<1>2. overload_threshold \in Nat \ {0}  BY DEF TypeOK
<1>3. /\ overload' = IF length > overload_threshold THEN length ELSE overload
      /\ overload_threshold' = ThresholdFor(length)
  BY DEF PopMessage
<1> HIDE DEF length
<1>4. /\ ThresholdFor(length) \in Nat \ {0}
      /\ length <= ThresholdFor(length)
      /\ overload_threshold <= ThresholdFor(length)
  BY <1>1, <1>2, ThresholdCovers
<1> QED  BY <1>1, <1>2, <1>3, <1>4

\* The fields of a new queue have their types.
LEMMA TypeInit == Init => TypeOK
BY RingInit, OverloadAssumption DEF Init, TypeOK

\* Every step keeps the types, that of the threshold after it was doubled in a loop included.
LEMMA TypeNext ==
    ASSUME TypeOK, [Next]_vars
    PROVE  TypeOK'
<1>1. RingOK'  BY RingNext DEF TypeOK
<1>2. CASE UNCHANGED vars  BY <1>1, <1>2 DEF vars, level, TypeOK
<1>3. ASSUME NEW m \in Msgs, Push(m) PROVE TypeOK'
  BY <1>1, <1>3 DEF Push, level, TypeOK
<1>4. ASSUME NEW w \in Workers, PopMessage(w) PROVE TypeOK'
  <2>1. overload' \in Nat /\ overload_threshold' \in Nat \ {0}
    BY <1>4, PopLevels DEF TypeOK
  <2>2. out' \in Msgs \union {NoMsg}
    BY <1>4 DEF PopMessage, TypeOK, RingOK, IsRing
  <2> QED  BY <1>1, <1>4, <2>1, <2>2 DEF PopMessage, TypeOK
<1>5. ASSUME NEW w \in Workers, PopEmpty(w) PROVE TypeOK'
  BY <1>1, <1>5, OverloadAssumption DEF PopEmpty, TypeOK
<1>6. ASSUME NEW w \in Workers, TestOverload(w) \/ CopyOverload(w) \/ ReportOverload(w)
      PROVE  TypeOK'
  BY <1>1, <1>6 DEF TestOverload, CopyOverload, ReportOverload, level, TypeOK
<1> QED  BY <1>2, <1>3, <1>4, <1>5, <1>6 DEF Next

\* The queue's fields and the workers' variables keep their types; in particular
\* the threshold, which a loop doubles, is always a positive number.
THEOREM TypeCorrect == Spec => []TypeOK
BY TypeInit, TypeNext, PTL DEF Spec

\* No worker leaves skynet_mq_overload with the field set: of any number of
\* workers whose pops and tests interleave, the one that set it, or another that
\* is not idle, still has to read it.
OverloadCleared == (\A w \in Workers : Idle(w)) => overload = 0

\* What is owed has been read by a worker that is about to report it, or is still in the
\* field, or a longer length, while nobody is about to clear it.
OwedKept ==
    owed # 0 =>
        \/ \E w \in Workers : pc[w] = "clear" /\ local[w] >= owed
        \/ overload >= owed /\ \A w \in Workers : pc[w] # "clear"

\* The field is 0 once all workers are idle.
LEMMA OverloadClearedNext ==
    ASSUME TypeOK, OverloadCleared, [Next]_vars
    PROVE  OverloadCleared'
<1>1. CASE UNCHANGED vars  BY <1>1 DEF vars, level, OverloadCleared, Idle
<1>2. ASSUME NEW m \in Msgs, Push(m) PROVE OverloadCleared'
  BY <1>2 DEF Push, level, OverloadCleared, Idle
<1>3. ASSUME NEW w \in Workers, PopMessage(w) PROVE OverloadCleared'
  BY <1>3 DEF PopMessage, TypeOK, OverloadCleared, Idle
<1>4. ASSUME NEW w \in Workers, PopEmpty(w) PROVE OverloadCleared'
  BY <1>4 DEF PopEmpty, OverloadCleared, Idle
<1>5. ASSUME NEW w \in Workers, TestOverload(w) PROVE OverloadCleared'
  BY <1>5 DEF TestOverload, level, TypeOK, OverloadCleared, Idle
<1>6. ASSUME NEW w \in Workers, CopyOverload(w) PROVE OverloadCleared'
  BY <1>6 DEF CopyOverload, level, TypeOK, OverloadCleared, Idle
<1>7. ASSUME NEW w \in Workers, ReportOverload(w) PROVE OverloadCleared'
  BY <1>7 DEF ReportOverload, OverloadCleared, Idle
<1> QED  BY <1>1, <1>2, <1>3, <1>4, <1>5, <1>6, <1>7 DEF Next

\* What is owed stays in the field or in a worker's hands until it is reported.
LEMMA OwedKeptNext ==
    ASSUME TypeOK, OwedKept, [Next]_vars
    PROVE  OwedKept'
<1>1. CASE UNCHANGED vars  BY <1>1 DEF vars, level, OwedKept
<1>2. ASSUME NEW m \in Msgs, Push(m) PROVE OwedKept'
  BY <1>2 DEF Push, level, OwedKept
<1>3. ASSUME NEW w \in Workers, PopMessage(w) PROVE OwedKept'
  <2> DEFINE length == Distance(head', tail, cap)
             noticed == length > overload_threshold
             Quiet == \A v \in Workers : pc[v] # "clear"
  <2>1. /\ overload' = IF noticed THEN length ELSE overload
        /\ owed' = IF noticed /\ Quiet THEN length ELSE owed
    BY <1>3 DEF PopMessage
  <2>2. /\ pc[w] = "idle" /\ pc' = [pc EXCEPT ![w] = "test"] /\ local' = local
    BY <1>3 DEF PopMessage, MayPop, Idle
  <2>3. \A v \in Workers : pc'[v] = "clear" <=> pc[v] = "clear"
    BY <2>2 DEF TypeOK
  <2>4. length \in Nat  BY <1>3, PopLength DEF TypeOK
  <2> HIDE DEF length
  <2>5. CASE noticed /\ Quiet  BY <2>1, <2>3, <2>4, <2>5 DEF OwedKept
  <2>6. CASE ~(noticed /\ Quiet)
    <3>1. owed' = owed  BY <2>1, <2>6
    <3>2. CASE Quiet
      <4>1. overload' = overload  BY <2>1, <2>6, <3>2
      <4> QED  BY <2>2, <2>3, <3>1, <3>2, <4>1 DEF OwedKept
    <3>3. CASE ~Quiet
      BY <2>2, <2>3, <3>1, <3>3 DEF OwedKept
    <3> QED  BY <3>2, <3>3
  <2> QED  BY <2>5, <2>6
<1>4. ASSUME NEW w \in Workers, PopEmpty(w) PROVE OwedKept'
  BY <1>4 DEF PopEmpty, OwedKept
<1>5. ASSUME NEW w \in Workers, TestOverload(w) PROVE OwedKept'
  BY <1>5 DEF TestOverload, level, TypeOK, OwedKept
<1>6. ASSUME NEW w \in Workers, CopyOverload(w) PROVE OwedKept'
  <2>1. /\ pc[w] = "copy" /\ pc' = [pc EXCEPT ![w] = "clear"]
        /\ local' = [local EXCEPT ![w] = overload] /\ owed' = owed /\ overload' = overload
    BY <1>6 DEF CopyOverload, level
  <2>2. \A v \in Workers : v # w => pc'[v] = pc[v] /\ local'[v] = local[v]
    BY <2>1 DEF TypeOK
  <2>3. pc'[w] = "clear" /\ local'[w] = overload  BY <2>1 DEF TypeOK
  <2>4. CASE \E v \in Workers : pc[v] = "clear" /\ local[v] >= owed
    BY <2>1, <2>2, <2>4 DEF OwedKept
  <2>5. CASE overload >= owed
    BY <2>1, <2>3, <2>5 DEF OwedKept
  <2> QED  BY <2>1, <2>4, <2>5 DEF OwedKept
<1>7. ASSUME NEW w \in Workers, ReportOverload(w) PROVE OwedKept'
  <2>1. /\ pc[w] = "clear" /\ pc' = [pc EXCEPT ![w] = "idle"]
        /\ local' = [local EXCEPT ![w] = 0]
        /\ owed' = IF local[w] >= owed THEN 0 ELSE owed
    BY <1>7 DEF ReportOverload
  <2>2. CASE local[w] >= owed  BY <2>1, <2>2 DEF OwedKept
  <2>3. CASE ~(local[w] >= owed)
    <3>1. owed' = owed  BY <2>1, <2>3
    <3>2. CASE owed = 0  BY <3>1, <3>2 DEF OwedKept
    <3>3. CASE owed # 0
      <4>1. PICK v \in Workers : pc[v] = "clear" /\ local[v] >= owed
        BY <2>1, <3>3 DEF OwedKept
      <4>2. v # w  BY <2>3, <4>1
      <4>3. pc'[v] = "clear" /\ local'[v] >= owed'
        BY <2>1, <3>1, <4>1, <4>2 DEF TypeOK
      <4> QED  BY <4>3 DEF OwedKept
    <3> QED  BY <3>2, <3>3
  <2> QED  BY <2>2, <2>3
<1> QED  BY <1>1, <1>2, <1>3, <1>4, <1>5, <1>6, <1>7 DEF Next

\* With any number of workers whose pops, reads and clears interleave: once all of them are
\* idle the field is 0 and every overload noticed while nobody was about to clear it has been
\* reported, or a longer one since.
THEOREM OverloadIsReported == Spec => []OverloadReported
<1>1. Init => OverloadCleared /\ OwedKept
  BY DEF Init, OverloadCleared, OwedKept
<1>2. TypeOK /\ OverloadCleared /\ OwedKept => OverloadReported
  <2> SUFFICES ASSUME TypeOK, OverloadCleared, OwedKept, \A w \in Workers : Idle(w)
               PROVE  overload = 0 /\ owed = 0
    BY DEF OverloadReported
  <2>1. overload = 0  BY DEF OverloadCleared
  <2>2. \A w \in Workers : pc[w] # "clear"  BY DEF Idle
  <2>3. owed \in Nat  BY DEF TypeOK
  <2> QED  BY <2>1, <2>2, <2>3 DEF OwedKept
<1>3. Spec => [](OverloadCleared /\ OwedKept)
  BY <1>1, OverloadClearedNext, OwedKeptNext, TypeCorrect, PTL DEF Spec
<1> QED  BY <1>2, <1>3, TypeCorrect, PTL

\* A worker never leaves the field set behind it, reported or not.
THEOREM OverloadAlwaysCleared == Spec => []OverloadCleared
<1>1. Init => OverloadCleared  BY DEF Init, OverloadCleared
<1> QED  BY <1>1, OverloadClearedNext, TypeCorrect, PTL DEF Spec

\* Where the next warning stands while one worker dispatches the queue: what was
\* last reported is covered by the threshold, and an overload noted or copied is
\* above what was reported and covered too.
Alone == \A v, w \in Workers : ~Idle(v) /\ ~Idle(w) => v = w
WarnedBelow ==
    /\ warned <= overload_threshold
    /\ overload # 0 => warned < overload /\ overload <= overload_threshold
    /\ \A w \in Workers :
          /\ pc[w] = "copy" => overload # 0
          /\ pc[w] = "clear" => warned < local[w] /\ local[w] <= overload_threshold
          /\ pc[w] # "clear" => local[w] = 0
OneDispatches == ~concurrent => Alone /\ WarnedBelow

\* A queue that one worker dispatches stays with that worker.
LEMMA OneDispatchesNext ==
    ASSUME TypeOK, OverloadCleared, OneDispatches, [Next]_vars
    PROVE  OneDispatches'
<1> SUFFICES ASSUME ~concurrent', concurrent' = concurrent
             PROVE  Alone' /\ WarnedBelow'
  <2>1. concurrent' = concurrent
    BY DEF vars, Next, Push, PopMessage, PopEmpty, TestOverload, CopyOverload,
           ReportOverload
  <2> QED  BY <2>1 DEF OneDispatches
<1>0. Alone /\ WarnedBelow  BY DEF OneDispatches
<1>1. CASE UNCHANGED vars
  BY <1>0, <1>1 DEF vars, level, Alone, WarnedBelow, Idle
<1>2. ASSUME NEW m \in Msgs, Push(m) PROVE Alone' /\ WarnedBelow'
  BY <1>0, <1>2 DEF Push, level, Alone, WarnedBelow, Idle
<1>3. ASSUME NEW w \in Workers, PopMessage(w) PROVE Alone' /\ WarnedBelow'
  <2>1. \A v \in Workers : pc[v] = "idle"  BY <1>3 DEF PopMessage, MayPop, Idle
  <2>2. pc' = [pc EXCEPT ![w] = "test"] /\ local' = local /\ warned' = warned
    BY <1>3 DEF PopMessage
  <2>3. overload = 0  BY <2>1 DEF OverloadCleared, Idle
  <2>4. Alone'  BY <2>1, <2>2 DEF Alone, Idle, TypeOK
  <2>5. /\ warned' <= overload_threshold'
        /\ overload' # 0 => warned' < overload' /\ overload' <= overload_threshold'
    BY <1>0, <1>3, <2>2, <2>3, PopLevels DEF WarnedBelow, TypeOK
  <2> QED  BY <1>0, <2>1, <2>2, <2>4, <2>5 DEF WarnedBelow, TypeOK
<1>4. ASSUME NEW w \in Workers, PopEmpty(w) PROVE Alone' /\ WarnedBelow'
  <2>1. \A v \in Workers : pc[v] = "idle"  BY <1>4 DEF PopEmpty, MayPop, Idle
  <2>2. overload = 0  BY <2>1 DEF OverloadCleared, Idle
  <2> QED
    BY <1>0, <1>4, <2>1, <2>2, OverloadAssumption
    DEF PopEmpty, Alone, WarnedBelow, Idle, TypeOK
<1>5. ASSUME NEW w \in Workers, TestOverload(w) PROVE Alone' /\ WarnedBelow'
  BY <1>0, <1>5 DEF TestOverload, level, Alone, WarnedBelow, Idle, TypeOK
<1>6. ASSUME NEW w \in Workers, CopyOverload(w) PROVE Alone' /\ WarnedBelow'
  <2>1. Alone'  BY <1>0, <1>6 DEF CopyOverload, Alone, Idle, TypeOK
  <2> QED  BY <1>0, <1>6, <2>1 DEF CopyOverload, level, WarnedBelow, TypeOK
<1>7. ASSUME NEW w \in Workers, ReportOverload(w) PROVE Alone' /\ WarnedBelow'
  <2>1. \A v \in Workers : v # w => pc[v] = "idle"
    BY <1>0, <1>7 DEF ReportOverload, Alone, Idle
  <2>2. Alone'  BY <1>7, <2>1 DEF ReportOverload, Alone, Idle, TypeOK
  <2> QED
    BY <1>0, <1>7, <2>1, <2>2 DEF ReportOverload, WarnedBelow, TypeOK
<1> QED  BY <1>1, <1>2, <1>3, <1>4, <1>5, <1>6, <1>7 DEF Next

\* With one dispatching worker, each warning until the queue is next seen empty is of a
\* longer backlog than the one before; none is repeated.
THEOREM WarningsOnlyRise == Spec => WarningsRise
<1>1. Init => OneDispatches
  BY OverloadAssumption DEF Init, OneDispatches, Alone, WarnedBelow, Idle
<1>2. ASSUME OneDispatches, NEW w \in Workers, ~concurrent, Warns(w)
      PROVE  local[w] > warned
  <2>1. WarnedBelow  BY <1>2 DEF OneDispatches
  <2> QED  BY <1>2, <2>1 DEF WarnedBelow, Warns
<1>3. Spec => []OneDispatches
  BY <1>1, OneDispatchesNext, TypeCorrect, OverloadAlwaysCleared, PTL DEF Spec
<1>4. OneDispatches =>
          [\A w \in Workers : ~concurrent /\ Warns(w) => local[w] > warned]_vars
  BY <1>2
<1> QED  BY <1>3, <1>4, PTL DEF WarningsRise
=============================================================================
