--------------------------- MODULE TimerGateProofs ---------------------------
(***************************************************************************)
(* What the timer and the gate keep: two components that share nothing but  *)
(* the numbers, spans of places and recursive functions that the lemmas of  *)
(* the first parts are about.                                               *)
(*                                                                          *)
(* The timer.  The wheel's invariant, and that the wheel implements the     *)
(* calendar of AlarmCalendar, for every size of its levels.  The first      *)
(* parts are about numbers: quotients, the spans of the levels (each the    *)
(* one below times Level), the slot add_node finds, the ticks that remain   *)
(* to a time.  Stays is what they come to: a tick moves add_node's answer   *)
(* for an alarm only when the alarm is in the slot that timer_shift         *)
(* cascades at that tick.  The next parts are about lists: what Due finds   *)
(* in one, and where move_list leaves its nodes.  Both are functions        *)
(* defined by recursion, which Recursion shows to exist.  Then come the     *)
(* invariant, one lemma for each action, and the refinement.                *)
(*                                                                          *)
(* The gate.  First hashid: a walk along a bucket's chain is such a         *)
(* function too, and TableOK says what the chains are; insert, remove and   *)
(* the search for a free entry keep it, for every hash and size.  From it   *)
(* come GateIInv, so GateInv and Sessions.  Framing needs more: StreamIInv  *)
(* relates, of every client, the packages forwarded, the bytes and the      *)
(* header in the databuffer (Parsed) and the pieces that wait in the mail,  *)
(* in their order (Waiting), to the one stream the client sends.            *)
(***************************************************************************)
EXTENDS Timer, Gate, FiniteSetTheorems, FunctionTheorems, SequenceTheorems, WellFoundedInduction, TLAPS

-----------------------------------------------------------------------------
(* Quotients and remainders *)

\* The next multiple of m.
LEMMA MulGe ==
    ASSUME NEW m \in Nat, NEW q \in Int, NEW r \in Int, q < r
    PROVE  q * m + m <= r * m
OBVIOUS

\* Quotient and remainder.
LEMMA DivMod ==
    ASSUME NEW x \in Int, NEW m \in Nat \ {0}
    PROVE  /\ x % m \in 0 .. m - 1
           /\ x \div m \in Int
           /\ x = (x \div m) * m + (x % m)
OBVIOUS

\* They are known by any number of multiples that leaves less than one more.
LEMMA DivIs ==
    ASSUME NEW m \in Nat \ {0}, NEW q \in Int, NEW r \in 0 .. m - 1,
           NEW x, x = q * m + r
    PROVE  x \div m = q /\ x % m = r
<1>0. x \in Int  OBVIOUS
<1> PICK p, s : p = x \div m /\ s = x % m  OBVIOUS
<1>1. p \in Int /\ x = p * m + s /\ s \in 0 .. m - 1
  BY <1>0, DivMod
<1>2. ~(p < q)
  <2> SUFFICES ASSUME p < q PROVE FALSE  OBVIOUS
  <2>1. p * m + m <= q * m  BY <1>1, MulGe
  <2> QED  BY <1>1, <2>1
<1>3. ~(q < p)
  <2> SUFFICES ASSUME q < p PROVE FALSE  OBVIOUS
  <2>1. q * m + m <= p * m  BY <1>1, MulGe
  <2> QED  BY <1>1, <2>1
<1>4. p = q  BY <1>1, <1>2, <1>3
<1>5. s = r  BY <1>1, <1>4
<1> QED  BY <1>4, <1>5

\* A quotient grows by one at a multiple of m and nowhere else.
LEMMA DivNext ==
    ASSUME NEW m \in Nat \ {0}, NEW x \in Nat
    PROVE  (x + 1) \div m = IF (x + 1) % m = 0 THEN (x \div m) + 1 ELSE x \div m
<1> PICK q, r, y : q = x \div m /\ r = x % m /\ y = x + 1  OBVIOUS
<1>1. q \in Int /\ r \in 0 .. m - 1 /\ x = q * m + r  BY DivMod
<1>2. CASE r = m - 1
  <2> PICK p, z : p = q + 1 /\ z = 0  OBVIOUS
  <2>1. p \in Int /\ z \in 0 .. m - 1 /\ y = p * m + z  BY <1>1, <1>2
  <2>2. y \div m = p /\ y % m = z  BY ONLY <2>1, m \in Nat \ {0}, DivIs
  <2> QED  BY <2>2
<1>3. CASE r # m - 1
  <2> PICK z : z = r + 1  OBVIOUS
  <2>1. z \in 0 .. m - 1 /\ y = q * m + z /\ z # 0  BY <1>1, <1>3
  <2>2. y \div m = q /\ y % m = z  BY ONLY <1>1, <2>1, m \in Nat \ {0}, DivIs
  <2> QED  BY <2>1, <2>2
<1> QED  BY <1>2, <1>3

\* A larger number has no smaller quotient.
LEMMA DivLe ==
    ASSUME NEW m \in Nat \ {0}, NEW x \in Nat, NEW y \in Nat, x <= y
    PROVE  x \div m <= y \div m
<1> PICK p, q, r, s : p = x \div m /\ r = x % m /\ q = y \div m /\ s = y % m  OBVIOUS
<1>1. p \in Int /\ r \in 0 .. m - 1 /\ x = p * m + r  BY DivMod
<1>2. q \in Int /\ s \in 0 .. m - 1 /\ y = q * m + s  BY DivMod
<1>3. ~(q < p)
  <2> SUFFICES ASSUME q < p PROVE FALSE  OBVIOUS
  <2>1. q * m + m <= p * m  BY <1>1, <1>2, MulGe
  <2> QED  BY <1>1, <1>2, <2>1
<1> QED  BY <1>1, <1>2, <1>3

\* Numbers with the same quotient are less than m apart.
LEMMA DivClose ==
    ASSUME NEW m \in Nat \ {0}, NEW x \in Nat, NEW y \in Nat, x \div m = y \div m
    PROVE  y - x < m
<1> PICK p, q, r, s : p = x \div m /\ r = x % m /\ q = y \div m /\ s = y % m  OBVIOUS
<1>1. p \in Int /\ r \in 0 .. m - 1 /\ x = p * m + r  BY DivMod
<1>2. q \in Int /\ s \in 0 .. m - 1 /\ y = q * m + s  BY DivMod
<1>3. p = q  OBVIOUS
<1> QED  BY ONLY <1>1, <1>2, <1>3, m \in Nat \ {0}

\* a product that the provers leave as it is
Product(l, m) == l * m

\* The quotient by a product, and when it leaves nothing.
LEMMA DivDiv ==
    ASSUME NEW x \in Nat, NEW m \in Nat \ {0}, NEW l \in Nat \ {0}
    PROVE  /\ Product(l, m) \in Nat \ {0}
           /\ x \div Product(l, m) = (x \div m) \div l
           /\ x % Product(l, m) = 0 <=> x % m = 0 /\ (x \div m) % l = 0
<1> PICK q, r : q = x \div m /\ r = x % m  OBVIOUS
<1>1. q \in Int /\ r \in 0 .. m - 1 /\ x = q * m + r  BY DivMod
<1> PICK p, s : p = q \div l /\ s = q % l  OBVIOUS
<1>2. p \in Int /\ s \in 0 .. l - 1 /\ q = p * l + s  BY <1>1, DivMod
<1> PICK n : n = l * m  OBVIOUS
<1>3. n \in Nat \ {0}
  <2>1. 0 * m + m <= l * m  BY MulGe
  <2> QED  BY <2>1
<1> PICK k : k = s * m  OBVIOUS
<1>4. k \in Int /\ k + m <= n  BY <1>2, MulGe
<1>5. 0 <= k /\ (s # 0 => m <= k)
  <2>1. CASE s = 0  BY <2>1
  <2>2. CASE s # 0
    <3>1. s \in Int /\ 0 < s  BY <1>2, <2>2
    <3>2. 0 * m + m <= s * m  BY ONLY <3>1, m \in Nat \ {0}, MulGe
    <3> QED  BY <3>2
  <2> QED  BY <2>1, <2>2
<1>6. x = p * n + (k + r)
  <2>1. q * m = (p * l + s) * m  BY <1>2
  <2>2. (p * l + s) * m = p * (l * m) + s * m  BY <1>2
  <2>3. q * m = p * n + k  BY <2>1, <2>2
  <2>4. p * n \in Int  BY <1>2, <1>3
  <2> QED  BY <1>1, <1>4, <2>3, <2>4
<1> PICK z : z = k + r  OBVIOUS
<1>7. z \in 0 .. n - 1 /\ (z = 0 <=> r = 0 /\ s = 0) /\ x = p * n + z
  <2>1. s = 0 => k = 0  OBVIOUS
  <2> QED  BY ONLY <1>1, <1>2, <1>3, <1>4, <1>5, <1>6, <2>1, z = k + r, m \in Nat \ {0}
<1>8. x \div n = p /\ x % n = z  BY ONLY <1>2, <1>3, <1>7, DivIs
<1>9. Product(l, m) = n  BY DEF Product
<1> QED  BY <1>3, <1>7, <1>8, <1>9

\* The remainder of a number that is less than one turn off.
LEMMA ModNear ==
    ASSUME NEW w \in Nat \ {0}, NEW x \in Int
    PROVE  /\ x \in 0 .. w - 1 => x % w = x
           /\ x \in w .. 2 * w - 1 => x % w = x - w
           /\ x \in -w .. -1 => x % w = x + w
<1>1. ASSUME NEW q \in {-1, 0, 1}, NEW r \in 0 .. w - 1, x = q * w + r PROVE x % w = r
  BY ONLY <1>1, w \in Nat \ {0}, DivIs
<1>2. ASSUME x \in 0 .. w - 1 PROVE x % w = x
  BY ONLY <1>1, <1>2, w \in Nat \ {0}
<1>3. ASSUME x \in w .. 2 * w - 1 PROVE x % w = x - w
  <2> PICK r : r = x - w  OBVIOUS
  <2>1. r \in 0 .. w - 1 /\ x = 1 * w + r  BY <1>3
  <2> QED  BY <1>1, <2>1
<1>4. ASSUME x \in -w .. -1 PROVE x % w = x + w
  <2> PICK r : r = x + w  OBVIOUS
  <2>1. r \in 0 .. w - 1 /\ x = (-1) * w + r  BY <1>4
  <2> QED  BY <1>1, <2>1
<1> QED  BY <1>2, <1>3, <1>4
-----------------------------------------------------------------------------
(* The levels of the wheel *)

Levels == 1 .. 4

\* The spans of the levels' slots, each Level times the one before.
LEMMA UnitFacts ==
    /\ Unit[1] = Near
    /\ \A i \in 1 .. 5 : Unit[i] \in Nat \ {0}
    /\ \A i \in Levels : Unit[i + 1] = Product(Level, Unit[i])
    /\ Word = Unit[5] /\ Word \in Nat \ {0}
    /\ Near \in Nat \ {0} /\ Level \in Nat \ {0}
    /\ Delays \subseteq 1 .. Word - Unit[4]
<1> PICK a, b, c, d, e :
       a = Near /\ b = Level * a /\ c = Level * b /\ d = Level * c /\ e = Level * d
  OBVIOUS
<1>1. Unit = <<a, b, c, d, e>>  BY DEF Unit
<1>2. /\ Unit[1] = a /\ Unit[2] = b /\ Unit[3] = c /\ Unit[4] = d /\ Unit[5] = e  BY <1>1
<1>3. Near \in Nat \ {0} /\ Level \in Nat \ {0}  BY SizeAssumption
<1>4. ASSUME NEW x \in Nat \ {0} PROVE Level * x \in Nat \ {0}
  <2>1. Product(Level, x) \in Nat \ {0}  BY <1>3, DivDiv
  <2> QED  BY <2>1 DEF Product
<1>5. a \in Nat \ {0} /\ b \in Nat \ {0} /\ c \in Nat \ {0} /\ d \in Nat \ {0} /\ e \in Nat \ {0}
  BY <1>3, <1>4
<1>6. \A i \in 1 .. 5 : Unit[i] \in Nat \ {0}
  <2> TAKE i \in 1 .. 5
  <2>1. i = 1 \/ i = 2 \/ i = 3 \/ i = 4 \/ i = 5  OBVIOUS
  <2> QED  BY <1>2, <1>5, <2>1
<1>7. \A i \in Levels : Unit[i + 1] = Product(Level, Unit[i])
  <2> TAKE i \in Levels
  <2>1. i = 1 \/ i = 2 \/ i = 3 \/ i = 4  BY DEF Levels
  <2> QED  BY <1>2, <2>1 DEF Product
<1>8. Word = e  BY <1>2 DEF Word
<1>9. Delays \subseteq 1 .. Word - Unit[4]
  BY <1>2, <1>5, <1>8, DelayAssumption DEF Delays
<1> QED  BY <1>2, <1>3, <1>5, <1>6, <1>7, <1>8, <1>9

\* Times are natural numbers in the one window of the fifth level.
LEMMA TimesFacts ==
    /\ Times \subseteq Nat
    /\ \A e, t \in Times : SameWindow(e, t, Unit[5])
<1>1. Word \in Nat \ {0} /\ Word = Unit[5]  BY UnitFacts
<1>2. Times \subseteq Nat  BY <1>1 DEF Times
<1>3. ASSUME NEW e \in Times PROVE e \div Word = 0
  <2> PICK w, z : w = Word /\ z = 0  OBVIOUS
  <2>1. w \in Nat \ {0} /\ z \in Int /\ e \in 0 .. w - 1 /\ e = z * w + e
    BY <1>1 DEF Times
  <2>2. e \div w = z  BY ONLY <2>1, DivIs
  <2> QED  BY <2>2
<1> QED  BY <1>1, <1>2, <1>3 DEF SameWindow

\* A time in the same window of one level is in that of the next; there it is in the
\* same slot or in another, as the windows of the level below are the same or not.
LEMMA NextLevel ==
    ASSUME NEW i \in Levels, NEW e \in Nat, NEW t \in Nat
    PROVE  /\ SameWindow(e, t, Unit[i]) => SameWindow(e, t, Unit[i + 1])
           /\ SameWindow(e, t, Unit[i + 1]) /\ UpperSlot(i, e) = UpperSlot(i, t)
                  => SameWindow(e, t, Unit[i])
           /\ t % Unit[i + 1] = 0 <=> t % Unit[i] = 0 /\ (t \div Unit[i]) % Level = 0
<1> PICK u, v, l : u = Unit[i] /\ v = Unit[i + 1] /\ l = Level  OBVIOUS
<1>1. u \in Nat \ {0} /\ l \in Nat \ {0} /\ v = Product(l, u)
  BY UnitFacts DEF Levels
<1>2. /\ e \div v = (e \div u) \div l
      /\ t \div v = (t \div u) \div l
      /\ t % v = 0 <=> t % u = 0 /\ (t \div u) % l = 0
  <2>1. ASSUME NEW x \in Nat
        PROVE  x \div v = (x \div u) \div l /\ (x % v = 0 <=> x % u = 0 /\ (x \div u) % l = 0)
    BY ONLY <1>1, <2>1, DivDiv
  <2> QED  BY <2>1
<1>3. SameWindow(e, t, u) => SameWindow(e, t, v)
  BY <1>2 DEF SameWindow
<1>4. ASSUME SameWindow(e, t, v), UpperSlot(i, e) = UpperSlot(i, t) PROVE SameWindow(e, t, u)
  <2> PICK p, q : p = e \div u /\ q = t \div u  OBVIOUS
  <2>1. p \in Int /\ q \in Int
    <3>1. ASSUME NEW x \in Nat PROVE x \div u \in Int  BY ONLY <1>1, DivMod
    <3> QED  BY <3>1
  <2>2. p \div l = q \div l /\ p % l = q % l  BY <1>2, <1>4 DEF SameWindow, UpperSlot
  <2>3. p = (p \div l) * l + (p % l)  BY ONLY <1>1, <2>1, DivMod
  <2>4. q = (q \div l) * l + (q % l)  BY ONLY <1>1, <2>1, DivMod
  <2> QED  BY <2>2, <2>3, <2>4 DEF SameWindow
<1> QED  BY <1>2, <1>3, <1>4

\* A window of a level lies in one window of every level above.
LEMMA SameAbove ==
    ASSUME NEW e \in Nat, NEW t \in Nat, NEW i \in 1 .. 5, NEW j \in 1 .. 5, i <= j,
           SameWindow(e, t, Unit[i])
    PROVE  SameWindow(e, t, Unit[j])
<1> DEFINE S(k) == SameWindow(e, t, Unit[k])
<1>1. (S(1) => S(2)) /\ (S(2) => S(3)) /\ (S(3) => S(4)) /\ (S(4) => S(5))
  <2>1. \A k \in Levels : S(k) => S(k + 1)  BY NextLevel
  <2>2. 1 \in Levels /\ 2 \in Levels /\ 3 \in Levels /\ 4 \in Levels  BY DEF Levels
  <2>3. 1 + 1 = 2 /\ 2 + 1 = 3 /\ 3 + 1 = 4 /\ 4 + 1 = 5  OBVIOUS
  <2> QED  BY <2>1, <2>2, <2>3
<1>2. i \in {1, 2, 3, 4, 5} /\ j \in {1, 2, 3, 4, 5}  OBVIOUS
<1>3. S(i)  OBVIOUS
<1> HIDE DEF S
<1>4. S(j)  BY <1>1, <1>2, <1>3
<1> QED  BY <1>4 DEF S

\* add_node finds the level whose window is shared but not the slot.
LEMMA PlaceIs ==
    ASSUME NEW e \in Times, NEW t \in Times
    PROVE  \/ SameWindow(e, t, Near) /\ Place(e, t) = NearSlot(e)
           \/ \E i \in Levels : /\ ~SameWindow(e, t, Unit[i])
                                /\ SameWindow(e, t, Unit[i + 1])
                                /\ Place(e, t) = UpperSlot(i, e)
<1>1. CASE SameWindow(e, t, Near)  BY <1>1 DEF Place
<1>2. CASE ~SameWindow(e, t, Near)
  <2> DEFINE levels == {i \in 1 .. 3 : SameWindow(e, t, Unit[i + 1])} \union {4}
             Least(i) == i \in levels /\ \A j \in levels : i <= j
  <2>1. \E i : Least(i)
    <3>1. levels \in SUBSET (1 .. 4) /\ 4 \in levels  OBVIOUS
    <3> HIDE DEF levels
    <3>2. CASE 1 \in levels  BY <3>1, <3>2
    <3>3. CASE 1 \notin levels /\ 2 \in levels  BY <3>1, <3>3
    <3>4. CASE 1 \notin levels /\ 2 \notin levels /\ 3 \in levels  BY <3>1, <3>4
    <3>5. CASE 1 \notin levels /\ 2 \notin levels /\ 3 \notin levels  BY <3>1, <3>5
    <3> QED  BY <3>2, <3>3, <3>4, <3>5
  <2> PICK m : m = CHOOSE i \in levels : \A j \in levels : i <= j  OBVIOUS
  <2>2. Least(m)  BY <2>1
  <2>3. Place(e, t) = UpperSlot(m, e)  BY <1>2 DEF Place
  <2>4. m \in Levels  BY <2>2 DEF Levels
  <2>5. SameWindow(e, t, Unit[m + 1])
    <3>1. CASE m = 4
      <4>1. m + 1 = 5  BY <3>1
      <4> QED  BY <4>1, TimesFacts
    <3>2. CASE m # 4  BY <2>2, <3>2
    <3> QED  BY <3>1, <3>2
  <2>6. ~SameWindow(e, t, Unit[m])
    <3>1. CASE m = 1  BY <1>2, <3>1, UnitFacts
    <3>2. CASE m # 1
      <4>1. m - 1 \in 1 .. 3 /\ (m - 1) + 1 = m /\ ~(m <= m - 1)  BY <2>4, <3>2 DEF Levels
      <4>2. m - 1 \notin levels  BY <2>2, <4>1
      <4> QED  BY <4>1, <4>2
    <3> QED  BY <3>1, <3>2
  <2> QED  BY <2>3, <2>4, <2>5, <2>6
<1> QED  BY <1>1, <1>2

\* There is only one such level.
LEMMA PlaceUpper ==
    ASSUME NEW e \in Times, NEW t \in Times, NEW i \in Levels,
           ~SameWindow(e, t, Unit[i]), SameWindow(e, t, Unit[i + 1])
    PROVE  Place(e, t) = UpperSlot(i, e)
<1>1. e \in Nat /\ t \in Nat  BY TimesFacts
<1>2. ~SameWindow(e, t, Near)
  <2>1. 1 \in 1 .. 5 /\ i \in 1 .. 5 /\ 1 <= i /\ Unit[1] = Near  BY UnitFacts DEF Levels
  <2> QED  BY <1>1, <2>1, SameAbove
<1>3. PICK j \in Levels : /\ ~SameWindow(e, t, Unit[j])
                          /\ SameWindow(e, t, Unit[j + 1])
                          /\ Place(e, t) = UpperSlot(j, e)
  BY <1>2, PlaceIs
<1>4. /\ i \in 1 .. 5 /\ j \in 1 .. 5 /\ i + 1 \in 1 .. 5 /\ j + 1 \in 1 .. 5
      /\ (i + 1 <= j \/ j + 1 <= i \/ i = j)
  BY DEF Levels
<1>5. ~(i + 1 <= j)  BY <1>1, <1>3, <1>4, SameAbove
<1>6. ~(j + 1 <= i)  BY <1>1, <1>3, <1>4, SameAbove
<1> QED  BY <1>3, <1>4, <1>5, <1>6

\* Every slot that add_node finds is one of the wheel's.
LEMMA PlaceTyped ==
    ASSUME NEW e \in Times, NEW t \in Times
    PROVE  Place(e, t) \in Slots /\ NearSlot(t) \in Slots
<1>1. e \in Nat /\ t \in Nat  BY TimesFacts
<1>2. ASSUME NEW x \in Nat PROVE NearSlot(x) \in Slots
  <2>1. x \in Int /\ Near \in Nat \ {0}  BY UnitFacts
  <2>2. x % Near \in 0 .. Near - 1  BY ONLY <2>1, DivMod
  <2> QED  BY <2>2 DEF NearSlot, Slots
<1>3. ASSUME NEW i \in Levels PROVE UpperSlot(i, e) \in Slots
  <2> PICK u, l, q : u = Unit[i] /\ l = Level /\ q = e \div u  OBVIOUS
  <2>1. u \in Nat \ {0} /\ l \in Nat \ {0} /\ e \in Int  BY <1>1, UnitFacts DEF Levels
  <2>2. e \div u \in Int  BY ONLY <2>1, DivMod
  <2>3. q \in Int  BY <2>2
  <2>4. q % l \in 0 .. l - 1  BY ONLY <2>1, <2>3, DivMod
  <2> QED  BY <2>4 DEF UpperSlot, Slots, Levels
<1> QED  BY <1>1, <1>2, <1>3, PlaceIs
-----------------------------------------------------------------------------
(* Turning the wheel *)

\* the ticks from time t to time e
Ticks(e, t) == (e - t) % Word
After(t) == (t + 1) % Word

\* The next tick is the next number but at the end of the times.
LEMMA AfterIs ==
    ASSUME NEW t \in Times
    PROVE  /\ After(t) \in Times
           /\ After(t) = IF t = Word - 1 THEN 0 ELSE t + 1
<1> PICK w, x : w = Word /\ x = t + 1  OBVIOUS
<1>1. w \in Nat \ {0} /\ t \in 0 .. w - 1  BY UnitFacts DEF Times
<1>2. x \in Int /\ (x \in 0 .. w - 1 \/ x = w)  BY <1>1
<1>3. x \in 0 .. w - 1 => x % w = x  BY ONLY <1>1, <1>2, ModNear
<1>4. x = w => x % w = 0
  <2>1. x \in w .. 2 * w - 1 => x % w = x - w  BY ONLY <1>1, <1>2, ModNear
  <2> QED  BY <1>1, <2>1
<1>5. /\ x % w \in 0 .. w - 1
      /\ x % w = IF t = w - 1 THEN 0 ELSE t + 1
  BY <1>1, <1>2, <1>3, <1>4
<1> QED  BY <1>5 DEF After, Times

\* The ticks between two times, across the end of the times if need be.
LEMMA TicksAre ==
    ASSUME NEW e \in Times, NEW t \in Times
    PROVE  Ticks(e, t) = IF t <= e THEN e - t ELSE e - t + Word
<1> PICK w, x : w = Word /\ x = e - t  OBVIOUS
<1>1. w \in Nat \ {0} /\ t \in 0 .. w - 1 /\ e \in 0 .. w - 1  BY UnitFacts DEF Times
<1>2. x \in Int /\ (t <= e => x \in 0 .. w - 1) /\ (~(t <= e) => x \in -w .. -1)
  BY <1>1
<1>3. /\ x \in 0 .. w - 1 => x % w = x
      /\ x \in -w .. -1 => x % w = x + w
  BY ONLY <1>1, <1>2, ModNear
<1> QED  BY <1>2, <1>3 DEF Ticks

\* No ticks remain to the present time alone, and one less after a tick.
LEMMA TicksFacts ==
    ASSUME NEW e \in Times, NEW t \in Times
    PROVE  /\ Ticks(e, t) \in 0 .. Word - 1
           /\ Ticks(e, t) = 0 <=> e = t
           /\ e # t => Ticks(e, After(t)) = Ticks(e, t) - 1
<1>1. Word \in Nat \ {0} /\ t \in 0 .. Word - 1 /\ e \in 0 .. Word - 1
  BY UnitFacts DEF Times
<1>2. Ticks(e, t) = IF t <= e THEN e - t ELSE e - t + Word  BY TicksAre
<1>3. Ticks(e, t) \in 0 .. Word - 1 /\ (Ticks(e, t) = 0 <=> e = t)
  BY <1>1, <1>2
<1>4. ASSUME e # t PROVE Ticks(e, After(t)) = Ticks(e, t) - 1
  <2> PICK u : u = After(t)  OBVIOUS
  <2>1. u \in Times /\ u = IF t = Word - 1 THEN 0 ELSE t + 1  BY AfterIs
  <2>2. Ticks(e, u) = IF u <= e THEN e - u ELSE e - u + Word  BY <2>1, TicksAre
  <2> QED  BY <1>1, <1>2, <1>4, <2>1, <2>2
<1> QED  BY <1>3, <1>4

\* An alarm is set for as many ticks as its delay says.
LEMMA TicksSet ==
    ASSUME NEW t \in Times, NEW d \in Delays
    PROVE  (d + t) % Word \in Times /\ Ticks((d + t) % Word, t) = d
<1> PICK w, x : w = Word /\ x = d + t  OBVIOUS
<1>1. w \in Nat \ {0} /\ t \in 0 .. w - 1  BY UnitFacts DEF Times
<1>2. d \in 1 .. w - 1
  <2>1. d \in 1 .. w - Unit[4] /\ Unit[4] \in Nat \ {0}  BY UnitFacts
  <2> QED  BY <1>1, <2>1
<1>3. x \in Int /\ (x \in 0 .. w - 1 \/ x \in w .. 2 * w - 1)  BY <1>1, <1>2
<1>4. /\ x \in 0 .. w - 1 => x % w = x
      /\ x \in w .. 2 * w - 1 => x % w = x - w
  BY ONLY <1>1, <1>3, ModNear
<1> PICK e : e = x % w  OBVIOUS
<1>5. e \in 0 .. w - 1 /\ (e = d + t \/ e = d + t - w)  BY <1>1, <1>2, <1>3, <1>4
<1>6. e \in Times  BY <1>5 DEF Times
<1>7. Ticks(e, t) = IF t <= e THEN e - t ELSE e - t + w  BY <1>6, TicksAre
<1> QED  BY <1>1, <1>2, <1>5, <1>6, <1>7

\* An alarm in the present window of the last level is ahead of the time, not behind
\* it by a turn of the wheel: no delay is within that window's span of a whole turn.
LEMMA Ahead ==
    ASSUME NEW e \in Times, NEW t \in Times, Ticks(e, t) \in Delays,
           NEW i \in Levels, SameWindow(e, t, Unit[i])
    PROVE  t < e
<1>1. e \in Nat /\ t \in Nat /\ i \in 1 .. 5 /\ 4 \in 1 .. 5 /\ i <= 4
  BY TimesFacts DEF Levels
<1>2. SameWindow(e, t, Unit[4])  BY <1>1, SameAbove
<1> PICK u : u = Unit[4]  OBVIOUS
<1>3. u \in Nat \ {0} /\ Word \in Nat \ {0}  BY UnitFacts
<1>4. t - e < u
  <2>1. e \div u = t \div u  BY <1>2 DEF SameWindow
  <2> QED  BY ONLY <1>1, <1>3, <2>1, DivClose
<1>5. Ticks(e, t) \in 1 .. Word - u  BY UnitFacts
<1>6. Ticks(e, t) = IF t <= e THEN e - t ELSE e - t + Word  BY TicksAre
<1> QED  BY <1>1, <1>3, <1>4, <1>5, <1>6

\* The near slot of a time is for that time only.
LEMMA NearOnlyNow ==
    ASSUME NEW e \in Times, NEW t \in Times
    PROVE  Place(e, t) = NearSlot(t) <=> e = t
<1>1. ASSUME e = t PROVE Place(e, t) = NearSlot(t)
  BY <1>1 DEF Place, SameWindow
<1>2. ASSUME Place(e, t) = NearSlot(t) PROVE e = t
  <2>1. ASSUME NEW i \in Levels PROVE Place(e, t) # UpperSlot(i, e)
    BY <1>2 DEF NearSlot, UpperSlot, Levels
  <2>2. SameWindow(e, t, Near) /\ Place(e, t) = NearSlot(e)  BY <2>1, PlaceIs
  <2> PICK n : n = Near  OBVIOUS
  <2>3. e \div n = t \div n /\ e % n = t % n
    BY <1>2, <2>2 DEF NearSlot, SameWindow
  <2>4. n \in Nat \ {0} /\ e \in Int /\ t \in Int  BY UnitFacts, TimesFacts
  <2>5. e = (e \div n) * n + (e % n)  BY ONLY <2>4, DivMod
  <2>6. t = (t \div n) * n + (t % n)  BY ONLY <2>4, DivMod
  <2> QED  BY <2>3, <2>5, <2>6
<1> QED  BY <1>1, <1>2

\* timer_shift moves one slot at most, of an upper level.
LEMMA CascadedOne ==
    ASSUME NEW t \in Times, NEW a \in Cascaded(t), NEW b \in Cascaded(t)
    PROVE  a = b /\ a \in Slots /\ \A x : a # NearSlot(x)
<1>1. t \in Nat /\ 4 \in Levels  BY TimesFacts DEF Levels
<1>2. ASSUME NEW s \in Cascaded(t)
      PROVE  \E i \in Levels :
                s = UpperSlot(i, t)
                /\ (t # 0 => t % Unit[i] = 0 /\ (t \div Unit[i]) % Level # 0)
                /\ (t = 0 => i = 4)
  BY <1>1 DEF Cascaded, Levels
<1>3. PICK i \in Levels : a = UpperSlot(i, t)
            /\ (t # 0 => t % Unit[i] = 0 /\ (t \div Unit[i]) % Level # 0)
            /\ (t = 0 => i = 4)
  BY <1>2
<1>4. PICK j \in Levels : b = UpperSlot(j, t)
            /\ (t # 0 => t % Unit[j] = 0 /\ (t \div Unit[j]) % Level # 0)
            /\ (t = 0 => j = 4)
  BY <1>2
<1>5. ASSUME NEW k \in Levels, NEW l \in Levels, k < l, t % Unit[l] = 0
      PROVE  t % Unit[k] = 0 /\ (t \div Unit[k]) % Level = 0
  <2> DEFINE Z(x) == t % Unit[x] = 0
  <2>1. \A x \in Levels : Z(x + 1) => Z(x)  BY <1>1, NextLevel
  <2>2. 1 \in Levels /\ 2 \in Levels /\ 3 \in Levels /\ k + 1 \in Levels  BY <1>5 DEF Levels
  <2>3. (Z(4) => Z(3)) /\ (Z(3) => Z(2)) /\ (Z(2) => Z(1))
    <3>1. 1 + 1 = 2 /\ 2 + 1 = 3 /\ 3 + 1 = 4  OBVIOUS
    <3> QED  BY <2>1, <2>2, <3>1
  <2>4. Z(k + 1)
    <3>1. Z(l) /\ k + 1 \in {1, 2, 3, 4} /\ l \in {1, 2, 3, 4} /\ k + 1 <= l
      BY <1>5, <2>2 DEF Levels
    <3> HIDE DEF Z
    <3> QED  BY <2>3, <3>1
  <2> QED  BY <1>1, <2>4, NextLevel
<1>6. i = j
  <2>1. CASE t = 0  BY <1>3, <1>4, <2>1
  <2>2. CASE t # 0
    <3>1. ~(i < j) /\ ~(j < i)  BY <1>3, <1>4, <1>5, <2>2
    <3>2. i \in Int /\ j \in Int  BY DEF Levels
    <3> QED  BY <3>1, <3>2
  <2> QED  BY <2>1, <2>2
<1>7. a \in Slots
  <2> PICK u, l, q : u = Unit[i] /\ l = Level /\ q = t \div u  OBVIOUS
  <2>1. u \in Nat \ {0} /\ l \in Nat \ {0} /\ t \in Int  BY <1>1, UnitFacts DEF Levels
  <2>2. t \div u \in Int  BY ONLY <2>1, DivMod
  <2>3. q \in Int  BY <2>2
  <2>4. q % l \in 0 .. l - 1  BY ONLY <2>1, <2>3, DivMod
  <2> QED  BY <1>3, <2>4 DEF UpperSlot, Slots, Levels
<1>8. \A x : a # NearSlot(x)  BY <1>3 DEF UpperSlot, NearSlot, Levels
<1> QED  BY <1>3, <1>4, <1>6, <1>7, <1>8

\* What timer_shift does not move is where add_node would put it after the tick.
LEMMA Stays ==
    ASSUME NEW e \in Times, NEW t \in Times, Ticks(e, t) \in Delays,
           Place(e, t) \notin Cascaded(After(t))
    PROVE  Place(e, After(t)) = Place(e, t)
<1> PICK u : u = After(t)  OBVIOUS
<1>1. /\ u \in Times /\ u \in Nat /\ e \in Nat /\ t \in Nat
      /\ u = IF t = Word - 1 THEN 0 ELSE t + 1
  BY AfterIs, TimesFacts
<1>2. e \in 0 .. Word - 1 /\ Word \in Nat \ {0}  BY UnitFacts DEF Times
<1>3. ASSUME NEW i \in Levels, SameWindow(e, t, Unit[i])
      PROVE  /\ t < e /\ u = t + 1 /\ SameWindow(e, u, Unit[i]) /\ SameWindow(t, u, Unit[i])
  <2>1. t < e /\ u = t + 1 /\ u <= e  BY <1>1, <1>2, <1>3, Ahead
  <2> PICK n : n = Unit[i]  OBVIOUS
  <2>2. n \in Nat \ {0}  BY UnitFacts DEF Levels
  <2>3. t <= u  BY <1>1, <2>1
  <2>4. t \div n <= u \div n  BY ONLY <1>1, <2>2, <2>3, DivLe
  <2>5. u \div n <= e \div n  BY ONLY <1>1, <2>1, <2>2, DivLe
  <2>6. t \div n \in Int /\ u \div n \in Int
    <3>1. ASSUME NEW x \in Nat PROVE x \div n \in Int  BY ONLY <2>2, <3>1, DivMod
    <3> QED  BY <1>1, <3>1
  <2>7. e \div n = t \div n  BY <1>3 DEF SameWindow
  <2> QED  BY <2>1, <2>4, <2>5, <2>6, <2>7 DEF SameWindow
<1>4. CASE SameWindow(e, t, Near)
  <2>1. 1 \in Levels /\ Unit[1] = Near  BY UnitFacts DEF Levels
  <2>2. SameWindow(e, u, Near)  BY <1>3, <1>4, <2>1
  <2> QED  BY <1>4, <2>2 DEF Place
<1>5. CASE ~SameWindow(e, t, Near)
  <2>1. PICK i \in Levels : /\ ~SameWindow(e, t, Unit[i])
                            /\ SameWindow(e, t, Unit[i + 1])
                            /\ Place(e, t) = UpperSlot(i, e)
    BY <1>5, PlaceIs
  <2>2. SameWindow(e, u, Unit[i + 1])
    <3>1. CASE i = 4
      <4>1. i + 1 = 5  BY <3>1
      <4> QED  BY <1>1, <4>1, TimesFacts
    <3>2. CASE i # 4
      <4>1. i + 1 \in Levels  BY <3>2 DEF Levels
      <4> QED  BY <1>3, <2>1, <4>1
    <3> QED  BY <3>1, <3>2
  <2>3. ~SameWindow(e, u, Unit[i])
    <3> SUFFICES ASSUME SameWindow(e, u, Unit[i]) PROVE FALSE  OBVIOUS
    <3>1. UpperSlot(i, e) = UpperSlot(i, u)  BY DEF SameWindow, UpperSlot
    <3>2. ~SameWindow(t, u, Unit[i])  BY <2>1 DEF SameWindow
    <3>3. CASE u = 0
      <4>1. i = 4
        <5> SUFFICES ASSUME i # 4 PROVE FALSE  OBVIOUS
        <5>1. i + 1 \in Levels  BY DEF Levels
        <5>2. u = t + 1  BY <1>3, <2>1, <5>1
        <5> QED  BY <1>1, <3>3, <5>2
      <4>2. UpperSlot(i, u) \in Cascaded(u)  BY <3>3, <4>1 DEF Cascaded
      <4> QED  BY <2>1, <3>1, <4>2
    <3>4. CASE u # 0
      <4>1. u = t + 1  BY <1>1, <3>4
      <4> PICK n : n = Unit[i]  OBVIOUS
      <4>2. n \in Nat \ {0}  BY UnitFacts DEF Levels
      <4>3. (t + 1) \div n = IF (t + 1) % n = 0 THEN (t \div n) + 1 ELSE t \div n
        BY ONLY <1>1, <4>2, DivNext
      <4>4. u % n = 0  BY <3>2, <4>1, <4>3 DEF SameWindow
      <4>5. u % Unit[i + 1] # 0
        <5> PICK m : m = Unit[i + 1]  OBVIOUS
        <5>1. m \in Nat \ {0} /\ i + 1 \in 1 .. 5  BY UnitFacts DEF Levels
        <5>2. SameWindow(t, u, m)  BY <2>1, <2>2 DEF SameWindow
        <5>3. (t + 1) \div m = IF (t + 1) % m = 0 THEN (t \div m) + 1 ELSE t \div m
          BY ONLY <1>1, <5>1, DivNext
        <5>4. t \div m \in Int  BY ONLY <1>1, <5>1, DivMod
        <5>5. t \div m # (t \div m) + 1  BY <5>4
        <5> QED  BY <4>1, <5>2, <5>3, <5>5 DEF SameWindow
      <4>6. (u \div Unit[i]) % Level # 0
        <5>1. u % Unit[i + 1] = 0 <=> u % Unit[i] = 0 /\ (u \div Unit[i]) % Level = 0
          BY <1>1, NextLevel
        <5> QED  BY <4>4, <4>5, <5>1
      <4>7. UpperSlot(i, u) \in Cascaded(u)
        BY <3>4, <4>4, <4>6 DEF Cascaded, Levels
      <4> QED  BY <2>1, <3>1, <4>7
    <3> QED  BY <3>3, <3>4
  <2>4. Place(e, u) = UpperSlot(i, e)  BY <1>1, <2>2, <2>3, PlaceUpper
  <2> QED  BY <2>1, <2>4
<1> QED  BY <1>4, <1>5
-----------------------------------------------------------------------------
(* Recursion along a list *)

\* Every set of natural numbers that is not empty has a least element.
LEMMA LeastElement ==
    ASSUME NEW T \in SUBSET Nat, T # {}
    PROVE  \E n \in T : \A m \in T : n <= m
<1> DEFINE R == OpToRel(<, Nat)
<1>1. IsWellFoundedOn(R, Nat)  BY NatLessThanWellFounded
<1>2. \E x \in T : \A y \in T : ~(<<y, x>> \in R)
  <2> HIDE DEF R
  <2> QED  BY <1>1, WFMin
<1>3. PICK x \in T : \A y \in T : ~(<<y, x>> \in R)  BY <1>2
<1>4. \A y \in T : ~(y < x)  BY <1>3 DEF OpToRel
<1> QED  BY <1>4

\* What holds of 0 and passes from each number to the next holds up to N.
LEMMA UpTo ==
    ASSUME NEW N \in Nat, NEW T, 0 \in T, \A k \in 1 .. N : k - 1 \in T => k \in T
    PROVE  \A k \in 0 .. N : k \in T
<1> DEFINE Out == {k \in 0 .. N : k \notin T}
<1> SUFFICES ASSUME Out # {} PROVE FALSE  OBVIOUS
<1>1. PICK m \in Out : \A k \in Out : m <= k
  <2>1. Out \in SUBSET Nat  OBVIOUS
  <2> HIDE DEF Out
  <2> QED  BY <2>1, LeastElement
<1>2. m # 0 /\ m \in 0 .. N /\ m \notin T  OBVIOUS
<1>3. m - 1 \in 0 .. N /\ m \in 1 .. N /\ ~(m <= m - 1)  BY <1>2
<1>4. m - 1 \in T  BY <1>1, <1>3
<1> QED  BY <1>2, <1>3, <1>4

\* f begins with a and goes on by G.
Recursive(N, a, G, f) == \A k \in 0 .. N : f[k] = IF k = 0 THEN a ELSE G[<<k, f[k - 1]>>]

\* A recursive function on 0 .. N exists.
LEMMA Recursion ==
    ASSUME NEW N \in Nat, NEW S, NEW a \in S, NEW G \in [(1 .. N) \X S -> S]
    PROVE  \E f \in [0 .. N -> S] : Recursive(N, a, G, f)
<1> DEFINE Part(m, f) == /\ f \in [0 .. m -> S]
                         /\ \A k \in 0 .. m : f[k] = IF k = 0 THEN a ELSE G[<<k, f[k - 1]>>]
           T == {m \in 0 .. N : \E f : Part(m, f)}
<1>1. 0 \in T
  <2>1. Part(0, [k \in 0 .. 0 |-> a])  OBVIOUS
  <2>2. 0 \in 0 .. N  OBVIOUS
  <2> HIDE DEF Part
  <2> QED  BY <2>1, <2>2
<1>2. ASSUME NEW m \in 1 .. N, m - 1 \in T PROVE m \in T
  <2>1. PICK f : Part(m - 1, f)  BY <1>2
  <2> PICK b : b = G[<<m, f[m - 1]>>]  OBVIOUS
  <2>2. f[m - 1] \in S /\ b \in S
    <3>1. m - 1 \in 0 .. m - 1  OBVIOUS
    <3>2. f[m - 1] \in S  BY <2>1, <3>1
    <3> QED  BY <3>2
  <2> DEFINE g == [k \in 0 .. m |-> IF k = m THEN b ELSE f[k]]
  <2>3. g \in [0 .. m -> S]  BY <2>1, <2>2
  <2>4. ASSUME NEW k \in 0 .. m PROVE g[k] = IF k = 0 THEN a ELSE G[<<k, g[k - 1]>>]
    <3>1. CASE k = m
      <4>1. k # 0 /\ m - 1 \in 0 .. m /\ m - 1 # m  BY <3>1
      <4>2. g[m - 1] = f[m - 1] /\ g[m] = b  BY <4>1
      <4> HIDE DEF g
      <4> QED  BY <3>1, <4>1, <4>2
    <3>2. CASE k # m
      <4>1. k \in 0 .. m - 1 /\ g[k] = f[k]  BY <3>2
      <4>2. k # 0 => k - 1 \in 0 .. m /\ k - 1 # m  BY <3>2
      <4>3. k # 0 => g[k - 1] = f[k - 1]  BY <4>2
      <4> HIDE DEF g
      <4> QED  BY <2>1, <4>1, <4>3
    <3> QED  BY <3>1, <3>2
  <2>5. Part(m, g)
    <3> HIDE DEF g
    <3> QED  BY <2>3, <2>4
  <2>6. m \in 0 .. N  OBVIOUS
  <2> HIDE DEF Part, g
  <2> QED  BY <2>5, <2>6
<1>3. N \in T
  <2>1. N \in 0 .. N  OBVIOUS
  <2> HIDE DEF T
  <2> QED  BY <1>1, <1>2, <2>1, UpTo
<1>4. PICK f : Part(N, f)  BY <1>3
<1> QED  BY <1>4 DEF Recursive

-----------------------------------------------------------------------------
(* The nodes of a list that are due at one time *)

\* Due's function and result, for the expiries ex
DueSteps(ex, list, e, f) ==
    f = [k \in 0 .. Len(list) |->
            IF k = 0 THEN <<>>
            ELSE IF ex[list[k]] = e THEN Append(f[k - 1], list[k]) ELSE f[k - 1]]
DueAmong(ex, list, e) == CHOOSE f : DueSteps(ex, list, e, f)
DueOf(ex, list, e) == DueAmong(ex, list, e)[Len(list)]

\* It takes the nodes of a list one after the other.
OneByOne(ex, list, e, f) ==
    /\ \A k \in 0 .. Len(list) : f[k] \in Seq(Nodes)
    /\ f[0] = <<>>
    /\ \A k \in 1 .. Len(list) :
          f[k] = IF ex[list[k]] = e THEN Append(f[k - 1], list[k]) ELSE f[k - 1]

\* There is such a function.
LEMMA DueAmongFacts ==
    ASSUME NEW ex, NEW e, NEW list \in Seq(Nodes)
    PROVE  OneByOne(ex, list, e, DueAmong(ex, list, e))
<1> PICK N, S : N = Len(list) /\ S = Seq(Nodes)  OBVIOUS
<1> PICK G : G = [p \in (1 .. N) \X S |->
                    IF ex[list[p[1]]] = e THEN Append(p[2], list[p[1]]) ELSE p[2]]
  OBVIOUS
<1>1. N \in Nat /\ <<>> \in S /\ \A k \in 1 .. N : list[k] \in Nodes  OBVIOUS
<1>2. G \in [(1 .. N) \X S -> S]  BY <1>1
<1>3. PICK f \in [0 .. N -> S] : Recursive(N, <<>>, G, f)
  BY ONLY <1>1, <1>2, Recursion
<1>4. ASSUME NEW k \in 0 .. N
      PROVE  f[k] = IF k = 0 THEN <<>>
                    ELSE IF ex[list[k]] = e THEN Append(f[k - 1], list[k]) ELSE f[k - 1]
  <2>1. CASE k = 0  BY <1>3, <2>1 DEF Recursive
  <2>2. CASE k # 0
    <3>1. k \in 1 .. N /\ k - 1 \in 0 .. N  BY <1>1, <2>2
    <3>2. <<k, f[k - 1]>> \in (1 .. N) \X S  BY <3>1
    <3>3. G[<<k, f[k - 1]>>] = IF ex[list[k]] = e THEN Append(f[k - 1], list[k]) ELSE f[k - 1]
      BY <3>2
    <3>4. f[k] = G[<<k, f[k - 1]>>]  BY <1>3, <2>2 DEF Recursive
    <3> QED  BY <2>2, <3>3, <3>4
  <2> QED  BY <2>1, <2>2
<1>5. DueSteps(ex, list, e, f)
  <2>1. f = [k \in 0 .. N |-> f[k]]  OBVIOUS
  <2> QED  BY <1>4, <2>1 DEF DueSteps
<1> PICK g : g = DueAmong(ex, list, e)  OBVIOUS
<1>6. DueSteps(ex, list, e, g)  BY <1>5 DEF DueAmong
<1>7. \A k \in 0 .. N : g[k] = IF k = 0 THEN <<>>
                               ELSE IF ex[list[k]] = e THEN Append(g[k - 1], list[k]) ELSE g[k - 1]
  BY <1>6 DEF DueSteps
<1>8. g[0] = <<>> /\ \A k \in 1 .. N : g[k] = IF ex[list[k]] = e THEN Append(g[k - 1], list[k])
                                              ELSE g[k - 1]
  BY <1>1, <1>7
<1>9. \A k \in 0 .. N : g[k] \in S
  <2> DEFINE T == {k \in 0 .. N : g[k] \in S}
  <2>1. 0 \in T  BY ONLY <1>1, <1>8
  <2>2. ASSUME NEW k \in 1 .. N, k - 1 \in T PROVE k \in T
    <3>1. k \in 0 .. N /\ g[k - 1] \in Seq(Nodes) /\ list[k] \in Nodes  BY <1>1, <2>2
    <3>2. Append(g[k - 1], list[k]) \in Seq(Nodes)  BY ONLY <3>1
    <3>3. g[k] = Append(g[k - 1], list[k]) \/ g[k] = g[k - 1]  BY <1>8
    <3>4. g[k] \in S  BY ONLY <3>1, <3>2, <3>3, S = Seq(Nodes)
    <3> QED  BY <3>1, <3>4
  <2>3. \A k \in 0 .. N : k \in T
    <3> HIDE DEF T
    <3> QED  BY <1>1, <2>1, <2>2, UpTo
  <2> QED  BY <2>3
<1> QED  BY <1>8, <1>9 DEF OneByOne

\* Two lists begin with the same m nodes, due alike.
Alike(ex, ey, e, list, other, m) ==
    \A k \in 1 .. m : list[k] = other[k] /\ (ex[list[k]] = e <=> ey[list[k]] = e)

\* Then the same of them are due.
LEMMA DueAlike ==
    ASSUME NEW ex, NEW ey, NEW e, NEW list \in Seq(Nodes), NEW other \in Seq(Nodes),
           NEW m \in Nat, m <= Len(list), m <= Len(other),
           Alike(ex, ey, e, list, other, m)
    PROVE  DueAmong(ex, list, e)[m] = DueAmong(ey, other, e)[m]
<1> PICK f, g : f = DueAmong(ex, list, e) /\ g = DueAmong(ey, other, e)  OBVIOUS
<1>1. \A k \in 1 .. m : k \in 1 .. Len(list) /\ k \in 1 .. Len(other)  OBVIOUS
<1>2. /\ f[0] = <<>> /\ g[0] = <<>>
      /\ \A k \in 1 .. m : f[k] = IF ex[list[k]] = e THEN Append(f[k - 1], list[k]) ELSE f[k - 1]
      /\ \A k \in 1 .. m : g[k] = IF ey[other[k]] = e THEN Append(g[k - 1], other[k]) ELSE g[k - 1]
  <2>1. OneByOne(ex, list, e, f) /\ OneByOne(ey, other, e, g)  BY DueAmongFacts
  <2> QED  BY ONLY <1>1, <2>1 DEF OneByOne
<1> DEFINE T == {k \in 0 .. m : f[k] = g[k]}
<1>3. 0 \in T  BY ONLY <1>2, m \in Nat
<1>4. ASSUME NEW k \in 1 .. m, k - 1 \in T PROVE k \in T
  <2>1. f[k - 1] = g[k - 1] /\ k \in 0 .. m  BY <1>4
  <2>2. list[k] = other[k] /\ (ex[list[k]] = e <=> ey[list[k]] = e)
    BY DEF Alike
  <2>3. f[k] = g[k]  BY ONLY <1>2, <1>4, <2>1, <2>2
  <2> QED  BY <2>1, <2>3
<1>5. m \in 0 .. m  OBVIOUS
<1>6. m \in T
  <2> HIDE DEF T
  <2> QED  BY <1>3, <1>4, <1>5, UpTo
<1> QED  BY <1>6

\* Of an empty list nothing is due.
LEMMA DueEmpty == \A ex, e : DueOf(ex, <<>>, e) = <<>>
<1> TAKE ex, e
<1> PICK list : list = <<>>  OBVIOUS
<1>1. list \in Seq(Nodes) /\ Len(list) = 0  OBVIOUS
<1>2. DueAmong(ex, list, e)[0] = <<>>
  <2>1. OneByOne(ex, list, e, DueAmong(ex, list, e))  BY <1>1, DueAmongFacts
  <2> QED  BY <2>1 DEF OneByOne
<1> QED  BY <1>1, <1>2 DEF DueOf

\* A node at the end of a list comes last of those that are due.
LEMMA DueAppend ==
    ASSUME NEW ex, NEW e, NEW list \in Seq(Nodes), NEW n \in Nodes
    PROVE  DueOf(ex, Append(list, n), e) = IF ex[n] = e THEN Append(DueOf(ex, list, e), n)
                                           ELSE DueOf(ex, list, e)
<1> PICK more, m : more = Append(list, n) /\ m = Len(list)  OBVIOUS
<1>1. /\ more \in Seq(Nodes) /\ m \in Nat /\ Len(more) = m + 1 /\ more[m + 1] = n
      /\ \A k \in 1 .. m : more[k] = list[k]
  OBVIOUS
<1>2. m <= Len(list) /\ m <= Len(more) /\ m + 1 \in 1 .. Len(more) /\ (m + 1) - 1 = m  BY <1>1
<1>3. DueAmong(ex, more, e)[m] = DueAmong(ex, list, e)[m]
  <2>1. Alike(ex, ex, e, list, more, m)  BY <1>1 DEF Alike
  <2>2. list \in Seq(Nodes)  OBVIOUS
  <2>3. DueAmong(ex, list, e)[m] = DueAmong(ex, more, e)[m]
    BY ONLY <1>1, <1>2, <2>1, <2>2, DueAlike
  <2> QED  BY <2>3
<1>4. DueAmong(ex, more, e)[m + 1] = IF ex[n] = e THEN Append(DueAmong(ex, more, e)[m], n)
                                     ELSE DueAmong(ex, more, e)[m]
  <2>1. \A k \in 1 .. Len(more) :
           DueAmong(ex, more, e)[k] = IF ex[more[k]] = e
                                      THEN Append(DueAmong(ex, more, e)[k - 1], more[k])
                                      ELSE DueAmong(ex, more, e)[k - 1]
    <3>1. OneByOne(ex, more, e, DueAmong(ex, more, e))  BY ONLY <1>1, DueAmongFacts
    <3> QED  BY ONLY <3>1 DEF OneByOne
  <2> QED  BY ONLY <1>1, <1>2, <2>1
<1> QED  BY <1>1, <1>3, <1>4 DEF DueOf

\* What is due depends on which nodes of the list expire at the time.
LEMMA DueSame ==
    ASSUME NEW ex, NEW ey, NEW e, NEW list \in Seq(Nodes),
           \A n \in Elements(list) : ex[n] = e <=> ey[n] = e
    PROVE  DueOf(ex, list, e) = DueOf(ey, list, e)
<1>1. Len(list) \in Nat /\ Len(list) <= Len(list)  OBVIOUS
<1>2. Alike(ex, ey, e, list, list, Len(list))  BY DEF Elements, Alike
<1> QED  BY <1>1, <1>2, DueAlike DEF DueOf

\* The nodes due are nodes of the list that expire at the time; of all of them, or
\* none, there is nothing to choose.
LEMMA DueMembers ==
    ASSUME NEW ex, NEW e, NEW list \in Seq(Nodes)
    PROVE  /\ DueOf(ex, list, e) \in Seq(Nodes)
           /\ \A n \in Elements(DueOf(ex, list, e)) : n \in Elements(list) /\ ex[n] = e
           /\ (\A n \in Elements(list) : ex[n] # e) => DueOf(ex, list, e) = <<>>
           /\ (\A n \in Elements(list) : ex[n] = e) => DueOf(ex, list, e) = list
<1> PICK f, N : f = DueAmong(ex, list, e) /\ N = Len(list)  OBVIOUS
<1>1. /\ N \in Nat /\ N \in 0 .. N
      /\ \A k \in 1 .. N : list[k] \in Nodes /\ list[k] \in Elements(list)
  BY DEF Elements
<1>2. /\ \A k \in 0 .. N : f[k] \in Seq(Nodes)
      /\ f[0] = <<>>
      /\ \A k \in 1 .. N : f[k] = IF ex[list[k]] = e THEN Append(f[k - 1], list[k]) ELSE f[k - 1]
  <2>1. OneByOne(ex, list, e, f)  BY DueAmongFacts
  <2> QED  BY <2>1 DEF OneByOne
<1>3. DueOf(ex, list, e) = f[N]  BY DEF DueOf
<1>4. \A n \in Elements(f[N]) : n \in Elements(list) /\ ex[n] = e
  <2> DEFINE T == {k \in 0 .. N : \A n \in Elements(f[k]) : n \in Elements(list) /\ ex[n] = e}
  <2>1. 0 \in T  BY <1>2 DEF Elements
  <2>2. ASSUME NEW k \in 1 .. N, k - 1 \in T PROVE k \in T
    <3>1. f[k - 1] \in Seq(Nodes) /\ list[k] \in Nodes  BY <1>1, <1>2
    <3>2. Elements(Append(f[k - 1], list[k])) = Elements(f[k - 1]) \union {list[k]}
      BY <3>1 DEF Elements
    <3> QED  BY <1>1, <1>2, <2>2, <3>2
  <2> HIDE DEF T
  <2>3. N \in T  BY <1>1, <2>1, <2>2, UpTo
  <2> QED  BY <2>3 DEF T
<1>5. ASSUME \A n \in Elements(list) : ex[n] # e PROVE f[N] = <<>>
  <2> DEFINE T == {k \in 0 .. N : f[k] = <<>>}
  <2>1. 0 \in T  BY <1>2
  <2>2. ASSUME NEW k \in 1 .. N, k - 1 \in T PROVE k \in T  BY <1>1, <1>2, <1>5, <2>2
  <2> HIDE DEF T
  <2>3. N \in T  BY <1>1, <2>1, <2>2, UpTo
  <2> QED  BY <2>3 DEF T
<1>6. ASSUME \A n \in Elements(list) : ex[n] = e PROVE f[N] = list
  <2> DEFINE T == {k \in 0 .. N : Len(f[k]) = k /\ \A j \in 1 .. k : f[k][j] = list[j]}
  <2>1. 0 \in T  BY <1>2
  <2>2. ASSUME NEW k \in 1 .. N, k - 1 \in T PROVE k \in T
    <3> PICK g, n : g = f[k - 1] /\ n = list[k]  OBVIOUS
    <3>1. g \in Seq(Nodes) /\ Len(g) = k - 1 /\ \A j \in 1 .. k - 1 : g[j] = list[j]
      BY <1>2, <2>2
    <3>2. f[k] = Append(g, n)  BY <1>1, <1>2, <1>6
    <3>3. Len(f[k]) = k /\ f[k][k] = n /\ \A j \in 1 .. k - 1 : f[k][j] = g[j]
      BY <3>1, <3>2
    <3> QED  BY <3>1, <3>3
  <2> HIDE DEF T
  <2>3. N \in T  BY <1>1, <2>1, <2>2, UpTo
  <2>4. Len(f[N]) = N /\ \A j \in 1 .. N : f[N][j] = list[j]  BY <2>3 DEF T
  <2>5. f[N] \in Seq(Nodes)  BY <1>1, <1>2
  <2> QED  BY <2>4, <2>5, SeqEqual
<1> QED  BY <1>1, <1>2, <1>3, <1>4, <1>5, <1>6
-----------------------------------------------------------------------------
(* Moving a list *)

Wheels == [Slots -> Seq(Nodes)]

\* A list that can be moved: its nodes have expiries, and no node is twice in the wheel.
Movable(w, from, t) ==
    /\ w \in Wheels /\ from \in Slots /\ t \in Times
    /\ \A n \in Elements(w[from]) : expire[n] \in Times
    /\ \A s \in Slots : NoRepeat(w[s])
    /\ \A s \in Slots \ {from} : Elements(w[s]) \intersect Elements(w[from]) = {}

\* move_list's function
MoveSteps(w, from, t, m) ==
    m = [k \in 0 .. Len(w[from]) |->
            IF k = 0 THEN [w EXCEPT ![from] = <<>>]
            ELSE [m[k - 1] EXCEPT ![Place(expire[w[from][k]], t)] = Append(@, w[from][k])]]
Moves(w, from, t) == CHOOSE m : MoveSteps(w, from, t, m)

\* It moves the nodes of the list one after the other.
MovedOneByOne(w, from, t, m) ==
    /\ \A k \in 0 .. Len(w[from]) : m[k] \in Wheels
    /\ m[0] = [w EXCEPT ![from] = <<>>]
    /\ \A k \in 1 .. Len(w[from]) :
          m[k] = [m[k - 1] EXCEPT ![Place(expire[w[from][k]], t)] = Append(@, w[from][k])]

\* There is such a function.
LEMMA MovesFacts ==
    ASSUME NEW w, NEW from, NEW t, Movable(w, from, t)
    PROVE  /\ MovedOneByOne(w, from, t, Moves(w, from, t))
           /\ MoveList(w, from, t) = Moves(w, from, t)[Len(w[from])]
<1>a. PICK list, N : list = w[from] /\ N = Len(list)  OBVIOUS
<1> DEFINE Step(k, v) == [v EXCEPT ![Place(expire[list[k]], t)] = Append(@, list[k])]
<1>b. PICK G : G = [p \in (1 .. N) \X Wheels |-> Step(p[1], p[2])]  OBVIOUS
<1>c. PICK a : a = [w EXCEPT ![from] = <<>>]  OBVIOUS
<1>1. /\ w \in Wheels /\ from \in Slots /\ t \in Times
      /\ list \in Seq(Nodes) /\ N \in Nat
      /\ \A k \in 1 .. N : list[k] \in Nodes /\ expire[list[k]] \in Times
  <2>1. /\ w \in Wheels /\ from \in Slots /\ t \in Times
        /\ \A n \in Elements(list) : expire[n] \in Times
    BY <1>a DEF Movable
  <2>2. list \in Seq(Nodes)  BY <1>a, <2>1 DEF Wheels
  <2>3. N = Len(list)  BY <1>a
  <2> QED  BY <2>1, <2>2, <2>3 DEF Elements
<1>2. a \in Wheels
  <2>1. <<>> \in Seq(Nodes)  OBVIOUS
  <2> QED  BY <1>1, <1>c, <2>1 DEF Wheels
<1>3. ASSUME NEW k \in 1 .. N, NEW v \in Wheels PROVE Step(k, v) \in Wheels
  <2>1. PICK s, n : s = Place(expire[list[k]], t) /\ n = list[k]  OBVIOUS
  <2>2. Place(expire[list[k]], t) \in Slots  BY <1>1, PlaceTyped
  <2>3. s \in Slots /\ n \in Nodes  BY <1>1, <2>1, <2>2
  <2>4. v[s] \in Seq(Nodes)  BY <2>3 DEF Wheels
  <2>5. Append(v[s], n) \in Seq(Nodes)  BY <2>3, <2>4
  <2>6. [v EXCEPT ![s] = Append(v[s], n)] \in Wheels  BY <2>3, <2>5 DEF Wheels
  <2> QED  BY <2>1, <2>6
<1>4. ASSUME NEW k \in 1 .. N, NEW v \in Wheels PROVE G[<<k, v>>] = Step(k, v)
  <2> HIDE DEF Step
  <2>1. <<k, v>> \in (1 .. N) \X Wheels /\ <<k, v>>[1] = k /\ <<k, v>>[2] = v  OBVIOUS
  <2> QED  BY <1>b, <2>1
<1>5. G \in [(1 .. N) \X Wheels -> Wheels]
  <2> HIDE DEF Step
  <2>1. ASSUME NEW p \in (1 .. N) \X Wheels PROVE Step(p[1], p[2]) \in Wheels
    <3>1. p[1] \in 1 .. N /\ p[2] \in Wheels  OBVIOUS
    <3> QED  BY <1>3, <3>1
  <2> QED  BY <1>b, <2>1
<1>6. PICK f \in [0 .. N -> Wheels] : Recursive(N, a, G, f)
  BY <1>1, <1>2, <1>5, Recursion
<1>7. ASSUME NEW k \in 0 .. N PROVE f[k] = IF k = 0 THEN a ELSE Step(k, f[k - 1])
  <2> HIDE DEF Step
  <2>1. CASE k = 0  BY <1>6, <2>1 DEF Recursive
  <2>2. CASE k # 0
    <3>1. k \in 1 .. N /\ k - 1 \in 0 .. N  BY <1>1, <2>2
    <3>2. f[k] = G[<<k, f[k - 1]>>]  BY <1>6, <2>2 DEF Recursive
    <3>3. f[k - 1] \in Wheels  BY <3>1
    <3>4. G[<<k, f[k - 1]>>] = Step(k, f[k - 1])  BY <1>4, <3>1, <3>3
    <3> QED  BY <2>2, <3>2, <3>4
  <2> QED  BY <2>1, <2>2
<1>8. MoveSteps(w, from, t, f)
  <2>1. f = [k \in 0 .. N |-> f[k]]  OBVIOUS
  <2>2. f = [k \in 0 .. N |-> IF k = 0 THEN a ELSE Step(k, f[k - 1])]
    <3> HIDE DEF Step
    <3> QED  BY <1>7, <2>1
  <2> QED  BY <1>a, <1>c, <2>2 DEF MoveSteps
<1>d. PICK g : g = Moves(w, from, t)  OBVIOUS
<1>9. MoveSteps(w, from, t, g)  BY <1>8, <1>d DEF Moves
<1>10. g = [k \in 0 .. N |-> IF k = 0 THEN a ELSE Step(k, g[k - 1])]
  BY <1>9, <1>a, <1>c DEF MoveSteps
<1>11. g[0] = a /\ \A k \in 1 .. N : g[k] = Step(k, g[k - 1])
  <2>1. 0 \in 0 .. N /\ \A k \in 1 .. N : k \in 0 .. N /\ k # 0  BY <1>1
  <2> HIDE DEF Step
  <2> QED  BY <1>10, <2>1
<1>12. \A k \in 0 .. N : g[k] \in Wheels
  <2> DEFINE T == {k \in 0 .. N : g[k] \in Wheels}
  <2> HIDE DEF Step
  <2>1. 0 \in T  BY <1>1, <1>2, <1>11
  <2>2. ASSUME NEW k \in 1 .. N, k - 1 \in T PROVE k \in T  BY <1>1, <1>3, <1>11, <2>2
  <2>3. \A k \in 0 .. N : k \in T
    <3> HIDE DEF T
    <3> QED  BY <1>1, <2>1, <2>2, UpTo
  <2> QED  BY <2>3
<1>13. MovedOneByOne(w, from, t, g)
  BY <1>a, <1>c, <1>11, <1>12 DEF MovedOneByOne
<1>14. MoveList(w, from, t) = g[N]  BY <1>a, <1>d DEF MoveList, Moves, MoveSteps
<1> QED  BY <1>13, <1>14, <1>a, <1>d

\* Of one node moved: the lists it is not added to stay.
LEMMA MoveOne ==
    ASSUME NEW w, NEW from, NEW t, Movable(w, from, t), NEW m, MovedOneByOne(w, from, t, m),
           NEW k \in 1 .. Len(w[from]), NEW s \in Slots
    PROVE  /\ w[from][k] \in Nodes /\ expire[w[from][k]] \in Times
           /\ m[k - 1] \in Wheels /\ m[k - 1][s] \in Seq(Nodes)
           /\ m[k][s] = IF Place(expire[w[from][k]], t) = s THEN Append(m[k - 1][s], w[from][k])
                        ELSE m[k - 1][s]
<1> PICK list, n, r : list = w[from] /\ n = list[k] /\ r = Place(expire[n], t)  OBVIOUS
<1>1. list \in Seq(Nodes) /\ n \in Elements(list) /\ n \in Nodes /\ expire[n] \in Times
  <2>1. list \in Seq(Nodes)  BY DEF Movable, Wheels
  <2>2. n \in Elements(list) /\ n \in Nodes  BY <2>1 DEF Elements
  <2> QED  BY <2>1, <2>2 DEF Movable
<1>2. m[k - 1] \in Wheels
  <2>1. k - 1 \in 0 .. Len(list)  BY <1>1
  <2> QED  BY <2>1 DEF MovedOneByOne
<1>3. m[k] = [m[k - 1] EXCEPT ![r] = Append(m[k - 1][r], n)]
  BY DEF MovedOneByOne
<1>4. m[k][s] = IF r = s THEN Append(m[k - 1][s], n) ELSE m[k - 1][s]
  BY <1>2, <1>3 DEF Wheels
<1> QED  BY <1>1, <1>2, <1>4 DEF Wheels

\* The nodes of a list with one more at its end.
LEMMA ElementsAppend ==
    ASSUME NEW list \in Seq(Nodes), NEW n \in Nodes
    PROVE  /\ Append(list, n) \in Seq(Nodes)
           /\ Elements(Append(list, n)) = Elements(list) \union {n}
           /\ NoRepeat(list) /\ n \notin Elements(list) => NoRepeat(Append(list, n))
<1> PICK more, m : more = Append(list, n) /\ m = Len(list)  OBVIOUS
<1>1. /\ more \in Seq(Nodes) /\ m \in Nat /\ Len(more) = m + 1 /\ more[m + 1] = n
      /\ \A k \in 1 .. m : more[k] = list[k]
  OBVIOUS
<1>2. Elements(more) = Elements(list) \union {n}
  <2>1. 1 .. m + 1 = (1 .. m) \union {m + 1}  BY <1>1
  <2> QED  BY <1>1, <2>1 DEF Elements
<1>3. ASSUME NoRepeat(list), n \notin Elements(list) PROVE NoRepeat(more)
  <2> SUFFICES ASSUME NEW i \in 1 .. m + 1, NEW j \in 1 .. m + 1, more[i] = more[j] PROVE i = j
    BY <1>1 DEF NoRepeat
  <2>1. \A k \in 1 .. m : list[k] # n  BY <1>3 DEF Elements
  <2>2. CASE i = m + 1 /\ j = m + 1  BY <2>2
  <2>3. CASE i = m + 1 /\ j # m + 1  BY <1>1, <2>1, <2>3
  <2>4. CASE i # m + 1 /\ j = m + 1  BY <1>1, <2>1, <2>4
  <2>5. CASE i # m + 1 /\ j # m + 1
    <3>1. i \in 1 .. m /\ j \in 1 .. m  BY <1>1, <2>5
    <3>2. list[i] = list[j]  BY <1>1, <3>1
    <3> QED  BY <1>3, <3>1, <3>2 DEF NoRepeat
  <2> QED  BY <2>2, <2>3, <2>4, <2>5
<1> QED  BY <1>1, <1>2, <1>3

\* What is in the lists after k moves.
InAfter(w, from, t, k, s, n) ==
    \/ s # from /\ n \in Elements(w[s])
    \/ \E i \in 1 .. k : w[from][i] = n /\ Place(expire[n], t) = s

\* Each node of the list is moved to the list that add_node finds, and is there once.
LEMMA MovedElements ==
    ASSUME NEW w, NEW from, NEW t, Movable(w, from, t)
    PROVE  /\ MoveList(w, from, t) \in Wheels
           /\ \A s \in Slots : \A n :
                 n \in Elements(MoveList(w, from, t)[s])
                     <=> \/ s # from /\ n \in Elements(w[s])
                         \/ n \in Elements(w[from]) /\ Place(expire[n], t) = s
           /\ \A s \in Slots : NoRepeat(MoveList(w, from, t)[s])
<1> PICK list, N, m : list = w[from] /\ N = Len(list) /\ m = Moves(w, from, t)  OBVIOUS
<1>1. MovedOneByOne(w, from, t, m) /\ MoveList(w, from, t) = m[N]  BY MovesFacts
<1>2. /\ w \in Wheels /\ from \in Slots /\ list \in Seq(Nodes) /\ N \in Nat
      /\ NoRepeat(list)
      /\ \A s \in Slots : NoRepeat(w[s])
      /\ \A s \in Slots \ {from} : Elements(w[s]) \intersect Elements(list) = {}
  <2>1. w \in Wheels /\ from \in Slots  BY DEF Movable
  <2>2. list \in Seq(Nodes)  BY <2>1 DEF Wheels
  <2> QED  BY <2>1, <2>2 DEF Movable
<1>3. m[0] = [w EXCEPT ![from] = <<>>] /\ \A k \in 0 .. N : m[k] \in Wheels
  BY <1>1 DEF MovedOneByOne
<1> DEFINE Held(k, s) == {n \in Nodes : InAfter(w, from, t, k, s, n)}
           T == {k \in 0 .. N :
                    \A s \in Slots : Elements(m[k][s]) = Held(k, s) /\ NoRepeat(m[k][s])}
<1>4. 0 \in T
  <2> SUFFICES ASSUME NEW s \in Slots PROVE Elements(m[0][s]) = Held(0, s) /\ NoRepeat(m[0][s])
    BY <1>2
  <2>1. CASE s = from
    <3>1. m[0][s] = <<>>  BY <1>2, <1>3, <2>1 DEF Wheels
    <3>2. Held(0, s) = {}  BY <2>1 DEF InAfter
    <3> QED  BY <3>1, <3>2 DEF Elements, NoRepeat
  <2>2. CASE s # from
    <3>1. m[0][s] = w[s] /\ w[s] \in Seq(Nodes)  BY <1>2, <1>3, <2>2 DEF Wheels
    <3>2. Held(0, s) = Elements(w[s])  BY <2>2, <3>1 DEF InAfter, Elements
    <3> QED  BY <1>2, <3>1, <3>2
  <2> QED  BY <2>1, <2>2
<1>5. ASSUME NEW k \in 1 .. N, k - 1 \in T PROVE k \in T
  <2> SUFFICES ASSUME NEW s \in Slots PROVE Elements(m[k][s]) = Held(k, s) /\ NoRepeat(m[k][s])
    BY <1>2
  <2> PICK n, old : n = list[k] /\ old = m[k - 1][s]  OBVIOUS
  <2>1. /\ n \in Nodes /\ expire[n] \in Times /\ old \in Seq(Nodes)
        /\ m[k][s] = IF Place(expire[n], t) = s THEN Append(old, n) ELSE old
    BY <1>1, MoveOne
  <2>2. Elements(old) = Held(k - 1, s) /\ NoRepeat(old)  BY <1>5
  <2>3. 1 .. k = (1 .. k - 1) \union {k} /\ k \in 1 .. N  BY <1>2
  <2>4. n \in Elements(list) /\ \A i \in 1 .. k - 1 : list[i] # n
    <3>1. \A i \in 1 .. k - 1 : i \in 1 .. N /\ i # k  BY <1>2
    <3> QED  BY <1>2, <2>3, <3>1 DEF Elements, NoRepeat
  <2>5. Held(k, s) = IF Place(expire[n], t) = s THEN Held(k - 1, s) \union {n} ELSE Held(k - 1, s)
    BY <2>1, <2>3 DEF InAfter
  <2>6. n \notin Held(k - 1, s)
    BY <1>2, <2>4 DEF InAfter
  <2>7. CASE Place(expire[n], t) = s
    <3>1. m[k][s] = Append(old, n)  BY <2>1, <2>7
    <3>2. Elements(Append(old, n)) = Elements(old) \union {n} /\ NoRepeat(Append(old, n))
      BY <2>1, <2>2, <2>6, ElementsAppend
    <3> QED  BY <2>2, <2>5, <2>7, <3>1, <3>2
  <2>8. CASE Place(expire[n], t) # s
    BY <2>1, <2>2, <2>5, <2>8
  <2> QED  BY <2>7, <2>8
<1>6. N \in T
  <2>1. N \in 0 .. N  BY <1>2
  <2> HIDE DEF T
  <2> QED  BY <1>2, <1>4, <1>5, <2>1, UpTo
<1>7. m[N] \in Wheels  BY <1>2, <1>3
<1>8. ASSUME NEW s \in Slots, NEW n
      PROVE  n \in Elements(m[N][s])
                 <=> \/ s # from /\ n \in Elements(w[s])
                     \/ n \in Elements(list) /\ Place(expire[n], t) = s
  <2>1. Elements(m[N][s]) = Held(N, s)  BY <1>6
  <2>2. Elements(w[s]) \subseteq Nodes /\ Elements(list) \subseteq Nodes
    <3>1. w[s] \in Seq(Nodes)  BY <1>2 DEF Wheels
    <3> QED  BY <1>2, <3>1 DEF Elements
  <2>3. n \in Elements(list) <=> \E i \in 1 .. N : list[i] = n  BY DEF Elements
  <2> QED  BY <2>1, <2>2, <2>3 DEF InAfter
<1> QED  BY <1>1, <1>6, <1>7, <1>8
\* None of a list's nodes expires at time e.
NoneDue(list, e) == \A n \in Elements(list) : expire[n] # e

\* A move keeps the order: in the list that add_node finds for time e the nodes due then are
\* those of the moved list, if it had none before.
LEMMA MovedDue ==
    ASSUME NEW w, NEW from, NEW t, Movable(w, from, t), NEW e \in Times, NEW s \in Slots,
           s = Place(e, t), s = from \/ NoneDue(w[s], e)
    PROVE  DueOf(expire, MoveList(w, from, t)[s], e) = DueOf(expire, w[from], e)
<1>a. PICK list, N, m : list = w[from] /\ N = Len(list) /\ m = Moves(w, from, t)  OBVIOUS
<1>b. PICK due : due = DueAmong(expire, list, e)  OBVIOUS
<1>1. MovedOneByOne(w, from, t, m) /\ MoveList(w, from, t) = m[N]  BY <1>a, MovesFacts
<1>2. w \in Wheels /\ from \in Slots /\ list \in Seq(Nodes) /\ N \in Nat
  <2>1. w \in Wheels /\ from \in Slots  BY DEF Movable
  <2>2. list \in Seq(Nodes)  BY <1>a, <2>1 DEF Wheels
  <2> QED  BY <1>a, <2>1, <2>2
<1>3. /\ due[0] = <<>>
      /\ \A k \in 1 .. N :
            due[k] = IF expire[list[k]] = e THEN Append(due[k - 1], list[k]) ELSE due[k - 1]
  <2>1. OneByOne(expire, list, e, due)  BY <1>b, <1>2, DueAmongFacts
  <2> QED  BY <1>a, <2>1 DEF OneByOne
<1> DEFINE T == {k \in 0 .. N : DueOf(expire, m[k][s], e) = due[k]}
<1>4. 0 \in T
  <2>1. m[0][s] = IF s = from THEN <<>> ELSE w[s]
    BY <1>1, <1>2 DEF MovedOneByOne, Wheels
  <2>2. DueOf(expire, <<>>, e) = <<>>  BY DueEmpty
  <2>3. s # from => DueOf(expire, w[s], e) = <<>>
    <3>1. w[s] \in Seq(Nodes)  BY <1>2 DEF Wheels
    <3> QED  BY <3>1, DueMembers DEF NoneDue
  <2>4. DueOf(expire, m[0][s], e) = <<>>  BY <2>1, <2>2, <2>3
  <2> QED  BY <1>2, <1>3, <2>4
<1>5. ASSUME NEW k \in 1 .. N, k - 1 \in T PROVE k \in T
  <2>a. PICK n, old : n = list[k] /\ old = m[k - 1][s]  OBVIOUS
  <2>1. /\ n \in Nodes /\ expire[n] \in Times /\ old \in Seq(Nodes)
        /\ m[k][s] = IF Place(expire[n], t) = s THEN Append(old, n) ELSE old
    BY <1>1, <1>a, <2>a, MoveOne
  <2>2. DueOf(expire, old, e) = due[k - 1]  BY <1>5, <2>a
  <2>3. DueOf(expire, Append(old, n), e)
            = IF expire[n] = e THEN Append(due[k - 1], n) ELSE due[k - 1]
    BY <2>1, <2>2, DueAppend
  <2>4. expire[n] = e => Place(expire[n], t) = s  OBVIOUS
  <2>5. due[k] = IF expire[n] = e THEN Append(due[k - 1], n) ELSE due[k - 1]  BY <1>3, <2>a
  <2>6. DueOf(expire, m[k][s], e) = due[k]  BY <2>1, <2>2, <2>3, <2>4, <2>5
  <2> QED  BY <1>2, <2>6
<1>6. N \in T
  <2>1. N \in 0 .. N  BY <1>2
  <2> HIDE DEF T
  <2> QED  BY <1>2, <1>4, <1>5, <2>1, UpTo
<1> QED  BY <1>1, <1>6, <1>a, <1>b DEF DueOf

\* The nodes due at a time for which the moved list had none are where they were.
LEMMA UnmovedDue ==
    ASSUME NEW w, NEW from, NEW t, Movable(w, from, t), NEW e, NEW s \in Slots,
           s # from, NoneDue(w[from], e)
    PROVE  DueOf(expire, MoveList(w, from, t)[s], e) = DueOf(expire, w[s], e)
<1>a. PICK list, N, m : list = w[from] /\ N = Len(list) /\ m = Moves(w, from, t)  OBVIOUS
<1>1. MovedOneByOne(w, from, t, m) /\ MoveList(w, from, t) = m[N]  BY <1>a, MovesFacts
<1>2. w \in Wheels /\ from \in Slots /\ list \in Seq(Nodes) /\ N \in Nat
  <2>1. w \in Wheels /\ from \in Slots  BY DEF Movable
  <2>2. list \in Seq(Nodes)  BY <1>a, <2>1 DEF Wheels
  <2> QED  BY <1>a, <2>1, <2>2
<1> DEFINE T == {k \in 0 .. N : DueOf(expire, m[k][s], e) = DueOf(expire, w[s], e)}
<1>3. 0 \in T
  <2>1. m[0][s] = w[s]  BY <1>1, <1>2 DEF MovedOneByOne, Wheels
  <2> QED  BY <1>2, <2>1
<1>4. ASSUME NEW k \in 1 .. N, k - 1 \in T PROVE k \in T
  <2>a. PICK n, old : n = list[k] /\ old = m[k - 1][s]  OBVIOUS
  <2>1. /\ n \in Nodes /\ old \in Seq(Nodes)
        /\ m[k][s] = IF Place(expire[n], t) = s THEN Append(old, n) ELSE old
    BY <1>1, <1>a, <2>a, MoveOne
  <2>2. expire[n] # e  BY <1>a, <2>a DEF NoneDue, Elements
  <2>3. DueOf(expire, Append(old, n), e) = DueOf(expire, old, e)
    BY <2>1, <2>2, DueAppend
  <2>4. DueOf(expire, m[k][s], e) = DueOf(expire, w[s], e)  BY <1>4, <2>1, <2>3, <2>a
  <2> QED  BY <1>2, <2>4
<1>5. N \in T
  <2>1. N \in 0 .. N  BY <1>2
  <2> HIDE DEF T
  <2> QED  BY <1>2, <1>3, <1>4, <2>1, UpTo
<1> QED  BY <1>1, <1>5

-----------------------------------------------------------------------------
(* timer_shift *)

\* In the wheel only the slots that add_node finds hold anything, and each node once.
LEMMA WheelFacts ==
    ASSUME WheelInv
    PROVE  /\ time \in Times /\ wheel \in Wheels /\ firing \in Seq(Nodes)
           /\ \A s \in Slots : \A n \in Elements(wheel[s]) :
                 /\ n \in Nodes /\ expire[n] \in Times
                 /\ s = Place(expire[n], time) /\ Ticks(expire[n], time) \in Delays
           /\ \A s \in Slots : NoRepeat(wheel[s])
           /\ \A s \in Slots : \A n \in Elements(wheel[s]) : n \notin Elements(firing)
<1>1. time \in Times /\ wheel \in Wheels /\ firing \in Seq(Nodes)
  BY DEF WheelInv, TypeOK, Wheels
<1>2. ASSUME NEW s \in Slots, NEW n \in Elements(wheel[s])
      PROVE  /\ n \in Nodes /\ expire[n] \in Times
             /\ s = Place(expire[n], time) /\ Ticks(expire[n], time) \in Delays
  <2>1. wheel[s] \in Seq(Nodes)  BY <1>1 DEF Wheels
  <2>2. n \in Nodes  BY <2>1 DEF Elements
  <2> QED  BY <2>2 DEF WheelInv, WellPlaced, TicksTo, Ticks
<1>3. \A s \in Slots : NoRepeat(wheel[s])
  BY DEF WheelInv, InOneList, NodeLists
<1>4. \A s \in Slots : \A n \in Elements(wheel[s]) : n \notin Elements(firing)
  BY DEF WheelInv, InOneList
<1> QED  BY <1>1, <1>2, <1>3, <1>4

\* timer_shift at the next tick: the wheel holds the nodes it held, each once and where add_node
\* puts it at that tick, and the nodes due at a time keep their order.
LEMMA ShiftFacts ==
    ASSUME WheelInv, NEW u, u = After(time), NEW W, W = Shifted(u)
    PROVE  /\ u \in Times /\ W \in Wheels
           /\ \A s \in Slots : NoRepeat(W[s])
           /\ \A s \in Slots : \A n \in Elements(W[s]) :
                 /\ n \in Nodes /\ expire[n] \in Times
                 /\ s = Place(expire[n], u) /\ Ticks(expire[n], time) \in Delays
                 /\ \E r \in Slots : n \in Elements(wheel[r])
           /\ \A s \in Slots : \A n \in Elements(wheel[s]) :
                 \E r \in Slots : n \in Elements(W[r])
           /\ \A e \in Times : Ticks(e, time) \in Delays
                 => DueOf(expire, W[Place(e, u)], e) = DueOf(expire, wheel[Place(e, time)], e)
<1>1. /\ time \in Times /\ wheel \in Wheels
      /\ \A s \in Slots : \A n \in Elements(wheel[s]) :
            /\ n \in Nodes /\ expire[n] \in Times
            /\ s = Place(expire[n], time) /\ Ticks(expire[n], time) \in Delays
      /\ \A s \in Slots : NoRepeat(wheel[s])
  BY WheelFacts
<1>2. u \in Times  BY <1>1, AfterIs
<1>3. ASSUME NEW e \in Times, Ticks(e, time) \in Delays, Place(e, time) \notin Cascaded(u)
      PROVE  Place(e, u) = Place(e, time)
  BY <1>1, <1>3, Stays
<1>4. CASE Cascaded(u) = {}
  <2>1. W = wheel  BY <1>4 DEF Shifted
  <2>2. ASSUME NEW e \in Times, Ticks(e, time) \in Delays PROVE Place(e, u) = Place(e, time)
    BY <1>3, <1>4, <2>2
  <2>3. \A s \in Slots : \A n \in Elements(W[s]) :
            /\ n \in Nodes /\ expire[n] \in Times
            /\ s = Place(expire[n], u) /\ Ticks(expire[n], time) \in Delays
            /\ \E r \in Slots : n \in Elements(wheel[r])
    BY <1>1, <2>1, <2>2
  <2>4. \A e \in Times : Ticks(e, time) \in Delays
            => DueOf(expire, W[Place(e, u)], e) = DueOf(expire, wheel[Place(e, time)], e)
    BY <2>1, <2>2
  <2> QED  BY <1>1, <1>2, <2>1, <2>3, <2>4
<1>5. CASE Cascaded(u) # {}
  <2>a. PICK from : from = CHOOSE s \in Cascaded(u) : TRUE  OBVIOUS
  <2>1. from \in Cascaded(u)  BY <1>5, <2>a
  <2>2. from \in Slots /\ \A s \in Cascaded(u) : s = from  BY <1>2, <2>1, CascadedOne
  <2>3. W = MoveList(wheel, from, u)  BY <1>5, <2>a DEF Shifted
  <2>4. Movable(wheel, from, u)
    <3>1. \A s \in Slots \ {from} : Elements(wheel[s]) \intersect Elements(wheel[from]) = {}
      BY <1>1, <2>2
    <3> QED  BY <1>1, <1>2, <2>2, <3>1 DEF Movable
  <2>5. /\ W \in Wheels
        /\ \A s \in Slots : \A n :
              n \in Elements(W[s]) <=> \/ s # from /\ n \in Elements(wheel[s])
                                       \/ n \in Elements(wheel[from]) /\ Place(expire[n], u) = s
        /\ \A s \in Slots : NoRepeat(W[s])
    BY <2>3, <2>4, MovedElements
  <2>6. ASSUME NEW s \in Slots, NEW n \in Elements(W[s])
        PROVE  /\ n \in Nodes /\ expire[n] \in Times
               /\ s = Place(expire[n], u) /\ Ticks(expire[n], time) \in Delays
               /\ \E r \in Slots : n \in Elements(wheel[r])
    <3>1. CASE s # from /\ n \in Elements(wheel[s])
      <4>1. /\ n \in Nodes /\ expire[n] \in Times
            /\ s = Place(expire[n], time) /\ Ticks(expire[n], time) \in Delays
        BY <1>1, <3>1
      <4>2. Place(expire[n], u) = Place(expire[n], time)  BY <1>3, <2>2, <3>1, <4>1
      <4> QED  BY <3>1, <4>1, <4>2
    <3>2. CASE n \in Elements(wheel[from]) /\ Place(expire[n], u) = s
      BY <1>1, <2>2, <3>2
    <3> QED  BY <2>5, <3>1, <3>2
  <2>7. ASSUME NEW s \in Slots, NEW n \in Elements(wheel[s])
        PROVE  \E r \in Slots : n \in Elements(W[r])
    <3>1. CASE s # from  BY <2>5, <3>1
    <3>2. CASE s = from
      <4>1. expire[n] \in Times  BY <1>1
      <4>2. Place(expire[n], u) \in Slots  BY <1>2, <4>1, PlaceTyped
      <4> QED  BY <2>5, <3>2, <4>2
    <3> QED  BY <3>1, <3>2
  <2>8. ASSUME NEW e \in Times, Ticks(e, time) \in Delays
        PROVE  DueOf(expire, W[Place(e, u)], e) = DueOf(expire, wheel[Place(e, time)], e)
    <3>a. PICK s, r : s = Place(e, u) /\ r = Place(e, time)  OBVIOUS
    <3>1. s \in Slots /\ r \in Slots  BY <1>1, <1>2, <3>a, PlaceTyped
    <3>2. ASSUME NEW x \in Slots, x # r PROVE NoneDue(wheel[x], e)
      BY <1>1, <3>2, <3>a DEF NoneDue
    <3>3. CASE r = from
      <4>1. s = from \/ NoneDue(wheel[s], e)  BY <3>1, <3>2, <3>3
      <4>2. DueOf(expire, W[s], e) = DueOf(expire, wheel[from], e)
        BY <2>3, <2>4, <3>1, <3>a, <4>1, MovedDue
      <4> QED  BY <3>3, <3>a, <4>2
    <3>4. CASE r # from
      <4>1. s = r  BY <1>3, <2>2, <2>8, <3>4, <3>a
      <4>2. NoneDue(wheel[from], e)  BY <2>2, <3>2, <3>4
      <4>3. DueOf(expire, W[s], e) = DueOf(expire, wheel[s], e)
        BY <2>3, <2>4, <3>1, <3>4, <4>1, <4>2, UnmovedDue
      <4> QED  BY <3>a, <4>1, <4>3
    <3> QED  BY <3>3, <3>4
  <2> QED  BY <1>2, <2>5, <2>6, <2>7, <2>8
<1> QED  BY <1>4, <1>5
-----------------------------------------------------------------------------
(* The wheel's invariant *)

\* "timeout 0 (rare condition)" does not arise, nor is anything left to dispatch at a tick
\* whose list was collected: what is registered is always ahead.
LEMMA NearEmpty == WheelInv => wheel[NearSlot(time)] = <<>>
<1> SUFFICES ASSUME WheelInv PROVE wheel[NearSlot(time)] = <<>>  OBVIOUS
<1>a. PICK s : s = NearSlot(time)  OBVIOUS
<1>1. time \in Times /\ wheel \in Wheels  BY WheelFacts
<1>2. s \in Slots  BY <1>1, <1>a, PlaceTyped
<1>3. Elements(wheel[s]) = {}
  <2> SUFFICES ASSUME NEW n \in Elements(wheel[s]) PROVE FALSE  OBVIOUS
  <2>1. /\ expire[n] \in Times /\ s = Place(expire[n], time)
        /\ Ticks(expire[n], time) \in Delays
    BY <1>2, WheelFacts
  <2>2. expire[n] = time  BY <1>1, <1>a, <2>1, NearOnlyNow
  <2>3. Ticks(expire[n], time) = 0  BY <1>1, <2>1, <2>2, TicksFacts
  <2> QED  BY <2>1, <2>3 DEF Delays
<1>b. PICK list : list = wheel[s]  OBVIOUS
<1>4. list \in Seq(Nodes)  BY <1>1, <1>2, <1>b DEF Wheels
<1>5. CASE list # <<>>
  <2>1. 1 \in 1 .. Len(list)  BY <1>4, <1>5
  <2>2. list[1] \in Elements(list)  BY <2>1 DEF Elements
  <2> QED  BY <1>3, <1>b, <2>2
<1> QED  BY <1>5, <1>a, <1>b

\* At the start nothing is set.
LEMMA WheelInit == Init => WheelInv
<1> SUFFICES ASSUME Init PROVE WheelInv  OBVIOUS
<1>1. \A s \in Slots : wheel[s] = <<>>  BY DEF Init
<1>2. firing = <<>> /\ \A n \in Nodes : expire[n] = Free  BY DEF Init
<1>3. TypeOK
  <2>1. time \in Times  BY UnitFacts DEF Init, Times
  <2>2. MaxDiff \in Nat  BY SizeAssumption
  <2>3. wheel \in [Slots -> Seq(Nodes)]  BY DEF Init
  <2>4. expire \in [Nodes -> Times \union {Free}]  BY DEF Init
  <2>5. firing \in Seq(Nodes)  BY <1>2
  <2> QED  BY <2>1, <2>2, <2>3, <2>4, <2>5 DEF Init, TypeOK
<1>4. Elements(<<>>) = {}  BY DEF Elements
<1>5. WellPlaced  BY <1>1, <1>4 DEF WellPlaced
<1>6. \A list \in NodeLists : list = <<>>  BY <1>1, <1>2 DEF NodeLists
<1>7. InOneList
  <2>1. NoRepeat(<<>>)  BY DEF NoRepeat
  <2> QED  BY <1>1, <1>2, <1>4, <1>6, <2>1 DEF InOneList
<1> QED  BY <1>3, <1>5, <1>7 DEF WheelInv

\* The invariant in parts that are shown one at a time.
LEMMA InvFrom ==
    ASSUME TypeOK',
           \A s \in Slots : \A n \in Elements(wheel'[s]) :
              /\ expire'[n] \in Times
              /\ s = Place(expire'[n], time') /\ Ticks(expire'[n], time') \in Delays
              /\ n \notin Elements(firing'),
           \A n \in Nodes : expire'[n] # Free
              <=> n \in Elements(firing') \/ \E s \in Slots : n \in Elements(wheel'[s]),
           NoRepeat(firing'), \A s \in Slots : NoRepeat(wheel'[s])
    PROVE  WheelInv'
<1>1. WellPlaced'  BY DEF WellPlaced, TicksTo, Ticks
<1>2. InOneList'  BY DEF InOneList, NodeLists
<1> QED  BY <1>1, <1>2 DEF WheelInv

\* What is set is in the list that is dispatched or in one slot's.
LEMMA SetFacts ==
    ASSUME WheelInv
    PROVE  /\ expire \in [Nodes -> Times \union {Free}]
           /\ \A n \in Nodes : expire[n] # Free
                 <=> n \in Elements(firing) \/ \E s \in Slots : n \in Elements(wheel[s])
           /\ NoRepeat(firing)
BY DEF WheelInv, TypeOK, InOneList, NodeLists

\* A registration puts the node where add_node says, as many ticks ahead as was asked for.
LEMMA RegisterInv ==
    ASSUME WheelInv, NEW n \in Nodes, NEW delay \in Delays, Register(n, delay)
    PROVE  WheelInv'
<1>a. PICK e, r : e = (delay + time) % Word /\ r = Place(e, time)  OBVIOUS
<1>1. /\ time \in Times /\ wheel \in Wheels
      /\ \A s \in Slots : \A x \in Elements(wheel[s]) :
            /\ x \in Nodes /\ expire[x] \in Times
            /\ s = Place(expire[x], time) /\ Ticks(expire[x], time) \in Delays
      /\ \A s \in Slots : NoRepeat(wheel[s])
      /\ \A s \in Slots : \A x \in Elements(wheel[s]) : x \notin Elements(firing)
  BY WheelFacts
<1>2. /\ expire \in [Nodes -> Times \union {Free}]
      /\ \A x \in Nodes : expire[x] # Free
            <=> x \in Elements(firing) \/ \E s \in Slots : x \in Elements(wheel[s])
      /\ NoRepeat(firing)
  BY SetFacts
<1>3. e \in Times /\ Ticks(e, time) = delay  BY <1>1, <1>a, TicksSet
<1>4. r \in Slots  BY <1>1, <1>3, <1>a, PlaceTyped
<1>5. /\ expire' = [expire EXCEPT ![n] = e]
      /\ wheel' = [wheel EXCEPT ![r] = Append(wheel[r], n)]
      /\ UNCHANGED <<time, firing, pc, behind, out>> /\ expire[n] = Free
  BY <1>a DEF Register
<1>6. /\ n \notin Elements(firing) /\ \A s \in Slots : n \notin Elements(wheel[s])
  BY <1>2, <1>5
<1>7. e # Free  BY <1>3, NodeAssumption
<1>8. \A s \in Slots : wheel'[s] = IF s = r THEN Append(wheel[s], n) ELSE wheel[s]
  BY <1>1, <1>4, <1>5 DEF Wheels
<1>9. \A x \in Nodes : expire'[x] = IF x = n THEN e ELSE expire[x]
  BY <1>2, <1>5
<1>10. /\ Append(wheel[r], n) \in Seq(Nodes)
       /\ Elements(Append(wheel[r], n)) = Elements(wheel[r]) \union {n}
       /\ NoRepeat(Append(wheel[r], n))
  <2>1. wheel[r] \in Seq(Nodes)  BY <1>1, <1>4 DEF Wheels
  <2> QED  BY <1>1, <1>4, <1>6, <2>1, ElementsAppend
<1>11. TypeOK'
  <2>1. wheel' \in [Slots -> Seq(Nodes)]  BY <1>1, <1>4, <1>5, <1>10 DEF Wheels
  <2>2. expire' \in [Nodes -> Times \union {Free}]  BY <1>2, <1>3, <1>5
  <2> QED  BY <1>5, <2>1, <2>2 DEF WheelInv, TypeOK
<1>12. ASSUME NEW s \in Slots
       PROVE  Elements(wheel'[s]) = IF s = r THEN Elements(wheel[s]) \union {n}
                                    ELSE Elements(wheel[s])
  BY <1>8, <1>10
<1>13. ASSUME NEW s \in Slots, NEW x \in Elements(wheel'[s])
       PROVE  /\ expire'[x] \in Times
              /\ s = Place(expire'[x], time') /\ Ticks(expire'[x], time') \in Delays
              /\ x \notin Elements(firing')
  <2>1. CASE x = n
    <3>1. s = r  BY <1>6, <1>12, <2>1
    <3>2. expire'[x] = e  BY <1>9, <2>1
    <3> QED  BY <1>3, <1>5, <1>6, <1>a, <2>1, <3>1, <3>2
  <2>2. CASE x # n
    <3>1. x \in Elements(wheel[s])  BY <1>12, <2>2
    <3>2. expire'[x] = expire[x]  BY <1>1, <1>9, <2>2, <3>1
    <3> QED  BY <1>1, <1>5, <3>1, <3>2
  <2> QED  BY <2>1, <2>2
<1>14. ASSUME NEW x \in Nodes
       PROVE  expire'[x] # Free
                 <=> x \in Elements(firing') \/ \E s \in Slots : x \in Elements(wheel'[s])
  <2>1. CASE x = n
    <3>1. expire'[x] = e  BY <1>9, <2>1
    <3>2. x \in Elements(wheel'[r])  BY <1>4, <1>12, <2>1
    <3> QED  BY <1>4, <1>7, <3>1, <3>2
  <2>2. CASE x # n
    <3>1. expire'[x] = expire[x]  BY <1>9, <2>2
    <3>2. firing' = firing  BY <1>5
    <3>3. \A s \in Slots : x \in Elements(wheel'[s]) <=> x \in Elements(wheel[s])
      BY <1>12, <2>2
    <3> QED  BY <1>2, <3>1, <3>2, <3>3
  <2> QED  BY <2>1, <2>2
<1>15. NoRepeat(firing') /\ \A s \in Slots : NoRepeat(wheel'[s])
  BY <1>1, <1>2, <1>5, <1>8, <1>10
<1> QED  BY <1>11, <1>13, <1>14, <1>15, InvFrom

\* A tick collects what expires now; the rest is where it should be, one tick nearer.
LEMMA ShiftInv == WheelInv /\ ExecuteAndShift => WheelInv'
<1> SUFFICES ASSUME WheelInv, ExecuteAndShift PROVE WheelInv'  OBVIOUS
<1>a. PICK u, W, r : u = After(time) /\ W = Shifted(u) /\ r = NearSlot(u)  OBVIOUS
<1>1. /\ pc = "shift" /\ firing = <<>>
      /\ time' = u /\ firing' = W[r] /\ wheel' = [W EXCEPT ![r] = <<>>]
      /\ pc' = "execute" /\ UNCHANGED <<expire, behind, out>>
  BY NearEmpty, <1>a DEF ExecuteAndShift, Collect, After
<1>2. /\ u \in Times /\ W \in Wheels
      /\ \A s \in Slots : NoRepeat(W[s])
      /\ \A s \in Slots : \A n \in Elements(W[s]) :
            /\ n \in Nodes /\ expire[n] \in Times
            /\ s = Place(expire[n], u) /\ Ticks(expire[n], time) \in Delays
            /\ \E x \in Slots : n \in Elements(wheel[x])
      /\ \A s \in Slots : \A n \in Elements(wheel[s]) :
            \E x \in Slots : n \in Elements(W[x])
  BY <1>a, ShiftFacts
<1>3. time \in Times  BY WheelFacts
<1>4. /\ expire \in [Nodes -> Times \union {Free}]
      /\ \A n \in Nodes : expire[n] # Free
            <=> n \in Elements(firing) \/ \E s \in Slots : n \in Elements(wheel[s])
  BY SetFacts
<1>5. r \in Slots  BY <1>2, <1>a, PlaceTyped
<1>6. Elements(<<>>) = {} /\ NoRepeat(<<>>) /\ <<>> \in Seq(Nodes)  BY DEF Elements, NoRepeat
<1>7. \A s \in Slots : wheel'[s] = IF s = r THEN <<>> ELSE W[s]
  BY <1>1, <1>2, <1>5 DEF Wheels
<1>8. TypeOK'
  <2>1. wheel' \in [Slots -> Seq(Nodes)]  BY <1>1, <1>2, <1>5, <1>6 DEF Wheels
  <2>2. firing' \in Seq(Nodes)  BY <1>1, <1>2, <1>5 DEF Wheels
  <2>3. behind > 0  BY <1>1 DEF WheelInv, TypeOK
  <2> QED  BY <1>1, <1>2, <2>1, <2>2, <2>3 DEF WheelInv, TypeOK
<1>9. ASSUME NEW s \in Slots, NEW n \in Elements(wheel'[s])
      PROVE  /\ expire'[n] \in Times
             /\ s = Place(expire'[n], time') /\ Ticks(expire'[n], time') \in Delays
             /\ n \notin Elements(firing')
  <2>1. s # r /\ n \in Elements(W[s])  BY <1>6, <1>7
  <2>a. PICK e : e = expire[n]  OBVIOUS
  <2>2. /\ n \in Nodes /\ e \in Times /\ s = Place(e, u) /\ Ticks(e, time) \in Delays
    BY <1>2, <2>1, <2>a
  <2>3. n \notin Elements(W[r])
    <3>1. n \in Elements(W[r]) => r = Place(e, u)  BY <1>2, <1>5, <2>a
    <3> QED  BY <2>1, <2>2, <3>1
  <2>4. e # u  BY <1>2, <1>a, <2>1, <2>2, NearOnlyNow
  <2>5. Ticks(e, u) \in Delays
    <3>1. e # time  BY <1>3, <2>2, TicksFacts DEF Delays
    <3>2. Ticks(e, u) = Ticks(e, time) - 1  BY <1>3, <1>a, <2>2, <3>1, TicksFacts
    <3>3. Ticks(e, u) # 0  BY <1>2, <2>2, <2>4, TicksFacts
    <3>4. MaxDelay \in Int
      <4>1. Word \in Nat \ {0} /\ Unit[4] \in Nat \ {0}  BY UnitFacts
      <4> QED  BY <4>1, DelayAssumption
    <3> QED  BY <2>2, <3>2, <3>3, <3>4 DEF Delays
  <2> QED  BY <1>1, <2>2, <2>3, <2>5, <2>a
<1>10. ASSUME NEW n \in Nodes
       PROVE  expire'[n] # Free
                 <=> n \in Elements(firing') \/ \E s \in Slots : n \in Elements(wheel'[s])
  <2>1. n \notin Elements(firing)  BY <1>1, <1>6
  <2>2. (\E s \in Slots : n \in Elements(wheel[s])) <=> \E s \in Slots : n \in Elements(W[s])
    BY <1>2
  <2>3. (\E s \in Slots : n \in Elements(W[s]))
            <=> n \in Elements(firing') \/ \E s \in Slots : n \in Elements(wheel'[s])
    BY <1>1, <1>5, <1>6, <1>7
  <2> QED  BY <1>1, <1>4, <2>1, <2>2, <2>3
<1>11. NoRepeat(firing') /\ \A s \in Slots : NoRepeat(wheel'[s])
  BY <1>1, <1>2, <1>5, <1>6, <1>7
<1> QED  BY <1>8, <1>9, <1>10, <1>11, InvFrom

\* A node that is dispatched was in no other list, and is free.
LEMMA DispatchInv == WheelInv /\ DispatchOne => WheelInv'
<1> SUFFICES ASSUME WheelInv, DispatchOne PROVE WheelInv'  OBVIOUS
<1>a. PICK h, rest : h = Head(firing) /\ rest = Tail(firing)  OBVIOUS
<1>1. /\ firing # <<>> /\ out' = h /\ firing' = rest
      /\ expire' = [expire EXCEPT ![h] = Free]
      /\ UNCHANGED <<time, wheel, pc, behind>>
  BY <1>a DEF DispatchOne
<1>2. /\ time \in Times /\ wheel \in Wheels /\ firing \in Seq(Nodes)
      /\ \A s \in Slots : \A n \in Elements(wheel[s]) :
            /\ n \in Nodes /\ expire[n] \in Times
            /\ s = Place(expire[n], time) /\ Ticks(expire[n], time) \in Delays
      /\ \A s \in Slots : NoRepeat(wheel[s])
      /\ \A s \in Slots : \A n \in Elements(wheel[s]) : n \notin Elements(firing)
  BY WheelFacts
<1>3. /\ expire \in [Nodes -> Times \union {Free}]
      /\ \A n \in Nodes : expire[n] # Free
            <=> n \in Elements(firing) \/ \E s \in Slots : n \in Elements(wheel[s])
      /\ NoRepeat(firing)
  BY SetFacts
<1>4. /\ h \in Nodes /\ rest \in Seq(Nodes) /\ Elements(rest) = Elements(firing) \ {h}
      /\ h \in Elements(firing) /\ NoRepeat(rest)
  <2>a. PICK m : m = Len(firing)  OBVIOUS
  <2>1. /\ m \in Nat \ {0} /\ h = firing[1] /\ rest \in Seq(Nodes) /\ Len(rest) = m - 1
        /\ \A k \in 1 .. m - 1 : rest[k] = firing[k + 1]
        /\ \A k \in 1 .. m : firing[k] \in Nodes
    BY <1>1, <1>2, <1>a, <2>a
  <2>2. \A i, j \in 1 .. m : firing[i] = firing[j] => i = j  BY <1>3, <2>a DEF NoRepeat
  <2>3. h \in Nodes /\ h \in Elements(firing)  BY <2>1, <2>a DEF Elements
  <2>4. NoRepeat(rest)
    <3> SUFFICES ASSUME NEW i \in 1 .. m - 1, NEW j \in 1 .. m - 1, rest[i] = rest[j] PROVE i = j
      BY <2>1 DEF NoRepeat
    <3>1. i + 1 \in 1 .. m /\ j + 1 \in 1 .. m /\ firing[i + 1] = firing[j + 1]  BY <2>1
    <3>2. i + 1 = j + 1  BY <2>2, <3>1
    <3> QED  BY <3>2
  <2>5. ASSUME NEW n \in Elements(rest) PROVE n \in Elements(firing) /\ n # h
    <3>1. PICK k \in 1 .. m - 1 : n = rest[k]  BY <2>1 DEF Elements
    <3>2. k + 1 \in 1 .. m /\ 1 \in 1 .. m /\ k + 1 # 1 /\ n = firing[k + 1]  BY <2>1, <3>1
    <3>3. n # h  BY <2>1, <2>2, <3>2
    <3> QED  BY <3>2, <3>3, <2>a DEF Elements
  <2>6. ASSUME NEW n \in Elements(firing), n # h PROVE n \in Elements(rest)
    <3>1. PICK k \in 1 .. m : n = firing[k]  BY <2>a DEF Elements
    <3>2. k # 1  BY <2>1, <2>6, <3>1
    <3>3. k - 1 \in 1 .. m - 1 /\ (k - 1) + 1 = k  BY <2>1, <3>2
    <3>4. rest[k - 1] = n  BY <2>1, <3>1, <3>3
    <3> QED  BY <2>1, <3>3, <3>4 DEF Elements
  <2> QED  BY <2>1, <2>3, <2>4, <2>5, <2>6
<1>5. \A n \in Nodes : expire'[n] = IF n = h THEN Free ELSE expire[n]
  BY <1>1, <1>3
<1>6. TypeOK'
  <2>1. expire' \in [Nodes -> Times \union {Free}]  BY <1>1, <1>3
  <2>2. out' \in Nodes  BY <1>1, <1>4
  <2> QED  BY <1>1, <1>4, <2>1, <2>2 DEF WheelInv, TypeOK
<1>7. ASSUME NEW s \in Slots, NEW n \in Elements(wheel'[s])
      PROVE  /\ expire'[n] \in Times
             /\ s = Place(expire'[n], time') /\ Ticks(expire'[n], time') \in Delays
             /\ n \notin Elements(firing')
  <2>1. n \in Elements(wheel[s])  BY <1>1
  <2>2. n # h /\ n \in Nodes  BY <1>2, <1>4, <2>1
  <2>3. expire'[n] = expire[n]  BY <1>5, <2>2
  <2> QED  BY <1>1, <1>2, <1>4, <2>1, <2>3
<1>8. ASSUME NEW n \in Nodes
      PROVE  expire'[n] # Free
                <=> n \in Elements(firing') \/ \E s \in Slots : n \in Elements(wheel'[s])
  BY <1>1, <1>2, <1>3, <1>4, <1>5
<1>9. NoRepeat(firing') /\ \A s \in Slots : NoRepeat(wheel'[s])
  BY <1>1, <1>2, <1>4
<1> QED  BY <1>6, <1>7, <1>8, <1>9, InvFrom

\* The rest leaves the lists as they are.
LEMMA RestInv ==
    ASSUME WheelInv,
           \/ \E n \in Nodes : RegisterNow(n)
           \/ \E diff \in 1 .. MaxDiff : UpdateTime(diff)
           \/ ExecuteAgain
           \/ UNCHANGED vars
    PROVE  WheelInv' /\ UNCHANGED <<time, wheel, expire, firing>>
<1>1. UNCHANGED <<time, wheel, expire, firing>>
  <2>1. ExecuteAgain => UNCHANGED <<time, wheel, expire, firing>>
    BY NearEmpty DEF ExecuteAgain
  <2> QED  BY <2>1 DEF RegisterNow, UpdateTime, vars
<1>2. TypeOK'
  <2> USE SizeAssumption DEF WheelInv, TypeOK
  <2>1. CASE \E n \in Nodes : RegisterNow(n)  BY <2>1 DEF RegisterNow
  <2>2. CASE \E diff \in 1 .. MaxDiff : UpdateTime(diff)  BY <2>2 DEF UpdateTime
  <2>3. CASE ExecuteAgain
    <3>1. /\ behind' = behind - 1 /\ pc = "execute"
          /\ pc' = IF behind > 1 THEN "shift" ELSE "idle"
          /\ UNCHANGED out
      BY <2>3, NearEmpty DEF ExecuteAgain
    <3>2. behind \in 0 .. MaxDiff /\ behind > 0  BY <3>1
    <3>3. behind' \in 0 .. MaxDiff /\ (pc' # "idle" => behind' > 0)  BY <3>1, <3>2
    <3> QED  BY <1>1, <3>1, <3>3
  <2>4. CASE UNCHANGED vars  BY <2>4 DEF vars
  <2> QED  BY <2>1, <2>2, <2>3, <2>4
<1>3. WellPlaced' /\ InOneList'
  BY <1>1 DEF WheelInv, WellPlaced, TicksTo, InOneList, NodeLists
<1> QED  BY <1>1, <1>2, <1>3 DEF WheelInv

\* Every step preserves the invariant.
LEMMA WheelNext == WheelInv /\ [Next]_vars => WheelInv'
BY RegisterInv, ShiftInv, DispatchInv, RestInv DEF Next, TimerStep

\* Through every cascade and every wrap of the time each alarm that waits is where it will be
\* found in time, and is in one list once.
THEOREM WheelInvAlways == Spec => []WheelInv
BY WheelInit, WheelNext, PTL DEF Spec
-----------------------------------------------------------------------------
(* The calendar *)

\* the time d ticks after t, and the alarms a wheel has for it at t
Moment(t, d) == (t + d) % Word
At(ex, w, t, d) == DueOf(ex, w[Place(Moment(t, d), t)], Moment(t, d))

\* The alarms due in d ticks, as the calendar has them before and after a step.
LEMMA DueInIs ==
    /\ \A d : DueIn(d) = At(expire, wheel, time, d)
    /\ \A d : DueIn(d)' = At(expire', wheel', time', d)
BY DEF DueIn, Due, At, Moment, DueOf, DueAmong, DueSteps

\* A time is as many ticks away as it was put ahead, and is told by them.
LEMMA MomentFacts ==
    ASSUME NEW t \in Times
    PROVE  /\ \A d \in Delays : Moment(t, d) \in Times /\ Ticks(Moment(t, d), t) = d
           /\ \A e \in Times : Ticks(e, t) \in Delays => e = Moment(t, Ticks(e, t))
<1>1. ASSUME NEW d \in Delays PROVE Moment(t, d) \in Times /\ Ticks(Moment(t, d), t) = d
  <2>1. MaxDelay \in Int
    <3>1. Word \in Nat \ {0} /\ Unit[4] \in Nat \ {0}  BY UnitFacts
    <3> QED  BY <3>1, DelayAssumption
  <2>2. d \in Int /\ t \in Int  BY <2>1, TimesFacts DEF Delays
  <2>3. t + d = d + t  BY <2>2
  <2> QED  BY <2>3, TicksSet DEF Moment
<1>2. ASSUME NEW e \in Times, Ticks(e, t) \in Delays PROVE e = Moment(t, Ticks(e, t))
  <2> PICK d, f, w : d = Ticks(e, t) /\ f = Moment(t, d) /\ w = Word  OBVIOUS
  <2>1. f \in Times /\ Ticks(f, t) = d  BY <1>1, <1>2
  <2>2. /\ d = IF t <= e THEN e - t ELSE e - t + w
        /\ d = IF t <= f THEN f - t ELSE f - t + w
    BY <2>1, TicksAre
  <2>3. w \in Nat \ {0} /\ t \in 0 .. w - 1 /\ e \in 0 .. w - 1 /\ f \in 0 .. w - 1
    BY <2>1, UnitFacts DEF Times
  <2>4. e = f  BY ONLY <2>2, <2>3
  <2> QED  BY <2>4
<1> QED  BY <1>1, <1>2

\* A tick brings every time one tick nearer, and the next is a tick away.
LEMMA MomentNext ==
    ASSUME NEW t \in Times, NEW u, u = After(t)
    PROVE  /\ u = Moment(t, 1) /\ Ticks(u, t) = 1
           /\ \A d \in Delays : d # MaxDelay =>
                 d + 1 \in Delays /\ Moment(u, d) = Moment(t, d + 1)
<1>1. MaxDelay \in Nat \ {0}
  <2>1. Word \in Nat \ {0} /\ Unit[4] \in Nat \ {0}  BY UnitFacts
  <2> QED  BY <2>1, DelayAssumption
<1>2. 1 \in Delays  BY <1>1 DEF Delays
<1>3. u = Moment(t, 1)  BY DEF After, Moment
<1>4. u \in Times  BY AfterIs
<1>5. ASSUME NEW d \in Delays, d # MaxDelay
      PROVE  d + 1 \in Delays /\ Moment(u, d) = Moment(t, d + 1)
  <2>1. d \in Nat \ {0} /\ d + 1 \in Delays  BY <1>1, <1>5 DEF Delays
  <2> PICK e : e = Moment(t, d + 1)  OBVIOUS
  <2>2. e \in Times /\ Ticks(e, t) = d + 1  BY <2>1, MomentFacts
  <2>3. e # t  BY <2>1, <2>2, TicksFacts
  <2>4. Ticks(e, u) = d  BY <2>1, <2>2, <2>3, TicksFacts
  <2>5. e = Moment(u, d)  BY <1>4, <2>2, <2>4, MomentFacts
  <2> QED  BY <2>1, <2>5
<1> QED  BY <1>2, <1>3, <1>5, MomentFacts

\* An alarm of the calendar waits in the wheel.
LEMMA CalendarFacts ==
    ASSUME WheelInv, NEW d \in Delays
    PROVE  /\ Moment(time, d) \in Times /\ Place(Moment(time, d), time) \in Slots
           /\ At(expire, wheel, time, d) \in Seq(Nodes)
           /\ \A n \in Elements(At(expire, wheel, time, d)) : expire[n] \in Times
<1> PICK f, s : f = Moment(time, d) /\ s = Place(f, time)  OBVIOUS
<1>1. time \in Times /\ wheel \in Wheels  BY WheelFacts
<1>2. f \in Times /\ s \in Slots  BY <1>1, MomentFacts, PlaceTyped
<1>3. wheel[s] \in Seq(Nodes)  BY <1>1, <1>2 DEF Wheels
<1>4. At(expire, wheel, time, d) = DueOf(expire, wheel[s], f)  BY DEF At
<1> QED  BY <1>2, <1>3, <1>4, DueMembers

\* A node that is not allocated is no alarm that is set.
LEMMA FreeIdle ==
    ASSUME WheelInv, NEW n \in Nodes, expire[n] = Free
    PROVE  Abstract!Idle(n)
<1>1. \A d \in Delays : n \notin Elements(DueIn(d))
  BY CalendarFacts, DueInIs, NodeAssumption
<1>2. n \notin Elements(firing)  BY SetFacts
<1> QED  BY <1>1, <1>2 DEF Abstract!Idle, Abstract!Delays, Delays, Elements

\* skynet_timer_register sets an alarm: it comes last of those due with it.
LEMMA RegisterSets ==
    ASSUME WheelInv, NEW n \in Nodes, NEW delay \in Delays, Register(n, delay)
    PROVE  Abstract!Idle(n) /\ Abstract!Set(n, delay)
<1>a. PICK e, r : e = (delay + time) % Word /\ r = Place(e, time)  OBVIOUS
<1>1. /\ time \in Times /\ wheel \in Wheels
      /\ \A s \in Slots : \A x \in Elements(wheel[s]) : x \in Nodes /\ expire[x] \in Times
  BY WheelFacts
<1>2. expire \in [Nodes -> Times \union {Free}]  BY SetFacts
<1>3. e \in Times /\ Ticks(e, time) = delay  BY <1>1, <1>a, TicksSet
<1>4. r \in Slots /\ e = Moment(time, delay)  BY <1>1, <1>3, <1>a, PlaceTyped, MomentFacts
<1>5. /\ expire' = [expire EXCEPT ![n] = e]
      /\ wheel' = [wheel EXCEPT ![r] = Append(wheel[r], n)]
      /\ UNCHANGED <<time, firing, pc, behind, out>> /\ expire[n] = Free
  BY <1>a DEF Register
<1>6. \A s \in Slots : wheel'[s] = IF s = r THEN Append(wheel[s], n) ELSE wheel[s]
  BY <1>1, <1>4, <1>5 DEF Wheels
<1>7. \A x \in Nodes : expire'[x] = IF x = n THEN e ELSE expire[x]
  BY <1>2, <1>5
<1>8. ASSUME NEW d \in Delays
      PROVE  DueIn(d)' = IF d = delay THEN Append(DueIn(d), n) ELSE DueIn(d)
  <2>a. PICK f, s : f = Moment(time, d) /\ s = Place(f, time)  OBVIOUS
  <2>1. f \in Times /\ Ticks(f, time) = d /\ s \in Slots  BY <1>1, <2>a, MomentFacts, PlaceTyped
  <2>2. /\ DueIn(d) = DueOf(expire, wheel[s], f)
        /\ DueIn(d)' = DueOf(expire', wheel'[s], f)
    BY <1>5, <2>a, DueInIs DEF At
  <2>3. wheel[s] \in Seq(Nodes)  BY <1>1, <2>1 DEF Wheels
  <2>4. DueOf(expire', wheel[s], f) = DueOf(expire, wheel[s], f)
    <3>1. ASSUME NEW x \in Elements(wheel[s]) PROVE expire'[x] = expire[x]
      <4>1. x \in Nodes /\ expire[x] \in Times  BY <1>1, <2>1
      <4>2. x # n  BY <1>5, <4>1, NodeAssumption
      <4> QED  BY <1>7, <4>1, <4>2
    <3> QED  BY <2>3, <3>1, DueSame
  <2>5. DueOf(expire', Append(wheel[s], n), f)
           = IF e = f THEN Append(DueOf(expire', wheel[s], f), n) ELSE DueOf(expire', wheel[s], f)
    <3>1. expire'[n] = e  BY <1>7
    <3> QED  BY <2>3, <3>1, DueAppend
  <2>6. CASE d = delay
    <3>1. f = e /\ s = r  BY <1>4, <1>a, <2>6, <2>a
    <3>2. wheel'[s] = Append(wheel[s], n)  BY <1>6, <2>1, <3>1
    <3> QED  BY <2>2, <2>4, <2>5, <2>6, <3>1, <3>2
  <2>7. CASE d # delay
    <3>1. f # e  BY <1>3, <2>1, <2>7
    <3>2. wheel'[s] = wheel[s] \/ wheel'[s] = Append(wheel[s], n)  BY <1>6, <2>1
    <3> QED  BY <2>2, <2>4, <2>5, <2>7, <3>1, <3>2
  <2> QED  BY <2>6, <2>7
<1>9. Abstract!Idle(n)  BY <1>5, FreeIdle
<1>10. Abstract!Set(n, delay)
  BY <1>5, <1>8 DEF Abstract!Set, Abstract!Delays, Delays
<1> QED  BY <1>9, <1>10

\* A tick collects the alarms due at it and brings the others one tick nearer.
LEMMA ShiftTicks == WheelInv /\ WheelInv' /\ ExecuteAndShift => Abstract!Tick
<1> SUFFICES ASSUME WheelInv, WheelInv', ExecuteAndShift PROVE Abstract!Tick  OBVIOUS
<1>a. PICK u, W, r : u = After(time) /\ W = Shifted(u) /\ r = NearSlot(u)  OBVIOUS
<1>1. /\ firing = <<>> /\ time' = u /\ firing' = W[r] /\ wheel' = [W EXCEPT ![r] = <<>>]
      /\ UNCHANGED <<expire, out>>
  BY NearEmpty, <1>a DEF ExecuteAndShift, Collect, After
<1>2. /\ u \in Times /\ W \in Wheels
      /\ \A s \in Slots : \A n \in Elements(W[s]) :
            /\ n \in Nodes /\ expire[n] \in Times
            /\ s = Place(expire[n], u) /\ Ticks(expire[n], time) \in Delays
      /\ \A e \in Times : Ticks(e, time) \in Delays
            => DueOf(expire, W[Place(e, u)], e) = DueOf(expire, wheel[Place(e, time)], e)
  BY <1>a, ShiftFacts
<1>3. time \in Times  BY WheelFacts
<1>4. r \in Slots  BY <1>2, <1>a, PlaceTyped
<1>5. /\ u = Moment(time, 1) /\ Ticks(u, time) = 1
      /\ \A d \in Delays : d # MaxDelay =>
            d + 1 \in Delays /\ Moment(u, d) = Moment(time, d + 1)
  BY <1>3, <1>a, MomentNext
<1>6. MaxDelay \in Nat \ {0} /\ 1 \in Delays /\ MaxDelay \in Delays
  <2>1. Word \in Nat \ {0} /\ Unit[4] \in Nat \ {0}  BY UnitFacts
  <2>2. MaxDelay \in Nat \ {0}  BY <2>1, DelayAssumption
  <2> QED  BY <2>2 DEF Delays
<1>7. firing' = DueIn(1)
  <2>1. DueIn(1) = DueOf(expire, wheel[Place(u, time)], u)  BY <1>5, DueInIs DEF At
  <2>2. Place(u, u) = r  BY <1>2, <1>a, NearOnlyNow
  <2>3. DueOf(expire, wheel[Place(u, time)], u) = DueOf(expire, W[r], u)
    BY <1>2, <1>5, <1>6, <2>2
  <2>4. W[r] \in Seq(Nodes)  BY <1>2, <1>4 DEF Wheels
  <2>5. ASSUME NEW n \in Elements(W[r]) PROVE expire[n] = u
    <3>a. PICK e : e = expire[n]  OBVIOUS
    <3>1. e \in Times /\ r = Place(e, u)  BY <1>2, <1>4, <3>a
    <3>2. Place(e, u) = NearSlot(u) <=> e = u  BY <1>2, <3>1, NearOnlyNow
    <3> QED  BY <1>a, <3>1, <3>2, <3>a
  <2>6. DueOf(expire, W[r], u) = W[r]  BY <2>4, <2>5, DueMembers
  <2> QED  BY <1>1, <2>1, <2>3, <2>6
<1>8. ASSUME NEW d \in Delays
      PROVE  DueIn(d)' = IF d < MaxDelay THEN DueIn(d + 1) ELSE <<>>
  <2>a. PICK f, s : f = Moment(u, d) /\ s = Place(f, u)  OBVIOUS
  <2>1. f \in Times /\ Ticks(f, u) = d /\ s \in Slots  BY <1>2, <2>a, MomentFacts, PlaceTyped
  <2>2. d \in Nat \ {0} /\ d <= MaxDelay  BY <1>6 DEF Delays
  <2>3. f # u  BY <1>2, <2>1, <2>2, TicksFacts
  <2>4. s # r  BY <1>2, <1>a, <2>1, <2>3, <2>a, NearOnlyNow
  <2>5. wheel'[s] = W[s]  BY <1>1, <1>2, <2>1, <2>4 DEF Wheels
  <2>6. DueIn(d)' = DueOf(expire, W[s], f)  BY <1>1, <2>5, <2>a, DueInIs DEF At
  <2>7. CASE d < MaxDelay
    <3>1. d + 1 \in Delays /\ f = Moment(time, d + 1)  BY <1>5, <1>6, <2>2, <2>7, <2>a
    <3>2. Ticks(f, time) = d + 1  BY <1>3, <3>1, MomentFacts
    <3>3. DueOf(expire, W[s], f) = DueOf(expire, wheel[Place(f, time)], f)
      BY <1>2, <2>1, <2>a, <3>1, <3>2
    <3>4. DueIn(d + 1) = DueOf(expire, wheel[Place(f, time)], f)  BY <3>1, DueInIs DEF At
    <3> QED  BY <2>6, <2>7, <3>3, <3>4
  <2>8. CASE ~(d < MaxDelay)
    <3>1. d = MaxDelay  BY <1>6, <2>2, <2>8
    <3>2. W[s] \in Seq(Nodes)  BY <1>2, <2>1 DEF Wheels
    <3>3. ASSUME NEW n \in Elements(W[s]) PROVE expire[n] # f
      <4>1. SUFFICES ASSUME expire[n] = f PROVE FALSE  OBVIOUS
      <4>2. Ticks(f, time) \in Delays  BY <1>2, <2>1, <4>1
      <4>3. Ticks(f, time) \in Nat \ {0} /\ Ticks(f, time) <= MaxDelay  BY <1>6, <4>2 DEF Delays
      <4>4. f # time  BY <1>3, <4>3, TicksFacts
      <4>5. Ticks(f, u) = Ticks(f, time) - 1  BY <1>3, <1>a, <2>1, <4>4, TicksFacts
      <4> QED  BY <1>6, <2>1, <3>1, <4>3, <4>5
    <3>4. DueOf(expire, W[s], f) = <<>>  BY <3>2, <3>3, DueMembers
    <3> QED  BY <2>6, <2>8, <3>4
  <2> QED  BY <2>7, <2>8
<1>9. \A d \in Delays : d + 1 \in Delays \/ ~(d < MaxDelay)
  BY <1>6 DEF Delays
<1> QED  BY <1>1, <1>6, <1>7, <1>8, <1>9 DEF Abstract!Tick, Abstract!Delays, Delays

\* An alarm that goes off is out of the wheel, and those that wait stay as they are.
LEMMA DispatchGoesOff == WheelInv /\ DispatchOne => Abstract!GoOff
<1> SUFFICES ASSUME WheelInv, DispatchOne PROVE Abstract!GoOff  OBVIOUS
<1>a. PICK h : h = Head(firing)  OBVIOUS
<1>1. /\ firing # <<>> /\ out' = Head(firing) /\ firing' = Tail(firing)
      /\ expire' = [expire EXCEPT ![h] = Free]
      /\ UNCHANGED <<time, wheel>>
  BY <1>a DEF DispatchOne
<1>2. /\ time \in Times /\ wheel \in Wheels /\ firing \in Seq(Nodes)
      /\ \A s \in Slots : \A n \in Elements(wheel[s]) : n \in Nodes /\ n \notin Elements(firing)
  BY WheelFacts
<1>3. expire \in [Nodes -> Times \union {Free}]  BY SetFacts
<1>4. h \in Elements(firing)
  <2>1. 1 \in 1 .. Len(firing) /\ h = firing[1]  BY <1>1, <1>2, <1>a
  <2> QED  BY <2>1 DEF Elements
<1>5. ASSUME NEW d \in Delays PROVE DueIn(d)' = DueIn(d)
  <2>a. PICK f, s : f = Moment(time, d) /\ s = Place(f, time)  OBVIOUS
  <2>1. s \in Slots  BY <1>2, <2>a, MomentFacts, PlaceTyped
  <2>2. wheel[s] \in Seq(Nodes)  BY <1>2, <2>1 DEF Wheels
  <2>3. ASSUME NEW n \in Elements(wheel[s]) PROVE expire'[n] = expire[n]
    <3>1. n \in Nodes /\ n # h  BY <1>2, <1>4, <2>1
    <3> QED  BY <1>1, <1>3, <3>1
  <2>4. DueOf(expire', wheel[s], f) = DueOf(expire, wheel[s], f)  BY <2>2, <2>3, DueSame
  <2> QED  BY <1>1, <2>4, <2>a, DueInIs DEF At
<1> QED  BY <1>1, <1>5 DEF Abstract!GoOff

\* What leaves the wheel and the expiries alone leaves the calendar alone.
LEMMA SameCalendar ==
    ASSUME UNCHANGED <<time, wheel, expire>>
    PROVE  \A d \in Delays : DueIn(d)' = DueIn(d)
BY DueInIs DEF At

\* The wheel implements the calendar: an alarm goes off at the tick it was set for, neither a
\* turn of a level late nor early, and the alarms of one tick in the order they were set.
THEOREM WheelImplementsCalendar == Spec => ImplementsCalendar
<1>1. Init => Abstract!Init
  <2> SUFFICES ASSUME Init PROVE Abstract!Init  OBVIOUS
  <2>1. WheelInv  BY WheelInit
  <2>2. \A s \in Slots : wheel[s] = <<>>  BY DEF Init
  <2>3. \A d \in Delays : DueIn(d) = <<>>
    BY <2>1, <2>2, CalendarFacts, DueEmpty, DueInIs DEF At
  <2> QED  BY <2>3, NodeAssumption DEF Init, Abstract!Init, Abstract!Delays, Delays
<1>2. WheelInv /\ WheelInv' /\ [Next]_vars => [Abstract!Next]_(Abstract!vars)
  <2> SUFFICES ASSUME WheelInv, WheelInv', [Next]_vars
               PROVE  [Abstract!Next]_(Abstract!vars)
    OBVIOUS
  <2>1. ASSUME NEW n \in Nodes, RegisterNow(n) PROVE Abstract!Next
    <3>1. Abstract!Idle(n)  BY <2>1, FreeIdle DEF RegisterNow
    <3>2. Abstract!SetNow(n)
      BY <2>1, SameCalendar DEF RegisterNow, Abstract!SetNow
    <3> QED  BY <3>1, <3>2 DEF Abstract!Next
  <2>2. ASSUME NEW n \in Nodes, NEW delay \in Delays, Register(n, delay) PROVE Abstract!Next
    BY <2>2, RegisterSets DEF Abstract!Next, Abstract!Delays, Delays
  <2>3. CASE ExecuteAndShift  BY <2>3, ShiftTicks DEF Abstract!Next
  <2>4. CASE DispatchOne  BY <2>4, DispatchGoesOff DEF Abstract!Next
  <2>5. CASE \/ \E diff \in 1 .. MaxDiff : UpdateTime(diff)
             \/ ExecuteAgain \/ UNCHANGED vars
    <3>1. UNCHANGED <<time, wheel, expire, firing>>  BY <2>5, RestInv
    <3>2. UNCHANGED out  BY <2>5 DEF UpdateTime, ExecuteAgain, vars
    <3> QED  BY <3>1, <3>2, SameCalendar DEF Abstract!vars
  <2> QED  BY <2>1, <2>2, <2>3, <2>4, <2>5 DEF Next, TimerStep
<1> QED
  BY <1>1, <1>2, WheelInvAlways, PTL DEF Spec, ImplementsCalendar, Abstract!Spec

-----------------------------------------------------------------------------
(* hashid: the buckets and the entries a search looks at *)

\* As many multiples back.
LEMMA MulNeg ==
    ASSUME NEW m \in Nat, NEW q \in Int
    PROVE  q * m \in Int /\ (-q) * m = -(q * m)
OBVIOUS

\* From any x on, every remainder is come to within m steps.
LEMMA ModReaches ==
    ASSUME NEW m \in Nat \ {0}, NEW e \in 0 .. m - 1, NEW x \in Nat
    PROVE  \E r \in 0 .. m - 1 : (r + x) % m = e
<1> PICK q, r : q = (e - x) \div m /\ r = (e - x) % m  OBVIOUS
<1>1. q \in Int /\ r \in 0 .. m - 1 /\ e - x = q * m + r
  <2>1. e - x \in Int  OBVIOUS
  <2> QED  BY <2>1, DivMod
<1> PICK p, y, z : p = q * m /\ y = -q /\ z = r + x  OBVIOUS
<1>2. p \in Int /\ y * m = -p /\ y \in Int  BY <1>1, MulNeg
<1>3. z = y * m + e
  <2>1. e - x = p + r  BY <1>1
  <2>2. z = -p + e  BY <1>1, <1>2, <2>1
  <2> QED  BY <1>2, <2>2
<1>4. z % m = e  BY ONLY <1>2, <1>3, DivIs, m \in Nat \ {0}, e \in 0 .. m - 1
<1> QED  BY <1>1, <1>4

\* There are buckets: hashmod is not negative.
LEMMA HashFacts ==
    /\ HashCap \in Nat \ {0}
    /\ \A x \in Nat : Hash(x) \in Buckets
<1> DEFINE Steps(f) == f = [n \in 0 .. Cap |-> IF n = 0 THEN MinHash ELSE 2 * f[n - 1]]
           Doubled == CHOOSE f : Steps(f)
<1> DEFINE G == [p \in (1 .. Cap) \X (Nat \ {0}) |-> 2 * p[2]]
<1>1. \E f : Steps(f)
  <2>1. G \in [(1 .. Cap) \X (Nat \ {0}) -> Nat \ {0}]  OBVIOUS
  <2>2. PICK f \in [0 .. Cap -> Nat \ {0}] : Recursive(Cap, MinHash, G, f)
    <3> HIDE DEF G
    <3> QED  BY <2>1, Recursion, HashIdAssumption
  <2>3. \A n \in 0 .. Cap : f[n] = IF n = 0 THEN MinHash ELSE 2 * f[n - 1]
    <3>1. ASSUME NEW n \in 0 .. Cap, n # 0 PROVE G[<<n, f[n - 1]>>] = 2 * f[n - 1]
      <4>1. n \in 1 .. Cap /\ n - 1 \in 0 .. Cap  BY <3>1, HashIdAssumption
      <4> QED  BY <4>1
    <3> HIDE DEF G
    <3> QED  BY <2>2, <3>1 DEF Recursive
  <2>4. Steps(f)  BY <2>3
  <2> HIDE DEF Steps
  <2> QED  BY <2>4
<1>2. Steps(Doubled)
  <2> HIDE DEF Steps
  <2> QED  BY <1>1
<1>3. HashCap = Doubled[CHOOSE n \in 0 .. Cap :
                            Doubled[n] >= Cap /\ \A m \in 0 .. n - 1 : Doubled[m] < Cap]
  BY DEF HashCap
<1> PICK d : d = Doubled  OBVIOUS
<1>4. \A n \in 0 .. Cap : d[n] = IF n = 0 THEN MinHash ELSE 2 * d[n - 1]
  <2> HIDE DEF Doubled
  <2> QED  BY <1>2
<1> HIDE DEF Doubled, Steps, G
<1>5. \A n \in 0 .. Cap : d[n] \in Nat \ {0} /\ d[n] > n
  <2> DEFINE T == {n \in 0 .. Cap : d[n] \in Nat \ {0} /\ d[n] > n}
  <2>1. 0 \in T  BY <1>4, HashIdAssumption
  <2>2. ASSUME NEW n \in 1 .. Cap, n - 1 \in T PROVE n \in T
    <3>1. n \in 0 .. Cap /\ n # 0  OBVIOUS
    <3>2. d[n] = 2 * d[n - 1]  BY <1>4, <3>1
    <3>3. d[n - 1] \in Nat \ {0} /\ d[n - 1] > n - 1  BY <2>2
    <3> QED  BY <3>1, <3>2, <3>3
  <2>3. \A n \in 0 .. Cap : n \in T
    <3> HIDE DEF T
    <3> QED  BY <2>1, <2>2, UpTo, HashIdAssumption
  <2> QED  BY <2>3
<1>6. \E n \in 0 .. Cap : d[n] >= Cap /\ \A m \in 0 .. n - 1 : d[m] < Cap
  <2> DEFINE T == {n \in 0 .. Cap : d[n] >= Cap}
  <2>1. Cap \in T  BY <1>5, HashIdAssumption
  <2>2. T \in SUBSET Nat  OBVIOUS
  <2>3. PICK n \in T : \A m \in T : n <= m
    <3> HIDE DEF T
    <3> QED  BY <2>1, <2>2, LeastElement
  <2>4. ASSUME NEW m \in 0 .. n - 1 PROVE d[m] < Cap
    <3>1. n \in 0 .. Cap  OBVIOUS
    <3>2. m \in 0 .. Cap /\ ~(n <= m)  BY <3>1, HashIdAssumption
    <3>3. m \notin T  BY <2>3, <3>2
    <3>4. ~(d[m] >= Cap)  BY <3>2, <3>3
    <3>5. d[m] \in Nat  BY <1>5, <3>2
    <3> HIDE DEF T
    <3> QED  BY <3>4, <3>5, HashIdAssumption
  <2> QED  BY <2>3, <2>4
<1>7. HashCap \in Nat \ {0}
  <2>1. PICK n \in 0 .. Cap :
            n = CHOOSE k \in 0 .. Cap : d[k] >= Cap /\ \A m \in 0 .. k - 1 : d[m] < Cap
    BY <1>6
  <2> QED  BY <1>3, <1>5, <2>1
<1>8. ASSUME NEW x \in Nat PROVE Hash(x) \in Buckets
  BY <1>7, DivMod DEF Hash, Buckets
<1> QED  BY <1>7, <1>8

Links == Entries \cup {Nil}
Tables == [id : [Entries -> Nat \cup {NoId}], next : [Entries -> Links],
           hash : [Buckets -> Links], count : Nat]

\* f is the way a search through the bucket goes.
Goes(t, h, f) ==
    /\ f \in [0 .. Cap -> Links]
    /\ f[0] = t.hash[h]
    /\ \A j \in 1 .. Cap : f[j] = IF f[j - 1] = Nil THEN Nil ELSE t.next[f[j - 1]]

\* A search goes such a way.
LEMMA WalkGoes ==
    ASSUME NEW t \in Tables, NEW x \in Nat
    PROVE  Goes(t, Hash(x), Walk(t, x))
<1> DEFINE Steps(f) == f = [j \in 0 .. Cap |->
                              IF j = 0 THEN t.hash[Hash(x)]
                              ELSE LET before == f[j - 1] IN IF before = Nil THEN Nil ELSE t.next[before]]
           Taken == CHOOSE f : Steps(f)
           G == [p \in (1 .. Cap) \X Links |-> IF p[2] = Nil THEN Nil ELSE t.next[p[2]]]
<1>1. /\ Hash(x) \in Buckets /\ t.hash[Hash(x)] \in Links
      /\ \A e \in Links : e # Nil => t.next[e] \in Links
      /\ Nil \in Links /\ Cap \in Nat
  BY HashFacts, HashIdAssumption DEF Tables, Links
<1>2. Walk(t, x) = Taken  BY DEF Walk
<1>3. \E f : Steps(f)
  <2>1. G \in [(1 .. Cap) \X Links -> Links]  BY <1>1
  <2>2. PICK f \in [0 .. Cap -> Links] : Recursive(Cap, t.hash[Hash(x)], G, f)
    <3> HIDE DEF G
    <3> QED  BY <1>1, <2>1, Recursion
  <2>3. \A j \in 0 .. Cap : f[j] = IF j = 0 THEN t.hash[Hash(x)]
                                   ELSE IF f[j - 1] = Nil THEN Nil ELSE t.next[f[j - 1]]
    <3>1. ASSUME NEW j \in 0 .. Cap, j # 0
          PROVE  G[<<j, f[j - 1]>>] = IF f[j - 1] = Nil THEN Nil ELSE t.next[f[j - 1]]
      <4>1. j \in 1 .. Cap /\ j - 1 \in 0 .. Cap  BY <1>1, <3>1
      <4> QED  BY <4>1
    <3> HIDE DEF G
    <3> QED  BY <2>2, <3>1 DEF Recursive
  <2>4. Steps(f)  BY <2>3
  <2> HIDE DEF Steps
  <2> QED  BY <2>4
<1>4. Steps(Taken)
  <2> HIDE DEF Steps
  <2> QED  BY <1>3
<1> PICK f : f = Taken  OBVIOUS
<1>5. /\ DOMAIN f = 0 .. Cap /\ f = [j \in 0 .. Cap |-> f[j]]
      /\ \A j \in 0 .. Cap : f[j] = IF j = 0 THEN t.hash[Hash(x)]
                                    ELSE IF f[j - 1] = Nil THEN Nil ELSE t.next[f[j - 1]]
  <2>1. Steps(f)
    <3> HIDE DEF Taken, Steps
    <3> QED  BY <1>4
  <2> HIDE DEF Taken
  <2>2. f = [j \in 0 .. Cap |-> IF j = 0 THEN t.hash[Hash(x)]
                               ELSE IF f[j - 1] = Nil THEN Nil ELSE t.next[f[j - 1]]]
    BY <2>1, Zenon
  <2>3. DOMAIN f = 0 .. Cap /\ f = [j \in 0 .. Cap |-> f[j]]  BY <2>2, Zenon
  <2>4. \A j \in 0 .. Cap : f[j] = IF j = 0 THEN t.hash[Hash(x)]
                                  ELSE IF f[j - 1] = Nil THEN Nil ELSE t.next[f[j - 1]]
    BY <2>2, Zenon
  <2> QED  BY <2>3, <2>4, Zenon
<1> HIDE DEF Taken, Steps, G
<1>6. \A j \in 0 .. Cap : f[j] \in Links
  <2> DEFINE T == {j \in 0 .. Cap : f[j] \in Links}
  <2>1. 0 \in T  BY <1>1, <1>5
  <2>2. ASSUME NEW j \in 1 .. Cap, j - 1 \in T PROVE j \in T
    <3>1. j \in 0 .. Cap /\ j # 0 /\ f[j - 1] \in Links  BY <1>1, <2>2
    <3> QED  BY <1>1, <1>5, <3>1
  <2>3. \A j \in 0 .. Cap : j \in T
    <3> HIDE DEF T
    <3> QED  BY <1>1, <2>1, <2>2, UpTo
  <2> QED  BY <2>3
<1>7. ASSUME NEW j \in 1 .. Cap
      PROVE  f[j] = IF f[j - 1] = Nil THEN Nil ELSE t.next[f[j - 1]]
  <2>1. j \in 0 .. Cap /\ j # 0  BY <1>1
  <2> QED  BY <1>5, <2>1, Zenon
<1>8. f[0] = t.hash[Hash(x)]  BY <1>1, <1>5
<1>9. f \in [0 .. Cap -> Links]  BY <1>5, <1>6
<1>10. Goes(t, Hash(x), f)  BY <1>7, <1>8, <1>9 DEF Goes
<1> QED  BY <1>2, <1>10

\* There is one way to go.
LEMMA OneWay ==
    ASSUME NEW t, NEW h, NEW f, NEW g, Goes(t, h, f), Goes(t, h, g)
    PROVE  f = g
<1>0. Cap \in Nat  BY HashIdAssumption
<1> DEFINE T == {j \in 0 .. Cap : f[j] = g[j]}
<1>1. 0 \in T  BY <1>0 DEF Goes
<1>2. ASSUME NEW j \in 1 .. Cap, j - 1 \in T PROVE j \in T
  <2>1. j \in 0 .. Cap /\ f[j - 1] = g[j - 1]  BY <1>0, <1>2
  <2> QED  BY <2>1 DEF Goes
<1>3. \A j \in 0 .. Cap : j \in T
  <2> HIDE DEF T
  <2> QED  BY <1>0, <1>1, <1>2, UpTo
<1>4. \A j \in 0 .. Cap : f[j] = g[j]  BY <1>3
<1>5. f \in [0 .. Cap -> Links] /\ g \in [0 .. Cap -> Links]  BY Zenon DEF Goes
<1>6. f = [j \in 0 .. Cap |-> f[j]] /\ g = [j \in 0 .. Cap |-> g[j]]
  <2> HIDE <1>4
  <2> QED  BY <1>5
<1>7. [j \in 0 .. Cap |-> f[j]] = [j \in 0 .. Cap |-> g[j]]  BY <1>4, Zenon
<1> QED  BY <1>6, <1>7, Zenon

-----------------------------------------------------------------------------
(* hashid: what holds of the table at any time *)

Used(t) == {e \in Entries : t.id[e] # NoId}
Held(t) == {t.id[e] : e \in Used(t)}

\* An entry that a link leads to is in use, and in its bucket.
HeadsLead(t) == \A h \in Buckets : t.hash[h] # Nil =>
                    t.hash[h] \in Used(t) /\ Hash(t.id[t.hash[h]]) = h
NextsLead(t) == \A e \in Used(t) : t.next[e] # Nil =>
                    t.next[e] \in Used(t) /\ Hash(t.id[t.next[e]]) = Hash(t.id[e])
\* No entry has two links to it.
NoHeadShared(t) == \A h \in Buckets, e \in Entries : t.hash[h] = t.next[e] => t.hash[h] = Nil
NoNextShared(t) == \A d, e \in Entries : d # e /\ t.next[d] = t.next[e] => t.next[d] = Nil
\* A free entry leads nowhere, and no id is there twice.
FreeAlone(t) == \A e \in Entries : e \notin Used(t) => t.next[e] = Nil
IdsOnce(t) == \A d, e \in Used(t) : t.id[d] = t.id[e] => d = e
\* Every entry in use is found, and all are counted.
Reached(t) == \A e \in Used(t) : \E j \in 0 .. Cap : Walk(t, t.id[e])[j] = e
Counted(t) == t.count = Cardinality(Used(t)) /\ t.count = Cardinality(Held(t))

Chained(t) == /\ HeadsLead(t) /\ NextsLead(t) /\ NoHeadShared(t) /\ NoNextShared(t)
              /\ FreeAlone(t) /\ IdsOnce(t)
TableOK(t) == t \in Tables /\ Chained(t) /\ Reached(t) /\ Counted(t)

\* A search meets entries of its bucket, each once, and comes to the end.
Orderly(t, h, f) ==
    /\ \A j \in 0 .. Cap : f[j] # Nil => f[j] \in Used(t) /\ Hash(t.id[f[j]]) = h
    /\ \A j, k \in 0 .. Cap : f[j] # Nil /\ f[j] = f[k] => j = k
    /\ \A j \in 0 .. Cap : \A k \in 0 .. j : f[j] # Nil => f[k] # Nil
    /\ f[Cap] = Nil

\* In a table that is chained, every search is orderly.
LEMMA SearchOrderly ==
    ASSUME NEW t \in Tables, Chained(t), NEW h \in Buckets, NEW f, Goes(t, h, f)
    PROVE  Orderly(t, h, f)
<1>0. Cap \in Nat \ {0}  BY HashIdAssumption
<1>1. /\ \A j \in 0 .. Cap : f[j] \in Links
      /\ f[0] = t.hash[h]
      /\ \A j \in 1 .. Cap : j - 1 \in 0 .. Cap
                            /\ f[j] = IF f[j - 1] = Nil THEN Nil ELSE t.next[f[j - 1]]
  BY <1>0 DEF Goes
<1>2. \A j \in 0 .. Cap : f[j] # Nil => f[j] \in Used(t) /\ Hash(t.id[f[j]]) = h
  <2> DEFINE T == {j \in 0 .. Cap : f[j] # Nil => f[j] \in Used(t) /\ Hash(t.id[f[j]]) = h}
  <2>1. 0 \in T  BY <1>0, <1>1 DEF Chained, HeadsLead
  <2>2. ASSUME NEW j \in 1 .. Cap, j - 1 \in T PROVE j \in T
    <3>1. SUFFICES ASSUME f[j] # Nil PROVE f[j] \in Used(t) /\ Hash(t.id[f[j]]) = h
      BY <1>0
    <3>2. f[j - 1] # Nil /\ f[j] = t.next[f[j - 1]]  BY <1>1, <3>1
    <3>3. f[j - 1] \in Used(t) /\ Hash(t.id[f[j - 1]]) = h  BY <2>2, <3>2
    <3> QED  BY <3>1, <3>2, <3>3 DEF Chained, NextsLead
  <2>3. \A j \in 0 .. Cap : j \in T
    <3> HIDE DEF T
    <3> QED  BY <1>0, <2>1, <2>2, UpTo
  <2> QED  BY <2>3
<1>3. \A j, k \in 0 .. Cap : f[j] # Nil /\ f[j] = f[k] => j = k
  <2> DEFINE T == {j \in 0 .. Cap : \A k \in 0 .. Cap : f[j] # Nil /\ f[j] = f[k] => j = k}
  <2>1. ASSUME NEW k \in 1 .. Cap, f[k] # Nil, f[0] = f[k] PROVE FALSE
    <3>1. f[k - 1] # Nil /\ f[k] = t.next[f[k - 1]] /\ f[k - 1] \in Entries
      BY <1>1, <2>1 DEF Links
    <3> QED  BY <1>1, <2>1, <3>1 DEF Chained, NoHeadShared
  <2>2. 0 \in T
    <3>1. \A k \in 0 .. Cap : k # 0 => k \in 1 .. Cap  BY <1>0
    <3> QED  BY <1>0, <2>1, <3>1
  <2>3. ASSUME NEW j \in 1 .. Cap, j - 1 \in T PROVE j \in T
    <3>1. j \in 0 .. Cap  BY <1>0
    <3>2. SUFFICES ASSUME NEW k \in 0 .. Cap, f[j] # Nil, f[j] = f[k] PROVE j = k
      BY <3>1
    <3>3. k \in 1 .. Cap
      <4>1. k # 0  BY <2>1, <3>2
      <4> QED  BY <1>0, <4>1
    <3>4. f[j - 1] # Nil /\ f[j] = t.next[f[j - 1]] /\ f[j - 1] \in Entries
      BY <1>1, <3>2 DEF Links
    <3>5. f[k - 1] # Nil /\ f[k] = t.next[f[k - 1]] /\ f[k - 1] \in Entries /\ k - 1 \in 0 .. Cap
      BY <1>1, <3>2, <3>3 DEF Links
    <3>6. f[j - 1] = f[k - 1]
      BY <3>2, <3>4, <3>5 DEF Chained, NoNextShared
    <3>7. j - 1 = k - 1  BY <2>3, <3>4, <3>5, <3>6
    <3> QED  BY <3>7
  <2>4. \A j \in 0 .. Cap : j \in T
    <3> HIDE DEF T
    <3> QED  BY <1>0, <2>2, <2>3, UpTo
  <2> QED  BY <2>4
<1>4. \A j \in 0 .. Cap : \A k \in 0 .. j : f[j] # Nil => f[k] # Nil
  <2> DEFINE T == {j \in 0 .. Cap : \A k \in 0 .. j : f[j] # Nil => f[k] # Nil}
  <2>1. 0 \in T
    <3>1. \A k \in 0 .. 0 : k = 0  OBVIOUS
    <3> QED  BY <1>0, <3>1
  <2>2. ASSUME NEW j \in 1 .. Cap, j - 1 \in T PROVE j \in T
    <3>1. j \in 0 .. Cap  BY <1>0
    <3>2. SUFFICES ASSUME NEW k \in 0 .. j, f[j] # Nil PROVE f[k] # Nil
      BY <3>1
    <3>3. f[j - 1] # Nil  BY <1>1, <3>2
    <3>4. k = j \/ k \in 0 .. j - 1  OBVIOUS
    <3> QED  BY <2>2, <3>2, <3>3, <3>4
  <2>3. \A j \in 0 .. Cap : j \in T
    <3> HIDE DEF T
    <3> QED  BY <1>0, <2>1, <2>2, UpTo
  <2> QED  BY <2>3
<1>5. f[Cap] = Nil
  <2> SUFFICES ASSUME f[Cap] # Nil PROVE FALSE  OBVIOUS
  <2>1. \A j \in 0 .. Cap : f[j] # Nil  BY <1>0, <1>4
  <2>2. \A j \in 0 .. Cap : f[j] \in Entries  BY <1>1, <2>1 DEF Links
  <2>3. f \in [0 .. Cap -> Entries]  BY <2>2 DEF Goes
  <2>4. f \in Injection(0 .. Cap, Entries)
    BY <1>3, <2>1, <2>3 DEF Injection, IsInjective
  <2>5. IsFiniteSet(Entries) /\ Cardinality(Entries) = Cap
    <3>1. 0 \in Int /\ Cap - 1 \in Int /\ ~(0 > Cap - 1) /\ Cap - 1 - 0 + 1 = Cap  BY <1>0
    <3> QED  BY <3>1, FS_Interval DEF Entries
  <2>6. Cardinality(0 .. Cap) = Cap + 1
    <3>1. 0 \in Int /\ Cap \in Int /\ ~(0 > Cap) /\ Cap - 0 + 1 = Cap + 1  BY <1>0
    <3> QED  BY <3>1, FS_Interval
  <2>7. Cardinality(0 .. Cap) <= Cardinality(Entries)  BY <2>4, <2>5, FS_Injection
  <2> QED  BY <1>0, <2>5, <2>6, <2>7
<1> QED  BY <1>2, <1>3, <1>4, <1>5 DEF Orderly

\* A way that goes as the search does is the search.
LEMMA WalkIs ==
    ASSUME NEW t \in Tables, NEW x \in Nat, NEW f, Goes(t, Hash(x), f)
    PROVE  Walk(t, x) = f
BY WalkGoes, OneWay

\* A search finds the id if it is there, and only then.
LEMMA LookupFacts ==
    ASSUME NEW t \in Tables, Chained(t), Reached(t), NEW x \in Nat
    PROVE  /\ x \in Held(t) =>
               /\ Found(t, x) \in 0 .. Cap
               /\ hashid_lookup(t, x) = Walk(t, x)[Found(t, x)]
               /\ hashid_lookup(t, x) \in Used(t)
               /\ t.id[hashid_lookup(t, x)] = x
           /\ x \notin Held(t) => Found(t, x) = -1 /\ hashid_lookup(t, x) = Nil
<1> PICK at : at = Walk(t, x)  OBVIOUS
<1> DEFINE hits == {j \in 0 .. Cap : at[j] # Nil /\ t.id[at[j]] = x}
<1>1. Orderly(t, Hash(x), at)  BY WalkGoes, SearchOrderly, HashFacts
<1>2. \A j \in hits : at[j] \in Used(t) /\ t.id[at[j]] = x  BY <1>1 DEF Orderly
<1>3. /\ hits = {} => Found(t, x) = -1
      /\ hits # {} => Found(t, x) = CHOOSE j \in hits : \A other \in hits : j <= other
  BY DEF Found
<1>4. x \in Held(t) => hits # {}
  <2> SUFFICES ASSUME x \in Held(t) PROVE hits # {}  OBVIOUS
  <2>1. PICK e \in Used(t) : t.id[e] = x  BY DEF Held
  <2>2. PICK j \in 0 .. Cap : Walk(t, t.id[e])[j] = e  BY DEF Reached
  <2>3. e # Nil  BY DEF Used, Entries, Nil
  <2>4. j \in hits  BY <2>1, <2>2, <2>3
  <2> QED  BY <2>4
<1>5. x \notin Held(t) => hits = {}
  <2>1. \A j \in hits : x \in Held(t)  BY <1>2 DEF Held
  <2> QED  BY <2>1
<1>6. hits # {} => Found(t, x) \in hits
  <2> SUFFICES ASSUME hits # {} PROVE Found(t, x) \in hits  OBVIOUS
  <2>1. hits \in SUBSET Nat  BY HashIdAssumption
  <2> HIDE DEF hits
  <2>2. \E j \in hits : \A other \in hits : j <= other  BY <2>1, LeastElement
  <2> QED  BY <1>3, <2>2
<1>7. CASE x \in Held(t)
  <2>1. Found(t, x) \in hits  BY <1>4, <1>6, <1>7
  <2>2. Found(t, x) \in 0 .. Cap /\ Found(t, x) # -1  BY <2>1, HashIdAssumption
  <2>3. hashid_lookup(t, x) = at[Found(t, x)]  BY <2>2 DEF hashid_lookup
  <2> HIDE DEF hits
  <2> QED  BY <1>2, <1>7, <2>1, <2>2, <2>3
<1>8. CASE x \notin Held(t)
  <2>1. Found(t, x) = -1  BY <1>3, <1>5, <1>8
  <2> QED  BY <1>8, <2>1 DEF hashid_lookup
<1> QED  BY <1>7, <1>8

\* So much is held as the gate needs it.
LEMMA TableHolds ==
    ASSUME NEW t, TableOK(t)
    PROVE  Holds(t, Held(t))
<1>1. /\ t \in Tables /\ Chained(t) /\ Reached(t) /\ Counted(t) /\ FreeAlone(t) /\ IdsOnce(t)
  BY DEF TableOK, Chained
<1>2. Held(t) \subseteq Nat  BY <1>1 DEF Held, Used, Tables
<1>3. \A x \in Held(t) : /\ hashid_lookup(t, x) \in Used(t)
                         /\ t.id[hashid_lookup(t, x)] = x
  BY <1>1, <1>2, LookupFacts
<1>4. \A e \in Used(t) : t.id[e] \in Held(t)  BY DEF Held
<1>5. \A e \in Used(t) : e = hashid_lookup(t, t.id[e])
  BY <1>1, <1>3, <1>4 DEF IdsOnce
<1>6. Used(t) = {hashid_lookup(t, x) : x \in Held(t)}
  <2>1. ASSUME NEW e \in Used(t) PROVE e \in {hashid_lookup(t, x) : x \in Held(t)}
    BY <1>4, <1>5
  <2>2. ASSUME NEW e \in {hashid_lookup(t, x) : x \in Held(t)} PROVE e \in Used(t)
    BY <1>3
  <2> QED  BY <2>1, <2>2
<1>7. Used(t) = {e \in Entries : t.id[e] # NoId}  BY DEF Used
<1>8. \A e \in Entries : t.id[e] = NoId => t.next[e] = Nil  BY <1>1 DEF FreeAlone, Used
<1>9. \A x \in Held(t) : hashid_lookup(t, x) # Nil
  <2>1. \A e \in Used(t) : e # Nil  BY DEF Used, Entries, Nil
  <2> QED  BY <1>3, <2>1
<1> QED  BY <1>1, <1>3, <1>6, <1>7, <1>8, <1>9 DEF Holds, Counted

\* The empty table is in order.
LEMMA EmptyOK == TableOK(hashid_init) /\ Held(hashid_init) = {}
<1> PICK t : t = hashid_init  OBVIOUS
<1>1. /\ t.id = [e \in Entries |-> NoId] /\ t.next = [e \in Entries |-> Nil]
      /\ t.hash = [h \in Buckets |-> Nil] /\ t.count = 0
  BY DEF hashid_init
<1>2. t \in Tables  BY DEF hashid_init, Tables, Links
<1>3. Used(t) = {} /\ Held(t) = {}  BY <1>1 DEF Used, Held
<1>4. Cardinality({}) = 0  BY FS_EmptySet
<1>5. Counted(t)  BY <1>1, <1>3, <1>4 DEF Counted
<1>6. Chained(t)
  BY <1>1, <1>3 DEF Chained, HeadsLead, NextsLead, NoHeadShared, NoNextShared, FreeAlone, IdsOnce
<1>7. Reached(t)  BY <1>3 DEF Reached
<1> QED  BY <1>2, <1>3, <1>5, <1>6, <1>7 DEF TableOK

\* The entries in use and the ids held are finitely many.
LEMMA TableFinite ==
    ASSUME NEW t \in Tables
    PROVE  /\ IsFiniteSet(Entries) /\ Cardinality(Entries) = Cap
           /\ IsFiniteSet(Used(t)) /\ IsFiniteSet(Held(t))
<1>1. IsFiniteSet(Entries) /\ Cardinality(Entries) = Cap
  <2>1. Cap - 1 \in Int /\ ~(0 > Cap - 1) /\ Cap - 1 - 0 + 1 = Cap  BY HashIdAssumption
  <2> QED  BY <2>1, FS_Interval DEF Entries
<1>2. IsFiniteSet(Used(t))
  <2>1. Used(t) \subseteq Entries  BY DEF Used
  <2> QED  BY <1>1, <2>1, FS_Subset
<1>3. IsFiniteSet(Held(t))
  <2> DEFINE f == [e \in Used(t) |-> t.id[e]]
  <2>1. f \in Surjection(Used(t), Held(t))  BY DEF Surjection, Held
  <2> HIDE DEF f
  <2> QED  BY <1>2, <2>1, FS_Surjection
<1> QED  BY <1>1, <1>2, <1>3

\* There is a free entry as long as the table is not full, and one is taken.
LEMMA PlaceFree ==
    ASSUME NEW t \in Tables, Counted(t), t.count # Cap, NEW x \in Nat
    PROVE  FirstFree(t, x) \in Entries /\ FirstFree(t, x) \notin Used(t)
<1>0. Cap \in Nat \ {0}  BY HashIdAssumption
<1> DEFINE free == {i \in 0 .. Cap - 1 : t.id[(i + x) % Cap] = NoId}
<1>1. PICK e \in Entries : e \notin Used(t)
  <2>1. Used(t) # Entries  BY TableFinite DEF Counted
  <2> QED  BY <2>1 DEF Used
<1>2. PICK i \in free : \A other \in free : i <= other
  <2>1. e \in 0 .. Cap - 1  BY DEF Entries
  <2>2. PICK r \in 0 .. Cap - 1 : (r + x) % Cap = e
    <3> HIDE DEF free
    <3> QED  BY <1>0, <2>1, ModReaches
  <2>4. t.id[e] = NoId  BY <1>1 DEF Used
  <2>5. r \in free  BY <2>2, <2>4
  <2>6. free \in SUBSET Nat  BY <1>0
  <2> HIDE DEF free
  <2> QED  BY <2>5, <2>6, LeastElement
<1>3. PICK k : k = CHOOSE j \in free : \A other \in free : j <= other  OBVIOUS
<1>4. k \in free
  <2> HIDE DEF free
  <2> QED  BY <1>2, <1>3
<1>5. FirstFree(t, x) = (k + x) % Cap  BY <1>3 DEF FirstFree
<1>6. k + x \in Int /\ t.id[(k + x) % Cap] = NoId  BY <1>4
<1>7. (k + x) % Cap \in Entries  BY <1>0, <1>6, DivMod DEF Entries
<1> QED  BY <1>5, <1>6, <1>7 DEF Used

\* u is t with x put into e, before the others of the bucket.
Put(t, u, x, e) ==
    /\ u.id = [t.id EXCEPT ![e] = x]
    /\ u.next = [t.next EXCEPT ![e] = t.hash[Hash(x)]]
    /\ u.hash = [t.hash EXCEPT ![Hash(x)] = e]
    /\ u.count = t.count + 1

\* hashid_insert puts the id in the entry it found free, at the head of its bucket.
LEMMA InsertPuts ==
    ASSUME NEW t \in Tables, NEW x \in Nat, FirstFree(t, x) \in Entries
    PROVE  hashid_insert(t, x) \in Tables /\ Put(t, hashid_insert(t, x), x, FirstFree(t, x))
<1> PICK e \in Entries : e = FirstFree(t, x)  OBVIOUS
<1> PICK h \in Buckets : h = Hash(x)  BY HashFacts
<1>1. hashid_insert(t, x) = [t EXCEPT !.id[e] = x, !.next[e] = t.hash[h], !.hash[h] = e, !.count = @ + 1]
  BY DEF hashid_insert
<1>2. t.hash[h] \in Links /\ e \in Links  BY DEF Tables, Links
<1> PICK u : u = hashid_insert(t, x)  OBVIOUS
<1> PICK a, b, c, n : /\ a = [t.id EXCEPT ![e] = x] /\ b = [t.next EXCEPT ![e] = t.hash[h]]
                      /\ c = [t.hash EXCEPT ![h] = e] /\ n = t.count + 1
  OBVIOUS
<1>3. u = [id |-> a, next |-> b, hash |-> c, count |-> n]
  <2>1. t = [id |-> t.id, next |-> t.next, hash |-> t.hash, count |-> t.count]  BY DEF Tables
  <2> QED  BY <1>1, <2>1
<1>4. /\ a \in [Entries -> Nat \cup {NoId}] /\ b \in [Entries -> Links]
      /\ c \in [Buckets -> Links] /\ n \in Nat
  BY <1>2 DEF Tables
<1>5. u \in Tables /\ u.id = a /\ u.next = b /\ u.hash = c /\ u.count = n
  BY ONLY <1>3, <1>4 DEF Tables
<1>6. Put(t, u, x, e)  BY <1>5 DEF Put
<1> QED  BY <1>5, <1>6

\* What the entries of the new table are.
LEMMA PutFacts ==
    ASSUME NEW t \in Tables, NEW u \in Tables, NEW x \in Nat, NEW e \in Entries,
           e \notin Used(t), Put(t, u, x, e)
    PROVE  /\ u.id[e] = x /\ u.next[e] = t.hash[Hash(x)]
           /\ \A d \in Entries : d # e => u.id[d] = t.id[d] /\ u.next[d] = t.next[d]
           /\ u.hash[Hash(x)] = e
           /\ \A h \in Buckets : h # Hash(x) => u.hash[h] = t.hash[h]
           /\ Used(u) = Used(t) \cup {e}
           /\ Held(u) = Held(t) \cup {x}
<1>1. /\ u.id[e] = x /\ u.next[e] = t.hash[Hash(x)]
      /\ \A d \in Entries : d # e => u.id[d] = t.id[d] /\ u.next[d] = t.next[d]
  BY DEF Put, Tables
<1>2. /\ u.hash[Hash(x)] = e
      /\ \A h \in Buckets : h # Hash(x) => u.hash[h] = t.hash[h]
  BY HashFacts DEF Put, Tables
<1>3. Used(u) = Used(t) \cup {e}
  <2>1. x # NoId  BY DEF NoId
  <2> QED  BY <1>1, <2>1 DEF Used
<1>4. Held(u) = Held(t) \cup {x}
  <2>1. \A d \in Used(t) : d \in Entries /\ d # e /\ u.id[d] = t.id[d]  BY <1>1 DEF Used
  <2> QED  BY <1>1, <1>3, <2>1 DEF Held
<1> QED  BY <1>1, <1>2, <1>3, <1>4

\* The new table is in order.
LEMMA PutOK ==
    ASSUME NEW t, TableOK(t), NEW u \in Tables, NEW x \in Nat, NEW e \in Entries,
           x \notin Held(t), e \notin Used(t), Put(t, u, x, e)
    PROVE  TableOK(u)
<1> PICK h \in Buckets : h = Hash(x)  BY HashFacts
<1> PICK old : old = t.hash[h]  OBVIOUS
<1>0. t \in Tables /\ Chained(t) /\ Reached(t) /\ Counted(t)  BY DEF TableOK
<1>1. /\ u.id[e] = x /\ u.next[e] = old
      /\ \A d \in Entries : d # e => u.id[d] = t.id[d] /\ u.next[d] = t.next[d]
      /\ u.hash[h] = e
      /\ \A k \in Buckets : k # h => u.hash[k] = t.hash[k]
      /\ Used(u) = Used(t) \cup {e}
      /\ Held(u) = Held(t) \cup {x}
  BY <1>0, PutFacts
<1>2. /\ e # Nil /\ Cap \in Nat \ {0} /\ Used(t) \subseteq Entries
      /\ \A d \in Used(t) : d # e /\ t.id[d] \in Nat
  BY <1>0, HashIdAssumption DEF Entries, Nil, Used, Tables
<1>3. HeadsLead(u)
  <2>1. ASSUME NEW k \in Buckets, u.hash[k] # Nil
        PROVE  u.hash[k] \in Used(u) /\ Hash(u.id[u.hash[k]]) = k
    <3>1. CASE k = h  BY <1>1, <3>1
    <3>2. CASE k # h
      <4>1. u.hash[k] = t.hash[k] /\ t.hash[k] \in Used(t) /\ Hash(t.id[t.hash[k]]) = k
        BY <1>0, <1>1, <2>1, <3>2 DEF Chained, HeadsLead
      <4> QED  BY <1>1, <1>2, <4>1
    <3> QED  BY <3>1, <3>2
  <2> QED  BY <2>1 DEF HeadsLead
<1>4. NextsLead(u)
  <2>1. ASSUME NEW d \in Used(u), u.next[d] # Nil
        PROVE  u.next[d] \in Used(u) /\ Hash(u.id[u.next[d]]) = Hash(u.id[d])
    <3>1. CASE d = e
      <4>1. old # Nil /\ old \in Used(t) /\ Hash(t.id[old]) = h
        BY <1>0, <1>1, <2>1, <3>1 DEF Chained, HeadsLead
      <4> QED  BY <1>1, <1>2, <3>1, <4>1
    <3>2. CASE d # e
      <4>1. d \in Used(t) /\ u.next[d] = t.next[d]  BY <1>1, <1>2, <3>2
      <4>2. t.next[d] \in Used(t) /\ Hash(t.id[t.next[d]]) = Hash(t.id[d])
        BY <1>0, <2>1, <4>1 DEF Chained, NextsLead
      <4> QED  BY <1>1, <1>2, <4>1, <4>2
    <3> QED  BY <3>1, <3>2
  <2> QED  BY <2>1 DEF NextsLead
<1>5. \A d \in Entries : t.next[d] # e
  <2> SUFFICES ASSUME NEW d \in Entries, t.next[d] = e PROVE FALSE  OBVIOUS
  <2>1. d \in Used(t)  BY <1>0, <1>2 DEF Chained, FreeAlone
  <2> QED  BY <1>0, <1>2, <2>1 DEF Chained, NextsLead
<1>6. \A k \in Buckets : t.hash[k] # e  BY <1>0, <1>2 DEF Chained, HeadsLead
<1>7. NoHeadShared(u)
  <2>1. ASSUME NEW k \in Buckets, NEW d \in Entries, u.hash[k] = u.next[d] PROVE u.hash[k] = Nil
    <3>1. CASE k = h /\ d = e  BY <1>1, <1>6, <2>1, <3>1
    <3>2. CASE k = h /\ d # e  BY <1>1, <1>5, <2>1, <3>2
    <3>3. CASE k # h /\ d = e
      <4>1. t.hash[k] = t.hash[h]  BY <1>1, <2>1, <3>3
      <4>2. t.hash[k] # Nil => Hash(t.id[t.hash[k]]) = k /\ Hash(t.id[t.hash[h]]) = h
        BY <1>0, <4>1 DEF Chained, HeadsLead
      <4> QED  BY <1>1, <3>3, <4>1, <4>2
    <3>4. CASE k # h /\ d # e
      BY <1>0, <1>1, <2>1, <3>4 DEF Chained, NoHeadShared
    <3> QED  BY <3>1, <3>2, <3>3, <3>4
  <2> QED  BY <2>1 DEF NoHeadShared
<1>8. NoNextShared(u)
  <2>1. ASSUME NEW c \in Entries, NEW d \in Entries, c # d, u.next[c] = u.next[d]
        PROVE  u.next[c] = Nil
    <3>1. CASE c = e
      <4>1. t.hash[h] = t.next[d]  BY <1>1, <2>1, <3>1
      <4> QED  BY <1>0, <1>1, <3>1, <4>1 DEF Chained, NoHeadShared
    <3>2. CASE d = e
      <4>1. t.hash[h] = t.next[c]  BY <1>1, <2>1, <3>2
      <4> QED  BY <1>0, <1>1, <2>1, <3>2, <4>1 DEF Chained, NoHeadShared
    <3>3. CASE c # e /\ d # e
      BY <1>0, <1>1, <2>1, <3>3 DEF Chained, NoNextShared
    <3> QED  BY <3>1, <3>2, <3>3
  <2> QED  BY <2>1 DEF NoNextShared
<1>9. FreeAlone(u)  BY <1>0, <1>1 DEF Chained, FreeAlone
<1>10. IdsOnce(u)
  <2>1. \A d \in Used(t) : t.id[d] # x /\ u.id[d] = t.id[d]  BY <1>1, <1>2 DEF Held
  <2>2. ASSUME NEW c \in Used(u), NEW d \in Used(u), u.id[c] = u.id[d] PROVE c = d
    <3>1. CASE c = e \/ d = e  BY <1>1, <2>1, <2>2, <3>1
    <3>2. CASE c # e /\ d # e
      <4>1. c \in Used(t) /\ d \in Used(t) /\ t.id[c] = t.id[d]  BY <1>1, <2>1, <2>2, <3>2
      <4> QED  BY <1>0, <4>1 DEF Chained, IdsOnce
    <3> QED  BY <3>1, <3>2
  <2> QED  BY <2>2 DEF IdsOnce
<1>11. Counted(u)
  <2>1. IsFiniteSet(Used(t)) /\ IsFiniteSet(Held(t))  BY <1>0, TableFinite
  <2>2. Cardinality(Used(u)) = Cardinality(Used(t)) + 1  BY <1>1, <2>1, FS_AddElement
  <2>3. Cardinality(Held(u)) = Cardinality(Held(t)) + 1  BY <1>1, <2>1, FS_AddElement
  <2>4. u.count = t.count + 1  BY DEF Put
  <2> QED  BY <1>0, <2>2, <2>3, <2>4 DEF Counted
<1>12. ASSUME NEW g, Goes(t, h, g)
       PROVE  Goes(u, h, [j \in 0 .. Cap |-> IF j = 0 THEN e ELSE g[j - 1]])
  <2> DEFINE F == [j \in 0 .. Cap |-> IF j = 0 THEN e ELSE g[j - 1]]
  <2>1. Orderly(t, h, g)  BY <1>0, <1>12, SearchOrderly
  <2>2. /\ \A j \in 0 .. Cap : g[j] \in Links
        /\ g[0] = old
        /\ \A j \in 1 .. Cap : g[j] = IF g[j - 1] = Nil THEN Nil ELSE t.next[g[j - 1]]
    BY <1>12, <1>2 DEF Goes
  <2>3. \A j \in 1 .. Cap : j \in 0 .. Cap /\ j - 1 \in 0 .. Cap /\ j # 0  BY <1>2
  <2>4. F[0] = e /\ \A j \in 1 .. Cap : F[j] = g[j - 1]  BY <1>2, <2>3
  <2>5. F \in [0 .. Cap -> Links]
    <3>1. ASSUME NEW j \in 0 .. Cap, j # 0 PROVE g[j - 1] \in Links
      <4>1. j \in 1 .. Cap  BY <3>1
      <4> QED  BY <2>2, <2>3, <4>1
    <3>2. e \in Links  BY DEF Links
    <3> QED  BY <3>1, <3>2
  <2>6. ASSUME NEW j \in 1 .. Cap
        PROVE  F[j] = IF F[j - 1] = Nil THEN Nil ELSE u.next[F[j - 1]]
    <3>1. CASE j = 1
      <4>1. F[j] = old /\ F[j - 1] = e
        <5>1. j - 1 = 0 /\ 1 \in 1 .. Cap  BY <3>1, <1>2
        <5> HIDE DEF F
        <5> QED  BY <2>2, <2>4, <3>1, <5>1
      <4> HIDE DEF F
      <4> QED  BY <1>1, <1>2, <4>1
    <3>2. CASE j # 1
      <4>1. j - 1 \in 1 .. Cap /\ j - 1 - 1 \in 0 .. Cap  BY <1>2, <3>2
      <4>2. F[j] = g[j - 1] /\ F[j - 1] = g[j - 1 - 1]
        <5> HIDE DEF F
        <5> QED  BY <2>4, <4>1
      <4>3. g[j - 1] = IF g[j - 1 - 1] = Nil THEN Nil ELSE t.next[g[j - 1 - 1]]
        BY <2>2, <4>1
      <4>4. g[j - 1 - 1] # Nil => u.next[g[j - 1 - 1]] = t.next[g[j - 1 - 1]]
        <5>1. g[j - 1 - 1] # Nil => g[j - 1 - 1] \in Used(t)  BY <2>1, <4>1 DEF Orderly
        <5> QED  BY <1>1, <1>2, <5>1
      <4> HIDE DEF F
      <4> QED  BY <4>2, <4>3, <4>4
    <3> QED  BY <3>1, <3>2
  <2> HIDE DEF F
  <2>7. Goes(u, h, F)  BY <1>1, <2>4, <2>5, <2>6 DEF Goes
  <2> QED  BY <2>7 DEF F
<1>13. ASSUME NEW k \in Buckets, k # h, NEW g, Goes(t, k, g) PROVE Goes(u, k, g)
  <2>1. Orderly(t, k, g)  BY <1>0, <1>13, SearchOrderly
  <2>2. ASSUME NEW j \in 1 .. Cap, g[j - 1] # Nil PROVE u.next[g[j - 1]] = t.next[g[j - 1]]
    <3>1. j - 1 \in 0 .. Cap  BY <1>2
    <3>2. g[j - 1] \in Used(t)  BY <2>1, <2>2, <3>1 DEF Orderly
    <3> QED  BY <1>1, <1>2, <3>2
  <2>3. u.hash[k] = t.hash[k]  BY <1>1, <1>13
  <2> QED  BY <1>13, <2>2, <2>3 DEF Goes
<1>14. Reached(u)
  <2>1. ASSUME NEW d \in Used(u) PROVE \E j \in 0 .. Cap : Walk(u, u.id[d])[j] = d
    <3>1. CASE d = e
      <4> DEFINE g == Walk(t, x)
                 F == [j \in 0 .. Cap |-> IF j = 0 THEN e ELSE g[j - 1]]
      <4>1. Goes(t, h, g)  BY <1>0, WalkGoes
      <4>2. 0 \in 0 .. Cap /\ F[0] = e  BY <1>2
      <4>3. Goes(u, Hash(x), F)
        <5> HIDE DEF g
        <5> QED  BY <1>12, <4>1
      <4> HIDE DEF F
      <4>4. Walk(u, x) = F  BY <4>3, WalkIs
      <4> QED  BY <1>1, <3>1, <4>2, <4>4
    <3>2. CASE d # e
      <4>1. d \in Used(t) /\ u.id[d] = t.id[d] /\ t.id[d] \in Nat  BY <1>1, <1>2, <3>2
      <4> PICK g : g = Walk(t, t.id[d])  OBVIOUS
      <4> PICK k \in Buckets : k = Hash(t.id[d])  BY <4>1, HashFacts
      <4>2. Goes(t, k, g)  BY <1>0, <4>1, WalkGoes
      <4>3. PICK j \in 0 .. Cap : g[j] = d  BY <1>0, <4>1 DEF Reached
      <4>4. CASE k # h
        <5>1. Goes(u, k, g)  BY <1>13, <4>2, <4>4
        <5>2. Walk(u, u.id[d]) = g  BY <4>1, <5>1, WalkIs
        <5> QED  BY <4>3, <5>2
      <4>5. CASE k = h
        <5> DEFINE F == [i \in 0 .. Cap |-> IF i = 0 THEN e ELSE g[i - 1]]
        <5>1. Goes(u, Hash(u.id[d]), F)  BY <1>12, <4>1, <4>2, <4>5
        <5>2. j # Cap
          <6>1. Orderly(t, k, g)  BY <1>0, <4>2, SearchOrderly
          <6>2. d # Nil  BY <4>1 DEF Used, Entries, Nil
          <6> QED  BY <4>3, <6>1, <6>2 DEF Orderly
        <5>3. j + 1 \in 0 .. Cap /\ F[j + 1] = d
          <6>1. j + 1 \in 0 .. Cap /\ j + 1 # 0 /\ j + 1 - 1 = j  BY <1>2, <5>2
          <6>2. F[j + 1] = g[j + 1 - 1]  BY <6>1
          <6> QED  BY <4>3, <6>1, <6>2
        <5> HIDE DEF F
        <5>4. Walk(u, u.id[d]) = F  BY <4>1, <5>1, WalkIs
        <5> QED  BY <5>3, <5>4
      <4> QED  BY <4>4, <4>5
    <3> QED  BY <3>1, <3>2
  <2> QED  BY <2>1 DEF Reached
<1> QED  BY <1>3, <1>4, <1>7, <1>8, <1>9, <1>10, <1>11, <1>14 DEF TableOK, Chained

\* u is t without the entry e: what led to it leads past it.
Past(t, link, e) == IF link = e THEN t.next[e] ELSE link
Drop(t, u, e) ==
    /\ u.id[e] = NoId /\ \A d \in Entries : d # e => u.id[d] = t.id[d]
    /\ u.next[e] = Nil /\ \A d \in Entries : d # e => u.next[d] = Past(t, t.next[d], e)
    /\ \A k \in Buckets : u.hash[k] = Past(t, t.hash[k], e)
    /\ u.count = t.count - 1

\* No entry leads to itself.
LEMMA NoLoop ==
    ASSUME NEW t, TableOK(t), NEW e \in Used(t)
    PROVE  t.next[e] # e
<1> SUFFICES ASSUME t.next[e] = e PROVE FALSE  OBVIOUS
<1>0. t \in Tables /\ Chained(t) /\ Reached(t)  BY DEF TableOK
<1>1. t.id[e] \in Nat /\ e # Nil /\ Cap \in Nat \ {0}
  BY <1>0, HashIdAssumption DEF Used, Tables, Entries, Nil
<1> PICK g : g = Walk(t, t.id[e])  OBVIOUS
<1>2. Goes(t, Hash(t.id[e]), g)  BY <1>0, <1>1, WalkGoes
<1>3. Orderly(t, Hash(t.id[e]), g)  BY <1>0, <1>1, <1>2, HashFacts, SearchOrderly
<1>4. PICK j \in 0 .. Cap : g[j] = e  BY <1>0 DEF Reached
<1>5. j # Cap  BY <1>1, <1>3, <1>4 DEF Orderly
<1>6. j + 1 \in 1 .. Cap /\ j + 1 \in 0 .. Cap /\ j + 1 - 1 = j /\ j # j + 1  BY <1>1, <1>5
<1>7. g[j + 1] = e
  <2>1. g[j + 1] = IF g[j + 1 - 1] = Nil THEN Nil ELSE t.next[g[j + 1 - 1]]  BY <1>2, <1>6 DEF Goes
  <2> QED  BY <1>1, <1>4, <1>6, <2>1
<1> QED  BY <1>1, <1>3, <1>4, <1>6, <1>7 DEF Orderly

\* The table without an entry is in order.
LEMMA DropOK ==
    ASSUME NEW t, TableOK(t), NEW u \in Tables, NEW e \in Used(t), Drop(t, u, e)
    PROVE  TableOK(u) /\ Used(u) = Used(t) \ {e} /\ Held(u) = Held(t) \ {t.id[e]}
<1>0. t \in Tables /\ Chained(t) /\ Reached(t) /\ Counted(t)  BY DEF TableOK
<1>1. /\ e # Nil /\ Cap \in Nat \ {0} /\ Used(t) \subseteq Entries /\ e \in Entries
      /\ \A d \in Used(t) : t.id[d] \in Nat
  BY <1>0, HashIdAssumption DEF Entries, Nil, Used, Tables
<1>2. /\ u.id[e] = NoId /\ \A d \in Entries : d # e => u.id[d] = t.id[d]
      /\ u.next[e] = Nil
      /\ \A d \in Entries : d # e => u.next[d] = IF t.next[d] = e THEN t.next[e] ELSE t.next[d]
      /\ \A k \in Buckets : u.hash[k] = IF t.hash[k] = e THEN t.next[e] ELSE t.hash[k]
      /\ u.count = t.count - 1
  BY DEF Drop, Past
<1>3. Used(u) = Used(t) \ {e}  BY <1>2 DEF Used
<1>4. \A d \in Used(u) : d \in Used(t) /\ d # e /\ u.id[d] = t.id[d]  BY <1>1, <1>2, <1>3
<1>5. \A d \in Used(t) : d # e => d \in Used(u)  BY <1>3
<1>6. Held(u) = Held(t) \ {t.id[e]}
  <2>1. \A d \in Used(t) : d # e => t.id[d] # t.id[e]  BY <1>0 DEF Chained, IdsOnce
  <2>2. ASSUME NEW x \in Held(u) PROVE x \in Held(t) \ {t.id[e]}
    <3>1. PICK d \in Used(u) : x = u.id[d]  BY <2>2 DEF Held
    <3> QED  BY <1>4, <2>1, <3>1 DEF Held
  <2>3. ASSUME NEW x \in Held(t), x # t.id[e] PROVE x \in Held(u)
    <3>1. PICK d \in Used(t) : x = t.id[d]  BY <2>3 DEF Held
    <3> QED  BY <1>4, <1>5, <2>3, <3>1 DEF Held
  <2> QED  BY <2>2, <2>3
<1>7. t.next[e] # e  BY NoLoop
<1>8. t.next[e] # Nil =>
          t.next[e] \in Used(u) /\ Hash(u.id[t.next[e]]) = Hash(t.id[e])
  <2>1. t.next[e] # Nil => t.next[e] \in Used(t) /\ Hash(t.id[t.next[e]]) = Hash(t.id[e])
    BY <1>0 DEF Chained, NextsLead
  <2> QED  BY <1>4, <1>5, <1>7, <2>1
<1>9. HeadsLead(u)
  <2>1. ASSUME NEW k \in Buckets, u.hash[k] # Nil
        PROVE  u.hash[k] \in Used(u) /\ Hash(u.id[u.hash[k]]) = k
    <3>1. t.hash[k] # Nil  BY <1>1, <1>2, <2>1
    <3>2. t.hash[k] \in Used(t) /\ Hash(t.id[t.hash[k]]) = k
      BY <1>0, <3>1 DEF Chained, HeadsLead
    <3>3. CASE t.hash[k] = e
      <4>1. u.hash[k] = t.next[e]  BY <1>2, <3>3
      <4> QED  BY <1>8, <2>1, <3>2, <3>3, <4>1
    <3>4. CASE t.hash[k] # e
      <4>1. u.hash[k] = t.hash[k]  BY <1>2, <3>4
      <4> QED  BY <1>4, <1>5, <3>2, <3>4, <4>1
    <3> QED  BY <3>3, <3>4
  <2> QED  BY <2>1 DEF HeadsLead
<1>10. NextsLead(u)
  <2>1. ASSUME NEW d \in Used(u), u.next[d] # Nil
        PROVE  u.next[d] \in Used(u) /\ Hash(u.id[u.next[d]]) = Hash(u.id[d])
    <3>0. d \in Used(t) /\ d # e /\ u.id[d] = t.id[d] /\ d \in Entries  BY <1>1, <1>4
    <3>1. t.next[d] # Nil  BY <1>1, <1>2, <2>1, <3>0
    <3>2. t.next[d] \in Used(t) /\ Hash(t.id[t.next[d]]) = Hash(t.id[d])
      BY <1>0, <3>0, <3>1 DEF Chained, NextsLead
    <3>3. CASE t.next[d] = e
      <4>1. u.next[d] = t.next[e]  BY <1>2, <3>0, <3>3
      <4> QED  BY <1>8, <2>1, <3>0, <3>2, <3>3, <4>1
    <3>4. CASE t.next[d] # e
      <4>1. u.next[d] = t.next[d]  BY <1>2, <3>0, <3>4
      <4> QED  BY <1>4, <1>5, <3>0, <3>2, <3>4, <4>1
    <3> QED  BY <3>3, <3>4
  <2> QED  BY <2>1 DEF NextsLead
<1>11. NoHeadShared(u)
  <2>1. ASSUME NEW k \in Buckets, NEW d \in Entries, u.hash[k] = u.next[d], u.hash[k] # Nil
        PROVE  FALSE
    <3>1. d # e  BY <1>2, <2>1
    <3>2. /\ u.hash[k] = IF t.hash[k] = e THEN t.next[e] ELSE t.hash[k]
          /\ u.next[d] = IF t.next[d] = e THEN t.next[e] ELSE t.next[d]
      BY <1>2, <3>1
    <3>3. \A c \in Entries : t.hash[k] = t.next[c] => t.hash[k] = Nil
      BY <1>0 DEF Chained, NoHeadShared
    <3>4. t.next[d] = t.next[e] => t.next[d] = Nil
      BY <1>0, <1>1, <3>1 DEF Chained, NoNextShared
    <3> QED  BY <1>1, <2>1, <3>2, <3>3, <3>4
  <2> QED  BY <2>1 DEF NoHeadShared
<1>12. NoNextShared(u)
  <2>1. ASSUME NEW c \in Entries, NEW d \in Entries, c # d, u.next[c] = u.next[d], u.next[c] # Nil
        PROVE  FALSE
    <3>1. c # e /\ d # e  BY <1>2, <2>1
    <3>2. /\ u.next[c] = IF t.next[c] = e THEN t.next[e] ELSE t.next[c]
          /\ u.next[d] = IF t.next[d] = e THEN t.next[e] ELSE t.next[d]
      BY <1>2, <3>1
    <3>3. /\ t.next[c] = t.next[d] => t.next[c] = Nil
          /\ t.next[c] = t.next[e] => t.next[c] = Nil
          /\ t.next[d] = t.next[e] => t.next[d] = Nil
      BY <1>0, <1>1, <2>1, <3>1 DEF Chained, NoNextShared
    <3> QED  BY <1>1, <2>1, <3>2, <3>3
  <2> QED  BY <2>1 DEF NoNextShared
<1>13. FreeAlone(u)
  <2>1. ASSUME NEW d \in Entries, d \notin Used(u) PROVE u.next[d] = Nil
    <3>1. CASE d = e  BY <1>2, <3>1
    <3>2. CASE d # e
      <4>1. t.next[d] = Nil  BY <1>0, <1>5, <2>1, <3>2 DEF Chained, FreeAlone
      <4> QED  BY <1>1, <1>2, <3>2, <4>1
    <3> QED  BY <3>1, <3>2
  <2> QED  BY <2>1 DEF FreeAlone
<1>14. IdsOnce(u)  BY <1>0, <1>4 DEF Chained, IdsOnce
<1>15. Counted(u)
  <2>1. IsFiniteSet(Used(t)) /\ IsFiniteSet(Held(t))  BY <1>0, TableFinite
  <2>2. Cardinality(Used(u)) = Cardinality(Used(t)) - 1  BY <1>3, <2>1, FS_RemoveElement
  <2>3. Cardinality(Held(u)) = Cardinality(Held(t)) - 1
    <3>1. t.id[e] \in Held(t)  BY DEF Held
    <3> QED  BY <1>6, <2>1, <3>1, FS_RemoveElement
  <2> QED  BY <1>0, <1>2, <2>2, <2>3 DEF Counted
<1> PICK h \in Buckets : h = Hash(t.id[e])  BY <1>1, HashFacts
<1>16. PICK g : g = Walk(t, t.id[e])  OBVIOUS
<1>17. Goes(t, h, g) /\ Orderly(t, h, g)  BY <1>0, <1>1, <1>16, WalkGoes, SearchOrderly
<1>18. PICK j \in 0 .. Cap : g[j] = e  BY <1>0, <1>16 DEF Reached
<1>19. j # Cap /\ j + 1 \in 0 .. Cap  BY <1>1, <1>17, <1>18 DEF Orderly
<1> PICK F : F = [k \in 0 .. Cap |-> IF k < j THEN g[k] ELSE IF k = Cap THEN Nil ELSE g[k + 1]]
  OBVIOUS
<1>20. /\ \A k \in 0 .. Cap : g[k] \in Links /\ (g[k] = e => k = j)
       /\ \A k \in 0 .. j : g[k] # Nil
       /\ \A k \in 1 .. Cap : g[k] = IF g[k - 1] = Nil THEN Nil ELSE t.next[g[k - 1]]
       /\ g[Cap] = Nil /\ g[0] = t.hash[h]
  BY <1>1, <1>17, <1>18 DEF Goes, Orderly
<1>21. /\ \A k \in 0 .. Cap : k < j => F[k] = g[k]
       /\ \A k \in 0 .. Cap : ~(k < j) /\ k # Cap => F[k] = g[k + 1]
       /\ F[Cap] = Nil
  BY <1>1, <1>19
<1>22. F \in [0 .. Cap -> Links]
  <2>1. ASSUME NEW k \in 0 .. Cap, k # Cap PROVE g[k + 1] \in Links
    <3>1. k + 1 \in 0 .. Cap  BY <1>1, <2>1
    <3> QED  BY <1>20, <3>1
  <2>2. Nil \in Links  BY DEF Links
  <2> QED  BY <1>20, <2>1, <2>2
<1>23. g[j + 1] = t.next[e]
  <2>1. j + 1 \in 1 .. Cap /\ j + 1 - 1 = j  BY <1>1, <1>19
  <2> QED  BY <1>1, <1>18, <1>20, <2>1
<1>24. Goes(u, h, F)
  <2>1. F[0] = u.hash[h]
    <3>1. CASE j = 0
      <4>1. F[0] = g[0 + 1]  BY <1>1, <1>21, <3>1
      <4> QED  BY <1>2, <1>18, <1>20, <1>23, <3>1, <4>1
    <3>2. CASE j # 0
      <4>1. F[0] = g[0] /\ g[0] # e  BY <1>1, <1>20, <1>21, <3>2
      <4> QED  BY <1>2, <1>20, <4>1
    <3> QED  BY <3>1, <3>2
  <2>2. ASSUME NEW k \in 1 .. Cap
        PROVE  F[k] = IF F[k - 1] = Nil THEN Nil ELSE u.next[F[k - 1]]
    <3>0. k \in 0 .. Cap /\ k - 1 \in 0 .. Cap /\ k - 1 # Cap /\ k - 1 + 1 = k /\ k \in Int  BY <1>1
    <3>1. ASSUME NEW m \in 0 .. Cap, m # j, g[m] # Nil
          PROVE  u.next[g[m]] = IF t.next[g[m]] = e THEN t.next[e] ELSE t.next[g[m]]
      <4>1. g[m] # e /\ g[m] \in Entries  BY <1>20, <3>1 DEF Links
      <4> QED  BY <1>2, <4>1
    <3>2. CASE k < j
      <4>1. k - 1 < j /\ k - 1 # j /\ k # j /\ k - 1 \in 0 .. j  BY <3>0, <3>2
      <4>2. F[k] = g[k] /\ F[k - 1] = g[k - 1] /\ g[k - 1] # Nil /\ g[k] # e
        BY <1>20, <1>21, <3>0, <3>2, <4>1
      <4>3. g[k] = t.next[g[k - 1]]  BY <1>20, <4>2
      <4> QED  BY <3>0, <3>1, <4>1, <4>2, <4>3
    <3>3. CASE k = j
      <4>1. k - 1 < j /\ k - 1 # j /\ ~(k < j) /\ k # Cap /\ k - 1 \in 0 .. j  BY <1>19, <3>0, <3>3
      <4>2. F[k] = g[k + 1] /\ F[k - 1] = g[k - 1] /\ g[k - 1] # Nil
        BY <1>20, <1>21, <3>0, <4>1
      <4>3. t.next[g[k - 1]] = e  BY <1>18, <1>20, <3>3, <4>2
      <4>4. u.next[g[k - 1]] = t.next[e]  BY <3>0, <3>1, <4>1, <4>2, <4>3
      <4> QED  BY <1>23, <3>3, <4>2, <4>4
    <3>4. CASE j < k /\ k # Cap
      <4>1. ~(k < j) /\ ~(k - 1 < j) /\ k # j /\ k + 1 \in 0 .. Cap /\ k + 1 \in 1 .. Cap
            /\ k + 1 - 1 = k /\ k + 1 # j
        BY <1>1, <3>0, <3>4
      <4>2. F[k] = g[k + 1] /\ F[k - 1] = g[k]
        <5>1. F[k] = g[k + 1]  BY <1>21, <3>0, <3>4, <4>1
        <5>2. F[k - 1] = g[k - 1 + 1]  BY <1>21, <3>0, <4>1
        <5> QED  BY <3>0, <5>1, <5>2
      <4>3. g[k + 1] = IF g[k] = Nil THEN Nil ELSE t.next[g[k]]
        <5>1. g[k + 1] = IF g[k + 1 - 1] = Nil THEN Nil ELSE t.next[g[k + 1 - 1]]  BY <1>20, <4>1
        <5> QED  BY <4>1, <5>1
      <4>4. g[k + 1] # e  BY <1>20, <4>1
      <4> QED  BY <3>0, <3>1, <4>1, <4>2, <4>3, <4>4
    <3>5. CASE j < k /\ k = Cap
      <4>1. ~(k - 1 < j)  BY <3>0, <3>5
      <4>2. F[k - 1] = g[k - 1 + 1]  BY <1>21, <3>0, <4>1
      <4>3. F[k - 1] = Nil /\ F[k] = Nil  BY <1>20, <1>21, <3>0, <3>5, <4>2
      <4> QED  BY <4>3
    <3>6. k < j \/ k = j \/ (j < k /\ k # Cap) \/ (j < k /\ k = Cap)  BY <3>0
    <3> QED  BY <3>2, <3>3, <3>4, <3>5, <3>6
  <2> QED  BY <1>22, <2>1, <2>2 DEF Goes
<1>25. ASSUME NEW k \in Buckets, k # h, NEW f, Goes(t, k, f) PROVE Goes(u, k, f)
  <2>1. Orderly(t, k, f)  BY <1>0, <1>25, SearchOrderly
  <2>2. \A i \in 0 .. Cap : f[i] # e  BY <1>1, <1>25, <2>1 DEF Orderly
  <2>3. u.hash[k] = t.hash[k]
    <3>1. t.hash[k] # e
      <4>1. f[0] = t.hash[k] /\ 0 \in 0 .. Cap  BY <1>1, <1>25 DEF Goes
      <4> QED  BY <2>2, <4>1
    <3> QED  BY <1>2, <3>1
  <2>4. ASSUME NEW i \in 1 .. Cap, f[i - 1] # Nil PROVE u.next[f[i - 1]] = t.next[f[i - 1]]
    <3>1. i - 1 \in 0 .. Cap /\ i \in 0 .. Cap  BY <1>1
    <3>2. f[i - 1] # e /\ f[i - 1] \in Entries  BY <1>1, <2>1, <2>2, <2>4, <3>1 DEF Orderly
    <3>3. t.next[f[i - 1]] = f[i]  BY <1>25, <2>4 DEF Goes
    <3>4. t.next[f[i - 1]] # e  BY <2>2, <3>1, <3>3
    <3> QED  BY <1>2, <3>2, <3>4
  <2> QED  BY <1>25, <2>3, <2>4 DEF Goes
<1>26. Reached(u)
  <2>1. ASSUME NEW d \in Used(u) PROVE \E k \in 0 .. Cap : Walk(u, u.id[d])[k] = d
    <3>1. d \in Used(t) /\ u.id[d] = t.id[d] /\ d # e /\ t.id[d] \in Nat  BY <1>1, <1>4
    <3> PICK f : f = Walk(t, t.id[d])  OBVIOUS
    <3> PICK b \in Buckets : b = Hash(t.id[d])  BY <3>1, HashFacts
    <3>2. Goes(t, b, f)  BY <1>0, <3>1, WalkGoes
    <3>3. PICK k \in 0 .. Cap : f[k] = d  BY <1>0, <3>1 DEF Reached
    <3>4. CASE b # h
      <4>1. Goes(u, b, f)  BY <1>25, <3>2, <3>4
      <4>2. Walk(u, u.id[d]) = f  BY <3>1, <4>1, WalkIs
      <4> QED  BY <3>3, <4>2
    <3>5. CASE b = h
      <4>1. f = g  BY <1>17, <3>2, <3>5, OneWay
      <4>2. k # j  BY <1>18, <3>1, <3>3, <4>1
      <4>3. Walk(u, u.id[d]) = F  BY <1>24, <3>1, <3>5, WalkIs
      <4>4. CASE k < j
        <5>1. F[k] = d  BY <1>21, <3>3, <4>1, <4>4
        <5> QED  BY <4>3, <5>1
      <4>5. CASE j < k
        <5>1. k - 1 \in 0 .. Cap /\ ~(k - 1 < j) /\ k - 1 # Cap /\ k - 1 + 1 = k  BY <1>1, <4>5
        <5>2. F[k - 1] = g[k - 1 + 1]  BY <1>21, <5>1
        <5>3. F[k - 1] = d  BY <3>3, <4>1, <5>1, <5>2
        <5> QED  BY <4>3, <5>1, <5>3
      <4>6. k < j \/ j < k  BY <1>1, <4>2
      <4> QED  BY <4>4, <4>5, <4>6
    <3> QED  BY <3>4, <3>5
  <2> QED  BY <2>1 DEF Reached
<1>27. Chained(u)
  BY <1>9, <1>10, <1>11, <1>12, <1>13, <1>14 DEF Chained
<1> QED  BY <1>3, <1>6, <1>15, <1>26, <1>27 DEF TableOK

\* hashid_remove drops the entry that hashid_lookup finds.
LEMMA RemoveDrops ==
    ASSUME NEW t, TableOK(t), NEW x \in Nat, x \in Held(t)
    PROVE  /\ hashid_remove(t, x) \in Tables
           /\ Drop(t, hashid_remove(t, x), hashid_lookup(t, x))
<1>0. t \in Tables /\ Chained(t) /\ Reached(t) /\ Counted(t)  BY DEF TableOK
<1> PICK h \in Buckets : h = Hash(x)  BY HashFacts
<1> PICK j, e, g : j = Found(t, x) /\ e = hashid_lookup(t, x) /\ g = Walk(t, x)  OBVIOUS
<1>1. j \in 0 .. Cap /\ g[j] = e /\ e \in Used(t) /\ e \in Entries /\ e # Nil
  BY <1>0, LookupFacts DEF Used, Entries, Nil
<1>2. Goes(t, h, g) /\ Orderly(t, h, g)  BY <1>0, WalkGoes, SearchOrderly
<1>3. t.count - 1 \in Nat
  <2>1. Cardinality(Used(t)) \in Nat /\ Cardinality(Used(t)) # 0
    BY <1>0, <1>1, TableFinite, FS_CardinalityType, FS_EmptySet
  <2> QED  BY <1>0, <2>1 DEF Counted
<1>4. t.next[e] \in Links /\ Nil \in Links  BY <1>0, <1>1 DEF Tables, Links
<1>5. t = [id |-> t.id, next |-> t.next, hash |-> t.hash, count |-> t.count]  BY <1>0 DEF Tables
<1> PICK u : u = hashid_remove(t, x)  OBVIOUS
<1>6. CASE j = 0
  <2>1. u = [t EXCEPT !.hash[h] = t.next[e], !.id[e] = NoId, !.next[e] = Nil, !.count = @ - 1]
    BY <1>1, <1>6 DEF hashid_remove, RemovedHead
  <2> PICK a, b, c, n : /\ a = [t.id EXCEPT ![e] = NoId] /\ b = [t.next EXCEPT ![e] = Nil]
                        /\ c = [t.hash EXCEPT ![h] = t.next[e]] /\ n = t.count - 1
    OBVIOUS
  <2>2. u = [id |-> a, next |-> b, hash |-> c, count |-> n]  BY <1>5, <2>1
  <2>3. /\ a \in [Entries -> Nat \cup {NoId}] /\ b \in [Entries -> Links]
        /\ c \in [Buckets -> Links] /\ n \in Nat
    BY <1>0, <1>3, <1>4 DEF Tables
  <2>4. u \in Tables /\ u.id = a /\ u.next = b /\ u.hash = c /\ u.count = n
    BY ONLY <2>2, <2>3 DEF Tables
  <2>5. t.hash[h] = e  BY <1>1, <1>2, <1>6 DEF Goes
  <2>6. /\ u.id[e] = NoId /\ \A d \in Entries : d # e => u.id[d] = t.id[d]
        /\ u.next[e] = Nil /\ \A d \in Entries : d # e => u.next[d] = t.next[d]
    BY <1>0, <1>1, <2>4 DEF Tables
  <2>7. /\ u.hash[h] = t.next[e] /\ \A k \in Buckets : k # h => u.hash[k] = t.hash[k]
    BY <1>0, <2>4 DEF Tables
  <2>8. \A d \in Entries : t.next[d] # e
    BY <1>0, <1>1, <2>5 DEF Chained, NoHeadShared
  <2>9. \A k \in Buckets : k # h => t.hash[k] # e
    BY <1>0, <1>1, <2>5 DEF Chained, HeadsLead
  <2>10. Drop(t, u, e)  BY <2>4, <2>5, <2>6, <2>7, <2>8, <2>9 DEF Drop, Past
  <2> QED  BY <2>4, <2>10
<1>7. CASE j # 0
  <2> PICK p : p = g[j - 1]  OBVIOUS
  <2>0. j - 1 \in 0 .. Cap /\ j \in 1 .. Cap /\ j - 1 \in 0 .. j /\ j - 1 # j  BY <1>1, <1>7, HashIdAssumption
  <2>1. p \in Entries /\ p # e /\ t.next[p] = e
    <3>1. p # Nil /\ p \in Used(t) /\ p # e  BY <1>1, <1>2, <2>0 DEF Orderly
    <3>2. t.next[p] = e  BY <1>1, <1>2, <2>0, <3>1 DEF Goes
    <3> QED  BY <3>1, <3>2 DEF Used
  <2>2. u = [t EXCEPT !.next[p] = t.next[e], !.next[e] = Nil, !.id[e] = NoId, !.count = @ - 1]
    BY <1>1, <1>7, HashIdAssumption DEF hashid_remove
  <2> PICK a, b, n : /\ a = [t.id EXCEPT ![e] = NoId]
                     /\ b = [[t.next EXCEPT ![p] = t.next[e]] EXCEPT ![e] = Nil]
                     /\ n = t.count - 1
    OBVIOUS
  <2>3. u = [id |-> a, next |-> b, hash |-> t.hash, count |-> n]  BY <1>5, <2>2
  <2>4. /\ a \in [Entries -> Nat \cup {NoId}] /\ b \in [Entries -> Links]
        /\ t.hash \in [Buckets -> Links] /\ n \in Nat
    BY <1>0, <1>3, <1>4 DEF Tables
  <2>5. u \in Tables /\ u.id = a /\ u.next = b /\ u.hash = t.hash /\ u.count = n
    BY ONLY <2>3, <2>4 DEF Tables
  <2>6. /\ u.id[e] = NoId /\ \A d \in Entries : d # e => u.id[d] = t.id[d]
        /\ u.next[e] = Nil /\ u.next[p] = t.next[e]
        /\ \A d \in Entries : d # e /\ d # p => u.next[d] = t.next[d]
    BY <1>0, <1>1, <2>1, <2>5 DEF Tables
  <2>7. \A d \in Entries : d # p => t.next[d] # e
    BY <1>0, <1>1, <2>1 DEF Chained, NoNextShared
  <2>8. \A k \in Buckets : t.hash[k] # e
    BY <1>0, <1>1, <2>1 DEF Chained, NoHeadShared
  <2>9. Drop(t, u, e)  BY <2>1, <2>5, <2>6, <2>7, <2>8 DEF Drop, Past
  <2> QED  BY <2>5, <2>9
<1> QED  BY <1>6, <1>7

\* What an insertion does, as the gate sees it.
LEMMA InsertOK ==
    ASSUME NEW t, TableOK(t), ~hashid_full(t), NEW x \in Nat, x \notin Held(t)
    PROVE  /\ TableOK(hashid_insert(t, x))
           /\ Held(hashid_insert(t, x)) = Held(t) \cup {x}
           /\ \E e \in Entries :
                /\ t.id[e] = NoId /\ hashid_insert(t, x).id = [t.id EXCEPT ![e] = x]
                /\ hashid_lookup(hashid_insert(t, x), x) = e
<1> PICK u : u = hashid_insert(t, x)  OBVIOUS
<1>0. t \in Tables /\ Counted(t) /\ t.count # Cap  BY DEF TableOK, hashid_full
<1> PICK e : e = FirstFree(t, x)  OBVIOUS
<1>1. e \in Entries /\ e \notin Used(t)  BY <1>0, PlaceFree
<1>2. u \in Tables /\ Put(t, u, x, e)  BY <1>0, <1>1, InsertPuts
<1>3. TableOK(u)  BY <1>1, <1>2, PutOK
<1>4. Held(u) = Held(t) \cup {x} /\ u.id[e] = x /\ Used(u) = Used(t) \cup {e}
  BY <1>0, <1>1, <1>2, PutFacts
<1>5. hashid_lookup(u, x) = e
  <2>1. /\ hashid_lookup(u, x) \in Used(u) /\ u.id[hashid_lookup(u, x)] = x
    BY <1>2, <1>3, <1>4, LookupFacts DEF TableOK
  <2> QED  BY <1>3, <1>4, <2>1 DEF TableOK, Chained, IdsOnce
<1>6. t.id[e] = NoId  BY <1>1 DEF Used
<1>7. u.id = [t.id EXCEPT ![e] = x]  BY <1>2 DEF Put
<1> QED  BY <1>1, <1>3, <1>4, <1>5, <1>6, <1>7

\* And what a removal does.
LEMMA RemoveOK ==
    ASSUME NEW t, TableOK(t), NEW x \in Nat, x \in Held(t)
    PROVE  /\ TableOK(hashid_remove(t, x))
           /\ Held(hashid_remove(t, x)) = Held(t) \ {x}
           /\ hashid_lookup(t, x) \in Entries
           /\ hashid_remove(t, x).id[hashid_lookup(t, x)] = NoId
           /\ \A d \in Entries : d # hashid_lookup(t, x) =>
                                    hashid_remove(t, x).id[d] = t.id[d]
<1> PICK u, e : u = hashid_remove(t, x) /\ e = hashid_lookup(t, x)  OBVIOUS
<1>1. e \in Used(t) /\ t.id[e] = x  BY LookupFacts DEF TableOK
<1>2. u \in Tables /\ Drop(t, u, e)  BY RemoveDrops
<1>3. TableOK(u) /\ Held(u) = Held(t) \ {x}  BY <1>1, <1>2, DropOK
<1>4. u.id[e] = NoId /\ \A d \in Entries : d # e => u.id[d] = t.id[d]  BY <1>2 DEF Drop
<1>5. e \in Entries  BY <1>1 DEF Used
<1> QED  BY <1>3, <1>4, <1>5

-----------------------------------------------------------------------------
(* The gate: its inductive invariant *)

Byte == [package : Nat, size : Int]
Forwards == [command : {"forward"}, package : Nat]
Notes == [command : {"connect", "disconnect"}] \cup Forwards
Messages == [type : {"ACCEPT", "CONNECT", "CLOSE", "ERROR", "kick"}, id : Ids]
            \cup [type : {"DATA"}, id : Ids, bytes : Seq(Byte)]

GateTyped ==
    /\ seen \in [Ids -> Socket!States]
    /\ mail \in Seq(Messages)
    /\ sent \in [Ids -> Nat]
    /\ client \in [packages : [Ids -> Seq(Int)], trouble : Nat]
    /\ conn \in [Entries -> [fd : Ids \cup {NoId}, buffer : Seq(Byte)]]
    /\ told \in [Ids -> Seq(Notes)]
    /\ running \in BOOLEAN

\* A socket's id is a number, and not the one that marks a free entry.
LEMMA RealId ==
    ASSUME NEW i \in Ids
    PROVE  i \in Nat /\ i # NoId
<1>1. i \in Nat \ {0}  BY GateAssumption
<1>2. i \in Nat /\ ~(i < 0)  BY ONLY <1>1
<1>3. i # -1  BY ONLY <1>2
<1> QED  BY <1>2, <1>3 DEF NoId

\* What the service is told of one client, and that the client is connected.
Session(notes) ==
    \A n \in DOMAIN notes :
        /\ notes[n].command = "connect" <=> n = 1
        /\ notes[n].command = "disconnect" => n = Len(notes)
Connected(notes) == notes # <<>> /\ notes[Len(notes)].command # "disconnect"

\* A client is accepted once: until then nobody is told of it.
Accepts(m) == {n \in DOMAIN m : m[n].type = "ACCEPT"}
AcceptedOnce ==
    /\ \A i \in Ids : seen[i] = "unborn" => told[i] = <<>>
    /\ \A n \in Accepts(mail) : seen[mail[n].id] # "unborn" /\ told[mail[n].id] = <<>>
    /\ \A m, n \in Accepts(mail) : mail[m].id = mail[n].id => m = n

\* The table and the connections are those of the clients the service takes for connected.
Fits(t, c) == \A e \in Entries : IF t.id[e] = NoId THEN c[e] = Unused ELSE c[e].fd = t.id[e]
TableServes ==
    IF running THEN TableOK(table) /\ Held(table) = Served /\ Fits(table, conn)
    ELSE mail = <<>>

GateIInv == GateTyped /\ Sessions /\ AcceptedOnce /\ TableServes

(* And what is framed.  Of a client that sends packages of these sizes, so many have been       *)
(* forwarded, the bytes up to p have come into the buffer and those up to some later place      *)
(* are in the mail.                                                                             *)
All(sizes) == FirstPackages(sizes)[Len(sizes)]
End(sizes, n) == Len(FirstPackages(sizes)[n])

Parsed(sizes, count, buffer, p) ==
    /\ p \in End(sizes, count) .. Len(All(sizes))
    /\ buffer = SubSeq(All(sizes), End(sizes, count) + 1, p)
    /\ Readpack(buffer) = 0

DataOf(m, i) == m.type = "DATA" /\ m.id = i
Carries(sizes, m, i, from, to) ==
    IF DataOf(m, i) THEN from <= to /\ m.bytes = SubSeq(All(sizes), from + 1, to) ELSE to = from
Waiting(sizes, messages, i, p, last) ==
    \E at \in [0 .. Len(messages) -> 0 .. Len(All(sizes))] :
        /\ at[0] = p /\ at[Len(messages)] = last
        /\ \A n \in 1 .. Len(messages) : Carries(sizes, messages[n], i, at[n - 1], at[n])

InOrder(i, sizes, notes, messages, last, buffer) ==
    LET count == Len(notes) - 1
    IN  /\ count <= Len(sizes) /\ \A n \in 1 .. count : notes[n + 1].package = n
        /\ \E p \in 0 .. Len(All(sizes)) :
            Parsed(sizes, count, buffer, p) /\ Waiting(sizes, messages, i, p, last)
InStream(i, e) == InOrder(i, client.packages[i], told[i], mail, sent[i], conn[e].buffer)

\* Before the gate has asked to start it, a socket brings no data.
NotStarted ==
    \A i \in Ids :
        /\ told[i] = <<>> => "start" \notin asked[i]
        /\ "start" \notin asked[i] => /\ seen[i] # "open" /\ sent[i] = 0
                                     /\ \A n \in DOMAIN mail : ~DataOf(mail[n], i)
Streams ==
    running => \A e \in Entries, i \in Ids :
        table.id[e] = i /\ "close" \notin asked[i] => InStream(i, e)
StreamIInv == /\ GateIInv /\ asked \in [Ids -> SUBSET {"start", "close"}]
              /\ NotStarted /\ Streams

-----------------------------------------------------------------------------
(* The bytes and what is made of them *)

\* The bytes of one package.
SizeOf(sizes, n) == HeadSize + (IF sizes[n] > 0 THEN sizes[n] ELSE 0)
PackageOf(sizes, n) == [b \in 1 .. SizeOf(sizes, n) |-> [package |-> n, size |-> sizes[n]]]

\* A package has at least its header, and each of its bytes tells its number and size.
LEMMA PackageFacts ==
    ASSUME NEW sizes \in Seq(Int), NEW n \in 1 .. Len(sizes)
    PROVE  /\ SizeOf(sizes, n) \in Nat \ {0} /\ SizeOf(sizes, n) >= HeadSize
           /\ PackageOf(sizes, n) \in Seq(Byte) /\ Len(PackageOf(sizes, n)) = SizeOf(sizes, n)
           /\ \A b \in 1 .. SizeOf(sizes, n) : PackageOf(sizes, n)[b] = [package |-> n, size |-> sizes[n]]
<1> PICK size, l : size = sizes[n] /\ l = SizeOf(sizes, n)  OBVIOUS
<1>1. size \in Int /\ n \in Nat  OBVIOUS
<1>2. l \in Nat \ {0} /\ l >= HeadSize  BY <1>1, GateAssumption DEF SizeOf
<1>3. [package |-> n, size |-> size] \in Byte  BY <1>1 DEF Byte
<1>4. PackageOf(sizes, n) = [b \in 1 .. l |-> [package |-> n, size |-> size]]  BY DEF PackageOf
<1> QED  BY <1>2, <1>3, <1>4

\* The bytes of the first packages, one after the other.
LEMMA FirstFacts ==
    ASSUME NEW sizes \in Seq(Int)
    PROVE  /\ FirstPackages(sizes)[0] = <<>>
           /\ \A n \in 1 .. Len(sizes) :
                FirstPackages(sizes)[n] = FirstPackages(sizes)[n - 1] \o PackageOf(sizes, n)
           /\ \A n \in 0 .. Len(sizes) : FirstPackages(sizes)[n] \in Seq(Byte)
<1> PICK N : N = Len(sizes)  OBVIOUS
<1>1. N \in Nat  OBVIOUS
<1> DEFINE Steps(f) == f = [n \in 0 .. Len(sizes) |->
                              IF n = 0 THEN <<>> ELSE f[n - 1] \o PackageOf(sizes, n)]
           G == [p \in (1 .. N) \X Seq(Byte) |-> p[2] \o PackageOf(sizes, p[1])]
<1>2. \A n \in 1 .. N : PackageOf(sizes, n) \in Seq(Byte)  BY PackageFacts
<1>3. FirstPackages(sizes) = CHOOSE f : Steps(f)  BY DEF FirstPackages, PackageOf, SizeOf
<1>4. \E f : Steps(f)
  <2>1. G \in [(1 .. N) \X Seq(Byte) -> Seq(Byte)]  BY <1>2
  <2>2. PICK f \in [0 .. N -> Seq(Byte)] : Recursive(N, <<>>, G, f)
    <3>1. <<>> \in Seq(Byte)  OBVIOUS
    <3> HIDE DEF G
    <3> QED  BY <1>1, <2>1, <3>1, Recursion
  <2>3. ASSUME NEW n \in 0 .. N
        PROVE  f[n] = IF n = 0 THEN <<>> ELSE f[n - 1] \o PackageOf(sizes, n)
    <3>1. ASSUME n # 0 PROVE G[<<n, f[n - 1]>>] = f[n - 1] \o PackageOf(sizes, n)
      <4>1. n \in 1 .. N /\ n - 1 \in 0 .. N  BY <1>1, <3>1
      <4> QED  BY <4>1
    <3> HIDE DEF G
    <3> QED  BY <2>2, <3>1 DEF Recursive
  <2>4. Steps(f)  BY <2>3
  <2> HIDE DEF Steps
  <2> QED  BY <2>4
<1> PICK f : f = CHOOSE g : Steps(g)  OBVIOUS
<1>5. Steps(f)
  <2> HIDE DEF Steps
  <2> QED  BY <1>4
<1>6. \A n \in 0 .. N : f[n] = IF n = 0 THEN <<>> ELSE f[n - 1] \o PackageOf(sizes, n)
  BY <1>5, Zenon
<1> HIDE DEF Steps, G
<1>7. f[0] = <<>>
  <2>1. 0 \in 0 .. N  BY <1>1
  <2> QED  BY <1>6, <2>1, Zenon
<1>8. ASSUME NEW n \in 1 .. N PROVE f[n] = f[n - 1] \o PackageOf(sizes, n)
  <2>1. n \in 0 .. N /\ n # 0  BY <1>1
  <2> QED  BY <1>6, <2>1, Zenon
<1>9. \A n \in 0 .. N : f[n] \in Seq(Byte)
  <2> DEFINE T == {n \in 0 .. N : f[n] \in Seq(Byte)}
  <2>1. 0 \in T
    <3>1. 0 \in 0 .. N /\ <<>> \in Seq(Byte)  BY <1>1
    <3> QED  BY <1>7, <3>1
  <2>2. ASSUME NEW n \in 1 .. N, n - 1 \in T PROVE n \in T
    <3>1. n \in 0 .. N /\ f[n - 1] \in Seq(Byte)  BY <1>1, <2>2
    <3> PICK before, one : before = f[n - 1] /\ one = PackageOf(sizes, n)  OBVIOUS
    <3>2. before \in Seq(Byte) /\ one \in Seq(Byte) /\ f[n] = before \o one
      BY <1>2, <1>8, <3>1
    <3>3. f[n] \in Seq(Byte)  BY ONLY <3>2
    <3> QED  BY <3>1, <3>3
  <2>3. \A n \in 0 .. N : n \in T
    <3> HIDE DEF T
    <3> QED  BY <1>1, <2>1, <2>2, UpTo
  <2> QED  BY <2>3
<1>10. FirstPackages(sizes) = f  BY <1>3
<1> QED  BY <1>7, <1>8, <1>9, <1>10

\* s is the beginning of t.
Begins(s, t) == Len(s) \in 0 .. Len(t) /\ \A k \in 1 .. Len(s) : s[k] = t[k]

\* A beginning of a beginning is a beginning.
LEMMA BeginsBegins ==
    ASSUME NEW s \in Seq(Byte), NEW t \in Seq(Byte), NEW u \in Seq(Byte), Begins(s, t), Begins(t, u)
    PROVE  Begins(s, u)
<1> PICK a, b, c : a = Len(s) /\ b = Len(t) /\ c = Len(u)  OBVIOUS
<1>1. a \in Nat /\ b \in Nat /\ c \in Nat  OBVIOUS
<1>2. /\ a \in 0 .. b /\ \A k \in 1 .. a : s[k] = t[k]
      /\ b \in 0 .. c /\ \A k \in 1 .. b : t[k] = u[k]
  BY DEF Begins
<1>3. a \in 0 .. c /\ \A k \in 1 .. a : k \in 1 .. b  BY <1>1, <1>2
<1> QED  BY <1>2, <1>3 DEF Begins

\* What a client sends is bytes, each of one of its packages, and where that package is.
LEMMA Places ==
    ASSUME NEW sizes \in Seq(Int)
    PROVE  /\ All(sizes) \in Seq(Byte) /\ End(sizes, 0) = 0 /\ End(sizes, Len(sizes)) = Len(All(sizes))
           /\ \A n \in 0 .. Len(sizes) :
                /\ End(sizes, n) \in 0 .. Len(All(sizes))
                /\ \A k \in 1 .. End(sizes, n) : FirstPackages(sizes)[n][k] = All(sizes)[k]
           /\ \A n \in 1 .. Len(sizes) :
                /\ End(sizes, n) = End(sizes, n - 1) + SizeOf(sizes, n)
                /\ \A k \in End(sizes, n - 1) + 1 .. End(sizes, n) :
                        All(sizes)[k] = [package |-> n, size |-> sizes[n]]
<1> PICK N, f, all : N = Len(sizes) /\ f = FirstPackages(sizes) /\ all = All(sizes)  OBVIOUS
<1>0. N \in Nat /\ all = f[N]  BY DEF All
<1>1. /\ f[0] = <<>> /\ \A n \in 0 .. N : f[n] \in Seq(Byte)
      /\ \A n \in 1 .. N : f[n] = f[n - 1] \o PackageOf(sizes, n)
  BY FirstFacts
<1>2. all \in Seq(Byte)  BY <1>0, <1>1
<1>3. ASSUME NEW n \in 1 .. N
      PROVE  /\ Len(f[n]) = Len(f[n - 1]) + SizeOf(sizes, n)
             /\ Begins(f[n - 1], f[n])
             /\ \A k \in Len(f[n - 1]) + 1 .. Len(f[n]) : f[n][k] = [package |-> n, size |-> sizes[n]]
  <2> PICK a, b, c : a = f[n - 1] /\ b = PackageOf(sizes, n) /\ c = f[n]  OBVIOUS
  <2> PICK byte : byte = [package |-> n, size |-> sizes[n]]  OBVIOUS
  <2>0. n - 1 \in 0 .. N /\ n \in 0 .. N  BY <1>0
  <2>1. a \in Seq(Byte) /\ b \in Seq(Byte) /\ c = a \o b  BY <1>1, <2>0, PackageFacts
  <2>2. Len(b) = SizeOf(sizes, n) /\ \A k \in 1 .. Len(b) : b[k] = byte  BY PackageFacts
  <2> PICK la, lb : la = Len(a) /\ lb = Len(b)  OBVIOUS
  <2>3. /\ la \in Nat /\ lb \in Nat /\ Len(c) = la + lb
        /\ \A k \in 1 .. la : c[k] = a[k]
        /\ \A k \in la + 1 .. la + lb : c[k] = b[k - la]
    BY ONLY <2>1, la = Len(a), lb = Len(b)
  <2>4. \A k \in la + 1 .. la + lb : k - la \in 1 .. lb
    <3>1. la \in Nat /\ lb \in Nat  BY ONLY <2>3
    <3> QED  BY ONLY <3>1
  <2>5. ASSUME NEW k \in la + 1 .. la + lb PROVE c[k] = byte
    <3> PICK j : j = k - la  OBVIOUS
    <3>1. j \in 1 .. Len(b)  BY <2>4
    <3>2. c[k] = b[j]  BY <2>3
    <3>3. b[j] = byte  BY ONLY <2>2, <3>1
    <3> QED  BY ONLY <3>2, <3>3
  <2>6. Begins(a, c)
    <3>1. la \in 0 .. la + lb  BY <2>3
    <3> QED  BY <2>3, <3>1 DEF Begins
  <2> QED  BY <2>2, <2>3, <2>5, <2>6
<1>4. \A n \in 0 .. N : Begins(f[n], all)
  <2> DEFINE T == {d \in 0 .. N : Begins(f[N - d], all)}
  <2>1. 0 \in T
    <3>1. N - 0 = N /\ 0 \in 0 .. N  BY <1>0
    <3>2. Begins(f[N], all)  BY <1>0, <1>2 DEF Begins
    <3> QED  BY <3>1, <3>2
  <2>2. ASSUME NEW d \in 1 .. N, d - 1 \in T PROVE d \in T
    <3> PICK n, m : n = N - d + 1 /\ m = N - d  OBVIOUS
    <3>1. n \in 1 .. N /\ n - 1 = m /\ n = N - (d - 1) /\ d \in 0 .. N /\ m \in 0 .. N /\ n \in 0 .. N
      BY <1>0
    <3>2. Begins(f[n], all)  BY <2>2, <3>1
    <3>3. f[n] \in Seq(Byte) /\ f[m] \in Seq(Byte)  BY <1>1, <3>1
    <3>4. Begins(f[m], f[n])  BY <1>3, <3>1
    <3>5. Begins(f[m], all)  BY <1>2, <3>2, <3>3, <3>4, BeginsBegins
    <3> QED  BY <3>1, <3>5
  <2>3. \A d \in 0 .. N : d \in T
    <3> HIDE DEF T
    <3> QED  BY <1>0, <2>1, <2>2, UpTo
  <2>4. ASSUME NEW n \in 0 .. N PROVE Begins(f[n], all)
    <3> PICK d : d = N - n  OBVIOUS
    <3>1. d \in 0 .. N /\ N - d = n  BY <1>0
    <3>2. d \in T  BY <2>3, <3>1
    <3> QED  BY <3>1, <3>2
  <2> QED  BY <2>4
<1>5. ASSUME NEW n \in 0 .. N
      PROVE  /\ Len(f[n]) \in 0 .. Len(all)
             /\ \A k \in 1 .. Len(f[n]) : f[n][k] = all[k]
  BY <1>4, Zenon DEF Begins
<1>6. ASSUME NEW n \in 1 .. N, NEW k \in Len(f[n - 1]) + 1 .. Len(f[n])
      PROVE  all[k] = [package |-> n, size |-> sizes[n]]
  <2>1. n \in 0 .. N /\ n - 1 \in 0 .. N  BY <1>0
  <2> PICK la, lb : la = Len(f[n - 1]) /\ lb = Len(f[n])  OBVIOUS
  <2>2. la \in Nat /\ lb \in Nat /\ k \in la + 1 .. lb  BY <1>1, <2>1
  <2>3. k \in 1 .. lb  BY ONLY <2>2
  <2>4. f[n][k] = all[k]  BY <1>5, <2>1, <2>3
  <2>5. f[n][k] = [package |-> n, size |-> sizes[n]]  BY <1>3, <2>2, Zenon
  <2> QED  BY <2>4, <2>5
<1>7. ASSUME NEW n \in 0 .. N
      PROVE  /\ End(sizes, n) \in 0 .. Len(all)
             /\ \A k \in 1 .. End(sizes, n) : f[n][k] = all[k]
  BY <1>5 DEF End
<1>8. ASSUME NEW n \in 1 .. N
      PROVE  /\ End(sizes, n) = End(sizes, n - 1) + SizeOf(sizes, n)
             /\ \A k \in End(sizes, n - 1) + 1 .. End(sizes, n) : all[k] = [package |-> n, size |-> sizes[n]]
  BY <1>3, <1>6 DEF End
<1>9. End(sizes, 0) = 0 /\ End(sizes, N) = Len(all)  BY <1>0, <1>1 DEF End
<1> QED  BY <1>2, <1>7, <1>8, <1>9

\* What a client sends is a sequence of bytes.
LEMMA BytesTyped ==
    ASSUME GateTyped, NEW i \in Ids
    PROVE  Bytes(i) \in Seq(Byte)
<1>1. client.packages[i] \in Seq(Int)  BY DEF GateTyped
<1>2. Bytes(i) = All(client.packages[i])  BY DEF Bytes, All
<1> QED  BY <1>1, <1>2, Places

\* One package at the head of the buffer, or none.
LEMMA OnePackageTyped ==
    ASSUME NEW buffer \in Seq(Byte)
    PROVE  OnePackage(buffer) \in [packages : Seq(Forwards), rest : Seq(Byte)]
<1>1. CASE Readpack(buffer) <= 0
  <2>1. <<>> \in Seq(Forwards)  OBVIOUS
  <2> QED  BY <1>1, <2>1 DEF OnePackage
<1>2. CASE ~(Readpack(buffer) <= 0)
  <2> PICK k, l : k = Readpack(buffer) /\ l = Len(buffer)  OBVIOUS
  <2>1. ~(l < HeadSize) /\ k = Head(buffer).size
    <3>1. 0 <= 0  OBVIOUS
    <3> QED  BY <1>2, <3>1 DEF Readpack
  <2>2. l \in Nat /\ l # 0 /\ Head(buffer) \in Byte  BY <2>1, GateAssumption
  <2>3. k \in Int /\ Head(buffer).package \in Nat  BY <2>1, <2>2 DEF Byte
  <2>4. k > 0 /\ HeadSize + k + 1 \in 1 .. HeadSize + k + 1  BY <1>2, <2>3, GateAssumption
  <2> PICK n, rest : n = [command |-> "forward", package |-> Head(buffer).package]
                     /\ rest = SubSeq(buffer, HeadSize + k + 1, l)
    OBVIOUS
  <2>5. <<n>> \in Seq(Forwards)
    <3> PICK q : q = Head(buffer).package  OBVIOUS
    <3>1. q \in Nat /\ n = [command |-> "forward", package |-> q]  BY <2>3
    <3>2. n \in Forwards  BY ONLY <3>1 DEF Forwards
    <3> HIDE DEF Forwards
    <3> QED  BY ONLY <3>2
  <2>6. rest \in Seq(Byte)
    <3> PICK m : m = HeadSize + k + 1  OBVIOUS
    <3>1. m \in Int /\ m >= 1 /\ l \in Int  BY <2>2, <2>3, <2>4, GateAssumption
    <3>2. \A j \in m .. l : buffer[j] \in Byte
      <4>1. \A j \in m .. l : j \in 1 .. Len(buffer)  BY <3>1
      <4> QED  BY <4>1
    <3>3. SubSeq(buffer, m, l) \in Seq(Byte)  BY <3>1, <3>2, SubSeqProperties
    <3> QED  BY <3>3
  <2>7. OnePackage(buffer) = [packages |-> <<n>>, rest |-> rest]  BY <1>2 DEF OnePackage
  <2> QED  BY <2>5, <2>6, <2>7
<1> QED  BY <1>1, <1>2

\* One package after the other: f tells what is forwarded and left after so many.
Steps(buffer, f) ==
    /\ f \in [0 .. Len(buffer) -> [packages : Seq(Forwards), rest : Seq(Byte)]]
    /\ f[0] = [packages |-> <<>>, rest |-> buffer]
    /\ \A n \in 1 .. Len(buffer) :
        f[n] = [packages |-> f[n - 1].packages \o OnePackage(f[n - 1].rest).packages,
                rest |-> OnePackage(f[n - 1].rest).rest]

\* What a buffer is cut into is found package by package, in at most as many steps as it has
\* bytes.
LEMMA ForwardedSteps ==
    ASSUME NEW buffer \in Seq(Byte)
    PROVE  \E f : Steps(buffer, f) /\ Forwarded(buffer) = f[Len(buffer)]
<1> DEFINE S == [packages : Seq(Forwards), rest : Seq(Byte)]
           empty == [packages |-> <<>>, rest |-> buffer]
           More(before) == [packages |-> before.packages \o OnePackage(before.rest).packages,
                            rest |-> OnePackage(before.rest).rest]
<1> PICK N : N = Len(buffer)  OBVIOUS
<1>1. N \in Nat /\ empty \in S
  <2>1. <<>> \in Seq(Forwards)  OBVIOUS
  <2> QED  BY <2>1
<1>2. \A b \in S : More(b) \in S
  <2> SUFFICES ASSUME NEW b \in S PROVE More(b) \in S  OBVIOUS
  <2>1. b.packages \in Seq(Forwards) /\ b.rest \in Seq(Byte)  OBVIOUS
  <2>2. OnePackage(b.rest) \in [packages : Seq(Forwards), rest : Seq(Byte)]  BY <2>1, OnePackageTyped
  <2> PICK one : one = OnePackage(b.rest)  OBVIOUS
  <2>3. one.packages \in Seq(Forwards) /\ one.rest \in Seq(Byte)  BY <2>2
  <2>4. b.packages \o one.packages \in Seq(Forwards)  BY <2>1, <2>3
  <2>5. More(b) = [packages |-> b.packages \o one.packages, rest |-> one.rest]  OBVIOUS
  <2> QED  BY <2>3, <2>4, <2>5
<1> HIDE DEF S, empty, More
<1> DEFINE Loop(f) == f = [n \in 0 .. N |-> IF n = 0 THEN empty ELSE More(f[n - 1])]
           G == [p \in (1 .. N) \X S |-> More(p[2])]
<1>3. Forwarded(buffer) = (CHOOSE f : Loop(f))[N]  BY DEF Forwarded, More, empty
<1>4. \E f : Loop(f)
  <2>1. G \in [(1 .. N) \X S -> S]  BY <1>2
  <2>2. PICK f \in [0 .. N -> S] : Recursive(N, empty, G, f)
    <3> HIDE DEF G
    <3> QED  BY <1>1, <2>1, Recursion
  <2>3. ASSUME NEW n \in 0 .. N PROVE f[n] = IF n = 0 THEN empty ELSE More(f[n - 1])
    <3>1. ASSUME n # 0 PROVE G[<<n, f[n - 1]>>] = More(f[n - 1])
      <4>1. n \in 1 .. N /\ n - 1 \in 0 .. N  BY <1>1, <3>1
      <4> QED  BY <4>1
    <3> HIDE DEF G
    <3> QED  BY <2>2, <3>1 DEF Recursive
  <2>4. Loop(f)  BY <2>3
  <2> HIDE DEF Loop
  <2> QED  BY <2>4
<1> PICK f : f = CHOOSE g : Loop(g)  OBVIOUS
<1>5. Loop(f)
  <2> HIDE DEF Loop
  <2> QED  BY <1>4
<1>6. \A n \in 0 .. N : f[n] = IF n = 0 THEN empty ELSE More(f[n - 1])
  BY <1>5, Zenon
<1> HIDE DEF Loop, G
<1>7. \A n \in 0 .. N : f[n] \in S
  <2> DEFINE T == {n \in 0 .. N : f[n] \in S}
  <2>1. 0 \in T  BY <1>1, <1>6
  <2>2. ASSUME NEW n \in 1 .. N, n - 1 \in T PROVE n \in T
    <3>1. n \in 0 .. N /\ n # 0 /\ f[n - 1] \in S  BY <1>1, <2>2
    <3> QED  BY <1>2, <1>6, <3>1
  <2>3. \A n \in 0 .. N : n \in T
    <3> HIDE DEF T
    <3> QED  BY <1>1, <2>1, <2>2, UpTo
  <2> QED  BY <2>3
<1>8. f[0] = empty /\ \A n \in 1 .. N : f[n] = More(f[n - 1])
  <2>1. 0 \in 0 .. N  BY <1>1
  <2>2. f[0] = empty  BY <1>6, <2>1, Zenon
  <2>3. ASSUME NEW n \in 1 .. N PROVE f[n] = More(f[n - 1])
    <3>1. n \in 0 .. N /\ n # 0  BY <1>1
    <3> QED  BY <1>6, <3>1, Zenon
  <2> QED  BY <2>2, <2>3
<1>9. f \in [0 .. N -> S]
  <2>1. f = [n \in 0 .. N |-> f[n]]  BY <1>5, Zenon DEF Loop
  <2> QED  BY <1>7, <2>1
<1>10. Steps(buffer, f)  BY <1>8, <1>9 DEF Steps, S, More, empty
<1> QED  BY <1>3, <1>10

\* What is forwarded is packages, and what is left is bytes.
LEMMA ForwardedTyped ==
    ASSUME NEW buffer \in Seq(Byte)
    PROVE  Forwarded(buffer) \in [packages : Seq(Forwards), rest : Seq(Byte)]
<1>1. PICK f : Steps(buffer, f) /\ Forwarded(buffer) = f[Len(buffer)]  BY ForwardedSteps
<1>2. Len(buffer) \in 0 .. Len(buffer)  OBVIOUS
<1> QED  BY <1>1, <1>2 DEF Steps

-----------------------------------------------------------------------------
(* What is framed *)

\* What of a sequence is between two places.
LEMMA Pieces ==
    ASSUME NEW all \in Seq(Byte), NEW a \in Nat, NEW b \in a .. Len(all)
    PROVE  /\ SubSeq(all, a + 1, b) \in Seq(Byte) /\ Len(SubSeq(all, a + 1, b)) = b - a
           /\ \A k \in 1 .. b - a : SubSeq(all, a + 1, b)[k] = all[a + k]
<1> PICK l, m : l = Len(all) /\ m = a + 1  OBVIOUS
<1>1. l \in Nat /\ m \in Int /\ m >= 1 /\ b \in Int /\ a <= b /\ b <= l  OBVIOUS
<1>2. \A k \in m .. b : all[k] \in Byte
  <2>1. \A k \in m .. b : k \in 1 .. l  BY <1>1
  <2> QED  BY <2>1
<1>3. /\ SubSeq(all, m, b) \in Seq(Byte)
      /\ Len(SubSeq(all, m, b)) = IF m <= b THEN b - m + 1 ELSE 0
      /\ \A k \in 1 .. b - m + 1 : SubSeq(all, m, b)[k] = all[m + k - 1]
  BY <1>1, <1>2, SubSeqProperties
<1>4. b - m + 1 = b - a /\ (IF m <= b THEN b - m + 1 ELSE 0) = b - a  BY <1>1
<1>5. \A k \in 1 .. b - a : m + k - 1 = a + k  BY <1>1
<1> QED  BY <1>3, <1>4, <1>5

\* Pieces that follow one another are one.
LEMMA PiecesJoin ==
    ASSUME NEW all \in Seq(Byte), NEW a \in Nat, NEW b \in a .. Len(all), NEW c \in b .. Len(all)
    PROVE  SubSeq(all, a + 1, b) \o SubSeq(all, b + 1, c) = SubSeq(all, a + 1, c)
<1>1. /\ a + 1 \in 1 .. Len(all) + 1 /\ b \in (a + 1) - 1 .. Len(all)
      /\ c \in b .. Len(all)
  OBVIOUS
<1> QED  BY <1>1, ConcatAdjacentSubSeq

\* What is left of a piece is a piece.
LEMMA PieceRest ==
    ASSUME NEW all \in Seq(Byte), NEW a \in Nat, NEW b \in a .. Len(all), NEW d \in 0 .. b - a
    PROVE  SubSeq(SubSeq(all, a + 1, b), d + 1, b - a) = SubSeq(all, a + d + 1, b)
<1> PICK s : s = SubSeq(all, a + 1, b)  OBVIOUS
<1> PICK l, m : l = b - a /\ m = a + d  OBVIOUS
<1>0. l \in Nat /\ m \in Nat /\ b \in m .. Len(all) /\ d \in Nat /\ l \in d .. l /\ b - m = l - d  OBVIOUS
<1>1. s \in Seq(Byte) /\ Len(s) = l /\ \A k \in 1 .. l : s[k] = all[a + k]
  BY Pieces
<1> PICK t, u : t = SubSeq(s, d + 1, l) /\ u = SubSeq(all, m + 1, b)  OBVIOUS
<1>2. t \in Seq(Byte) /\ Len(t) = l - d /\ \A k \in 1 .. l - d : t[k] = s[d + k]
  BY <1>0, <1>1, Pieces
<1>3. u \in Seq(Byte) /\ Len(u) = l - d /\ \A k \in 1 .. l - d : u[k] = all[m + k]
  BY <1>0, Pieces
<1>4. ASSUME NEW k \in 1 .. l - d PROVE t[k] = u[k]
  <2>0. PICK j : j = d + k  OBVIOUS
  <2>1. j \in 1 .. l /\ a + j = m + k
    <3>1. a \in Nat /\ d \in Nat /\ l \in Nat /\ m = a + d  BY <1>0
    <3> QED  BY ONLY <1>4, <2>0, <3>1
  <2>2. t[k] = s[j]  BY ONLY <1>2, <1>4, <2>0
  <2>3. s[j] = all[a + j]  BY ONLY <1>1, <2>1
  <2>4. u[k] = all[m + k]  BY ONLY <1>3, <1>4
  <2> QED  BY ONLY <2>1, <2>2, <2>3, <2>4
<1>5. t = u  BY <1>2, <1>3, <1>4, SeqEqual
<1> QED  BY <1>5

\* Packages are not empty, and each begins where the one before it ends.
LEMMA Ends ==
    ASSUME NEW sizes \in Seq(Int), NEW c \in 0 .. Len(sizes)
    PROVE  /\ End(sizes, c) \in 0 .. Len(All(sizes)) /\ Len(All(sizes)) \in Nat
           /\ c = Len(sizes) => End(sizes, c) = Len(All(sizes))
           /\ c # Len(sizes) =>
                /\ c + 1 \in 1 .. Len(sizes)
                /\ End(sizes, c + 1) \in 0 .. Len(All(sizes))
                /\ End(sizes, c + 1) = End(sizes, c) + SizeOf(sizes, c + 1)
                /\ SizeOf(sizes, c + 1) \in Nat \ {0}
                /\ All(sizes)[End(sizes, c) + 1] = [package |-> c + 1, size |-> sizes[c + 1]]
<1> PICK N, L : N = Len(sizes) /\ L = Len(All(sizes))  OBVIOUS
<1>1. N \in Nat /\ L \in Nat
  <2>1. All(sizes) \in Seq(Byte)  BY Places
  <2> QED  BY <2>1
<1>2. End(sizes, c) \in 0 .. L  BY Places
<1>3. c = N => End(sizes, c) = L  BY Places
<1>4. ASSUME c # N
      PROVE  /\ c + 1 \in 1 .. N
             /\ End(sizes, c + 1) \in 0 .. L
             /\ End(sizes, c + 1) = End(sizes, c) + SizeOf(sizes, c + 1)
             /\ SizeOf(sizes, c + 1) \in Nat \ {0}
             /\ All(sizes)[End(sizes, c) + 1] = [package |-> c + 1, size |-> sizes[c + 1]]
  <2> PICK n : n = c + 1  OBVIOUS
  <2>1. n \in 1 .. N /\ n \in 0 .. N /\ n - 1 = c  BY <1>1, <1>4
  <2>2. End(sizes, n) \in 0 .. L  BY <2>1, Places
  <2>3. End(sizes, n) = End(sizes, c) + SizeOf(sizes, n)  BY <2>1, Places
  <2>4. SizeOf(sizes, n) \in Nat \ {0}  BY <2>1, PackageFacts
  <2>5. \A k \in End(sizes, c) + 1 .. End(sizes, n) : All(sizes)[k] = [package |-> n, size |-> sizes[n]]
    <3>1. \A k \in End(sizes, n - 1) + 1 .. End(sizes, n) : All(sizes)[k] = [package |-> n, size |-> sizes[n]]
      BY <2>1, Places, Zenon
    <3> QED  BY <2>1, <3>1
  <2>6. End(sizes, c) + 1 \in End(sizes, c) + 1 .. End(sizes, n)
    <3> PICK a, b, s : a = End(sizes, c) /\ b = End(sizes, n) /\ s = SizeOf(sizes, n)  OBVIOUS
    <3>1. a \in Nat /\ b = a + s /\ s \in Nat \ {0}  BY <1>1, <1>2, <2>3, <2>4
    <3>2. a + 1 \in a + 1 .. b  BY ONLY <3>1
    <3> QED  BY <3>2
  <2>7. All(sizes)[End(sizes, c) + 1] = [package |-> n, size |-> sizes[n]]  BY <2>5, <2>6
  <2> QED  BY <2>1, <2>2, <2>3, <2>4, <2>7
<1> QED  BY <1>1, <1>2, <1>3, <1>4

\* What is in the buffer from the end of a package on.
Rest(sizes, c, p) == SubSeq(All(sizes), End(sizes, c) + 1, p)

\* Its bytes are those of the stream from the package's end on.
LEMMA RestFacts ==
    ASSUME NEW sizes \in Seq(Int), NEW c \in 0 .. Len(sizes), NEW p \in End(sizes, c) .. Len(All(sizes))
    PROVE  /\ Rest(sizes, c, p) \in Seq(Byte) /\ Len(Rest(sizes, c, p)) = p - End(sizes, c)
           /\ p \in Nat /\ End(sizes, c) \in Nat
           /\ p # End(sizes, c) => Head(Rest(sizes, c, p)) = All(sizes)[End(sizes, c) + 1]
<1> PICK all, a, s : all = All(sizes) /\ a = End(sizes, c) /\ s = Rest(sizes, c, p)  OBVIOUS
<1>1. all \in Seq(Byte)  BY Places
<1>2. a \in Nat /\ p \in a .. Len(all)
  <2> PICK L : L = Len(all)  OBVIOUS
  <2>1. a \in 0 .. L  BY Places
  <2>2. a \in Nat  BY ONLY <2>1
  <2> QED  BY <2>2
<1>3. s = SubSeq(all, a + 1, p)  BY DEF Rest
<1>4. s \in Seq(Byte) /\ Len(s) = p - a /\ \A k \in 1 .. p - a : s[k] = all[a + k]
  BY ONLY <1>1, <1>2, <1>3, Pieces
<1>5. p \in Nat  BY <1>1, <1>2
<1>6. ASSUME p # a PROVE Head(s) = all[a + 1]
  <2>1. 1 \in 1 .. p - a  BY <1>2, <1>5, <1>6
  <2>2. s[1] = all[a + 1]  BY <1>4, <2>1
  <2>3. Head(s) = s[1]  BY <1>4, <2>1
  <2> QED  BY <2>2, <2>3
<1> QED  BY <1>2, <1>4, <1>5, <1>6

\* If databuffer_readpack finds a package there, it is the next one, all of it.
LEMMA OneParsed ==
    ASSUME NEW sizes \in Seq(Int), NEW c \in 0 .. Len(sizes), NEW p \in End(sizes, c) .. Len(All(sizes)),
           Readpack(Rest(sizes, c, p)) > 0
    PROVE  /\ c + 1 \in 0 .. Len(sizes) /\ c + 1 \in Nat
           /\ p \in End(sizes, c + 1) .. Len(All(sizes)) /\ End(sizes, c) + 1 <= End(sizes, c + 1)
           /\ OnePackage(Rest(sizes, c, p)) =
                [packages |-> <<[command |-> "forward", package |-> c + 1]>>, rest |-> Rest(sizes, c + 1, p)]
<1> PICK all, a, s, L, n : /\ all = All(sizes) /\ a = End(sizes, c) /\ s = Rest(sizes, c, p)
                           /\ L = Len(All(sizes)) /\ n = c + 1
  OBVIOUS
<1> PICK l, k : l = p - a /\ k = Readpack(s)  OBVIOUS
<1>1. /\ all \in Seq(Byte) /\ a \in Nat /\ p \in Nat /\ p \in a .. L /\ L \in Nat
      /\ Len(s) = l /\ (p # a => Head(s) = all[a + 1])
  <2>1. all \in Seq(Byte)  BY Places
  <2>2. L \in Nat  BY <2>1
  <2>3. Len(s) = l /\ a \in Nat /\ p \in Nat  BY RestFacts
  <2>4. p # a => Head(s) = all[a + 1]  BY RestFacts
  <2>5. p \in a .. L  OBVIOUS
  <2> QED  BY <2>1, <2>2, <2>3, <2>4, <2>5
<1>2. ~(l < HeadSize \/ Head(s).size > l - HeadSize) /\ k = Head(s).size
  <2>1. ~(0 > 0) /\ Len(s) = l  BY <1>1
  <2>2. k > 0  OBVIOUS
  <2>3. k = IF l < HeadSize \/ Head(s).size > l - HeadSize THEN 0 ELSE Head(s).size
    BY <2>1 DEF Readpack
  <2> QED  BY ONLY <2>1, <2>2, <2>3
<1>3. p # a /\ l \in Nat
  <2>1. HeadSize \in Nat \ {0}  BY GateAssumption
  <2> QED  BY <1>1, <1>2, <2>1
<1>4. c # Len(sizes)
  <2> SUFFICES ASSUME c = Len(sizes) PROVE FALSE  OBVIOUS
  <2>1. a = L  BY Ends
  <2> QED  BY ONLY <1>1, <1>3, <2>1
<1>5. /\ n \in 1 .. Len(sizes) /\ End(sizes, n) = a + SizeOf(sizes, n) /\ SizeOf(sizes, n) \in Nat \ {0}
      /\ End(sizes, n) \in 0 .. L
      /\ all[a + 1] = [package |-> n, size |-> sizes[n]]
  BY <1>4, Ends
<1>6. n \in Nat /\ n \in 0 .. Len(sizes) /\ sizes[n] \in Int
  <2>1. n \in 1 .. Len(sizes)  BY <1>5
  <2>2. sizes[n] \in Int  BY ONLY <2>1, sizes \in Seq(Int)
  <2>3. n \in Nat /\ n \in 0 .. Len(sizes)  BY ONLY <2>1
  <2> QED  BY <2>2, <2>3
<1>7. Head(s).size = sizes[n] /\ Head(s).package = n
  <2>1. Head(s) = [package |-> n, size |-> sizes[n]]  BY ONLY <1>1, <1>3, <1>5
  <2> QED  BY ONLY <2>1
<1>8. SizeOf(sizes, n) = HeadSize + k
  <2>1. k > 0 /\ sizes[n] = k  BY <1>2, <1>7
  <2>2. sizes[n] > 0  BY <2>1
  <2> QED  BY <2>1, <2>2, Zenon DEF SizeOf
<1>9. k \in Nat \ {0} /\ k <= l - HeadSize
  <2>1. k \in Int /\ k > 0 /\ ~(k > l - HeadSize)  BY <1>2, <1>6, <1>7
  <2>2. HeadSize \in Nat \ {0}  BY GateAssumption
  <2> QED  BY <1>3, <2>1, <2>2
<1> PICK d, b : d = HeadSize + k /\ b = End(sizes, n)  OBVIOUS
<1>10. d \in 0 .. l /\ d \in Nat \ {0} /\ b = a + d /\ b \in 0 .. L
  <2>1. HeadSize \in Nat \ {0}  BY GateAssumption
  <2> QED  BY <1>3, <1>5, <1>8, <1>9, <2>1
<1>11. p \in b .. L /\ a + 1 <= b /\ a + d + 1 = b + 1
  <2>1. d <= p - a  BY ONLY <1>10, l = p - a
  <2> QED  BY ONLY <1>1, <1>10, <2>1
<1>12. SubSeq(s, d + 1, l) = Rest(sizes, n, p)
  <2>1. SubSeq(SubSeq(all, a + 1, p), d + 1, p - a) = SubSeq(all, a + d + 1, p)
    <3>1. all \in Seq(Byte) /\ a \in Nat /\ p \in a .. Len(all) /\ d \in 0 .. p - a  BY <1>1, <1>10
    <3> QED  BY ONLY <3>1, PieceRest
  <2>2. s = SubSeq(all, a + 1, p)  BY DEF Rest
  <2>3. Rest(sizes, n, p) = SubSeq(all, b + 1, p)  BY DEF Rest
  <2> QED  BY <1>11, <2>1, <2>2, <2>3
<1>13. OnePackage(s) = [packages |-> <<[command |-> "forward", package |-> n]>>, rest |-> Rest(sizes, n, p)]
  <2>1. ~(k <= 0)  BY <1>9
  <2>2. OnePackage(s) = [packages |-> <<[command |-> "forward", package |-> Head(s).package]>>,
                         rest |-> SubSeq(s, HeadSize + k + 1, Len(s))]
    BY <2>1 DEF OnePackage
  <2>3. SubSeq(s, HeadSize + k + 1, Len(s)) = Rest(sizes, n, p)  BY <1>1, <1>12
  <2> QED  BY <1>7, <2>2, <2>3
<1> QED  BY <1>6, <1>11, <1>13

\* What databuffer_readpack returns.
LEMMA ReadpackTyped ==
    ASSUME NEW s \in Seq(Byte)
    PROVE  Readpack(s) \in Int
<1>1. CASE Len(s) < HeadSize
  <2>1. Readpack(s) = 0  BY <1>1 DEF Readpack
  <2> QED  BY <2>1
<1>2. CASE ~(Len(s) < HeadSize)
  <2>1. Len(s) # 0  BY <1>2, GateAssumption
  <2>2. Head(s) \in Byte  BY <2>1
  <2>3. Head(s).size \in Int  BY <2>2 DEF Byte
  <2> QED  BY <2>3 DEF Readpack
<1> QED  BY <1>1, <1>2

\* Nothing to read leaves it as it is.
LEMMA NoneParsed ==
    ASSUME NEW s, Readpack(s) <= 0
    PROVE  OnePackage(s) = [packages |-> <<>>, rest |-> s]
BY DEF OnePackage

\* d packages of r have been parsed since the end of package c.
ParsedOn(sizes, c, p, d, r) ==
    /\ c + d \in 0 .. Len(sizes) /\ p \in End(sizes, c + d) .. Len(All(sizes))
    /\ r.rest = Rest(sizes, c + d, p)
    /\ r.packages \in Seq(Forwards) /\ Len(r.packages) = d
    /\ \A k \in 1 .. d : r.packages[k].package = c + k

\* Taking one package more goes on to the end of the next.
LEMMA ParsedMore ==
    ASSUME NEW sizes \in Seq(Int), NEW c \in Nat, NEW p, NEW d \in Nat, NEW r, ParsedOn(sizes, c, p, d, r),
           NEW s, s = [packages |-> r.packages \o OnePackage(r.rest).packages, rest |-> OnePackage(r.rest).rest],
           Readpack(r.rest) > 0
    PROVE  ParsedOn(sizes, c, p, d + 1, s) /\ End(sizes, c + d) + 1 <= End(sizes, c + (d + 1))
<1> PICK m, w : m = c + d /\ w = r.packages  OBVIOUS
<1>0. /\ m \in 0 .. Len(sizes) /\ p \in End(sizes, m) .. Len(All(sizes)) /\ r.rest = Rest(sizes, m, p)
      /\ w \in Seq(Forwards) /\ Len(w) = d /\ \A k \in 1 .. d : w[k].package = c + k
  BY DEF ParsedOn
<1> PICK n, one : n = m + 1 /\ one = [command |-> "forward", package |-> m + 1]  OBVIOUS
<1>1. /\ n \in 0 .. Len(sizes) /\ n \in Nat
      /\ p \in End(sizes, n) .. Len(All(sizes)) /\ End(sizes, m) + 1 <= End(sizes, n)
      /\ OnePackage(r.rest) = [packages |-> <<one>>, rest |-> Rest(sizes, n, p)]
  BY <1>0, OneParsed
<1>2. n = c + (d + 1)  OBVIOUS
<1>3. s.packages = w \o <<one>> /\ s.rest = Rest(sizes, n, p)
  <2> PICK o : o = OnePackage(r.rest)  OBVIOUS
  <2>1. o.packages = <<one>> /\ o.rest = Rest(sizes, n, p)  BY <1>1
  <2>2. s = [packages |-> w \o o.packages, rest |-> o.rest]  OBVIOUS
  <2> QED  BY ONLY <2>1, <2>2
<1>4. one \in Forwards /\ one.package = n
  <2>1. one = [command |-> "forward", package |-> n]  OBVIOUS
  <2> QED  BY <1>1, <2>1 DEF Forwards
<1> PICK v : v = s.packages  OBVIOUS
<1>5. v \in Seq(Forwards) /\ Len(v) = d + 1 /\ v[d + 1] = one /\ \A k \in 1 .. d : v[k] = w[k]
  <2>1. v = w \o <<one>>  BY <1>3
  <2> PICK F : F = Forwards  OBVIOUS
  <2>2. w \in Seq(F) /\ Len(w) = d /\ one \in F  BY <1>0, <1>4
  <2>3. v \in Seq(F) /\ Len(v) = d + 1 /\ v[d + 1] = one /\ \A k \in 1 .. d : v[k] = w[k]
    BY ONLY <2>1, <2>2, d \in Nat
  <2> QED  BY <2>3
<1>6. ASSUME NEW k \in 1 .. d + 1 PROVE v[k].package = c + k
  <2>1. CASE k \in 1 .. d  BY <1>0, <1>5, <2>1
  <2>2. CASE k = d + 1  BY <1>2, <1>4, <1>5, <2>2
  <2>3. k \in 1 .. d \/ k = d + 1  OBVIOUS
  <2> QED  BY <2>1, <2>2, <2>3
<1>7. ParsedOn(sizes, c, p, d + 1, s)  BY <1>1, <1>2, <1>3, <1>5, <1>6 DEF ParsedOn
<1> QED  BY <1>1, <1>2, <1>7

\* gate_message parses as many packages as are there: what is left is not a whole one.
LEMMA ForwardedParsed ==
    ASSUME NEW sizes \in Seq(Int), NEW c \in 0 .. Len(sizes), NEW p \in End(sizes, c) .. Len(All(sizes))
    PROVE  \E d \in Nat : /\ ParsedOn(sizes, c, p, d, Forwarded(Rest(sizes, c, p)))
                          /\ Readpack(Forwarded(Rest(sizes, c, p)).rest) <= 0
<1> PICK s, l, a : s = Rest(sizes, c, p) /\ l = Len(s) /\ a = End(sizes, c)  OBVIOUS
<1>1. s \in Seq(Byte) /\ l \in Nat /\ l = p - a /\ p \in Nat /\ a \in Nat /\ c \in Nat
  BY RestFacts
<1>2. PICK f : Steps(s, f) /\ Forwarded(s) = f[l]  BY <1>1, ForwardedSteps
<1>3. /\ f[0] = [packages |-> <<>>, rest |-> s]
      /\ \A n \in 1 .. l : f[n] = [packages |-> f[n - 1].packages \o OnePackage(f[n - 1].rest).packages,
                                   rest |-> OnePackage(f[n - 1].rest).rest]
  BY <1>2 DEF Steps
<1> DEFINE Far(n, d) == Readpack(f[n].rest) <= 0 \/ a + n <= End(sizes, c + d)
           T == {n \in 0 .. l : \E d \in Nat : ParsedOn(sizes, c, p, d, f[n]) /\ Far(n, d)}
<1>4. 0 \in T
  <2>1. ParsedOn(sizes, c, p, 0, f[0])
    <3>1. <<>> \in Seq(Forwards) /\ Len(<<>>) = 0 /\ c + 0 = c  BY <1>1
    <3> QED  BY <1>3, <3>1 DEF ParsedOn
  <2>2. Far(0, 0)
    <3>1. c + 0 = c /\ a + 0 <= a  BY <1>1
    <3> QED  BY <3>1
  <2>3. 0 \in 0 .. l  BY <1>1
  <2> HIDE DEF Far
  <2> QED  BY <2>1, <2>2, <2>3
<1>5. ASSUME NEW n \in 1 .. l, n - 1 \in T PROVE n \in T
  <2> PICK before : before = f[n - 1]  OBVIOUS
  <2>1. PICK d \in Nat : ParsedOn(sizes, c, p, d, before) /\ Far(n - 1, d)  BY <1>5
  <2>2. f[n] = [packages |-> before.packages \o OnePackage(before.rest).packages,
                rest |-> OnePackage(before.rest).rest]
    BY <1>3
  <2>3. n \in 0 .. l  BY <1>1
  <2>4. c + d \in 0 .. Len(sizes)  BY <2>1 DEF ParsedOn
  <2>5. CASE Readpack(before.rest) > 0
    <3>1. /\ ParsedOn(sizes, c, p, d + 1, f[n])
          /\ End(sizes, c + d) + 1 <= End(sizes, c + (d + 1))
      BY <1>1, <2>1, <2>2, <2>5, ParsedMore
    <3> PICK x, y, k : x = End(sizes, c + d) /\ y = End(sizes, c + (d + 1)) /\ k = Readpack(before.rest)
      OBVIOUS
    <3>2. k <= 0 \/ a + (n - 1) <= x  BY <2>1
    <3>3. x \in Int /\ y \in Int
      <4>1. c + (d + 1) \in 0 .. Len(sizes)  BY <3>1 DEF ParsedOn
      <4>2. x \in 0 .. Len(All(sizes)) /\ y \in 0 .. Len(All(sizes))  BY <2>4, <4>1, Ends
      <4> QED  BY ONLY <4>2
    <3>4. a + n <= y
      <4>1. n \in Int  OBVIOUS
      <4>2. CASE k <= 0
        <5>1. k > 0  BY <2>5
        <5>2. k \in Int
          <6>1. before.rest = Rest(sizes, c + d, p) /\ p \in End(sizes, c + d) .. Len(All(sizes))
            BY <2>1 DEF ParsedOn
          <6>2. before.rest \in Seq(Byte)  BY <2>4, <6>1, RestFacts
          <6> QED  BY <6>2, ReadpackTyped
        <5> QED  BY ONLY <4>2, <5>1, <5>2
      <4>3. CASE a + (n - 1) <= x  BY ONLY <1>1, <3>1, <3>3, <4>1, <4>3, x = End(sizes, c + d), y = End(sizes, c + (d + 1))
      <4> QED  BY <3>2, <4>2, <4>3
    <3>5. Far(n, d + 1)  BY <3>4
    <3>6. d + 1 \in Nat  OBVIOUS
    <3> HIDE DEF Far
    <3> QED  BY <2>3, <3>1, <3>5, <3>6
  <2>6. CASE Readpack(before.rest) <= 0
    <3>1. ParsedOn(sizes, c, p, d, f[n]) /\ f[n].rest = before.rest
      <4> PICK after, w, one : after = f[n] /\ w = before.packages /\ one = OnePackage(before.rest)  OBVIOUS
      <4>1. w \in Seq(Forwards)  BY <2>1 DEF ParsedOn
      <4>2. one = [packages |-> <<>>, rest |-> before.rest]  BY <2>6, NoneParsed
      <4>3. after = [packages |-> w \o <<>>, rest |-> before.rest]  BY <2>2, <4>2
      <4>4. w \o <<>> = w  BY <4>1
      <4>5. after.packages = before.packages /\ after.rest = before.rest  BY <4>3, <4>4
      <4> QED  BY <2>1, <4>5 DEF ParsedOn
    <3>2. Readpack(f[n].rest) <= 0  BY <2>6, <3>1
    <3>3. Far(n, d)  BY <3>2
    <3> HIDE DEF Far
    <3> QED  BY <2>3, <3>1, <3>3
  <2>7. Readpack(before.rest) > 0 \/ Readpack(before.rest) <= 0
    <3>1. before.rest = Rest(sizes, c + d, p) /\ p \in End(sizes, c + d) .. Len(All(sizes))
      BY <2>1 DEF ParsedOn
    <3>2. before.rest \in Seq(Byte)  BY <2>4, <3>1, RestFacts
    <3>3. Readpack(before.rest) \in Int  BY <3>2, ReadpackTyped
    <3> QED  BY <3>3
  <2> QED  BY <2>5, <2>6, <2>7
<1>6. l \in T
  <2>1. \A n \in 0 .. l : n \in T
    <3> HIDE DEF T
    <3> QED  BY <1>1, <1>4, <1>5, UpTo
  <2>2. l \in 0 .. l  BY <1>1
  <2> QED  BY <2>1, <2>2
<1>7. PICK d \in Nat : ParsedOn(sizes, c, p, d, f[l]) /\ Far(l, d)  BY <1>6
<1>8. Readpack(f[l].rest) <= 0
  <2> SUFFICES ASSUME a + l <= End(sizes, c + d) PROVE Readpack(f[l].rest) <= 0  BY <1>7
  <2> PICK r, x : r = f[l].rest /\ x = End(sizes, c + d)  OBVIOUS
  <2>1. c + d \in 0 .. Len(sizes) /\ p \in x .. Len(All(sizes)) /\ r = Rest(sizes, c + d, p)
    BY <1>7 DEF ParsedOn
  <2>2. r \in Seq(Byte) /\ Len(r) = p - x /\ x \in Nat  BY <2>1, RestFacts
  <2>3. Len(r) < HeadSize
    <3>1. p <= x  BY <1>1
    <3>2. HeadSize \in Nat \ {0}  BY GateAssumption
    <3> QED  BY ONLY <1>1, <2>2, <3>1, <3>2
  <2>4. Readpack(r) = 0  BY <2>3 DEF Readpack
  <2>5. 0 <= 0  OBVIOUS
  <2> QED  BY <2>4, <2>5
<1> QED  BY <1>2, <1>7, <1>8

-----------------------------------------------------------------------------
(* What the service is told *)

\* A session begins with a connect,
LEMMA SessionBegins ==
    /\ <<[command |-> "connect"]>> \in Seq(Notes)
    /\ Session(<<[command |-> "connect"]>>) /\ Connected(<<[command |-> "connect"]>>)
<1> PICK n : n = [command |-> "connect"]  OBVIOUS
<1>1. n \in Notes /\ n.command = "connect"  BY DEF Notes
<1>2. <<n>> \in Seq(Notes) /\ Len(<<n>>) = 1 /\ <<n>>[1] = n /\ DOMAIN <<n>> = {1} /\ <<n>> # <<>>
  BY <1>1
<1> QED  BY <1>1, <1>2 DEF Session, Connected

\* goes on with what is forwarded,
LEMMA SessionGoesOn ==
    ASSUME NEW s \in Seq(Notes), Session(s), Connected(s), NEW w \in Seq(Forwards)
    PROVE  s \o w \in Seq(Notes) /\ Session(s \o w) /\ Connected(s \o w)
<1> PICK l, k, t : l = Len(s) /\ k = Len(w) /\ t = s \o w  OBVIOUS
<1>1. w \in Seq(Notes)  BY DEF Notes
<1>2. l \in Nat \ {0} /\ k \in Nat  BY DEF Connected
<1>3. /\ t \in Seq(Notes) /\ Len(t) = l + k /\ DOMAIN t = 1 .. l + k
      /\ \A n \in 1 .. l : t[n] = s[n]
      /\ \A n \in l + 1 .. l + k : t[n] = w[n - l]
  BY <1>1
<1>4. \A n \in l + 1 .. l + k : t[n].command = "forward"
  <2>1. \A note \in Forwards : note.command = "forward"  BY DEF Forwards
  <2>2. \A n \in 1 .. k : w[n] \in Forwards
    <3> HIDE DEF Forwards
    <3> QED  OBVIOUS
  <2>3. \A n \in l + 1 .. l + k : n - l \in 1 .. k  BY <1>2
  <2> QED  BY <1>3, <2>1, <2>2, <2>3
<1>5. ASSUME NEW n \in 1 .. l + k
      PROVE  /\ t[n].command = "connect" <=> n = 1
             /\ t[n].command = "disconnect" => n = l + k
             /\ n = l + k => t[n].command # "disconnect"
  <2>1. CASE n \in 1 .. l
    <3>0. n \in DOMAIN s  BY <2>1
    <3>1. /\ s[n].command = "connect" <=> n = 1
          /\ s[n].command = "disconnect" => n = l
          /\ s[l].command # "disconnect"
      BY <3>0, Zenon DEF Session, Connected
    <3> QED  BY <1>3, <2>1, <3>1
  <2>2. CASE n \in l + 1 .. l + k
    <3>1. t[n].command = "forward" /\ n # 1  BY <1>2, <1>4, <2>2
    <3> QED  BY <3>1
  <2>3. n \in 1 .. l \/ n \in l + 1 .. l + k  BY <1>2
  <2> QED  BY <2>1, <2>2, <2>3
<1>6. l + k \in 1 .. l + k /\ t # <<>>  BY <1>2, <1>3
<1> QED  BY <1>3, <1>5, <1>6 DEF Session, Connected

\* and ends with a disconnect.
LEMMA SessionEnds ==
    ASSUME NEW s \in Seq(Notes), Session(s), Connected(s)
    PROVE  /\ s \o <<[command |-> "disconnect"]>> \in Seq(Notes)
           /\ Session(s \o <<[command |-> "disconnect"]>>)
           /\ ~Connected(s \o <<[command |-> "disconnect"]>>)
<1> PICK m : m = [command |-> "disconnect"]  OBVIOUS
<1> PICK l, t : l = Len(s) /\ t = s \o <<m>>  OBVIOUS
<1>1. m \in Notes /\ m.command = "disconnect"  BY DEF Notes
<1>2. l \in Nat \ {0}  BY DEF Connected
<1>3. /\ t \in Seq(Notes) /\ Len(t) = l + 1 /\ DOMAIN t = 1 .. l + 1
      /\ \A n \in 1 .. l : t[n] = s[n]
      /\ t[l + 1] = m
  BY <1>1
<1>4. ASSUME NEW n \in 1 .. l + 1
      PROVE  /\ t[n].command = "connect" <=> n = 1
             /\ t[n].command = "disconnect" => n = l + 1
  <2>1. CASE n \in 1 .. l
    <3>0. n \in DOMAIN s  BY <2>1
    <3>1. /\ s[n].command = "connect" <=> n = 1
          /\ s[n].command = "disconnect" => n = l
          /\ s[l].command # "disconnect"
      BY <3>0, Zenon DEF Session, Connected
    <3> QED  BY <1>3, <2>1, <3>1
  <2>2. CASE n = l + 1  BY <1>1, <1>2, <1>3, <2>2
  <2>3. n \in 1 .. l \/ n = l + 1  BY <1>2
  <2> QED  BY <2>1, <2>2, <2>3
<1> QED  BY <1>1, <1>3, <1>4 DEF Session, Connected

\* Of one client something is told.
LEMMA TellOne ==
    ASSUME told \in [Ids -> Seq(Notes)], Sessions, NEW i \in Ids,
           NEW s \in Seq(Notes), Session(s), told' = [told EXCEPT ![i] = s]
    PROVE  /\ told' \in [Ids -> Seq(Notes)] /\ Sessions'
           /\ told'[i] = s /\ \A j \in Ids : j # i => told'[j] = told[j]
           /\ Connected(s) => Served' = Served \cup {i}
           /\ ~Connected(s) => Served' = Served \ {i}
<1>1. /\ told' \in [Ids -> Seq(Notes)]
      /\ told'[i] = s /\ \A j \in Ids : j # i => told'[j] = told[j]
  OBVIOUS
<1>2. \A j \in Ids : Session(told'[j])
  <2>1. \A j \in Ids : Session(told[j])  BY DEF Sessions, Session
  <2> QED  BY <1>1, <2>1
<1>3. Sessions'  BY <1>2 DEF Sessions, Session
<1>4. /\ Served = {j \in Ids : Connected(told[j])}
      /\ Served' = {j \in Ids : Connected(told'[j])}
  BY DEF Served, Connected
<1> QED  BY <1>1, <1>3, <1>4

\* Of nobody anything is told.
LEMMA TellNone ==
    ASSUME told' = told
    PROVE  Served' = Served /\ (Sessions => Sessions')
BY DEF Served, Sessions

\* A client is served when it is connected, as its session says.
LEMMA ServedConnected ==
    ASSUME GateIInv, NEW i \in Ids
    PROVE  /\ i \in Served <=> Connected(told[i])
           /\ told[i] \in Seq(Notes) /\ Session(told[i])
           /\ told[i] = <<>> => i \notin Served
           /\ i \in Nat
BY GateAssumption DEF GateIInv, GateTyped, Sessions, Session, Served, Connected

-----------------------------------------------------------------------------
(* The mail *)

\* A message arrives.
LEMMA MailFacts ==
    ASSUME GateIInv, NEW m \in Messages, Mail(m)
    PROVE  /\ mail' \in Seq(Messages) /\ running
           /\ \A n \in Accepts(mail') :
                \/ n \in Accepts(mail) /\ mail'[n] = mail[n]
                \/ n = Len(mail) + 1 /\ mail'[n] = m /\ m.type = "ACCEPT"
<1> PICK l : l = Len(mail)  OBVIOUS
<1>1. /\ mail \in Seq(Messages) /\ l \in Nat /\ mail' = Append(mail, m) /\ running
  BY DEF GateIInv, GateTyped, Mail
<1>2. /\ mail' \in Seq(Messages) /\ DOMAIN mail' = 1 .. l + 1 /\ DOMAIN mail = 1 .. l
      /\ \A n \in 1 .. l : mail'[n] = mail[n]
      /\ mail'[l + 1] = m
  BY <1>1
<1>3. \A n \in 1 .. l + 1 : n \in 1 .. l \/ n = l + 1  BY <1>1
<1> QED  BY <1>1, <1>2, <1>3 DEF Accepts

\* A message other than a client's arrival changes nothing for the others.
LEMMA MailKeeps ==
    ASSUME GateIInv, NEW m \in Messages, Mail(m), m.type # "ACCEPT",
           told' = told, \A i \in Ids : seen'[i] = "unborn" <=> seen[i] = "unborn"
    PROVE  AcceptedOnce'
<1>1. \A n \in Accepts(mail') : n \in Accepts(mail) /\ mail'[n] = mail[n]
  BY MailFacts
<1>2. \A n \in Accepts(mail) : mail[n].id \in Ids
  BY DEF GateIInv, GateTyped, Accepts, Messages
<1> QED  BY <1>1, <1>2 DEF GateIInv, AcceptedOnce

\* A message is taken from the queue.
LEMMA HandleFacts ==
    ASSUME GateIInv, NEW type, Handle(type)
    PROVE  /\ running /\ From \in Ids /\ Head(mail) \in Messages /\ Head(mail).type = type
           /\ mail' \in Seq(Messages)
           /\ \A n \in Accepts(mail') : n + 1 \in Accepts(mail) /\ mail'[n] = mail[n + 1]
           /\ type = "ACCEPT" =>
                /\ seen[From] # "unborn" /\ told[From] = <<>>
                /\ \A n \in Accepts(mail') : mail'[n].id # From
<1> PICK l : l = Len(mail)  OBVIOUS
<1>1. mail \in Seq(Messages) /\ l \in Nat /\ l # 0 /\ mail' = Tail(mail) /\ mail # <<>>
  BY DEF GateIInv, GateTyped, Handle
<1>2. running  BY <1>1 DEF GateIInv, TableServes
<1>3. Head(mail) = mail[1] /\ mail[1] \in Messages /\ Head(mail).type = type /\ 1 \in DOMAIN mail
  BY <1>1 DEF Handle
<1>4. From \in Ids  BY <1>3 DEF From, Messages
<1>5. /\ mail' \in Seq(Messages) /\ DOMAIN mail' = 1 .. l - 1 /\ DOMAIN mail = 1 .. l
      /\ \A n \in 1 .. l - 1 : mail'[n] = mail[n + 1]
  BY <1>1
<1>6. \A n \in 1 .. l - 1 : n + 1 \in 1 .. l /\ n + 1 # 1  BY <1>1
<1>7. \A n \in Accepts(mail') : n + 1 \in Accepts(mail) /\ mail'[n] = mail[n + 1] /\ n + 1 # 1
  BY <1>5, <1>6 DEF Accepts
<1>8. ASSUME type = "ACCEPT"
      PROVE  /\ seen[From] # "unborn" /\ told[From] = <<>>
             /\ \A n \in Accepts(mail') : mail'[n].id # From
  <2>1. 1 \in Accepts(mail) /\ From = mail[1].id  BY <1>3, <1>8 DEF Accepts, From
  <2> QED  BY <1>7, <2>1 DEF GateIInv, AcceptedOnce
<1> QED  BY <1>2, <1>3, <1>4, <1>5, <1>7, <1>8

\* What is told of a client that was told of before, or has just been accepted.
LEMMA HandleKeeps ==
    ASSUME GateIInv, NEW type, Handle(type),
           \A i \in Ids : i # From => told'[i] = told[i],
           told'[From] = told[From] \/ told[From] # <<>> \/ type = "ACCEPT"
    PROVE  AcceptedOnce'
<1>1. /\ From \in Ids /\ seen' = seen
      /\ \A n \in Accepts(mail') : n + 1 \in Accepts(mail) /\ mail'[n] = mail[n + 1]
      /\ type = "ACCEPT" =>
            /\ seen[From] # "unborn"
            /\ \A n \in Accepts(mail') : mail'[n].id # From
  BY HandleFacts DEF Handle
<1>2. \A n \in Accepts(mail) : mail[n].id \in Ids
  BY DEF GateIInv, GateTyped, Accepts, Messages
<1>3. /\ \A i \in Ids : seen[i] = "unborn" => told[i] = <<>>
      /\ \A n \in Accepts(mail) : seen[mail[n].id] # "unborn" /\ told[mail[n].id] = <<>>
      /\ \A m, n \in Accepts(mail) : mail[m].id = mail[n].id => m = n
  BY DEF GateIInv, AcceptedOnce
<1>4. \A i \in Ids : seen'[i] = "unborn" => told'[i] = <<>>
  BY <1>1, <1>3
<1>5. ASSUME NEW n \in Accepts(mail')
      PROVE  seen'[mail'[n].id] # "unborn" /\ told'[mail'[n].id] = <<>>
  <2> PICK i : i = mail'[n].id  OBVIOUS
  <2>1. i \in Ids /\ seen[i] # "unborn" /\ told[i] = <<>>  BY <1>1, <1>2, <1>3
  <2>2. told'[i] = <<>>
    <3>1. CASE i # From  BY <2>1, <3>1
    <3>2. CASE i = From  BY <1>1, <2>1, <3>2
    <3> QED  BY <3>1, <3>2
  <2> QED  BY <1>1, <2>1, <2>2
<1>6. ASSUME NEW m \in Accepts(mail'), NEW n \in Accepts(mail'), mail'[m].id = mail'[n].id
      PROVE  m = n
  <2>1. m + 1 = n + 1  BY <1>1, <1>3, <1>6
  <2>2. m \in Int /\ n \in Int
    <3>1. DOMAIN mail' \subseteq Int  BY HandleFacts
    <3> QED  BY <3>1 DEF Accepts
  <2> QED  BY <2>1, <2>2
<1> QED  BY <1>4, <1>5, <1>6 DEF AcceptedOnce

-----------------------------------------------------------------------------
(* The steps *)

\* It begins with an empty table and nobody told.
LEMMA GateIInvInit == GateInit => GateIInv
<1> SUFFICES ASSUME GateInit PROVE GateIInv  OBVIOUS
<1>1. /\ seen = [i \in Ids |-> "unborn"] /\ mail = <<>> /\ sent = [i \in Ids |-> 0]
      /\ client \in Clients /\ table = hashid_init /\ conn = [e \in Entries |-> Unused]
      /\ told = [i \in Ids |-> <<>>] /\ running = TRUE
  BY DEF GateInit, Socket!Init
<1>2. GateTyped
  <2>1. seen \in [Ids -> Socket!States]  BY <1>1 DEF Socket!States
  <2>2. mail \in Seq(Messages)  BY <1>1
  <2>3. sent \in [Ids -> Nat]  BY <1>1
  <2>4. client \in [packages : [Ids -> Seq(Int)], trouble : Nat]  BY <1>1, GateAssumption
  <2>5. conn \in [Entries -> [fd : Ids \cup {NoId}, buffer : Seq(Byte)]]  BY <1>1 DEF Unused
  <2>6. told \in [Ids -> Seq(Notes)]  BY <1>1
  <2>7. running \in BOOLEAN  BY <1>1
  <2> QED  BY <2>1, <2>2, <2>3, <2>4, <2>5, <2>6, <2>7 DEF GateTyped
<1>3. Sessions  BY <1>1 DEF Sessions
<1>4. AcceptedOnce
  <2>1. Accepts(mail) = {}  BY <1>1 DEF Accepts
  <2> QED  BY <1>1, <2>1 DEF AcceptedOnce
<1>5. TableServes
  <2>1. Served = {}  BY <1>1 DEF Served
  <2>2. TableOK(table) /\ Held(table) = {}  BY <1>1, EmptyOK
  <2>3. Fits(table, conn)  BY <1>1 DEF Fits, hashid_init
  <2> QED  BY <1>1, <2>1, <2>2, <2>3 DEF TableServes
<1> QED  BY <1>2, <1>3, <1>4, <1>5 DEF GateIInv

\* What comes from the clients leaves the gate as it is.
LEMMA Outside ==
    ASSUME GateIInv, running', running' = running, table' = table, conn' = conn, told' = told
    PROVE  TableServes' /\ Sessions'
<1>1. Served' = Served /\ Sessions'  BY TellNone DEF GateIInv
<1>2. TableOK(table)' /\ Held(table)' = Held(table) /\ Fits(table, conn)'
  <2>1. TableOK(table) /\ Fits(table, conn) /\ running  BY DEF GateIInv, TableServes
  <2> QED  BY <2>1
<1>3. Held(table)' = Served  BY <1>2 DEF GateIInv, TableServes
<1> QED  BY <1>1, <1>2, <1>3 DEF TableServes

\* The invariant holds on when a client was accepted, whose id is new.
LEMMA AcceptedStep ==
    ASSUME GateIInv, NEW i \in Ids, ClientAccepted(i)
    PROVE  GateIInv'
<1> PICK m : m = [type |-> "ACCEPT", id |-> i]  OBVIOUS
<1>0. m \in Messages /\ m.id = i  BY DEF Messages
<1>1. /\ Mail(m) /\ seen[i] = "unborn" /\ seen' = [seen EXCEPT ![i] = "accepted"]
      /\ sent' = sent /\ client' = client /\ table' = table /\ conn' = conn
      /\ told' = told /\ running' = running
  BY DEF ClientAccepted, Socket!Announce
<1>2. seen \in [Ids -> Socket!States]  BY DEF GateIInv, GateTyped
<1>3. /\ seen' \in [Ids -> Socket!States] /\ seen'[i] = "accepted"
      /\ \A j \in Ids : j # i => seen'[j] = seen[j]
  BY <1>1, <1>2 DEF Socket!States
<1>4. /\ mail' \in Seq(Messages) /\ running
      /\ \A n \in Accepts(mail') :
            \/ n \in Accepts(mail) /\ mail'[n] = mail[n]
            \/ n = Len(mail) + 1 /\ mail'[n] = m
  BY <1>0, <1>1, MailFacts
<1>5. GateTyped'  BY <1>1, <1>3, <1>4 DEF GateIInv, GateTyped
<1>6. TableServes' /\ Sessions'  BY <1>1, <1>4, Outside
<1>7. AcceptedOnce'
  <2>1. /\ \A j \in Ids : seen[j] = "unborn" => told[j] = <<>>
        /\ \A n \in Accepts(mail) : mail[n].id \in Ids /\ mail[n].id # i
                                   /\ seen[mail[n].id] # "unborn" /\ told[mail[n].id] = <<>>
        /\ \A k, n \in Accepts(mail) : mail[k].id = mail[n].id => k = n
    BY <1>1 DEF GateIInv, AcceptedOnce, GateTyped, Accepts, Messages
  <2>2. \A j \in Ids : seen'[j] = "unborn" => told'[j] = <<>>  BY <1>1, <1>3, <2>1
  <2>3. ASSUME NEW n \in Accepts(mail')
        PROVE  seen'[mail'[n].id] # "unborn" /\ told'[mail'[n].id] = <<>>
    <3>1. CASE n \in Accepts(mail) /\ mail'[n] = mail[n]  BY <1>1, <1>3, <2>1, <3>1
    <3>2. CASE mail'[n] = m  BY <1>0, <1>1, <1>3, <2>1, <3>2
    <3> QED  BY <1>4, <3>1, <3>2
  <2>4. ASSUME NEW k \in Accepts(mail'), NEW n \in Accepts(mail'), mail'[k].id = mail'[n].id
        PROVE  k = n
    BY <1>0, <1>4, <2>1, <2>4
  <2> QED  BY <2>2, <2>3, <2>4 DEF AcceptedOnce
<1> QED  BY <1>5, <1>6, <1>7 DEF GateIInv

\* So do the other messages; the socket stays known.
LEMMA MailStep ==
    ASSUME GateIInv, NEW m \in Messages, m.type # "ACCEPT", Mail(m),
           seen' \in [Ids -> Socket!States],
           \A i \in Ids : seen'[i] = "unborn" <=> seen[i] = "unborn",
           sent' \in [Ids -> Nat], client' \in [packages : [Ids -> Seq(Int)], trouble : Nat],
           table' = table, conn' = conn, told' = told, running' = running
    PROVE  GateIInv'
<1>1. mail' \in Seq(Messages) /\ running  BY MailFacts
<1>2. GateTyped'  BY <1>1 DEF GateIInv, GateTyped
<1>3. TableServes' /\ Sessions'  BY <1>1, Outside
<1>4. AcceptedOnce'  BY MailKeeps
<1> QED  BY <1>2, <1>3, <1>4 DEF GateIInv

\* Of the trouble that is left, some is made.
LEMMA LessTrouble ==
    ASSUME NEW c \in [packages : [Ids -> Seq(Int)], trouble : Nat], c.trouble > 0
    PROVE  [c EXCEPT !.trouble = @ - 1] \in [packages : [Ids -> Seq(Int)], trouble : Nat]
<1> PICK a, n : a = c.packages /\ n = c.trouble  OBVIOUS
<1>1. a \in [Ids -> Seq(Int)] /\ n - 1 \in Nat /\ c = [packages |-> a, trouble |-> n]
  OBVIOUS
<1>2. [c EXCEPT !.trouble = @ - 1] = [packages |-> a, trouble |-> n - 1]  BY <1>1
<1> QED  BY ONLY <1>1, <1>2

\* No step of a client or of the socket server harms the gate.
LEMMA ClientStep ==
    ASSUME GateIInv, NEW i \in Ids,
           \/ ClientStarted(i) \/ ClientSends(i) \/ ClientCloses(i)
           \/ SocketError(i) \/ KickAsked(i)
    PROVE  GateIInv'
<1>0. /\ seen \in [Ids -> Socket!States] /\ sent \in [Ids -> Nat]
      /\ client \in [packages : [Ids -> Seq(Int)], trouble : Nat]
  BY DEF GateIInv, GateTyped
<1>1. \A type \in {"CONNECT", "CLOSE", "ERROR", "kick"} :
          /\ [type |-> type, id |-> i] \in Messages
          /\ [type |-> type, id |-> i].type # "ACCEPT"
  BY DEF Messages
<1>2. CASE ClientStarted(i)
  <2> PICK m : m = [type |-> "CONNECT", id |-> i]  OBVIOUS
  <2>1. m \in Messages /\ m.type # "ACCEPT"  BY <1>1
  <2>2. /\ Mail(m) /\ seen[i] = "accepted" /\ seen' = [seen EXCEPT ![i] = "open"]
        /\ sent' = sent /\ client' = client /\ table' = table /\ conn' = conn
        /\ told' = told /\ running' = running
    BY <1>2 DEF ClientStarted, Socket!Open
  <2>3. /\ seen' \in [Ids -> Socket!States]
        /\ \A j \in Ids : seen'[j] = "unborn" <=> seen[j] = "unborn"
    BY <1>0, <2>2 DEF Socket!States
  <2> QED  BY <1>0, <2>1, <2>2, <2>3, MailStep
<1>3. CASE ClientSends(i)
  <2>1. PICK n \in sent[i] + 1 .. Len(Bytes(i)) :
            /\ Mail([type |-> "DATA", id |-> i, bytes |-> SubSeq(Bytes(i), sent[i] + 1, n)])
            /\ sent' = [sent EXCEPT ![i] = n]
    BY <1>3 DEF ClientSends
  <2> PICK bytes, k : bytes = Bytes(i) /\ k = sent[i] + 1  OBVIOUS
  <2>2. bytes \in Seq(Byte) /\ k \in Nat \ {0} /\ n \in k .. Len(bytes) /\ n \in Nat
    <3>1. bytes \in Seq(Byte)  BY BytesTyped DEF GateIInv
    <3>2. sent[i] \in Nat  BY <1>0
    <3>3. k \in Nat \ {0}  BY <3>2
    <3> QED  BY <3>1, <3>3
  <2>3. SubSeq(bytes, k, n) \in Seq(Byte)
    <3>1. \A j \in k .. n : j \in 1 .. Len(bytes)  BY <2>2
    <3>2. \A j \in k .. n : bytes[j] \in Byte  BY <2>2, <3>1
    <3> QED  BY <2>2, <3>2, SubSeqProperties
  <2> PICK m : m = [type |-> "DATA", id |-> i, bytes |-> SubSeq(bytes, k, n)]  OBVIOUS
  <2>4. m \in Messages /\ m.type # "ACCEPT"  BY <2>3 DEF Messages
  <2>5. /\ Mail(m) /\ seen' = seen /\ sent' = [sent EXCEPT ![i] = n]
        /\ client' = client /\ table' = table /\ conn' = conn
        /\ told' = told /\ running' = running
    BY <1>3, <2>1 DEF ClientSends, Socket!Data
  <2>6. sent' \in [Ids -> Nat]  BY <1>0, <2>2, <2>5
  <2> QED  BY <1>0, <2>4, <2>5, <2>6, MailStep
<1>4. CASE ClientCloses(i)
  <2> PICK m : m = [type |-> "CLOSE", id |-> i]  OBVIOUS
  <2>1. m \in Messages /\ m.type # "ACCEPT"  BY <1>1
  <2>2. /\ Mail(m) /\ seen[i] # "unborn" /\ seen' = [seen EXCEPT ![i] = "closed"]
        /\ sent' = sent /\ client' = client /\ table' = table /\ conn' = conn
        /\ told' = told /\ running' = running
    BY <1>4 DEF ClientCloses, Socket!Close
  <2>3. /\ seen' \in [Ids -> Socket!States]
        /\ \A j \in Ids : seen'[j] = "unborn" <=> seen[j] = "unborn"
    BY <1>0, <2>2 DEF Socket!States
  <2> QED  BY <1>0, <2>1, <2>2, <2>3, MailStep
<1>5. CASE SocketError(i)
  <2> PICK m : m = [type |-> "ERROR", id |-> i]  OBVIOUS
  <2>1. m \in Messages /\ m.type # "ACCEPT"  BY <1>1
  <2>2. /\ Mail(m) /\ seen[i] # "unborn"
        /\ seen' = [seen EXCEPT ![i] = IF @ = "connecting" THEN "failed" ELSE @]
        /\ sent' = sent /\ table' = table /\ conn' = conn
        /\ told' = told /\ running' = running
        /\ client.trouble > 0 /\ client' = [client EXCEPT !.trouble = @ - 1]
    BY <1>5 DEF SocketError, Socket!Error
  <2>3. /\ seen' \in [Ids -> Socket!States]
        /\ \A j \in Ids : seen'[j] = "unborn" <=> seen[j] = "unborn"
    BY <1>0, <2>2 DEF Socket!States
  <2>4. client' \in [packages : [Ids -> Seq(Int)], trouble : Nat]  BY <1>0, <2>2, LessTrouble
  <2> QED  BY <1>0, <2>1, <2>2, <2>3, <2>4, MailStep
<1>6. CASE KickAsked(i)
  <2> PICK m : m = [type |-> "kick", id |-> i]  OBVIOUS
  <2>1. m \in Messages /\ m.type # "ACCEPT"  BY <1>1
  <2>2. /\ Mail(m) /\ seen' = seen
        /\ sent' = sent /\ table' = table /\ conn' = conn
        /\ told' = told /\ running' = running
        /\ client.trouble > 0 /\ client' = [client EXCEPT !.trouble = @ - 1]
    BY <1>6 DEF KickAsked
  <2>3. client' \in [packages : [Ids -> Seq(Int)], trouble : Nat]  BY <1>0, <2>2, LessTrouble
  <2> QED  BY <1>0, <2>1, <2>2, <2>3, MailStep
<1> QED  BY <1>2, <1>3, <1>4, <1>5, <1>6

\* hashid_lookup finds the entry of a client that is served, and no other.
LEMMA EntryFacts ==
    ASSUME GateIInv, running, From \in Ids
    PROVE  /\ From \in Served => /\ Entry \in Entries /\ table.id[Entry] = From
                                /\ Entry >= 0 /\ conn[Entry].fd = From
           /\ From \notin Served => Entry < 0
<1>1. TableOK(table) /\ Held(table) = Served /\ Fits(table, conn)  BY DEF GateIInv, TableServes
<1>2. table \in Tables /\ Chained(table) /\ Reached(table)  BY <1>1 DEF TableOK
<1>3. From \in Nat /\ From # NoId  BY RealId
<1>4. CASE From \in Served
  <2>1. Entry \in Used(table) /\ table.id[Entry] = From
    BY <1>1, <1>2, <1>3, <1>4, LookupFacts DEF Entry
  <2>2. Entry \in Entries /\ Entry >= 0  BY <2>1, HashIdAssumption DEF Used, Entries
  <2>3. conn[Entry].fd = From  BY <1>1, <1>3, <2>1, <2>2 DEF Fits
  <2> QED  BY <1>4, <2>1, <2>2, <2>3
<1>5. CASE From \notin Served
  <2>1. Entry = Nil  BY <1>1, <1>2, <1>3, <1>5, LookupFacts DEF Entry
  <2> QED  BY <1>5, <2>1 DEF Nil
<1> QED  BY <1>4, <1>5

\* A message that changes neither the table nor what is told.
LEMMA QuietStep ==
    ASSUME GateIInv, NEW type, Handle(type), table' = table, conn' = conn, told' = told
    PROVE  GateIInv'
<1>1. /\ running /\ mail' \in Seq(Messages)
      /\ seen' = seen /\ sent' = sent /\ client' = client /\ running' = running
  BY HandleFacts DEF Handle
<1>2. GateTyped'  BY <1>1 DEF GateIInv, GateTyped
<1>3. TableServes' /\ Sessions'  BY <1>1, Outside
<1>4. AcceptedOnce'  BY HandleKeeps
<1> QED  BY <1>2, <1>3, <1>4 DEF GateIInv

\* The table, the connections and what is told change together.
LEMMA ServingStep ==
    ASSUME GateIInv, NEW type, Handle(type), NEW notes \in Seq(Notes), Session(notes),
           told' = [told EXCEPT ![From] = notes],
           told[From] # <<>> \/ type = "ACCEPT",
           conn' \in [Entries -> [fd : Ids \cup {NoId}, buffer : Seq(Byte)]],
           TableOK(table'), Fits(table', conn'),
           Held(table') = IF Connected(notes) THEN Served \cup {From} ELSE Served \ {From}
    PROVE  GateIInv'
<1>1. /\ running /\ mail' \in Seq(Messages) /\ From \in Ids
      /\ seen' = seen /\ sent' = sent /\ client' = client /\ running' = running
  BY HandleFacts DEF Handle
<1>2. /\ told' \in [Ids -> Seq(Notes)] /\ Sessions'
      /\ \A j \in Ids : j # From => told'[j] = told[j]
      /\ Connected(notes) => Served' = Served \cup {From}
      /\ ~Connected(notes) => Served' = Served \ {From}
  BY <1>1, TellOne DEF GateIInv, GateTyped
<1>3. GateTyped'  BY <1>1, <1>2 DEF GateIInv, GateTyped
<1>4. TableServes'
  <2>1. Held(table') = Served'  BY <1>2
  <2> QED  BY <1>1, <2>1 DEF TableServes
<1>5. AcceptedOnce'  BY <1>2, HandleKeeps
<1> QED  BY <1>2, <1>3, <1>4, <1>5 DEF GateIInv

\* The invariant holds on when a gate puts a client in its table, or has it closed as the
\* table is full.
LEMMA OnAcceptStep ==
    ASSUME GateIInv, OnAccept
    PROVE  GateIInv'
<1>1. Handle("ACCEPT")  BY DEF OnAccept
<1>2. CASE hashid_full(table)
  <2>1. table' = table /\ conn' = conn /\ told' = told  BY <1>2 DEF OnAccept
  <2> QED  BY <1>1, <2>1, QuietStep
<1>3. CASE ~hashid_full(table)
  <2> PICK new : new = hashid_insert(table, From)  OBVIOUS
  <2> PICK e : e = hashid_lookup(new, From)  OBVIOUS
  <2> PICK notes : notes = <<[command |-> "connect"]>>  OBVIOUS
  <2>1. /\ running /\ From \in Ids /\ told[From] = <<>>  BY <1>1, HandleFacts
  <2>2. From \in Nat /\ From # NoId  BY <2>1, RealId
  <2>3. From \notin Served  BY <2>1, ServedConnected
  <2>4. TableOK(table) /\ Held(table) = Served /\ Fits(table, conn)
    BY <2>1 DEF GateIInv, TableServes
  <2>5. /\ TableOK(new) /\ Held(new) = Served \cup {From}
        /\ e \in Entries /\ table.id[e] = NoId /\ new.id = [table.id EXCEPT ![e] = From]
    <3>1. TableOK(new) /\ Held(new) = Held(table) \cup {From}
      BY <1>3, <2>2, <2>3, <2>4, InsertOK
    <3>2. PICK d \in Entries : /\ table.id[d] = NoId /\ new.id = [table.id EXCEPT ![d] = From]
                              /\ hashid_lookup(new, From) = d
      BY <1>3, <2>2, <2>3, <2>4, InsertOK
    <3>3. d = e  BY <3>2
    <3> QED  BY <2>4, <3>1, <3>2, <3>3
  <2>6. /\ table' = new
        /\ conn' = [conn EXCEPT ![e] = [fd |-> From, buffer |-> <<>>]]
        /\ told' = [told EXCEPT ![From] = @ \o notes]
    BY <1>3, Zenon DEF OnAccept, Tell
  <2>7. notes \in Seq(Notes) /\ Session(notes) /\ Connected(notes)  BY SessionBegins
  <2>8. told' = [told EXCEPT ![From] = notes]
    <3>1. told[From] \o notes = notes  BY <2>1, <2>7
    <3> QED  BY <2>6, <3>1
  <2>9. conn' \in [Entries -> [fd : Ids \cup {NoId}, buffer : Seq(Byte)]]
    <3> PICK c : c = [fd |-> From, buffer |-> <<>>]  OBVIOUS
    <3>1. c \in [fd : Ids \cup {NoId}, buffer : Seq(Byte)]  BY <2>1
    <3>2. conn \in [Entries -> [fd : Ids \cup {NoId}, buffer : Seq(Byte)]]  BY DEF GateIInv, GateTyped
    <3>3. conn' = [conn EXCEPT ![e] = c]  BY <2>6
    <3> QED  BY ONLY <3>1, <3>2, <3>3
  <2>10. Fits(new, conn')
    <3>0. /\ conn'[e].fd = From /\ \A d \in Entries : d # e => conn'[d] = conn[d]
      <4>1. conn \in [Entries -> [fd : Ids \cup {NoId}, buffer : Seq(Byte)]]  BY DEF GateIInv, GateTyped
      <4>2. conn'[e] = [fd |-> From, buffer |-> <<>>]  BY <2>5, <2>6, <4>1
      <4> QED  BY <2>5, <2>6, <4>1, <4>2
    <3>1. new.id[e] = From /\ \A d \in Entries : d # e => new.id[d] = table.id[d]
      BY <2>4, <2>5 DEF TableOK, Tables
    <3>2. ASSUME NEW d \in Entries
          PROVE  IF new.id[d] = NoId THEN conn'[d] = Unused ELSE conn'[d].fd = new.id[d]
      <4>1. CASE d = e  BY <2>2, <3>0, <3>1, <4>1
      <4>2. CASE d # e
        <5>1. IF table.id[d] = NoId THEN conn[d] = Unused ELSE conn[d].fd = table.id[d]
          BY <2>4 DEF Fits
        <5>2. conn'[d] = conn[d] /\ new.id[d] = table.id[d]  BY <3>0, <3>1, <4>2
        <5> QED  BY <5>1, <5>2
      <4> QED  BY <4>1, <4>2
    <3> QED  BY <3>2 DEF Fits
  <2>11. /\ TableOK(table') /\ Fits(table', conn')
         /\ Held(table') = IF Connected(notes) THEN Served \cup {From} ELSE Served \ {From}
    BY <2>5, <2>6, <2>7, <2>10
  <2> HIDE <2>6
  <2> QED  BY <1>1, <2>7, <2>8, <2>9, <2>11, ServingStep
<1> QED  BY <1>2, <1>3

\* The invariant holds on when a gate is given data, of a client it has or of one it has no
\* more.
LEMMA OnDataStep ==
    ASSUME GateIInv, OnData
    PROVE  GateIInv'
<1> PICK buffer, result : buffer = conn[Entry].buffer \o Head(mail).bytes /\ result = Forwarded(buffer)
  OBVIOUS
<1>1. /\ Handle("DATA") /\ table' = table
      /\ IF Entry < 0 \/ Len(buffer) > BUFFER_MAX THEN UNCHANGED <<conn, told>>
         ELSE /\ Tell(result.packages)
              /\ conn' = [conn EXCEPT ![Entry].buffer = result.rest]
  BY DEF OnData
<1>2. /\ running /\ From \in Ids /\ Head(mail) \in Messages /\ Head(mail).type = "DATA"
  BY <1>1, HandleFacts
<1>3. CASE Entry < 0 \/ Len(buffer) > BUFFER_MAX
  <2>1. table' = table /\ conn' = conn /\ told' = told  BY <1>1, <1>3
  <2> QED  BY <1>1, <2>1, QuietStep
<1>4. CASE ~(Entry < 0 \/ Len(buffer) > BUFFER_MAX)
  <2> PICK e : e = Entry  OBVIOUS
  <2>1. From \in Served /\ e \in Entries /\ table.id[e] = From /\ conn[e].fd = From
    BY <1>2, <1>4, EntryFacts
  <2>2. /\ told[From] \in Seq(Notes) /\ Session(told[From]) /\ Connected(told[From])
        /\ told[From] # <<>>
    BY <1>2, <2>1, ServedConnected DEF Connected
  <2>3. conn \in [Entries -> [fd : Ids \cup {NoId}, buffer : Seq(Byte)]]  BY DEF GateIInv, GateTyped
  <2>4. buffer \in Seq(Byte)
    <3>1. Head(mail).bytes \in Seq(Byte)
      <4>1. Head(mail) \in [type : {"DATA"}, id : Ids, bytes : Seq(Byte)]  BY <1>2 DEF Messages
      <4> QED  BY <4>1
    <3> PICK a, b : a = conn[Entry].buffer /\ b = Head(mail).bytes  OBVIOUS
    <3>2. a \in Seq(Byte) /\ b \in Seq(Byte)  BY <2>1, <2>3, <3>1
    <3>3. buffer = a \o b  OBVIOUS
    <3> QED  BY <3>2, <3>3
  <2>5. result.packages \in Seq(Forwards) /\ result.rest \in Seq(Byte)
    BY <2>4, ForwardedTyped
  <2> PICK notes : notes = told[From] \o result.packages  OBVIOUS
  <2>6. notes \in Seq(Notes) /\ Session(notes) /\ Connected(notes)  BY <2>2, <2>5, SessionGoesOn
  <2>7. told' = [told EXCEPT ![From] = notes] /\ conn' = [conn EXCEPT ![e].buffer = result.rest]
    BY <1>1, <1>4 DEF Tell
  <2>8. conn' \in [Entries -> [fd : Ids \cup {NoId}, buffer : Seq(Byte)]]
        /\ conn'[e].fd = conn[e].fd /\ \A d \in Entries : d # e => conn'[d] = conn[d]
    <3> PICK c : c = [conn[e] EXCEPT !.buffer = result.rest]  OBVIOUS
    <3>1. c \in [fd : Ids \cup {NoId}, buffer : Seq(Byte)] /\ c.fd = conn[e].fd
      BY <2>1, <2>3, <2>5
    <3>2. conn' = [conn EXCEPT ![e] = c]  BY <2>7
    <3> QED  BY <2>1, <2>3, <3>1, <3>2
  <2>9. TableOK(table) /\ Held(table) = Served /\ Fits(table, conn)
    BY <1>2 DEF GateIInv, TableServes
  <2>10. Fits(table, conn')
    <3>1. From # NoId  BY <1>2, RealId
    <3>2. ASSUME NEW d \in Entries
          PROVE  IF table.id[d] = NoId THEN conn'[d] = Unused ELSE conn'[d].fd = table.id[d]
      <4>1. CASE d = e  BY <2>1, <2>8, <3>1, <4>1
      <4>2. CASE d # e  BY <2>8, <2>9, <4>2 DEF Fits
      <4> QED  BY <4>1, <4>2
    <3> QED  BY <3>2 DEF Fits
  <2>11. /\ TableOK(table') /\ Fits(table', conn')
         /\ Held(table') = IF Connected(notes) THEN Served \cup {From} ELSE Served \ {From}
    BY <1>1, <2>1, <2>6, <2>9, <2>10
  <2>12. told' = [told EXCEPT ![From] = notes]  BY <2>7
  <2>13. conn' \in [Entries -> [fd : Ids \cup {NoId}, buffer : Seq(Byte)]]  BY <2>8
  <2> QED  BY <1>1, <2>2, <2>6, <2>11, <2>12, <2>13, ServingStep
<1> QED  BY <1>3, <1>4

\* The invariant holds on when a gate is told the end of a client, the first time or again.
LEMMA OnCloseOrErrorStep ==
    ASSUME GateIInv, OnCloseOrError
    PROVE  GateIInv'
<1>1. PICK type : type # "ACCEPT" /\ Handle(type)  BY DEF OnCloseOrError
<1>2. running /\ From \in Ids  BY <1>1, HandleFacts
<1>3. CASE Entry < 0
  <2>1. table' = table /\ conn' = conn /\ told' = told  BY <1>3 DEF OnCloseOrError
  <2> QED  BY <1>1, <2>1, QuietStep
<1>4. CASE ~(Entry < 0)
  <2> PICK e, new : e = Entry /\ new = hashid_remove(table, From)  OBVIOUS
  <2>1. From \in Served /\ e \in Entries  BY <1>2, <1>4, EntryFacts
  <2>2. /\ told[From] \in Seq(Notes) /\ Session(told[From]) /\ Connected(told[From])
        /\ told[From] # <<>> /\ From \in Nat
    BY <1>2, <2>1, ServedConnected DEF Connected
  <2> PICK notes : notes = told[From] \o <<[command |-> "disconnect"]>>  OBVIOUS
  <2>3. notes \in Seq(Notes) /\ Session(notes) /\ ~Connected(notes)  BY <2>2, SessionEnds
  <2>4. /\ table' = new /\ told' = [told EXCEPT ![From] = notes]
        /\ conn' = [conn EXCEPT ![e] = Unused]
    BY <1>4 DEF OnCloseOrError, Tell
  <2>5. TableOK(table) /\ Held(table) = Served /\ Fits(table, conn)
    BY <1>2 DEF GateIInv, TableServes
  <2>6. /\ TableOK(new) /\ Held(new) = Served \ {From}
        /\ new.id[e] = NoId /\ \A d \in Entries : d # e => new.id[d] = table.id[d]
    BY <2>1, <2>2, <2>5, RemoveOK DEF Entry
  <2>7. /\ conn' \in [Entries -> [fd : Ids \cup {NoId}, buffer : Seq(Byte)]]
        /\ conn'[e] = Unused /\ \A d \in Entries : d # e => conn'[d] = conn[d]
    <3>1. conn \in [Entries -> [fd : Ids \cup {NoId}, buffer : Seq(Byte)]]  BY DEF GateIInv, GateTyped
    <3>2. Unused \in [fd : Ids \cup {NoId}, buffer : Seq(Byte)]  BY DEF Unused
    <3> QED  BY <2>1, <2>4, <3>1, <3>2
  <2>8. Fits(new, conn')
    <3>1. ASSUME NEW d \in Entries
          PROVE  IF new.id[d] = NoId THEN conn'[d] = Unused ELSE conn'[d].fd = new.id[d]
      <4>1. CASE d = e  BY <2>6, <2>7, <4>1
      <4>2. CASE d # e  BY <2>5, <2>6, <2>7, <4>2 DEF Fits
      <4> QED  BY <4>1, <4>2
    <3> QED  BY <3>1 DEF Fits
  <2>9. /\ TableOK(table') /\ Fits(table', conn')
        /\ Held(table') = IF Connected(notes) THEN Served \cup {From} ELSE Served \ {From}
    BY <2>3, <2>4, <2>6, <2>8
  <2>10. told' = [told EXCEPT ![From] = notes]  BY <2>4
  <2>11. conn' \in [Entries -> [fd : Ids \cup {NoId}, buffer : Seq(Byte)]]  BY <2>7
  <2> QED  BY <1>1, <2>2, <2>3, <2>9, <2>10, <2>11, ServingStep
<1> QED  BY <1>3, <1>4

\* gate_release leaves no mail and an empty table.
LEMMA ReleaseStep ==
    ASSUME GateIInv, Release
    PROVE  GateIInv'
<1>1. /\ mail = <<>> /\ running' = FALSE /\ conn' = [e \in Entries |-> Unused]
      /\ seen' = seen /\ mail' = mail /\ sent' = sent /\ client' = client /\ told' = told
  BY DEF Release
<1>2. GateTyped'
  <2>1. Unused \in [fd : Ids \cup {NoId}, buffer : Seq(Byte)]  BY DEF Unused
  <2> QED  BY <1>1, <2>1 DEF GateIInv, GateTyped
<1>3. Sessions'  BY <1>1, TellNone DEF GateIInv
<1>4. AcceptedOnce'  BY <1>1 DEF GateIInv, AcceptedOnce, Accepts
<1>5. TableServes'  BY <1>1 DEF TableServes
<1> QED  BY <1>2, <1>3, <1>4, <1>5 DEF GateIInv

\* Every step keeps the invariant.
LEMMA GateIInvNext ==
    ASSUME GateIInv, [GateNext]_gateVars
    PROVE  GateIInv'
<1>1. CASE UNCHANGED gateVars
  <2>1. /\ seen' = seen /\ mail' = mail /\ sent' = sent /\ client' = client /\ table' = table
        /\ conn' = conn /\ told' = told /\ running' = running
    BY <1>1 DEF gateVars
  <2>2. GateTyped'  BY <2>1 DEF GateIInv, GateTyped
  <2>3. Sessions' /\ Served' = Served  BY <2>1, TellNone DEF GateIInv
  <2>4. AcceptedOnce'  BY <2>1 DEF GateIInv, AcceptedOnce, Accepts
  <2>5. TableServes'  BY <2>1, <2>3 DEF GateIInv, TableServes
  <2> QED  BY <2>2, <2>3, <2>4, <2>5 DEF GateIInv
<1>2. ASSUME NEW i \in Ids, ClientAccepted(i) PROVE GateIInv'  BY <1>2, AcceptedStep
<1>3. ASSUME NEW i \in Ids,
             \/ ClientStarted(i) \/ ClientSends(i) \/ ClientCloses(i)
             \/ SocketError(i) \/ KickAsked(i)
      PROVE  GateIInv'
  BY <1>3, ClientStep
<1>4. CASE OnAccept  BY <1>4, OnAcceptStep
<1>5. CASE OnConnect
  <2>1. Handle("CONNECT") /\ table' = table /\ conn' = conn /\ told' = told  BY <1>5 DEF OnConnect
  <2> QED  BY <2>1, QuietStep
<1>6. CASE OnData  BY <1>6, OnDataStep
<1>7. CASE OnCloseOrError  BY <1>7, OnCloseOrErrorStep
<1>8. CASE OnKick
  <2>1. Handle("kick") /\ table' = table /\ conn' = conn /\ told' = told  BY <1>8 DEF OnKick
  <2> QED  BY <2>1, QuietStep
<1>9. CASE Release  BY <1>9, ReleaseStep
<1> QED  BY <1>1, <1>2, <1>3, <1>4, <1>5, <1>6, <1>7, <1>8, <1>9 DEF GateNext, Callback

-----------------------------------------------------------------------------
(* The order of what a client sends: what waits in the mail, and what is in the buffer *)

\* Where nothing of the client's waits, the bytes go no further.
LEMMA WaitingNone ==
    ASSUME NEW sizes, NEW messages, Len(messages) \in Nat, NEW i, NEW p \in 0 .. Len(All(sizes)),
           \A n \in 1 .. Len(messages) : ~DataOf(messages[n], i)
    PROVE  Waiting(sizes, messages, i, p, p)
<1> PICK l, P : l = Len(messages) /\ P = 0 .. Len(All(sizes))  OBVIOUS
<1> PICK at : at = [n \in 0 .. l |-> p]  OBVIOUS
<1>1. at \in [0 .. l -> P] /\ at[0] = p /\ at[l] = p /\ \A n \in 1 .. l : at[n] = p /\ at[n - 1] = p
  <2>1. l \in Nat /\ p \in P  OBVIOUS
  <2>2. 0 \in 0 .. l /\ l \in 0 .. l /\ \A n \in 1 .. l : n \in 0 .. l /\ n - 1 \in 0 .. l  BY ONLY <2>1
  <2> QED  BY ONLY <2>1, <2>2, at = [n \in 0 .. l |-> p]
<1>2. \A n \in 1 .. l : Carries(sizes, messages[n], i, at[n - 1], at[n])  BY <1>1 DEF Carries
<1> QED  BY <1>1, <1>2 DEF Waiting

\* One more message.
LEMMA WaitingMore ==
    ASSUME NEW sizes, NEW messages \in Seq(Messages), NEW m \in Messages, NEW i, NEW p, NEW last,
           Waiting(sizes, messages, i, p, last),
           NEW to \in 0 .. Len(All(sizes)), Carries(sizes, m, i, last, to)
    PROVE  Waiting(sizes, Append(messages, m), i, p, to)
<1> PICK l, P, ms : l = Len(messages) /\ P = 0 .. Len(All(sizes)) /\ ms = Append(messages, m)  OBVIOUS
<1>1. PICK at \in [0 .. l -> P] :
        /\ at[0] = p /\ at[l] = last
        /\ \A n \in 1 .. l : Carries(sizes, messages[n], i, at[n - 1], at[n])
  BY DEF Waiting
<1>2. l \in Nat /\ Len(ms) = l + 1 /\ ms[l + 1] = m /\ \A n \in 1 .. l : ms[n] = messages[n]
  <2> PICK M : M = Messages  OBVIOUS
  <2>1. messages \in Seq(M) /\ m \in M  OBVIOUS
  <2> QED  BY ONLY <2>1, l = Len(messages), ms = Append(messages, m)
<1> PICK new : new = [n \in 0 .. l + 1 |-> IF n = l + 1 THEN to ELSE at[n]]  OBVIOUS
<1>3. new \in [0 .. l + 1 -> P] /\ new[l + 1] = to /\ \A n \in 0 .. l : new[n] = at[n]
  <2>1. to \in P  OBVIOUS
  <2>2. \A n \in 0 .. l + 1 : n = l + 1 \/ n \in 0 .. l  BY <1>2
  <2>3. l + 1 \in 0 .. l + 1 /\ \A n \in 0 .. l : n \in 0 .. l + 1 /\ n # l + 1  BY <1>2
  <2> QED  BY ONLY <1>1, <2>1, <2>2, <2>3, new = [n \in 0 .. l + 1 |-> IF n = l + 1 THEN to ELSE at[n]]
<1>4. ASSUME NEW n \in 1 .. l + 1 PROVE Carries(sizes, ms[n], i, new[n - 1], new[n])
  <2>1. CASE n \in 1 .. l
    <3>1. n \in 0 .. l /\ n - 1 \in 0 .. l  BY <1>2, <2>1
    <3> QED  BY <1>1, <1>2, <1>3, <2>1, <3>1
  <2>2. CASE n = l + 1
    <3>1. n - 1 = l /\ l \in 0 .. l  BY <1>2, <2>2
    <3>2. new[n - 1] = last /\ new[n] = to /\ ms[n] = m  BY <1>1, <1>2, <1>3, <2>2, <3>1
    <3> QED  BY <3>2
  <2>3. n \in 1 .. l \/ n = l + 1  BY <1>2
  <2> QED  BY <2>1, <2>2, <2>3
<1>5. new[0] = p
  <2>1. 0 \in 0 .. l  BY <1>2
  <2> QED  BY <1>1, <1>3, <2>1
<1>6. Len(ms) = l + 1 /\ new \in [0 .. Len(ms) -> P] /\ new[Len(ms)] = to  BY <1>2, <1>3
<1>7. \A n \in 1 .. Len(ms) : Carries(sizes, ms[n], i, new[n - 1], new[n])  BY <1>4, <1>6
<1> QED  BY <1>5, <1>6, <1>7 DEF Waiting

\* One message less.
LEMMA WaitingLess ==
    ASSUME NEW sizes, NEW messages \in Seq(Messages), messages # <<>>, NEW i, NEW p, NEW last,
           Waiting(sizes, messages, i, p, last)
    PROVE  \E q \in 0 .. Len(All(sizes)) : /\ Carries(sizes, Head(messages), i, p, q)
                                           /\ Waiting(sizes, Tail(messages), i, q, last)
<1> PICK l, P, ms : l = Len(messages) /\ P = 0 .. Len(All(sizes)) /\ ms = Tail(messages)  OBVIOUS
<1>1. PICK at \in [0 .. l -> P] :
        /\ at[0] = p /\ at[l] = last
        /\ \A n \in 1 .. l : Carries(sizes, messages[n], i, at[n - 1], at[n])
  BY DEF Waiting
<1>2. /\ l \in Nat \ {0} /\ Len(ms) = l - 1 /\ messages[1] = Head(messages)
      /\ \A n \in 1 .. l - 1 : ms[n] = messages[n + 1]
  <2> PICK M : M = Messages  OBVIOUS
  <2>1. messages \in Seq(M) /\ messages # <<>>  OBVIOUS
  <2> QED  BY ONLY <2>1, l = Len(messages), ms = Tail(messages)
<1> PICK new, q : new = [n \in 0 .. l - 1 |-> at[n + 1]] /\ q = at[1]  OBVIOUS
<1>3. new \in [0 .. l - 1 -> P] /\ \A n \in 0 .. l - 1 : new[n] = at[n + 1]
  <2>1. \A n \in 0 .. l - 1 : n + 1 \in 0 .. l  BY <1>2
  <2> QED  BY ONLY <1>1, <2>1, new = [n \in 0 .. l - 1 |-> at[n + 1]]
<1>4. Carries(sizes, Head(messages), i, p, q) /\ q \in P
  <2>1. 1 \in 1 .. l /\ 1 \in 0 .. l /\ 1 - 1 = 0  BY <1>2
  <2>2. Carries(sizes, messages[1], i, at[1 - 1], at[1])  BY <1>1, <2>1
  <2> QED  BY <1>1, <1>2, <2>1, <2>2
<1>5. new[0] = q /\ new[l - 1] = last
  <2>1. 0 \in 0 .. l - 1 /\ l - 1 \in 0 .. l - 1 /\ 0 + 1 = 1 /\ (l - 1) + 1 = l  BY <1>2
  <2> QED  BY <1>1, <1>3, <2>1
<1>6. ASSUME NEW n \in 1 .. l - 1 PROVE Carries(sizes, ms[n], i, new[n - 1], new[n])
  <2> PICK k : k = n + 1  OBVIOUS
  <2>1. k \in 1 .. l /\ k - 1 = n /\ n \in 0 .. l - 1 /\ n - 1 \in 0 .. l - 1 /\ (n - 1) + 1 = n  BY <1>2
  <2>2. Carries(sizes, messages[k], i, at[k - 1], at[k])  BY <1>1, <2>1
  <2>3. ms[n] = messages[k] /\ new[n] = at[k] /\ new[n - 1] = at[k - 1]  BY <1>2, <1>3, <2>1
  <2> QED  BY <2>2, <2>3
<1>7. /\ new \in [0 .. Len(ms) -> P] /\ new[0] = q /\ new[Len(ms)] = last
      /\ \A n \in 1 .. Len(ms) : Carries(sizes, ms[n], i, new[n - 1], new[n])
  BY <1>2, <1>3, <1>5, <1>6
<1>8. Waiting(sizes, ms, i, q, last)  BY <1>7 DEF Waiting
<1> QED  BY <1>4, <1>8

\* What one client sends, and what has been done with it, through the steps: at first nothing,
LEMMA InOrderBegins ==
    ASSUME NEW sizes \in Seq(Int), NEW i, NEW notes, Len(notes) = 1,
           NEW messages, Len(messages) \in Nat, \A n \in 1 .. Len(messages) : ~DataOf(messages[n], i)
    PROVE  InOrder(i, sizes, notes, messages, 0, <<>>)
<1> PICK L : L = Len(All(sizes))  OBVIOUS
<1>1. L \in Nat /\ End(sizes, 0) = 0 /\ Len(sizes) \in Nat /\ All(sizes) \in Seq(Byte)
  <2>1. All(sizes) \in Seq(Byte) /\ End(sizes, 0) = 0  BY Places
  <2> QED  BY <2>1
<1>2. 0 \in 0 .. L /\ 1 - 1 = 0 /\ 0 <= Len(sizes) /\ 0 + 1 = 1  BY <1>1
<1>3. Parsed(sizes, 0, <<>>, 0)
  <2>1. <<>> = SubSeq(All(sizes), 1, 0)
    <3> PICK all, t : all = All(sizes) /\ t = SubSeq(all, 0 + 1, 0)  OBVIOUS
    <3>1. all \in Seq(Byte) /\ 0 \in Nat /\ 0 \in 0 .. Len(all) /\ 0 - 0 = 0  BY <1>1, <1>2
    <3>2. t \in Seq(Byte) /\ Len(t) = 0  BY ONLY <3>1, Pieces, t = SubSeq(all, 0 + 1, 0)
    <3>3. t = <<>>  BY <3>2
    <3> QED  BY <1>2, <3>3
  <2>2. Readpack(<<>>) = 0
    <3>1. Len(<<>>) < HeadSize  BY GateAssumption
    <3> QED  BY <3>1 DEF Readpack
  <2> QED  BY <1>1, <1>2, <2>1, <2>2 DEF Parsed
<1>4. Waiting(sizes, messages, i, 0, 0)  BY <1>2, WaitingNone
<1>5. \A n \in 1 .. 0 : notes[n + 1].package = n  OBVIOUS
<1> QED  BY <1>2, <1>3, <1>4, <1>5 DEF InOrder

\* more is sent,
LEMMA InOrderComes ==
    ASSUME NEW sizes, NEW i, NEW notes, NEW messages \in Seq(Messages), NEW m \in Messages, NEW last, NEW buffer,
           InOrder(i, sizes, notes, messages, last, buffer),
           NEW to, \/ to = last /\ ~DataOf(m, i)
                   \/ to \in 0 .. Len(All(sizes)) /\ Carries(sizes, m, i, last, to)
    PROVE  InOrder(i, sizes, notes, Append(messages, m), to, buffer)
<1> PICK count, P : count = Len(notes) - 1 /\ P = 0 .. Len(All(sizes))  OBVIOUS
<1>1. PICK p \in P : Parsed(sizes, count, buffer, p) /\ Waiting(sizes, messages, i, p, last)
  BY DEF InOrder
<1>2. last \in P
  <2>1. Len(messages) \in 0 .. Len(messages)
    <3>1. Len(messages) \in Nat  OBVIOUS
    <3> QED  BY ONLY <3>1
  <2> QED  BY <1>1, <2>1 DEF Waiting
<1>3. to \in P /\ Carries(sizes, m, i, last, to)  BY <1>2 DEF Carries
<1>4. Waiting(sizes, Append(messages, m), i, p, to)  BY <1>1, <1>3, WaitingMore
<1> QED  BY <1>1, <1>4 DEF InOrder

\* a message of another kind or of another client is handled,
LEMMA InOrderHandled ==
    ASSUME NEW sizes, NEW i, NEW notes, NEW messages \in Seq(Messages), messages # <<>>, NEW last, NEW buffer,
           InOrder(i, sizes, notes, messages, last, buffer), ~DataOf(Head(messages), i)
    PROVE  InOrder(i, sizes, notes, Tail(messages), last, buffer)
<1> PICK count, P : count = Len(notes) - 1 /\ P = 0 .. Len(All(sizes))  OBVIOUS
<1>1. PICK p \in P : Parsed(sizes, count, buffer, p) /\ Waiting(sizes, messages, i, p, last)
  BY DEF InOrder
<1>2. PICK q \in P : Carries(sizes, Head(messages), i, p, q) /\ Waiting(sizes, Tail(messages), i, q, last)
  BY <1>1, WaitingLess
<1>3. q = p  BY <1>2 DEF Carries
<1> QED  BY <1>1, <1>2, <1>3 DEF InOrder

\* and data is parsed.
LEMMA InOrderParsed ==
    ASSUME NEW sizes \in Seq(Int), NEW i, NEW notes \in Seq(Notes), notes # <<>>,
           NEW messages \in Seq(Messages), messages # <<>>, NEW last, NEW buffer,
           InOrder(i, sizes, notes, messages, last, buffer), DataOf(Head(messages), i),
           NEW result, result = Forwarded(buffer \o Head(messages).bytes), ~(Readpack(result.rest) < 0)
    PROVE  InOrder(i, sizes, notes \o result.packages, Tail(messages), last, result.rest)
<1> PICK c, L, all : c = Len(notes) - 1 /\ L = Len(All(sizes)) /\ all = All(sizes)  OBVIOUS
<1>1. c <= Len(sizes) /\ \A n \in 1 .. c : notes[n + 1].package = n  BY DEF InOrder
<1>2. c \in Nat /\ c \in 0 .. Len(sizes) /\ Len(notes) = c + 1
  <2> PICK l, N : l = Len(notes) /\ N = Len(sizes)  OBVIOUS
  <2>1. l \in Nat \ {0} /\ N \in Nat /\ c = l - 1 /\ c <= N
    <3>1. l \in Nat \ {0}
      <4> PICK S : S = Notes  OBVIOUS
      <4>1. notes \in Seq(S) /\ notes # <<>>  OBVIOUS
      <4> QED  BY ONLY <4>1, l = Len(notes)
    <3> QED  BY <1>1, <3>1
  <2>2. c \in Nat /\ c \in 0 .. N /\ l = c + 1  BY ONLY <2>1
  <2> QED  BY <2>2
<1>3. PICK p \in 0 .. L : Parsed(sizes, c, buffer, p) /\ Waiting(sizes, messages, i, p, last)
  BY DEF InOrder
<1>4. PICK q \in 0 .. L : Carries(sizes, Head(messages), i, p, q) /\ Waiting(sizes, Tail(messages), i, q, last)
  BY <1>3, WaitingLess
<1>5. p <= q /\ Head(messages).bytes = SubSeq(all, p + 1, q)  BY <1>4 DEF Carries
<1> PICK a : a = End(sizes, c)  OBVIOUS
<1>6. p \in a .. L /\ buffer = SubSeq(all, a + 1, p)  BY <1>3 DEF Parsed
<1>7. all \in Seq(Byte) /\ L \in Nat /\ a \in Nat
  <2>1. all \in Seq(Byte)  BY Places
  <2>2. a \in 0 .. L  BY <1>2, Ends
  <2>3. L \in Nat  BY <2>1
  <2> QED  BY <2>1, <2>2, <2>3
<1>8. q \in p .. L /\ q \in a .. L  BY <1>3, <1>4, <1>5, <1>6, <1>7
<1>9. buffer \o Head(messages).bytes = Rest(sizes, c, q)
  <2>1. SubSeq(all, a + 1, p) \o SubSeq(all, p + 1, q) = SubSeq(all, a + 1, q)
    <3>1. a \in Nat /\ p \in a .. Len(all) /\ q \in p .. Len(all)  BY <1>6, <1>7, <1>8
    <3> QED  BY <1>7, <3>1, PiecesJoin
  <2> QED  BY <1>5, <1>6, <2>1 DEF Rest
<1>10. PICK d \in Nat : ParsedOn(sizes, c, q, d, result) /\ Readpack(result.rest) <= 0
  <2>1. q \in End(sizes, c) .. Len(All(sizes))  BY <1>8
  <2> QED  BY <1>2, <1>9, <2>1, ForwardedParsed
<1> PICK count, w, r : count = c + d /\ w = result.packages /\ r = result.rest  OBVIOUS
<1>11. /\ count \in 0 .. Len(sizes) /\ q \in End(sizes, count) .. L /\ r = Rest(sizes, count, q)
       /\ w \in Seq(Forwards) /\ Len(w) = d /\ \A k \in 1 .. d : w[k].package = c + k
  BY <1>10 DEF ParsedOn
<1>12. Readpack(r) = 0
  <2>1. r \in Seq(Byte)
    <3>1. count \in 0 .. Len(sizes) /\ q \in End(sizes, count) .. Len(All(sizes))  BY <1>11
    <3>2. Rest(sizes, count, q) \in Seq(Byte)  BY <3>1, RestFacts
    <3> QED  BY <1>11, <3>2
  <2>2. Readpack(r) \in Int  BY <2>1, ReadpackTyped
  <2>3. Readpack(r) <= 0 /\ ~(Readpack(r) < 0)  BY <1>10
  <2> QED  BY <2>2, <2>3
<1>13. Parsed(sizes, count, r, q)  BY <1>11, <1>12 DEF Parsed, Rest
<1> PICK new : new = notes \o w  OBVIOUS
<1>14. /\ Len(new) = c + 1 + d
       /\ \A n \in 1 .. c + 1 : new[n] = notes[n]
       /\ \A n \in c + 2 .. c + 1 + d : new[n] = w[n - (c + 1)]
  <2> PICK S, F : S = Notes /\ F = Forwards  OBVIOUS
  <2>1. notes \in Seq(S) /\ w \in Seq(F) /\ Len(w) = d /\ Len(notes) = c + 1  BY <1>2, <1>11
  <2>2. /\ notes \in Seq(S \cup F) /\ w \in Seq(S \cup F)
        /\ Len(notes) \in Nat /\ Len(w) \in Nat
    BY ONLY <2>1
  <2>3. /\ Len(new) = Len(notes) + Len(w)
        /\ \A n \in 1 .. Len(notes) : new[n] = notes[n]
    BY ONLY <2>2, new = notes \o w
  <2>4. \A n \in Len(notes) + 1 .. Len(notes) + Len(w) : new[n] = w[n - Len(notes)]
    BY ONLY <2>2, new = notes \o w
  <2>5. c + 1 + 1 = c + 2  BY <1>2
  <2> QED  BY ONLY <2>1, <2>3, <2>4, <2>5
<1>15. ASSUME NEW n \in 1 .. count PROVE new[n + 1].package = n
  <2>0. n \in Nat /\ n # 0 /\ n <= c + d  BY <1>2
  <2>1. CASE n <= c
    <3>1. n \in 1 .. c /\ n + 1 \in 1 .. c + 1  BY <1>2, <2>0, <2>1
    <3> QED  BY <1>1, <1>14, <3>1
  <2>2. CASE ~(n <= c)
    <3> PICK k, j : k = n - c /\ j = n + 1  OBVIOUS
    <3>1. k \in 1 .. d /\ j \in c + 2 .. c + 1 + d /\ j - (c + 1) = k /\ c + k = n
      BY ONLY <1>2, <2>0, <2>2, k = n - c, j = n + 1, d \in Nat
    <3>2. new[j] = w[j - (c + 1)]  BY <1>14, <3>1
    <3>3. w[k].package = c + k  BY <1>11, <3>1
    <3> QED  BY <3>1, <3>2, <3>3
  <2> QED  BY <2>1, <2>2
<1>16. count = Len(new) - 1 /\ count <= Len(sizes)  BY <1>2, <1>11, <1>14
<1>17. q \in 0 .. Len(All(sizes)) /\ Waiting(sizes, Tail(messages), i, q, last)  BY <1>4
<1>18. InOrder(i, sizes, new, Tail(messages), last, r)
  BY <1>13, <1>15, <1>16, <1>17 DEF InOrder
<1> QED  BY <1>18

-----------------------------------------------------------------------------
(* The steps again *)

\* At first no socket is started, and nothing is in the table.
LEMMA StreamIInvInit == GateInit => StreamIInv
<1> SUFFICES ASSUME GateInit PROVE StreamIInv  OBVIOUS
<1>1. /\ seen = [i \in Ids |-> "unborn"] /\ asked = [i \in Ids |-> {}] /\ mail = <<>>
      /\ sent = [i \in Ids |-> 0] /\ table = hashid_init
  BY DEF GateInit, Socket!Init
<1>2. asked \in [Ids -> SUBSET {"start", "close"}]  BY <1>1
<1>3. NotStarted  BY <1>1 DEF NotStarted
<1>4. Streams
  <2>1. \A e \in Entries : table.id[e] = NoId  BY <1>1 DEF hashid_init
  <2>2. \A i \in Ids : i # NoId  BY RealId
  <2> QED  BY <2>1, <2>2 DEF Streams
<1> QED  BY <1>2, <1>3, <1>4, GateIInvInit DEF StreamIInv

\* A message comes: data only of a socket that was started.
LEMMA ComesStep ==
    ASSUME StreamIInv, GateIInv', NEW m \in Messages, Mail(m),
           table' = table, conn' = conn, told' = told, asked' = asked, running' = running,
           client'.packages = client.packages,
           \A i \in Ids : \/ sent'[i] = sent[i] /\ ~DataOf(m, i)
                          \/ /\ "start" \in asked[i]
                             /\ sent'[i] \in 0 .. Len(All(client.packages[i]))
                             /\ Carries(client.packages[i], m, i, sent[i], sent'[i]),
           \A i \in Ids : seen'[i] = "open" => seen[i] = "open" \/ "start" \in asked[i]
    PROVE  StreamIInv'
<1>1. mail \in Seq(Messages) /\ mail' = Append(mail, m) /\ running
  BY DEF StreamIInv, GateIInv, GateTyped, Mail
<1>2. Streams'
  <2> SUFFICES ASSUME NEW e \in Entries, NEW i \in Ids, table'.id[e] = i, "close" \notin asked'[i]
               PROVE  InStream(i, e)'
    BY DEF Streams
  <2>1. InStream(i, e)  BY <1>1 DEF StreamIInv, Streams
  <2> PICK sizes, notes, last, to, buffer :
        /\ sizes = client.packages[i] /\ notes = told[i] /\ last = sent[i] /\ to = sent'[i]
        /\ buffer = conn[e].buffer
    OBVIOUS
  <2>2. InOrder(i, sizes, notes, mail, last, buffer)  BY <2>1 DEF InStream
  <2>3. \/ to = last /\ ~DataOf(m, i)
        \/ to \in 0 .. Len(All(sizes)) /\ Carries(sizes, m, i, last, to)
    OBVIOUS
  <2>4. InOrder(i, sizes, notes, mail', to, buffer)  BY <1>1, <2>2, <2>3, InOrderComes
  <2> QED  BY <2>4 DEF InStream
<1>3. NotStarted'
  <2> SUFFICES ASSUME NEW i \in Ids
               PROVE  /\ told'[i] = <<>> => "start" \notin asked'[i]
                      /\ "start" \notin asked'[i] =>
                            /\ seen'[i] # "open" /\ sent'[i] = 0
                            /\ \A n \in DOMAIN mail' : ~DataOf(mail'[n], i)
    BY DEF NotStarted
  <2>1. told'[i] = <<>> => "start" \notin asked'[i]  BY DEF StreamIInv, NotStarted
  <2>2. ASSUME "start" \notin asked'[i]
        PROVE  seen'[i] # "open" /\ sent'[i] = 0 /\ \A n \in DOMAIN mail' : ~DataOf(mail'[n], i)
    <3>1. seen[i] # "open" /\ sent[i] = 0 /\ \A n \in DOMAIN mail : ~DataOf(mail[n], i)
      BY <2>2 DEF StreamIInv, NotStarted
    <3>2. sent'[i] = 0 /\ seen'[i] # "open" /\ ~DataOf(m, i)  BY <2>2, <3>1
    <3>3. \A n \in DOMAIN mail' : (n \in DOMAIN mail /\ mail'[n] = mail[n]) \/ mail'[n] = m
      <4> PICK M : M = Messages  OBVIOUS
      <4>1. mail \in Seq(M) /\ m \in M  BY <1>1
      <4>2. \A n \in 1 .. Len(mail) + 1 : n \in 1 .. Len(mail) \/ n = Len(mail) + 1  BY ONLY <4>1
      <4> QED  BY ONLY <1>1, <4>1, <4>2
    <3> QED  BY <3>1, <3>2, <3>3
  <2> QED  BY <2>1, <2>2
<1>4. asked' \in [Ids -> SUBSET {"start", "close"}]  BY DEF StreamIInv
<1> QED  BY <1>2, <1>3, <1>4 DEF StreamIInv

\* What the clients and the socket server do.
LEMMA OutsideStep ==
    ASSUME StreamIInv, GateIInv', NEW i \in Ids,
           \/ ClientAccepted(i) \/ ClientStarted(i) \/ ClientSends(i) \/ ClientCloses(i)
           \/ SocketError(i) \/ KickAsked(i)
    PROVE  StreamIInv'
<1>0. /\ seen \in [Ids -> Socket!States] /\ sent \in [Ids -> Nat]
      /\ client \in [packages : [Ids -> Seq(Int)], trouble : Nat]
  BY DEF StreamIInv, GateIInv, GateTyped
<1> DEFINE Message(type) == [type |-> type, id |-> i]
<1>1. ASSUME NEW type \in {"ACCEPT", "CONNECT", "CLOSE", "ERROR", "kick"}
      PROVE  Message(type) \in Messages /\ \A j \in Ids : ~DataOf(Message(type), j)
  BY <1>1 DEF Messages, DataOf
<1>2. [client EXCEPT !.trouble = @ - 1].packages = client.packages  BY <1>0
<1>3. CASE ClientAccepted(i)
  <2> PICK m : m = Message("ACCEPT")  OBVIOUS
  <2>1. m \in Messages /\ \A j \in Ids : ~DataOf(m, j)
    <3> HIDE DEF Message
    <3> QED  BY <1>1
  <2>2. /\ Mail(m) /\ seen' = [seen EXCEPT ![i] = "accepted"] /\ asked' = asked
        /\ sent' = sent /\ client' = client /\ table' = table /\ conn' = conn
        /\ told' = told /\ running' = running
    BY <1>3 DEF ClientAccepted, Socket!Announce
  <2>3. \A j \in Ids : seen'[j] = "open" => seen[j] = "open"  BY <1>0, <2>2
  <2> HIDE DEF Message
  <2> QED  BY <2>1, <2>2, <2>3, ComesStep
<1>4. CASE ClientStarted(i)
  <2> PICK m : m = Message("CONNECT")  OBVIOUS
  <2>1. m \in Messages /\ \A j \in Ids : ~DataOf(m, j)
    <3> HIDE DEF Message
    <3> QED  BY <1>1
  <2>2. /\ Mail(m) /\ seen' = [seen EXCEPT ![i] = "open"] /\ asked' = asked /\ "start" \in asked[i]
        /\ sent' = sent /\ client' = client /\ table' = table /\ conn' = conn
        /\ told' = told /\ running' = running
    BY <1>4 DEF ClientStarted, Socket!Open
  <2>3. \A j \in Ids : seen'[j] = "open" => seen[j] = "open" \/ "start" \in asked[j]  BY <1>0, <2>2
  <2> HIDE DEF Message
  <2> QED  BY <2>1, <2>2, <2>3, ComesStep
<1>5. CASE ClientCloses(i)
  <2> PICK m : m = Message("CLOSE")  OBVIOUS
  <2>1. m \in Messages /\ \A j \in Ids : ~DataOf(m, j)
    <3> HIDE DEF Message
    <3> QED  BY <1>1
  <2>2. /\ Mail(m) /\ seen' = [seen EXCEPT ![i] = "closed"] /\ asked' = asked
        /\ sent' = sent /\ client' = client /\ table' = table /\ conn' = conn
        /\ told' = told /\ running' = running
    BY <1>5 DEF ClientCloses, Socket!Close
  <2>3. \A j \in Ids : seen'[j] = "open" => seen[j] = "open"  BY <1>0, <2>2
  <2> HIDE DEF Message
  <2> QED  BY <2>1, <2>2, <2>3, ComesStep
<1>6. CASE SocketError(i)
  <2> PICK m : m = Message("ERROR")  OBVIOUS
  <2>1. m \in Messages /\ \A j \in Ids : ~DataOf(m, j)
    <3> HIDE DEF Message
    <3> QED  BY <1>1
  <2>2. /\ Mail(m) /\ seen' = [seen EXCEPT ![i] = IF @ = "connecting" THEN "failed" ELSE @]
        /\ asked' = asked /\ sent' = sent /\ client'.packages = client.packages
        /\ table' = table /\ conn' = conn /\ told' = told /\ running' = running
    BY <1>2, <1>6 DEF SocketError, Socket!Error
  <2>3. \A j \in Ids : seen'[j] = "open" => seen[j] = "open"  BY <1>0, <2>2
  <2> HIDE DEF Message
  <2> QED  BY <2>1, <2>2, <2>3, ComesStep
<1>7. CASE KickAsked(i)
  <2> PICK m : m = Message("kick")  OBVIOUS
  <2>1. m \in Messages /\ \A j \in Ids : ~DataOf(m, j)
    <3> HIDE DEF Message
    <3> QED  BY <1>1
  <2>2. /\ Mail(m) /\ seen' = seen
        /\ asked' = asked /\ sent' = sent /\ client'.packages = client.packages
        /\ table' = table /\ conn' = conn /\ told' = told /\ running' = running
    BY <1>2, <1>7 DEF KickAsked
  <2> HIDE DEF Message
  <2> QED  BY <2>1, <2>2, ComesStep
<1>8. CASE ClientSends(i)
  <2> PICK sizes : sizes = client.packages[i]  OBVIOUS
  <2>1. sizes \in Seq(Int) /\ Bytes(i) = All(sizes) /\ All(sizes) \in Seq(Byte)
    <3>1. sizes \in Seq(Int)  BY <1>0
    <3> QED  BY <3>1, Places DEF Bytes, All
  <2> PICK all, last : all = All(sizes) /\ last = sent[i]  OBVIOUS
  <2>2. PICK n \in last + 1 .. Len(all) :
            /\ Mail([type |-> "DATA", id |-> i, bytes |-> SubSeq(all, last + 1, n)])
            /\ sent' = [sent EXCEPT ![i] = n]
    BY <1>8, <2>1 DEF ClientSends
  <2> PICK m : m = [type |-> "DATA", id |-> i, bytes |-> SubSeq(all, last + 1, n)]  OBVIOUS
  <2>3. last \in Nat /\ n \in last .. Len(all) /\ n \in 0 .. Len(all) /\ last <= n /\ all \in Seq(Byte)
    <3>1. last \in Nat  BY <1>0
    <3>2. Len(all) \in Nat  BY <2>1
    <3> QED  BY <2>1, <3>1, <3>2
  <2>4. m \in Messages
    <3>1. SubSeq(all, last + 1, n) \in Seq(Byte)  BY <2>3, Pieces
    <3> QED  BY <3>1 DEF Messages
  <2>5. /\ Mail(m) /\ seen' = seen /\ seen[i] = "open" /\ sent' = [sent EXCEPT ![i] = n]
        /\ asked' = asked /\ client' = client /\ table' = table /\ conn' = conn
        /\ told' = told /\ running' = running
    BY <1>8, <2>2 DEF ClientSends, Socket!Data
  <2>6. "start" \in asked[i]  BY <2>5 DEF StreamIInv, NotStarted
  <2>7. sent'[i] = n /\ \A j \in Ids : j # i => sent'[j] = sent[j]  BY <1>0, <2>5
  <2>8. \A j \in Ids : j # i => ~DataOf(m, j)  BY DEF DataOf
  <2>9. Carries(sizes, m, i, last, n)
    <3>1. m.bytes = SubSeq(All(sizes), last + 1, n)  OBVIOUS
    <3>2. DataOf(m, i)  BY DEF DataOf
    <3> QED  BY ONLY <2>3, <3>1, <3>2 DEF Carries
  <2>10. \A j \in Ids : \/ sent'[j] = sent[j] /\ ~DataOf(m, j)
                        \/ /\ "start" \in asked[j]
                           /\ sent'[j] \in 0 .. Len(All(client.packages[j]))
                           /\ Carries(client.packages[j], m, j, sent[j], sent'[j])
    <3> SUFFICES ASSUME NEW j \in Ids
                 PROVE  \/ sent'[j] = sent[j] /\ ~DataOf(m, j)
                        \/ /\ "start" \in asked[j]
                           /\ sent'[j] \in 0 .. Len(All(client.packages[j]))
                           /\ Carries(client.packages[j], m, j, sent[j], sent'[j])
      OBVIOUS
    <3>1. CASE j = i  BY <2>3, <2>6, <2>7, <2>9, <3>1
    <3>2. CASE j # i  BY <2>7, <2>8, <3>2
    <3> QED  BY <3>1, <3>2
  <2>11. \A j \in Ids : seen'[j] = "open" => seen[j] = "open"  BY <2>5
  <2> QED  BY <2>4, <2>5, <2>10, <2>11, ComesStep
<1> HIDE DEF Message
<1> QED  BY <1>3, <1>4, <1>5, <1>6, <1>7, <1>8

\* A message is handled: whatever concerns another client is in order as it was.
LEMMA HandledStreams ==
    ASSUME StreamIInv, NEW type, Handle(type), NEW e \in Entries, NEW i \in Ids,
           table.id[e] = i, "close" \notin asked[i],
           conn'[e] = conn[e], told'[i] = told[i], ~DataOf(Head(mail), i)
    PROVE  InStream(i, e)'
<1>1. mail \in Seq(Messages) /\ mail # <<>> /\ mail' = Tail(mail) /\ sent' = sent /\ client' = client
  BY DEF StreamIInv, GateIInv, GateTyped, Handle
<1>2. InStream(i, e)
  <2>1. running  BY HandleFacts DEF StreamIInv
  <2> QED  BY <2>1 DEF StreamIInv, Streams
<1> PICK sizes, notes, last, buffer :
      sizes = client.packages[i] /\ notes = told[i] /\ last = sent[i] /\ buffer = conn[e].buffer
  OBVIOUS
<1>3. InOrder(i, sizes, notes, mail, last, buffer)  BY <1>2 DEF InStream
<1>4. InOrder(i, sizes, notes, mail', last, buffer)  BY <1>1, <1>3, InOrderHandled
<1> QED  BY <1>1, <1>4 DEF InStream

\* What waits then waited before.
LEMMA TailFrom ==
    ASSUME GateIInv, NEW type, Handle(type)
    PROVE  \A n \in DOMAIN mail' : n + 1 \in DOMAIN mail /\ mail'[n] = mail[n + 1]
<1> PICK M, l : M = Messages /\ l = Len(mail)  OBVIOUS
<1>1. mail \in Seq(M) /\ mail # <<>> /\ mail' = Tail(mail)  BY DEF GateIInv, GateTyped, Handle
<1>2. /\ l \in Nat /\ DOMAIN mail = 1 .. l /\ DOMAIN mail' = 1 .. l - 1
      /\ \A n \in 1 .. l - 1 : mail'[n] = mail[n + 1]
  BY ONLY <1>1, l = Len(mail)
<1>3. \A n \in 1 .. l - 1 : n + 1 \in 1 .. l  BY ONLY <1>2
<1> QED  BY <1>2, <1>3

\* And before a socket is started there is still no data.
LEMMA HandledNotStarted ==
    ASSUME StreamIInv, NEW type, Handle(type),
           \/ asked' = [asked EXCEPT ![From] = @ \cup {"close"}]
           \/ asked' = asked
           \/ asked' = [asked EXCEPT ![From] = @ \cup {"start"}] /\ told'[From] # <<>>,
           \A i \in Ids : told'[i] = <<>> => told[i] = <<>>
    PROVE  NotStarted' /\ asked' \in [Ids -> SUBSET {"start", "close"}]
           /\ \A i \in Ids : asked[i] \subseteq asked'[i]
<1>1. asked \in [Ids -> SUBSET {"start", "close"}] /\ GateIInv  BY DEF StreamIInv
<1>2. From \in Ids /\ mail \in Seq(Messages) /\ mail # <<>> /\ mail' = Tail(mail) /\ sent' = sent /\ seen' = seen
  BY <1>1, HandleFacts DEF GateIInv, GateTyped, Handle
<1>3. /\ asked' \in [Ids -> SUBSET {"start", "close"}]
      /\ \A i \in Ids : asked[i] \subseteq asked'[i]
      /\ \A i \in Ids : "start" \in asked'[i] => "start" \in asked[i] \/ told'[i] # <<>>
  <2>1. CASE asked' = [asked EXCEPT ![From] = @ \cup {"close"}]  BY <1>1, <1>2, <2>1
  <2>2. CASE asked' = asked  BY <1>1, <2>2
  <2>3. CASE asked' = [asked EXCEPT ![From] = @ \cup {"start"}] /\ told'[From] # <<>>
    BY <1>1, <1>2, <2>3
  <2> QED  BY <2>1, <2>2, <2>3
<1>4. \A n \in DOMAIN mail' : n + 1 \in DOMAIN mail /\ mail'[n] = mail[n + 1]
  BY <1>1, TailFrom
<1>5. ASSUME NEW i \in Ids
      PROVE  /\ told'[i] = <<>> => "start" \notin asked'[i]
             /\ "start" \notin asked'[i] =>
                  seen'[i] # "open" /\ sent'[i] = 0 /\ \A n \in DOMAIN mail' : ~DataOf(mail'[n], i)
  <2>1. /\ told[i] = <<>> => "start" \notin asked[i]
        /\ "start" \notin asked[i] =>
              seen[i] # "open" /\ sent[i] = 0 /\ \A n \in DOMAIN mail : ~DataOf(mail[n], i)
    BY DEF StreamIInv, NotStarted
  <2>2. told'[i] = <<>> => "start" \notin asked'[i]  BY <1>3, <2>1
  <2>3. ASSUME "start" \notin asked'[i]
        PROVE  seen'[i] # "open" /\ sent'[i] = 0 /\ \A n \in DOMAIN mail' : ~DataOf(mail'[n], i)
    <3>1. "start" \notin asked[i]  BY <1>3, <2>3
    <3> QED  BY <1>2, <1>4, <2>1, <3>1
  <2> QED  BY <2>2, <2>3
<1>6. NotStarted'  BY <1>5 DEF NotStarted
<1> QED  BY <1>3, <1>6

\* What is no data changes nothing of what is framed.
LEMMA NoDataStep ==
    ASSUME StreamIInv, GateIInv', NEW type, Handle(type), type # "DATA",
           asked' = [asked EXCEPT ![From] = @ \cup {"close"}] \/ asked' = asked,
           \A i \in Ids : told'[i] = <<>> => told[i] = <<>>,
           \A e \in Entries, i \in Ids : table'.id[e] = i =>
                table.id[e] = i /\ conn'[e] = conn[e] /\ told'[i] = told[i]
    PROVE  StreamIInv'
<1>1. /\ NotStarted' /\ asked' \in [Ids -> SUBSET {"start", "close"}]
      /\ \A i \in Ids : asked[i] \subseteq asked'[i]
  BY HandledNotStarted
<1>2. Streams'
  <2> SUFFICES ASSUME NEW e \in Entries, NEW i \in Ids, table'.id[e] = i, "close" \notin asked'[i]
               PROVE  InStream(i, e)'
    BY DEF Streams
  <2>1. "close" \notin asked[i]  BY <1>1
  <2>2. table.id[e] = i /\ conn'[e] = conn[e] /\ told'[i] = told[i]  OBVIOUS
  <2>3. ~DataOf(Head(mail), i)
    <3>1. Head(mail).type = type  BY DEF Handle
    <3> QED  BY <3>1 DEF DataOf
  <2> QED  BY <2>1, <2>2, <2>3, HandledStreams
<1> QED  BY <1>1, <1>2 DEF StreamIInv

\* A client that is new has sent nothing.
LEMMA OnAcceptStream ==
    ASSUME StreamIInv, GateIInv', OnAccept
    PROVE  StreamIInv'
<1>0. GateIInv /\ Handle("ACCEPT")  BY DEF StreamIInv, OnAccept
<1>1. CASE hashid_full(table)
  <2>1. /\ asked' = [asked EXCEPT ![From] = @ \cup {"close"}]
        /\ table' = table /\ conn' = conn /\ told' = told
    BY <1>1, Zenon DEF OnAccept, Ask
  <2>2. "ACCEPT" # "DATA"  OBVIOUS
  <2> QED  BY <1>0, <2>1, <2>2, NoDataStep
<1>2. CASE ~hashid_full(table)
  <2> PICK new : new = hashid_insert(table, From)  OBVIOUS
  <2> PICK e : e = hashid_lookup(new, From)  OBVIOUS
  <2> PICK notes : notes = <<[command |-> "connect"]>>  OBVIOUS
  <2>1. running /\ From \in Ids /\ told[From] = <<>> /\ mail' \in Seq(Messages)
    BY <1>0, HandleFacts
  <2>2. From \in Nat /\ From # NoId  BY <2>1, RealId
  <2>3. From \notin Served  BY <1>0, <2>1, ServedConnected
  <2>4. TableOK(table) /\ Held(table) = Served  BY <1>0, <2>1 DEF GateIInv, TableServes
  <2>5. e \in Entries /\ new.id = [table.id EXCEPT ![e] = From]
    <3>1. PICK d \in Entries : /\ new.id = [table.id EXCEPT ![d] = From]
                              /\ hashid_lookup(new, From) = d
      BY <1>2, <2>2, <2>3, <2>4, InsertOK
    <3>2. d = e  BY <3>1
    <3> QED  BY <3>1, <3>2
  <2>6. /\ table' = new
        /\ conn' = [conn EXCEPT ![e] = [fd |-> From, buffer |-> <<>>]]
        /\ told' = [told EXCEPT ![From] = @ \o notes]
        /\ asked' = [asked EXCEPT ![From] = @ \cup {"start"}]
    BY <1>2, Zenon DEF OnAccept, Tell, Ask
  <2>7. /\ notes # <<>> /\ Len(notes) = 1
        /\ told'[From] = notes /\ \A i \in Ids : i # From => told'[i] = told[i]
    <3>1. notes \in Seq(Notes) /\ Len(notes) = 1 /\ notes # <<>>  BY SessionBegins
    <3>2. told \in [Ids -> Seq(Notes)]  BY <1>0 DEF GateIInv, GateTyped
    <3>3. told[From] \o notes = notes  BY <2>1, <3>1
    <3>4. told' = [told EXCEPT ![From] = notes]  BY <2>6, <3>3
    <3> QED  BY <2>1, <3>1, <3>2, <3>4
  <2>8. /\ conn'[e].buffer = <<>> /\ \A d \in Entries : d # e => conn'[d] = conn[d]
    <3>1. conn \in [Entries -> [fd : Ids \cup {NoId}, buffer : Seq(Byte)]]  BY <1>0 DEF GateIInv, GateTyped
    <3>2. conn'[e] = [fd |-> From, buffer |-> <<>>]  BY <2>5, <2>6, <3>1
    <3> QED  BY <2>5, <2>6, <3>1, <3>2
  <2>9. new.id[e] = From /\ \A d \in Entries : d # e => new.id[d] = table.id[d]
    BY <2>4, <2>5 DEF TableOK, Tables
  <2>10. /\ NotStarted' /\ asked' \in [Ids -> SUBSET {"start", "close"}]
         /\ \A i \in Ids : asked[i] \subseteq asked'[i]
    <3>1. \A i \in Ids : told'[i] = <<>> => told[i] = <<>>  BY <2>7
    <3>2. asked' = [asked EXCEPT ![From] = @ \cup {"start"}] /\ told'[From] # <<>>  BY <2>6, <2>7
    <3> QED  BY <1>0, <3>1, <3>2, HandledNotStarted
  <2>11. Streams'
    <3> SUFFICES ASSUME NEW d \in Entries, NEW i \in Ids, table'.id[d] = i, "close" \notin asked'[i]
                 PROVE  InStream(i, d)'
      BY DEF Streams
    <3>1. new.id[d] = i  BY <2>6
    <3>2. CASE d = e
      <4>1. i = From  BY <2>9, <3>1, <3>2
      <4>2. \A n \in DOMAIN mail' : ~DataOf(mail'[n], From)
        <5>1. "start" \notin asked[From]  BY <2>1 DEF StreamIInv, NotStarted
        <5>2. \A n \in DOMAIN mail : ~DataOf(mail[n], From)  BY <2>1, <5>1 DEF StreamIInv, NotStarted
        <5> QED  BY <1>0, <5>2, TailFrom
      <4>3. sent'[From] = 0
        <5>1. "start" \notin asked[From]  BY <2>1 DEF StreamIInv, NotStarted
        <5> QED  BY <1>0, <2>1, <5>1 DEF StreamIInv, NotStarted, Handle
      <4>4. client' = client /\ client.packages[From] \in Seq(Int)
        BY <1>0, <2>1 DEF GateIInv, GateTyped, Handle
      <4>5. Len(mail') \in Nat /\ DOMAIN mail' = 1 .. Len(mail')  BY <2>1
      <4> PICK sizes, last, buffer, messages :
            sizes = client.packages[From] /\ last = sent'[From] /\ buffer = conn'[d].buffer /\ messages = mail'
        OBVIOUS
      <4>6. InOrder(From, sizes, notes, messages, 0, <<>>)
        <5>1. sizes \in Seq(Int) /\ Len(notes) = 1 /\ Len(messages) \in Nat
          BY <2>7, <4>4, <4>5
        <5>2. \A n \in 1 .. Len(messages) : ~DataOf(messages[n], From)  BY <4>2, <4>5
        <5> QED  BY ONLY <5>1, <5>2, InOrderBegins
      <4>7. last = 0 /\ buffer = <<>>  BY <2>8, <3>2, <4>3
      <4> QED  BY <2>7, <4>1, <4>4, <4>6, <4>7 DEF InStream
    <3>3. CASE d # e
      <4>1. table.id[d] = i /\ conn'[d] = conn[d]  BY <2>8, <2>9, <3>1, <3>3
      <4>2. i # From
        <5>1. i # NoId  BY RealId
        <5>2. i \in Held(table)  BY <4>1, <5>1 DEF Held, Used
        <5> QED  BY <2>3, <2>4, <5>2
      <4>3. "close" \notin asked[i] /\ told'[i] = told[i]  BY <2>7, <2>10, <4>2
      <4>4. ~DataOf(Head(mail), i)
        <5>1. Head(mail).type = "ACCEPT"  BY <1>0 DEF Handle
        <5> QED  BY <5>1 DEF DataOf
      <4> QED  BY <1>0, <4>1, <4>3, <4>4, HandledStreams
    <3> QED  BY <3>2, <3>3
  <2> QED  BY <2>10, <2>11 DEF StreamIInv
<1> QED  BY <1>1, <1>2

\* A client that is gone is not in the table; the others are where they were.
LEMMA OnCloseOrErrorStream ==
    ASSUME StreamIInv, GateIInv', OnCloseOrError
    PROVE  StreamIInv'
<1>1. PICK type : type # "DATA" /\ Handle(type)  BY DEF OnCloseOrError
<1>2. GateIInv /\ asked' = asked  BY DEF StreamIInv, OnCloseOrError
<1>3. running /\ From \in Ids  BY <1>1, <1>2, HandleFacts
<1>4. CASE Entry < 0
  <2>1. table' = table /\ conn' = conn /\ told' = told  BY <1>4 DEF OnCloseOrError
  <2> QED  BY <1>1, <1>2, <2>1, NoDataStep
<1>5. CASE ~(Entry < 0)
  <2> PICK e, new, note : /\ e = Entry /\ new = hashid_remove(table, From)
                          /\ note = <<[command |-> "disconnect"]>>
    OBVIOUS
  <2>1. From \in Served /\ e \in Entries  BY <1>2, <1>3, <1>5, EntryFacts
  <2>2. From \in Nat /\ told[From] \in Seq(Notes) /\ told[From] # <<>>
    BY <1>2, <1>3, <2>1, ServedConnected
  <2>3. /\ table' = new /\ told' = [told EXCEPT ![From] = @ \o note]
        /\ conn' = [conn EXCEPT ![e] = Unused]
    BY <1>5, Zenon DEF OnCloseOrError, Tell
  <2>4. TableOK(table) /\ Held(table) = Served  BY <1>2, <1>3 DEF GateIInv, TableServes
  <2>5. /\ Held(new) = Served \ {From}
        /\ new.id[e] = NoId /\ \A d \in Entries : d # e => new.id[d] = table.id[d]
    BY <2>1, <2>2, <2>4, RemoveOK DEF Entry
  <2>6. \A d \in Entries : d # e => conn'[d] = conn[d]
    <3>1. conn \in [Entries -> [fd : Ids \cup {NoId}, buffer : Seq(Byte)]]  BY <1>2 DEF GateIInv, GateTyped
    <3> QED  BY <2>3, <3>1
  <2>7. \A i \in Ids : /\ i # From => told'[i] = told[i]
                       /\ told'[i] = <<>> => told[i] = <<>>
    <3>1. told \in [Ids -> Seq(Notes)]  BY <1>2 DEF GateIInv, GateTyped
    <3>2. told[From] \o note # <<>>
      <4> PICK N, s : N = Notes /\ s = told[From]  OBVIOUS
      <4>1. s \in Seq(N) /\ s # <<>>  BY <2>2
      <4>2. note \in Seq({[command |-> "disconnect"]})  OBVIOUS
      <4>3. s \o note # <<>>  BY ONLY <4>1, <4>2
      <4> QED  BY <4>3
    <3>3. told'[From] = told[From] \o note  BY <1>3, <2>3, <3>1
    <3>4. \A i \in Ids : i # From => told'[i] = told[i]  BY <2>3, <3>1
    <3> QED  BY <3>2, <3>3, <3>4
  <2>8. \A d \in Entries, i \in Ids : new.id[d] = i =>
            table.id[d] = i /\ conn'[d] = conn[d] /\ told'[i] = told[i]
    <3> SUFFICES ASSUME NEW d \in Entries, NEW i \in Ids, new.id[d] = i
                 PROVE  table.id[d] = i /\ conn'[d] = conn[d] /\ told'[i] = told[i]
      OBVIOUS
    <3>1. i # NoId  BY RealId
    <3>2. d # e  BY <2>5, <3>1
    <3>3. i \in Held(new)  BY <3>1 DEF Held, Used
    <3>4. i # From  BY <2>5, <3>3
    <3> QED  BY <2>5, <2>6, <2>7, <3>2, <3>4
  <2>9. /\ \A i \in Ids : told'[i] = <<>> => told[i] = <<>>
        /\ \A d \in Entries, i \in Ids : table'.id[d] = i =>
             table.id[d] = i /\ conn'[d] = conn[d] /\ told'[i] = told[i]
    BY <2>3, <2>7, <2>8
  <2> HIDE <2>3
  <2> QED  BY <1>1, <1>2, <2>9, NoDataStep
<1> QED  BY <1>4, <1>5

\* Data of a client is parsed after what its buffer held.
LEMMA OnDataStream ==
    ASSUME StreamIInv, GateIInv', OnData
    PROVE  StreamIInv'
<1> PICK buffer, result : buffer = conn[Entry].buffer \o Head(mail).bytes /\ result = Forwarded(buffer)
  OBVIOUS
<1>1. /\ Handle("DATA") /\ table' = table
      /\ IF Entry < 0 \/ Len(buffer) > BUFFER_MAX THEN Ask("close") /\ UNCHANGED <<conn, told>>
         ELSE /\ Tell(result.packages)
              /\ conn' = [conn EXCEPT ![Entry].buffer = result.rest]
              /\ IF Readpack(result.rest) < 0 THEN Ask("close") ELSE UNCHANGED asked
  BY DEF OnData
<1>2. GateIInv  BY DEF StreamIInv
<1>3. /\ running /\ From \in Ids /\ Head(mail) \in Messages /\ Head(mail).type = "DATA"
      /\ mail \in Seq(Messages) /\ mail # <<>> /\ mail' = Tail(mail) /\ sent' = sent /\ client' = client
  BY <1>1, <1>2, HandleFacts DEF Handle, GateIInv, GateTyped
<1>4. \A i \in Ids : DataOf(Head(mail), i) <=> i = From
  <2>1. From = Head(mail).id  BY DEF From
  <2> QED  BY <1>3, <2>1 DEF DataOf
<1>5. \/ asked' = [asked EXCEPT ![From] = @ \cup {"close"}]
      \/ asked' = asked
  BY <1>1 DEF Ask
<1>6. told \in [Ids -> Seq(Notes)] /\ conn \in [Entries -> [fd : Ids \cup {NoId}, buffer : Seq(Byte)]]
      /\ asked \in [Ids -> SUBSET {"start", "close"}]
  BY <1>2 DEF GateIInv, GateTyped, StreamIInv
<1>7. CASE Entry < 0 \/ Len(buffer) > BUFFER_MAX
  <2>1. /\ asked' = [asked EXCEPT ![From] = @ \cup {"close"}] /\ conn' = conn /\ told' = told
    BY <1>1, <1>7 DEF Ask
  <2>2. /\ NotStarted' /\ asked' \in [Ids -> SUBSET {"start", "close"}]
        /\ \A i \in Ids : asked[i] \subseteq asked'[i]
    BY <1>1, <2>1, HandledNotStarted
  <2>3. Streams'
    <3> SUFFICES ASSUME NEW d \in Entries, NEW i \in Ids, table'.id[d] = i, "close" \notin asked'[i]
                 PROVE  InStream(i, d)'
      BY DEF Streams
    <3>1. i # From  BY <1>6, <2>1
    <3>2. /\ table.id[d] = i /\ "close" \notin asked[i] /\ conn'[d] = conn[d] /\ told'[i] = told[i]
          /\ ~DataOf(Head(mail), i)
      BY <1>1, <1>4, <2>1, <2>2, <3>1
    <3> QED  BY <1>1, <3>2, HandledStreams
  <2> QED  BY <2>2, <2>3 DEF StreamIInv
<1>8. CASE ~(Entry < 0 \/ Len(buffer) > BUFFER_MAX)
  <2> PICK e, w, r : e = Entry /\ w = result.packages /\ r = result.rest  OBVIOUS
  <2>1. From \in Served /\ e \in Entries /\ table.id[e] = From
    BY <1>2, <1>3, <1>8, EntryFacts
  <2>2. /\ told' = [told EXCEPT ![From] = @ \o w] /\ conn' = [conn EXCEPT ![e].buffer = r]
        /\ Readpack(r) < 0 => asked' = [asked EXCEPT ![From] = @ \cup {"close"}]
    BY <1>1, <1>8 DEF Tell, Ask
  <2>3. told[From] \in Seq(Notes) /\ told[From] # <<>>  BY <1>2, <1>3, <2>1, ServedConnected
  <2>4. /\ told'[From] = told[From] \o w /\ \A i \in Ids : i # From => told'[i] = told[i]
        /\ conn'[e].buffer = r /\ \A d \in Entries : d # e => conn'[d] = conn[d]
    <3>1. told'[From] = told[From] \o w /\ \A i \in Ids : i # From => told'[i] = told[i]
      BY <1>3, <1>6, <2>2
    <3>2. conn'[e].buffer = r /\ \A d \in Entries : d # e => conn'[d] = conn[d]
      <4> PICK C, c : C = [fd : Ids \cup {NoId}, buffer : Seq(Byte)] /\ c = [conn[e] EXCEPT !.buffer = r]  OBVIOUS
      <4>1. conn' = [conn EXCEPT ![e] = c]  BY <2>2
      <4>2. c.buffer = r  BY <1>6, <2>1
      <4>3. conn \in [Entries -> C]  BY <1>6
      <4> QED  BY ONLY <2>1, <4>1, <4>2, <4>3
    <3> QED  BY <3>1, <3>2
  <2>5. told'[From] # <<>>
    <3>1. w \in Seq(Forwards)
      <4>1. buffer \in Seq(Byte)
        <5> PICK a, b : a = conn[Entry].buffer /\ b = Head(mail).bytes  OBVIOUS
        <5>1. Head(mail) \in [type : {"DATA"}, id : Ids, bytes : Seq(Byte)]  BY <1>3 DEF Messages
        <5>2. b \in Seq(Byte)  BY <5>1
        <5>3. a \in Seq(Byte)  BY <1>6, <2>1
        <5>4. buffer = a \o b  OBVIOUS
        <5> QED  BY <5>2, <5>3, <5>4
      <4> QED  BY <4>1, ForwardedTyped
    <3> PICK N, F, s : N = Notes /\ F = Forwards /\ s = told[From]  OBVIOUS
    <3>2. s \in Seq(N) /\ s # <<>> /\ w \in Seq(F)  BY <2>3, <3>1
    <3>3. s \o w # <<>>  BY ONLY <3>2
    <3> QED  BY <2>4, <3>3
  <2>6. \A i \in Ids : told'[i] = <<>> => told[i] = <<>>  BY <2>4, <2>5
  <2>7. /\ NotStarted' /\ asked' \in [Ids -> SUBSET {"start", "close"}]
        /\ \A i \in Ids : asked[i] \subseteq asked'[i]
    BY <1>1, <1>5, <2>6, HandledNotStarted
  <2>8. Streams'
    <3> SUFFICES ASSUME NEW d \in Entries, NEW i \in Ids, table'.id[d] = i, "close" \notin asked'[i]
                 PROVE  InStream(i, d)'
      BY DEF Streams
    <3>1. table.id[d] = i /\ "close" \notin asked[i]  BY <1>1, <2>7
    <3>2. CASE d = e
      <4>1. i = From /\ InStream(From, e)
        <5>1. i = From  BY <2>1, <3>1, <3>2
        <5> QED  BY <1>3, <2>1, <3>1, <5>1 DEF StreamIInv, Streams
      <4>2. ~(Readpack(r) < 0)
        <5> SUFFICES ASSUME Readpack(r) < 0 PROVE FALSE  OBVIOUS
        <5>1. asked' = [asked EXCEPT ![From] = @ \cup {"close"}]  BY <2>2
        <5>2. "close" \in asked'[From]  BY <1>3, <1>6, <5>1
        <5> QED  BY <4>1, <5>2
      <4> PICK sizes, notes, last, old : /\ sizes = client.packages[From] /\ notes = told[From]
                                         /\ last = sent[From] /\ old = conn[e].buffer
        OBVIOUS
      <4>3. InOrder(From, sizes, notes, mail, last, old)  BY <4>1 DEF InStream
      <4>4. sizes \in Seq(Int) /\ notes \in Seq(Notes) /\ notes # <<>> /\ DataOf(Head(mail), From)
        BY <1>2, <1>3, <1>4, <2>3 DEF GateIInv, GateTyped
      <4>5. result = Forwarded(old \o Head(mail).bytes)  OBVIOUS
      <4>6. InOrder(From, sizes, notes \o result.packages, Tail(mail), last, result.rest)
        <5>1. ~(Readpack(result.rest) < 0)  BY <4>2
        <5> QED  BY <1>3, <4>3, <4>4, <4>5, <5>1, InOrderParsed
      <4>7. /\ client'.packages[From] = sizes /\ told'[From] = notes \o result.packages
            /\ mail' = Tail(mail) /\ sent'[From] = last /\ conn'[e].buffer = result.rest
        BY <1>3, <2>4
      <4> QED  BY <3>2, <4>1, <4>6, <4>7 DEF InStream
    <3>3. CASE d # e
      <4>1. i # From
        <5>1. IdsOnce(table)  BY <1>2, <1>3 DEF GateIInv, TableServes, TableOK, Chained
        <5>2. i # NoId  BY RealId
        <5>3. CASE i = From
          <6>1. d \in Used(table) /\ e \in Used(table) /\ table.id[d] = table.id[e]
            BY <2>1, <3>1, <5>2, <5>3 DEF Used
          <6> QED  BY <3>3, <5>1, <6>1 DEF IdsOnce
        <5> QED  BY <5>3
      <4>2. conn'[d] = conn[d] /\ told'[i] = told[i] /\ ~DataOf(Head(mail), i)
        BY <1>4, <2>4, <3>3, <4>1
      <4> QED  BY <1>1, <3>1, <4>2, HandledStreams
    <3> QED  BY <3>2, <3>3
  <2> QED  BY <2>7, <2>8 DEF StreamIInv
<1> QED  BY <1>7, <1>8

\* Every step keeps the invariant.
LEMMA StreamIInvNext ==
    ASSUME StreamIInv, [GateNext]_gateVars
    PROVE  StreamIInv'
<1>0. GateIInv /\ GateIInv'  BY GateIInvNext DEF StreamIInv
<1>1. CASE UNCHANGED gateVars
  <2>1. /\ seen' = seen /\ asked' = asked /\ mail' = mail /\ sent' = sent /\ client' = client
        /\ table' = table /\ conn' = conn /\ told' = told /\ running' = running
    BY <1>1 DEF gateVars
  <2>2. NotStarted'  BY <2>1 DEF StreamIInv, NotStarted
  <2>3. Streams'  BY <2>1 DEF StreamIInv, Streams, InStream
  <2> QED  BY <1>0, <2>1, <2>2, <2>3 DEF StreamIInv
<1>2. ASSUME NEW i \in Ids,
             \/ ClientAccepted(i) \/ ClientStarted(i) \/ ClientSends(i) \/ ClientCloses(i)
             \/ SocketError(i) \/ KickAsked(i)
      PROVE  StreamIInv'
  BY <1>0, <1>2, OutsideStep
<1>3. CASE OnAccept  BY <1>0, <1>3, OnAcceptStream
<1>4. CASE OnConnect
  <2>1. /\ Handle("CONNECT") /\ table' = table /\ conn' = conn /\ told' = told
        /\ asked' = [asked EXCEPT ![From] = @ \cup {"close"}] \/ asked' = asked
    BY <1>4 DEF OnConnect, Ask
  <2>2. "CONNECT" # "DATA"  OBVIOUS
  <2> QED  BY <1>0, <2>1, <2>2, NoDataStep
<1>5. CASE OnData  BY <1>0, <1>5, OnDataStream
<1>6. CASE OnCloseOrError  BY <1>0, <1>6, OnCloseOrErrorStream
<1>7. CASE OnKick
  <2>1. /\ Handle("kick") /\ table' = table /\ conn' = conn /\ told' = told
        /\ asked' = [asked EXCEPT ![From] = @ \cup {"close"}]
    BY <1>7 DEF OnKick, Ask
  <2>2. "kick" # "DATA"  OBVIOUS
  <2> QED  BY <1>0, <2>1, <2>2, NoDataStep
<1>8. CASE Release
  <2>1. /\ running' = FALSE /\ mail' = mail /\ seen' = seen /\ sent' = sent /\ told' = told
        /\ asked' = [i \in Ids |-> asked[i] \cup {q \in {"close"} : \E e \in Entries : conn[e].fd = i}]
    BY <1>8 DEF Release
  <2>2. asked \in [Ids -> SUBSET {"start", "close"}]  BY DEF StreamIInv
  <2>3. asked' \in [Ids -> SUBSET {"start", "close"}]  BY <2>1, <2>2
  <2>4. \A i \in Ids : "start" \in asked'[i] <=> "start" \in asked[i]  BY <2>1
  <2>5. NotStarted'  BY <2>1, <2>4 DEF StreamIInv, NotStarted
  <2>6. Streams'  BY <2>1 DEF Streams
  <2> QED  BY <1>0, <2>3, <2>5, <2>6 DEF StreamIInv
<1> QED  BY <1>1, <1>2, <1>3, <1>4, <1>5, <1>6, <1>7, <1>8 DEF GateNext, Callback

-----------------------------------------------------------------------------
(* What the gate keeps *)

\* So it holds at any time.
LEMMA GateIInvAlways == GateSpec => []GateIInv
BY GateIInvInit, GateIInvNext, PTL DEF GateSpec

\* However ids collide, whatever was removed in between and whatever the size of the table and
\* the number of its buckets: hashid.h finds the connections of the clients that the other
\* service takes for connected and no others, and what is free is as it was at first.
THEOREM GateInvAlways == GateSpec => []GateInv
<1>1. ASSUME GateIInv PROVE GateInv
  <2> SUFFICES ASSUME running
               PROVE  /\ Holds(table, Served)
                      /\ \A i \in Served : conn[hashid_lookup(table, i)].fd = i
                      /\ \A e \in Entries : table.id[e] = NoId => conn[e] = Unused
    BY DEF GateInv
  <2>1. TableOK(table) /\ Held(table) = Served /\ Fits(table, conn)
    BY <1>1 DEF GateIInv, TableServes
  <2>2. Holds(table, Served)  BY <2>1, TableHolds
  <2>3. ASSUME NEW i \in Served PROVE conn[hashid_lookup(table, i)].fd = i
    <3>0. i \in Ids  BY Zenon DEF Served
    <3>1. i \in Nat /\ i # NoId  BY <3>0, RealId
    <3>2. /\ hashid_lookup(table, i) \in Used(table) /\ table.id[hashid_lookup(table, i)] = i
      BY <2>1, <3>1, LookupFacts DEF TableOK
    <3> QED  BY <2>1, <3>1, <3>2 DEF Fits, Used
  <2>4. \A e \in Entries : table.id[e] = NoId => conn[e] = Unused  BY <2>1 DEF Fits
  <2> QED  BY <2>2, <2>3, <2>4
<1> QED  BY <1>1, GateIInvAlways, PTL

\* The other service is told of each connection once, of its packages, and of its end once and
\* last, whatever the clients send and in whatever order errors, ends and kicks come.
THEOREM SessionsAlways == GateSpec => []Sessions
<1>1. GateIInv => Sessions  BY DEF GateIInv
<1> QED  BY <1>1, GateIInvAlways, PTL

\* The order of what a client sends is kept at any time.
LEMMA StreamIInvAlways == GateSpec => []StreamIInv
BY StreamIInvInit, StreamIInvNext, PTL DEF GateSpec

\* So much has come of what the client sends, and no whole package waits.
InFrame(sizes, notes, buffer) ==
    LET packages == Tail(notes)
        come == FirstPackages(sizes)[Len(packages)] \o buffer
    IN  /\ \A n \in DOMAIN packages : packages[n].package = n
        /\ come = SubSeq(All(sizes), 1, Len(come))
        /\ Len(buffer) >= HeadSize /\ Head(buffer).size # 0 => Head(buffer).size > Len(buffer) - HeadSize

\* What is in order is framed: the place in the stream is where the buffer ends.
LEMMA InOrderFramed ==
    ASSUME NEW sizes \in Seq(Int), NEW i, NEW notes \in Seq(Notes), notes # <<>>, NEW messages, NEW last,
           NEW buffer, InOrder(i, sizes, notes, messages, last, buffer)
    PROVE  InFrame(sizes, notes, buffer)
<1> PICK packages, come : packages = Tail(notes) /\ come = FirstPackages(sizes)[Len(packages)] \o buffer
  OBVIOUS
<1> PICK c : c = Len(notes) - 1  OBVIOUS
<1>1. /\ c <= Len(sizes) /\ \A n \in 1 .. c : notes[n + 1].package = n
      /\ \E p \in 0 .. Len(All(sizes)) : Parsed(sizes, c, buffer, p)
  BY DEF InOrder
<1>2. c \in 0 .. Len(sizes) /\ Len(packages) = c /\ \A n \in 1 .. c : packages[n] = notes[n + 1]
  <2> PICK N, l, k : N = Notes /\ l = Len(notes) /\ k = Len(sizes)  OBVIOUS
  <2>1. notes \in Seq(N) /\ notes # <<>> /\ packages = Tail(notes) /\ c = l - 1  OBVIOUS
  <2>2. l \in Nat \ {0} /\ Len(packages) = l - 1 /\ \A n \in 1 .. l - 1 : packages[n] = notes[n + 1]
    BY ONLY <2>1, l = Len(notes)
  <2>3. k \in Nat /\ c <= k  BY <1>1
  <2>4. c \in 0 .. k  BY ONLY <2>1, <2>2, <2>3
  <2> QED  BY <2>1, <2>2, <2>4
<1>3. \A n \in DOMAIN packages : packages[n].package = n
  <2>1. DOMAIN packages = 1 .. c
    <3> PICK N : N = Notes  OBVIOUS
    <3>1. notes \in Seq(N) /\ notes # <<>> /\ packages = Tail(notes)  OBVIOUS
    <3>2. DOMAIN packages = 1 .. Len(packages)  BY ONLY <3>1
    <3> QED  BY <1>2, <3>2
  <2> QED  BY <1>1, <1>2, <2>1
<1> PICK p \in 0 .. Len(All(sizes)) : Parsed(sizes, c, buffer, p)  BY <1>1
<1> PICK all, L, a, first : /\ all = All(sizes) /\ L = Len(all) /\ a = End(sizes, c)
                            /\ first = FirstPackages(sizes)[c]
  OBVIOUS
<1>4. p \in a .. L /\ buffer = SubSeq(all, a + 1, p) /\ Readpack(buffer) = 0  BY DEF Parsed
<1>5. all \in Seq(Byte) /\ a \in 0 .. L /\ L \in Nat /\ a \in Nat
  <2>1. all \in Seq(Byte)  BY Places
  <2>2. a \in 0 .. L  BY <1>2, Places
  <2>3. L \in Nat  BY <2>1
  <2> QED  BY <2>1, <2>2, <2>3
<1>6. first = SubSeq(all, 1, a)
  <2> PICK t : t = SubSeq(all, 0 + 1, a)  OBVIOUS
  <2>1. first \in Seq(Byte) /\ Len(first) = a
    <3>1. first \in Seq(Byte)  BY <1>2, FirstFacts
    <3> QED  BY <3>1 DEF End
  <2>2. \A k \in 1 .. a : first[k] = all[k]  BY <1>2, Places
  <2>3. 0 \in Nat /\ a \in 0 .. Len(all) /\ a - 0 = a /\ \A k \in 1 .. a : 0 + k = k  BY <1>5
  <2>4. t \in Seq(Byte) /\ Len(t) = a - 0 /\ \A k \in 1 .. a - 0 : t[k] = all[0 + k]
    BY <1>5, <2>3, Pieces
  <2>5. Len(t) = a /\ \A k \in 1 .. a : t[k] = first[k]  BY <2>2, <2>3, <2>4
  <2>6. t = first  BY <2>1, <2>4, <2>5, SeqEqual
  <2>7. 0 + 1 = 1  OBVIOUS
  <2> QED  BY <2>6, <2>7
<1>7. come = SubSeq(all, 1, p)
  <2>1. SubSeq(all, 0 + 1, a) \o SubSeq(all, a + 1, p) = SubSeq(all, 0 + 1, p)
    <3>1. 0 \in Nat /\ a \in 0 .. Len(all) /\ p \in a .. Len(all)  BY <1>4, <1>5
    <3> QED  BY <1>5, <3>1, PiecesJoin
  <2>2. come = first \o buffer  BY <1>2
  <2>3. 0 + 1 = 1  OBVIOUS
  <2> QED  BY <1>4, <1>6, <2>1, <2>2, <2>3
<1>8. Len(come) = p
  <2>1. 0 \in Nat /\ p \in 0 .. Len(all) /\ p - 0 = p /\ 0 + 1 = 1  BY <1>4, <1>5
  <2>2. Len(SubSeq(all, 0 + 1, p)) = p - 0  BY <1>5, <2>1, Pieces
  <2> QED  BY <1>7, <2>1, <2>2
<1>9. come = SubSeq(All(sizes), 1, Len(come))  BY <1>7, <1>8
<1>10. ASSUME Len(buffer) >= HeadSize, Head(buffer).size # 0
       PROVE  Head(buffer).size > Len(buffer) - HeadSize
  <2> PICK l, k : l = Len(buffer) /\ k = Head(buffer).size  OBVIOUS
  <2>1. l \in Nat
    <3>1. buffer \in Seq(Byte)  BY <1>4, <1>5, Pieces
    <3> QED  BY <3>1
  <2>2. ~(l < HeadSize)  BY <1>10, <2>1, GateAssumption
  <2>3. (IF l < HeadSize \/ k > l - HeadSize THEN 0 ELSE k) = 0  BY <1>4 DEF Readpack
  <2> QED  BY <1>10, <2>2, <2>3
<1> QED  BY <1>3, <1>9, <1>10 DEF InFrame

\* Whatever pieces the bytes of the clients come in, and in whatever entries of the table they
\* are: the packages are forwarded in order, what was forwarded and what waits in the buffer is
\* what was sent, and no whole package waits, unless the gate asked to close the connection.
THEOREM FramedAlways == GateSpec => []Framed
<1>1. ASSUME StreamIInv PROVE Framed
  <2> SUFFICES ASSUME NEW i \in Served, running, "close" \notin asked[i]
               PROVE  LET buffer == conn[hashid_lookup(table, i)].buffer
                          packages == Tail(told[i])
                          come == FirstPackages(client.packages[i])[Len(packages)] \o buffer
                      IN  /\ \A n \in DOMAIN packages : packages[n].package = n
                          /\ come = SubSeq(Bytes(i), 1, Len(come))
                          /\ Len(buffer) >= HeadSize /\ Head(buffer).size # 0 =>
                                Head(buffer).size > Len(buffer) - HeadSize
    BY DEF Framed
  <2>1. GateIInv /\ i \in Ids  BY <1>1, Zenon DEF StreamIInv, Served
  <2> PICK e, sizes, notes, buffer : /\ e = hashid_lookup(table, i) /\ sizes = client.packages[i]
                                     /\ notes = told[i] /\ buffer = conn[e].buffer
    OBVIOUS
  <2>2. e \in Entries /\ table.id[e] = i
    <3>1. TableOK(table) /\ Held(table) = Served  BY <2>1 DEF GateIInv, TableServes
    <3>2. i \in Nat  BY <2>1, GateAssumption
    <3>3. e \in Used(table) /\ table.id[e] = i  BY <3>1, <3>2, LookupFacts DEF TableOK
    <3> QED  BY <3>3 DEF Used
  <2>3. InOrder(i, sizes, notes, mail, sent[i], buffer)
    BY <1>1, <2>1, <2>2 DEF StreamIInv, Streams, InStream
  <2>4. sizes \in Seq(Int) /\ notes \in Seq(Notes) /\ notes # <<>>
    BY <2>1, ServedConnected DEF GateIInv, GateTyped
  <2>5. InFrame(sizes, notes, buffer)
    <3> PICK messages, last : messages = mail /\ last = sent[i]  OBVIOUS
    <3>1. InOrder(i, sizes, notes, messages, last, buffer)  BY <2>3
    <3> QED  BY ONLY <2>4, <3>1, InOrderFramed
  <2>6. Bytes(i) = All(sizes)  BY DEF Bytes, All
  <2> QED  BY <2>5, <2>6 DEF InFrame
<1> QED  BY <1>1, StreamIInvAlways, PTL
=============================================================================
