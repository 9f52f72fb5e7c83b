------------------------- MODULE ServiceStorageProofs -------------------------
(***************************************************************************)
(* The storage of skynet_service.c, for any services, names and sizes: the  *)
(* slots and the names agree with the contexts through growth and reuse, no *)
(* assertion fails as far as the slots are those a handle tells apart, and  *)
(* the lookups implement the registry.                                      *)
(*                                                                          *)
(* The assertions of the code compare two tables that grow by doubling from *)
(* the same size.  What the invariant says of them is that each is some     *)
(* number of doublings behind the next: name_cap, slot_size, HandleSize.    *)
(***************************************************************************)
EXTENDS ServiceStorage, FiniteSetTheorems, SequenceTheorems, WellFoundedInduction, TLAPS

-----------------------------------------------------------------------------
(* Remainders, and the numbers reached by doubling *)

\* Every set of natural numbers that is not empty has a least element.
LEMMA LeastElement ==
    ASSUME NEW T \in SUBSET Nat, T # {}
    PROVE  \E n \in T : \A m \in T : n <= m
<1> DEFINE R == OpToRel(<, Nat)
<1>1. IsWellFoundedOn(R, Nat)  BY NatLessThanWellFounded
<1>2. \E x \in T : \A y \in T : ~(<<y, x>> \in R)
  <2> HIDE DEF R
  <2> QED  BY <1>1, WFMin
<1>3. PICK x \in T : \A y \in T : ~(<<y, x>> \in R)  BY <1>2
<1>4. \A y \in T : ~(y < x)  BY <1>3 DEF OpToRel
<1> QED  BY <1>4

\* The next multiple of m.
LEMMA MulGe ==
    ASSUME NEW m \in Nat, NEW q \in Int, NEW r \in Int, q < r
    PROVE  q * m + m <= r * m
OBVIOUS

\* Quotient and remainder.
LEMMA DivMod ==
    ASSUME NEW x \in Int, NEW m \in Nat \ {0}
    PROVE  /\ x % m \in 0 .. m - 1
           /\ x \div m \in Int
           /\ x = (x \div m) * m + (x % m)
OBVIOUS

\* A remainder is known by any number of multiples that leaves it.
LEMMA ModIs ==
    ASSUME NEW m \in Nat \ {0}, NEW q \in Int, NEW r \in 0 .. m - 1,
           NEW x, x = q * m + r
    PROVE  x % m = r
<1>0. x \in Int  OBVIOUS
<1> PICK p : p = x \div m  OBVIOUS
<1>1. p \in Int /\ x = p * m + (x % m) /\ x % m \in 0 .. m - 1
  BY <1>0, DivMod
<1>2. ~(p < q)
  <2> SUFFICES ASSUME p < q PROVE FALSE  OBVIOUS
  <2>1. p * m + m <= q * m  BY <1>1, MulGe
  <2> QED  BY <1>1, <2>1
<1>3. ~(q < p)
  <2> SUFFICES ASSUME q < p PROVE FALSE  OBVIOUS
  <2>1. q * m + m <= p * m  BY <1>1, MulGe
  <2> QED  BY <1>1, <2>1
<1>4. p = q  BY <1>1, <1>2, <1>3
<1> QED  BY <1>1, <1>4

\* A number of multiples of n, and less than m more, where m divides n.
LEMMA ModOfMultiple ==
    ASSUME NEW m \in Nat \ {0}, NEW n \in Nat, n % m = 0, NEW a \in Int, NEW i \in 0 .. m - 1
    PROVE  (a * n + i) % m = i
<1> PICK q : q = n \div m  OBVIOUS
<1>1. q \in Int /\ n = q * m  BY DivMod
<1> PICK b : b = a * q  OBVIOUS
<1>2. b \in Int /\ a * n + i = b * m + i  BY <1>1
<1> PICK x : x = a * n + i  OBVIOUS
<1>3. x = b * m + i  BY <1>2
<1>4. x % m = i  BY ONLY <1>2, <1>3, m \in Nat \ {0}, i \in 0 .. m - 1, ModIs
<1> QED  BY <1>4

\* Two numbers that leave one remainder, and are less than m apart, are one.
LEMMA ModClose ==
    ASSUME NEW m \in Nat \ {0}, NEW x \in Int, NEW y \in Int, x % m = y % m,
           x - y < m, y - x < m
    PROVE  x = y
<1> PICK p, q : p = x \div m /\ q = y \div m  OBVIOUS
<1> PICK r : r = x % m  OBVIOUS
<1>1. p \in Int /\ x = p * m + r /\ r \in 0 .. m - 1  BY DivMod
<1>2. q \in Int /\ y = q * m + r  BY DivMod
<1>3. ~(p < q)
  <2> SUFFICES ASSUME p < q PROVE FALSE  OBVIOUS
  <2>1. p * m + m <= q * m  BY <1>1, <1>2, MulGe
  <2> QED  BY <1>1, <1>2, <2>1
<1>4. ~(q < p)
  <2> SUFFICES ASSUME q < p PROVE FALSE  OBVIOUS
  <2>1. q * m + m <= p * m  BY <1>1, <1>2, MulGe
  <2> QED  BY <1>1, <1>2, <2>1
<1>5. p = q  BY <1>1, <1>2, <1>3, <1>4
<1> QED  BY <1>1, <1>2, <1>5

\* What divides a divisor divides.
LEMMA DividesTransitive ==
    ASSUME NEW m \in Nat \ {0}, NEW n \in Nat \ {0}, NEW x \in Int, n % m = 0, x % n = 0
    PROVE  x % m = 0
<1> PICK a : a = x \div n  OBVIOUS
<1>1. a \in Int /\ x = a * n + (x % n)  BY DivMod
<1>2. 0 \in 0 .. m - 1 /\ n \in Nat  OBVIOUS
<1>3. (a * n + 0) % m = 0  BY ONLY <1>1, <1>2, n % m = 0, m \in Nat \ {0}, ModOfMultiple
<1>4. x = a * n + 0  BY <1>1
<1> QED  BY <1>3, <1>4

\* Moving on k places, within the current multiple of m or into the next.
LEMMA ModAdd ==
    ASSUME NEW m \in Nat \ {0}, NEW x \in Nat, NEW k \in 0 .. m - 1
    PROVE  (x + k) % m = IF (x % m) + k < m THEN (x % m) + k ELSE (x % m) + k - m
<1> PICK q, r : q = x \div m /\ r = x % m  OBVIOUS
<1>1. q \in Int /\ r \in 0 .. m - 1 /\ x = q * m + r  BY DivMod
<1>2. CASE r + k < m
   <2>1. x + k = q * m + (r + k)  BY <1>1
   <2>2. r + k \in 0 .. m - 1  BY <1>1, <1>2
   <2>3. (x + k) % m = r + k  BY <1>1, <2>1, <2>2, ModIs
   <2> QED  BY <1>2, <2>3
<1>3. CASE ~(r + k < m)
   <2>1. x + k = (q + 1) * m + (r + k - m)  BY <1>1
   <2>2. q + 1 \in Int /\ r + k - m \in 0 .. m - 1  BY <1>1, <1>3
   <2>3. (x + k) % m = r + k - m  BY <2>1, <2>2, ModIs
   <2> QED  BY <1>3, <2>3
<1> QED  BY <1>2, <1>3

\* The multiple of m that a number below w is in ends at or before w.
LEMMA BelowMultiple ==
    ASSUME NEW m \in Nat \ {0}, NEW w \in Nat, w % m = 0, NEW x \in Nat, x < w
    PROVE  x - (x % m) + m <= w
<1> PICK q, r, p : q = x \div m /\ r = x % m /\ p = w \div m  OBVIOUS
<1>1. q \in Int /\ r \in 0 .. m - 1 /\ x = q * m + r /\ p \in Int /\ w = p * m
  BY DivMod
<1>2. ~(p <= q)
  <2> SUFFICES ASSUME p <= q PROVE FALSE  OBVIOUS
  <2>1. CASE p = q  BY <2>1, <1>1
  <2>2. CASE p < q
    <3>1. p * m + m <= q * m  BY <1>1, <2>2, MulGe
    <3> QED  BY <3>1, <1>1
  <2> QED  BY <1>1, <2>1, <2>2
<1>3. q * m + m <= p * m  BY <1>1, <1>2, MulGe
<1> QED  BY <1>3, <1>1

\* A number reached from another by doubling it some number of times: it is in
\* every set that has the other and is closed under doubling.
Doublings(t) ==
    {u \in Nat : \A S \in SUBSET Nat : t \in S /\ (\A s \in S : 2 * s \in S) => u \in S}

\* The doublings of t are t and the doublings of 2t.
LEMMA DoublingsStep ==
    ASSUME NEW t \in Nat
    PROVE  Doublings(t) = {t} \union Doublings(2 * t)
<1>1. t \in Doublings(t)  BY DEF Doublings
<1>2. Doublings(2 * t) \subseteq Doublings(t)
  BY DEF Doublings
<1>3. ASSUME NEW u \in Doublings(t), u # t PROVE u \in Doublings(2 * t)
  <2> SUFFICES ASSUME NEW S \in SUBSET Nat, 2 * t \in S, \A s \in S : 2 * s \in S
               PROVE  u \in S
    BY DEF Doublings
  <2>1. u \in S \union {t}
    <3>1. S \union {t} \in SUBSET Nat /\ t \in S \union {t}
          /\ \A s \in S \union {t} : 2 * s \in S \union {t}
      OBVIOUS
    <3> QED  BY <3>1 DEF Doublings
  <2> QED  BY <1>3, <2>1
<1> QED  BY <1>1, <1>2, <1>3

\* The doublings of t are not below t.
LEMMA DoublingsAbove ==
    ASSUME NEW t \in Nat, NEW u \in Doublings(t)
    PROVE  t <= u
<1> DEFINE S == {s \in Nat : t <= s}
<1>1. S \in SUBSET Nat /\ t \in S /\ \A s \in S : 2 * s \in S  OBVIOUS
<1>2. u \in S  BY <1>1 DEF Doublings
<1> QED  BY <1>2

\* Doubling what was reached reaches its double.
LEMMA DoublingsNext ==
    ASSUME NEW t \in Nat, NEW u \in Doublings(t)
    PROVE  2 * u \in Doublings(t)
BY DEF Doublings

\* What is reached from t by doubling is a multiple of it.
LEMMA DoublingsDivide ==
    ASSUME NEW t \in Nat \ {0}, NEW u \in Doublings(t)
    PROVE  u % t = 0
<1> DEFINE S == {s \in Nat : \E q \in Nat : s = q * t}
<1>1. t \in S
  <2>1. 1 \in Nat /\ t = 1 * t  OBVIOUS
  <2> QED  BY <2>1
<1>2. ASSUME NEW s \in S PROVE 2 * s \in S
  <2>1. PICK q \in Nat : s = q * t  OBVIOUS
  <2>2. PICK r \in Nat : r = 2 * q  OBVIOUS
  <2>3. 2 * s = r * t /\ 2 * s \in Nat  BY <2>1, <2>2
  <2> QED  BY ONLY <2>3
<1>3. u \in S  BY <1>1, <1>2 DEF Doublings
<1>4. PICK q \in Nat : u = q * t  BY <1>3
<1>5. u = q * t + 0 /\ 0 \in 0 .. t - 1 /\ q \in Int  BY <1>4
<1> QED  BY <1>5, ModIs

-----------------------------------------------------------------------------
(* The invariant *)

Entries == [name : Names, handle : Handles]

\* how far the tables have grown
SizesInv ==
    /\ slot_size \in Nat \ {0} /\ HandleSize \in Doublings(slot_size)
    /\ name_cap \in Nat \ {0} /\ slot_size \in Doublings(name_cap)

\* what a context knows of itself, and its slot of it
ContextsInv ==
    /\ \A s \in Services :
          /\ phase[s] # "none" => handle[s] \in Handles
          /\ phase[s] = "none" <=> ctxName[s] = None
    /\ \A i \in DOMAIN slot : slot[i] # None => handle[slot[i]] = HarborHandle(i)

TablesInv ==
    /\ StorageInv
    /\ SizesInv
    /\ ContextsInv
    /\ name \in Seq(Entries)
    /\ AssertionsHold

-----------------------------------------------------------------------------
(* Sizes and handles *)

\* The sizes of the tables are positive, and indices wrap at a multiple of the handles.
LEMMA SizesNat ==
    /\ DefaultSlotSize \in Nat \ {0} /\ HandleSize \in Nat \ {0} /\ IndexMask \in Nat
    /\ 2 * HandleSize - 1 <= IndexMask /\ (IndexMask + 1) % HandleSize = 0
    /\ Harbor \in Nat \ {0}
BY SizeAssumption, HandleAssumption

\* what a handle can tell apart is reached from the first size by doubling
LEMMA HandleSizeReached == HandleSize \in Doublings(DefaultSlotSize)
<1> SUFFICES ASSUME NEW S \in SUBSET Nat, DefaultSlotSize \in S, \A s \in S : 2 * s \in S
             PROVE  HandleSize \in S
  BY SizesNat DEF Doublings
<1> DEFINE sizes == S \intersect (1 .. HandleSize)
<1>1. sizes \in SUBSET (1 .. HandleSize)  OBVIOUS
<1>2. DefaultSlotSize \in sizes  BY SizeAssumption
<1>3. \A size \in sizes : 2 * size <= HandleSize => 2 * size \in sizes  BY SizesNat
<1> HIDE DEF sizes
<1>4. HandleSize \in sizes  BY <1>1, <1>2, <1>3, SizeAssumption
<1> QED  BY <1>4 DEF sizes

\* the first capacity of the name table is half the first size
LEMMA NameCapReached ==
    LET half == DefaultSlotSize \div 2
    IN  half \in Nat \ {0} /\ DefaultSlotSize \in Doublings(half)
<1> PICK half : half = DefaultSlotSize \div 2  OBVIOUS
<1>1. half \in Nat \ {0} /\ DefaultSlotSize = 2 * half  BY SizeAssumption
<1>2. DefaultSlotSize \in Doublings(half)  BY <1>1, DoublingsStep
<1> QED  BY <1>1, <1>2

\* a size behind another, and not equal to it, can double and is still not ahead
LEMMA MayGrow ==
    ASSUME NEW t \in Nat \ {0}, NEW u \in Nat, u \in Doublings(t), u # t
    PROVE  2 * t \in Nat \ {0} /\ u \in Doublings(2 * t) /\ 2 * t <= u
<1>1. u \in Doublings(2 * t) /\ 2 * t \in Nat  BY DoublingsStep
<1> QED  BY <1>1, DoublingsAbove

\* every size of the table divides all the indexes _create counts through
LEMMA SizeDivides ==
    ASSUME NEW size \in Nat \ {0}, HandleSize \in Doublings(size)
    PROVE  /\ HandleSize % size = 0 /\ (IndexMask + 1) % size = 0
           /\ size <= HandleSize /\ HandleSize <= IndexMask + 1
<1>1. HandleSize % size = 0  BY DoublingsDivide
<1>2. size <= HandleSize /\ HandleSize <= IndexMask + 1  BY SizesNat, DoublingsAbove
<1> PICK w : w = IndexMask + 1  OBVIOUS
<1>3. w \in Int /\ w % HandleSize = 0 /\ HandleSize \in Nat \ {0}  BY SizesNat
<1>4. w % size = 0  BY <1>1, <1>3, DividesTransitive
<1> QED  BY <1>1, <1>2, <1>4

\* a handle is the harbor's number and the slot
LEMMA HandleFacts ==
    ASSUME NEW i \in 0 .. HandleSize - 1
    PROVE  /\ HarborHandle(i) \in Handles /\ HarborIndex(HarborHandle(i)) = i
           /\ HarborHandle(i) = Harbor * HandleSize + i
           /\ HarborHandle(i) # 0
<1>1. i = 0 * HandleSize + i  BY SizesNat
<1>2. i % HandleSize = i  BY <1>1, SizesNat, ModIs
<1>3. HarborHandle(i) = Harbor * HandleSize + i  BY <1>2 DEF HarborHandle
<1>4. HarborIndex(HarborHandle(i)) = i
  <2> PICK h : h = HarborHandle(i)  OBVIOUS
  <2>1. h = Harbor * HandleSize + i  BY <1>3
  <2>2. h % HandleSize = i  BY <2>1, SizesNat, ModIs
  <2> QED  BY <2>2 DEF HarborIndex
<1>5. HarborHandle(i) \in Handles  BY DEF Handles
<1>6. Harbor * HandleSize > 0  BY SizesNat
<1> QED  BY <1>3, <1>4, <1>5, <1>6, SizesNat

\* A handle's index is less than HandleSize, and is the index of that handle alone.
LEMMA IndexFacts ==
    ASSUME NEW h \in Handles
    PROVE  HarborIndex(h) \in 0 .. HandleSize - 1 /\ HarborHandle(HarborIndex(h)) = h
<1> PICK i \in 0 .. HandleSize - 1 : h = HarborHandle(i)  BY DEF Handles
<1> QED  BY HandleFacts

\* a table of n slots
LEMMA TableSize ==
    ASSUME NEW table, NEW n \in Nat, DOMAIN table = 0 .. n - 1
    PROVE  Cardinality(DOMAIN table) = n
BY FS_Interval
-----------------------------------------------------------------------------
(* Finding a slot *)

\* every slot but slot 0 is looked at, wherever the search starts: the indexes from
\* slot_index on cover a table, and those that would be past INDEX_MASK go on at 1
LEMMA ProbesCover ==
    ASSUME NEW size \in Nat \ {0}, HandleSize \in Doublings(size),
           slot_index \in 0 .. IndexMask + 1, NEW i \in 1 .. size - 1
    PROVE  \E k \in 0 .. size - 1 : Probe(k) % size = i
<1> PICK w, b : w = IndexMask + 1 /\ b = slot_index % size  OBVIOUS
<1>1. w \in Nat /\ w % size = 0 /\ size <= w /\ IndexMask \in Nat
  BY SizesNat, SizeDivides
<1>0. slot_index \in 0 .. w /\ slot_index \in Nat /\ slot_index \in Int  BY <1>1
<1>6. b \in 0 .. size - 1 /\ slot_index = (slot_index \div size) * size + b
  BY <1>0, DivMod
<1>2. slot_index \in 0 .. w /\ slot_index \in Nat /\ b \in 0 .. size - 1
  BY <1>0, <1>6
<1>3. i % size = i
  <2>1. i = 0 * size + i  OBVIOUS
  <2> QED  BY <2>1, ModIs
<1>4. CASE slot_index = w
  <2>1. i - 1 \in 0 .. size - 1 /\ Probe(i - 1) = i  BY <1>1, <1>4 DEF Probe
  <2> QED  BY <1>3, <2>1
<1>5. CASE slot_index < w
  <2>1. slot_index - b + size <= w  BY <1>1, <1>2, <1>5, BelowMultiple
  <2>2. CASE b <= i
    <3>1. i - b \in 0 .. size - 1  BY <1>2, <2>2
    <3>2. Probe(i - b) = slot_index + (i - b)  BY <1>1, <1>2, <2>1, <3>1 DEF Probe
    <3>3. (slot_index + (i - b)) % size = i
      <4> PICK k : k = i - b  OBVIOUS
      <4>1. k \in 0 .. size - 1 /\ b + k = i /\ b + k < size  BY <1>2, <3>1
      <4>2. (slot_index + k) % size = b + k  BY <1>2, <4>1, ModAdd
      <4> QED  BY <4>1, <4>2
    <3> QED  BY <3>1, <3>2, <3>3
  <2>3. CASE i < b /\ slot_index - b + size < w
    <3> PICK k : k = size - b + i  OBVIOUS
    <3>1. k \in 0 .. size - 1 /\ b + k = size + i  BY <1>2, <2>3
    <3>2. (slot_index - b + size) + size <= w
      <4> PICK x : x = slot_index - b + size  OBVIOUS
      <4>1. x \in Nat /\ x < w  BY <1>2, <2>3
      <4>2. x % size = 0
        <5> PICK q : q = slot_index \div size  OBVIOUS
        <5>1. q \in Int /\ slot_index = q * size + b  BY <1>0, <1>6, DivMod
        <5>2. x = (q + 1) * size + 0  BY <5>1, <1>2
        <5>3. q + 1 \in Int /\ 0 \in 0 .. size - 1  BY <5>1
        <5> QED  BY ZenonT(60), <5>2, <5>3, ModIs
      <4>3. x - (x % size) + size <= w  BY <1>1, <4>1, BelowMultiple
      <4> QED  BY <4>1, <4>2, <4>3, <1>2
    <3>3. Probe(k) = slot_index + k  BY <1>1, <1>2, <3>1, <3>2 DEF Probe
    <3>4. (slot_index + k) % size = b + k - size
      <4>1. ~(b + k < size)  BY <1>2, <2>3, <3>1
      <4> QED  BY <1>2, <3>1, <4>1, ModAdd
    <3> QED  BY <3>1, <3>3, <3>4
  <2>4. CASE i < b /\ slot_index - b + size = w
    <3> PICK k : k = size - b + i - 1  OBVIOUS
    <3>1. k \in 0 .. size - 1 /\ slot_index + k = w + i - 1  BY <1>2, <2>4
    <3>2. Probe(k) = i  BY <1>1, <3>1, SizesNat DEF Probe
    <3> QED  BY <1>3, <3>1, <3>2
  <2> QED  BY <1>2, <2>1, <2>2, <2>3, <2>4
<1> QED  BY <1>2, <1>4, <1>5

\* an index stays within INDEX_MASK but where the table has as many slots as there
\* are indexes and the last one looked at is slot 0
LEMMA ProbeRange ==
    ASSUME NEW size \in Nat \ {0}, size <= IndexMask + 1,
           slot_index \in 0 .. IndexMask + 1, NEW k \in 0 .. size - 1
    PROVE  /\ Probe(k) \in Nat
           /\ \/ Probe(k) <= IndexMask
              \/ k = size - 1 /\ Probe(k) = size /\ size = IndexMask + 1
BY SizesNat DEF Probe

\* What _create does with a table in which a probe finds a free slot: it takes the
\* slot, and the index it goes on from is in range.
LEMMA PlaceFound ==
    ASSUME NEW size \in Nat \ {0}, HandleSize \in Doublings(size),
           slot_index \in 0 .. IndexMask + 1,
           NEW table, DOMAIN table = 0 .. size - 1,
           FreeProbes(table) # {},
           NEW k, k = CHOOSE i \in FreeProbes(table) : \A j \in FreeProbes(table) : i <= j
    PROVE  /\ Probe(k) % size \in 0 .. size - 1
           /\ table[Probe(k) % size] = None
           /\ Probe(k) + 1 \in 0 .. IndexMask + 1
<1>1. FreeProbes(table) = {j \in 0 .. size - 1 : table[Probe(j) % size] = None}
  BY TableSize DEF FreeProbes
<1> PICK free : free = FreeProbes(table)  OBVIOUS
<1>2. k \in free /\ \A j \in free : k <= j
  <2>1. free \in SUBSET Nat /\ free # {}  BY <1>1
  <2>2. \E n \in free : \A m \in free : n <= m  BY <2>1, LeastElement
  <2> QED  BY <2>2
<1>3. k \in 0 .. size - 1 /\ table[Probe(k) % size] = None  BY <1>1, <1>2
<1>4. size <= IndexMask + 1 /\ size <= HandleSize /\ HandleSize <= IndexMask + 1
  BY SizeDivides, SizesNat
<1>5. /\ Probe(k) \in Nat
      /\ Probe(k) <= IndexMask \/ (k = size - 1 /\ Probe(k) = size /\ size = IndexMask + 1)
  BY <1>3, <1>4, ProbeRange
<1>6. Probe(k) % size \in 0 .. size - 1
  <2> PICK x : x = Probe(k)  OBVIOUS
  <2>1. x \in Int  BY <1>5
  <2>2. x % size \in 0 .. size - 1  BY <2>1, DivMod
  <2> QED  BY <2>2
<1>7. Probe(k) <= IndexMask  BY <1>4, <1>5, SizesNat
<1> QED  BY <1>3, <1>5, <1>6, <1>7, SizesNat
-----------------------------------------------------------------------------
(* Counting *)

\* A function from a finite set into a smaller one is not injective.
LEMMA Pigeons ==
    ASSUME NEW S, NEW T, IsFiniteSet(T), NEW f \in [S -> T],
           \A x, y \in S : f[x] = f[y] => x = y
    PROVE  IsFiniteSet(S) /\ Cardinality(S) <= Cardinality(T)
<1>1. f \in Injection(S, T)  BY DEF Injection, IsInjective
<1> QED  BY <1>1, FS_Injection

\* One service's slot is no other's.
LEMMA SlotsDistinct ==
    ASSUME TablesInv, NEW i \in DOMAIN slot, NEW j \in DOMAIN slot,
           slot[i] # None, slot[i] = slot[j]
    PROVE  i = j
<1>1. DOMAIN slot = 0 .. slot_size - 1 /\ slot_size <= HandleSize /\ slot_size \in Nat
  BY DEF TablesInv, StorageInv, TypeOK, SizesInv
<1>2. i \in 0 .. HandleSize - 1 /\ j \in 0 .. HandleSize - 1  BY <1>1, SizesNat
<1>3. HarborHandle(i) = HarborHandle(j)  BY DEF TablesInv, ContextsInv
<1>4. HarborIndex(HarborHandle(i)) = i /\ HarborIndex(HarborHandle(j)) = j
  BY <1>2, HandleFacts
<1> QED  BY <1>3, <1>4

\* The entries of the name table are of different services.
LEMMA EntriesDistinct ==
    ASSUME TablesInv, NEW i \in 1 .. Len(name), NEW j \in 1 .. Len(name),
           name[i].name = name[j].name
    PROVE  i = j
<1>0. name \in Seq(Entries)  BY DEF TablesInv
<1>1. name[i] \in Entries /\ name[j] \in Entries /\ Len(name) \in Nat
  BY <1>0, ElementOfSeq, LenProperties
<1>2. \A k, l \in 1 .. Len(name) : k < l => name[k].name < name[l].name
  BY DEF TablesInv, StorageInv, NamesExact
<1>3. name[i].name \in Nat /\ name[j].name \in Nat
  BY <1>1, NamesAssumption DEF Entries
<1>4. ~(i < j) /\ ~(j < i)  BY <1>2, <1>3
<1> QED  BY <1>1, <1>4

\* While a service is being created, there is a slot more than there are names.
LEMMA NamesFit ==
    ASSUME TablesInv, NEW s \in Services, phase[s] = "creating"
    PROVE  Len(name) < slot_size
<1> DEFINE f == [i \in 1 .. Len(name) |-> HarborIndex(name[i].handle)]
           mine == HarborIndex(handle[s])
<1>1. DOMAIN slot = 0 .. slot_size - 1 /\ slot_size \in Nat
  BY DEF TablesInv, StorageInv, TypeOK, SizesInv
<1>2. mine \in DOMAIN slot /\ slot[mine] = s
  <2>1. mine < slot_size /\ slot[mine] = s  BY DEF TablesInv, StorageInv, SlotsExact
  <2>2. mine \in 0 .. HandleSize - 1  BY IndexFacts DEF TablesInv, ContextsInv
  <2> QED  BY <1>1, <2>1, <2>2
<1>3. ASSUME NEW i \in 1 .. Len(name)
      PROVE  \E t \in Services : /\ phase[t] = "running" /\ ctxName[t] = name[i].name
                                 /\ f[i] \in DOMAIN slot /\ slot[f[i]] = t
  <2> PICK t \in Services :
            phase[t] = "running" /\ ctxName[t] = name[i].name /\ handle[t] = name[i].handle
    BY DEF TablesInv, StorageInv, NamesExact
  <2>1. HarborIndex(handle[t]) < slot_size /\ slot[HarborIndex(handle[t])] = t
    BY DEF TablesInv, StorageInv, SlotsExact
  <2>2. HarborIndex(handle[t]) \in 0 .. HandleSize - 1
    BY IndexFacts DEF TablesInv, ContextsInv
  <2>3. HarborIndex(handle[t]) \in DOMAIN slot  BY <1>1, <2>1, <2>2
  <2> QED  BY <2>1, <2>3
<1> HIDE DEF mine
<1>4. f \in [1 .. Len(name) -> DOMAIN slot \ {mine}]
  <2>1. \A i \in 1 .. Len(name) : f[i] \in DOMAIN slot \ {mine}  BY <1>2, <1>3
  <2> QED  BY <2>1
<1>5. \A i, j \in 1 .. Len(name) : f[i] = f[j] => i = j
  <2> SUFFICES ASSUME NEW i \in 1 .. Len(name), NEW j \in 1 .. Len(name), f[i] = f[j]
               PROVE  name[i].name = name[j].name
    BY EntriesDistinct
  <2> HIDE DEF f
  <2> QED  BY <1>3
<1> HIDE DEF f
<1>6. /\ IsFiniteSet(DOMAIN slot) /\ IsFiniteSet(DOMAIN slot \ {mine})
      /\ Cardinality(DOMAIN slot \ {mine}) = slot_size - 1
  <2>1. IsFiniteSet(DOMAIN slot)  BY <1>1, FS_Interval
  <2> QED  BY <1>2, <2>1, FS_RemoveElement DEF slot_size
<1>7. Cardinality(1 .. Len(name)) <= slot_size - 1  BY <1>4, <1>5, <1>6, Pigeons
<1>8. Len(name) \in Nat  BY LenProperties DEF TablesInv
<1>9. Cardinality(1 .. Len(name)) = Len(name)  BY SMTT(60), <1>8, FS_Interval
<1> QED  BY <1>1, <1>7, <1>8, <1>9
-----------------------------------------------------------------------------
(* Doubling the table *)

\* A context goes to the slot it was in: the upper half of the new table is free, no
\* two contexts meet, and the size stays within INDEX_MASK.
LEMMA DoubledFacts ==
    ASSUME TablesInv, slot_size # HandleSize
    PROVE  /\ 2 * slot_size \in Nat \ {0} /\ HandleSize \in Doublings(2 * slot_size)
           /\ DOMAIN Doubled = 0 .. 2 * slot_size - 1
           /\ \A i \in 0 .. slot_size - 1 : Doubled[i] = slot[i]
           /\ \A i \in slot_size .. 2 * slot_size - 1 : Doubled[i] = None
           /\ MayDouble
<1> PICK n : n = slot_size  OBVIOUS
<1>1. n \in Nat \ {0} /\ HandleSize \in Doublings(n)
      /\ slot \in [0 .. n - 1 -> Services \union {None}]
  BY DEF TablesInv, SizesInv, StorageInv, TypeOK
<1>2. /\ 2 * n \in Nat \ {0} /\ HandleSize \in Doublings(2 * n) /\ 2 * n <= HandleSize
  BY <1>1, SizesNat, MayGrow
<1>3. ASSUME NEW i \in Occupied PROVE i \in 0 .. n - 1 /\ slot[i] # None /\ Rehash(i) = i
  <2>1. i \in 0 .. n - 1 /\ slot[i] # None /\ i \in DOMAIN slot  BY <1>1 DEF Occupied
  <2>2. handle[slot[i]] = HarborHandle(i)  BY <2>1 DEF TablesInv, ContextsInv
  <2>3. i \in 0 .. HandleSize - 1 /\ i \in 0 .. 2 * n - 1  BY <1>1, <1>2, <2>1, SizesNat
  <2>4. HarborHandle(i) = Harbor * HandleSize + i  BY <2>3, HandleFacts
  <2>5. HandleSize % (2 * n) = 0  BY <1>2, SizeDivides
  <2>6. (Harbor * HandleSize + i) % (2 * n) = i
    <3>1. Harbor \in Int /\ HandleSize \in Nat  BY SizesNat
    <3> QED  BY ONLY <1>2, <2>3, <2>5, <3>1, ModOfMultiple
  <2> QED  BY <2>1, <2>2, <2>4, <2>6 DEF Rehash
<1>4. \A i \in 0 .. n - 1 : slot[i] # None => i \in Occupied
  BY <1>1 DEF Occupied
<1>5. Doubled = [hash \in 0 .. 2 * n - 1 |->
                    IF \E i \in Occupied : Rehash(i) = hash
                    THEN slot[CHOOSE i \in Occupied : Rehash(i) = hash]
                    ELSE None]
  BY DEF Doubled
<1>6. ASSUME NEW i \in 0 .. n - 1 PROVE Doubled[i] = slot[i]
  <2>1. i \in 0 .. 2 * n - 1  BY <1>1
  <2>2. CASE i \in Occupied
    <3>1. (CHOOSE j \in Occupied : Rehash(j) = i) = i
      <4>1. \E j \in Occupied : Rehash(j) = i  BY <1>3, <2>2
      <4>2. \A j \in Occupied : Rehash(j) = i => j = i  BY <1>3
      <4> QED  BY <4>1, <4>2
    <3> QED  BY <1>3, <1>5, <2>1, <2>2, <3>1
  <2>3. CASE i \notin Occupied
    <3>1. ~ \E j \in Occupied : Rehash(j) = i  BY <1>3, <2>3
    <3> QED  BY <1>4, <1>5, <2>1, <2>3, <3>1
  <2> QED  BY <2>2, <2>3
<1>7. ASSUME NEW i \in n .. 2 * n - 1 PROVE Doubled[i] = None
  <2>1. i \in 0 .. 2 * n - 1 /\ ~(i \in 0 .. n - 1)  BY <1>1
  <2>2. ~ \E j \in Occupied : Rehash(j) = i  BY <1>3, <2>1
  <2> QED  BY <1>5, <2>1, <2>2
<1>8. MayDouble
  <2>1. 2 * n - 1 <= IndexMask  BY <1>2, SizesNat
  <2> QED  BY <1>3, <2>1 DEF MayDouble
<1> QED  BY <1>2, <1>5, <1>6, <1>7, <1>8

\* What _create does: it puts the context in a free slot of the table, or of one of
\* twice the size, and gives it the handle of the slot.
Placed(s, size, hash) ==
    /\ size \in Nat \ {0} /\ HandleSize \in Doublings(size)
    /\ size = slot_size \/ size = 2 * slot_size
    /\ hash \in 0 .. size - 1 /\ (hash < slot_size => slot[hash] = None)
    /\ DOMAIN slot' = 0 .. size - 1
    /\ slot'[hash] = s
    /\ \A i \in 0 .. size - 1 : i # hash =>
          slot'[i] = IF i < slot_size THEN slot[i] ELSE None
    /\ handle' = [handle EXCEPT ![s] = HarborHandle(hash)]
    /\ slot_index' \in 0 .. IndexMask + 1
    /\ outcome' # "assertion"

\* the table the search ends in
LEMMA TableFacts ==
    ASSUME TablesInv, ~Outgrows,
           NEW table, table = IF FreeProbes(slot) = {} THEN Doubled ELSE slot,
           NEW size, size = Cardinality(DOMAIN table)
    PROVE  /\ size \in Nat \ {0} /\ HandleSize \in Doublings(size)
           /\ size = slot_size \/ size = 2 * slot_size
           /\ DOMAIN table = 0 .. size - 1
           /\ \A i \in 0 .. size - 1 : table[i] = IF i < slot_size THEN slot[i] ELSE None
           /\ FreeProbes(table) # {}
           /\ FreeProbes(slot) = {} => MayDouble
<1> PICK n : n = slot_size  OBVIOUS
<1>1. /\ n \in Nat \ {0} /\ HandleSize \in Doublings(n)
      /\ slot \in [0 .. n - 1 -> Services \union {None}]
      /\ slot_index \in 0 .. IndexMask + 1
  BY DEF TablesInv, SizesInv, StorageInv, TypeOK
<1>2. CASE FreeProbes(slot) # {}
  <2>1. table = slot /\ size = n  BY <1>2 DEF slot_size
  <2>2. \A i \in 0 .. n - 1 : i < n  BY <1>1
  <2> QED  BY <1>1, <1>2, <2>1, <2>2
<1>3. CASE FreeProbes(slot) = {}
  <2>2. n # HandleSize  BY <1>1, <1>3 DEF Outgrows
  <2>3. /\ 2 * n \in Nat \ {0} /\ HandleSize \in Doublings(2 * n)
        /\ DOMAIN Doubled = 0 .. 2 * n - 1
        /\ \A i \in 0 .. n - 1 : Doubled[i] = slot[i]
        /\ \A i \in n .. 2 * n - 1 : Doubled[i] = None
        /\ MayDouble
    BY <2>2, DoubledFacts
  <2>4. table = Doubled /\ size = 2 * n
    <3>1. Cardinality(DOMAIN Doubled) = 2 * n  BY <2>3, TableSize
    <3> QED  BY <1>3, <3>1
  <2>5. \A i \in 0 .. 2 * n - 1 : i \in 0 .. n - 1 \/ i \in n .. 2 * n - 1
    BY <1>1
  <2>6. \A i \in 0 .. size - 1 : table[i] = IF i < n THEN slot[i] ELSE None
    BY <1>1, <2>3, <2>4, <2>5
  <2>7. FreeProbes(table) # {}
    <3> DEFINE last == 2 * n - 1
    <3>1. last \in 1 .. 2 * n - 1 /\ last \in n .. 2 * n - 1  BY <1>1
    <3>2. PICK k \in 0 .. 2 * n - 1 : Probe(k) % (2 * n) = last
      BY <1>1, <2>3, <3>1, ProbesCover
    <3>3. table[last] = None  BY <2>3, <2>4, <3>1
    <3>4. k \in FreeProbes(table)  BY <2>4, <3>2, <3>3 DEF FreeProbes
    <3> QED  BY <3>4
  <2> QED  BY <2>3, <2>4, <2>6, <2>7
<1> QED  BY <1>2, <1>3

\* skynet_service_create finds a free slot, in the table or in one that was doubled, and uses
\* it.
LEMMA CreatePlaces ==
    ASSUME TablesInv, NEW s \in Services, NEW n \in Names, Create(s, n)
    PROVE  \E size, hash : Placed(s, size, hash)
<1> DEFINE grows == FreeProbes(slot) = {}
<1> PICK table : table = IF grows THEN Doubled ELSE slot  OBVIOUS
<1> PICK size : size = Cardinality(DOMAIN table)  OBVIOUS
<1> PICK k : k = CHOOSE i \in FreeProbes(table) : \A j \in FreeProbes(table) : i <= j
  OBVIOUS
<1> PICK hash : hash = Probe(k) % size  OBVIOUS
<1>1. /\ slot' = [table EXCEPT ![hash] = s]
      /\ slot_index' = Probe(k) + 1
      /\ handle' = [handle EXCEPT ![s] = HarborHandle(hash)]
      /\ outcome' = IF grows THEN Doubling ELSE "fine"
      /\ ~Outgrows
  BY DEF Create
<1>2. /\ size \in Nat \ {0} /\ HandleSize \in Doublings(size)
      /\ size = slot_size \/ size = 2 * slot_size
      /\ DOMAIN table = 0 .. size - 1
      /\ \A i \in 0 .. size - 1 : table[i] = IF i < slot_size THEN slot[i] ELSE None
      /\ FreeProbes(table) # {}
      /\ grows => MayDouble
  BY <1>1, TableFacts
<1>3. slot_index \in 0 .. IndexMask + 1  BY DEF TablesInv, StorageInv, TypeOK
<1>4. hash \in 0 .. size - 1 /\ table[hash] = None /\ Probe(k) + 1 \in 0 .. IndexMask + 1
  <2> PICK place : place = Probe(k) % size  OBVIOUS
  <2>1. place \in 0 .. size - 1 /\ table[place] = None /\ Probe(k) + 1 \in 0 .. IndexMask + 1
    <3> HIDE DEF grows
    <3> QED  BY ONLY <1>2, <1>3, PlaceFound, place = Probe(k) % size,
                 k = CHOOSE i \in FreeProbes(table) : \A j \in FreeProbes(table) : i <= j
  <2> QED  BY <2>1
<1>5. outcome' # "assertion"  BY <1>1, <1>2 DEF Doubling
<1>6. /\ DOMAIN slot' = 0 .. size - 1 /\ slot'[hash] = s
      /\ \A i \in 0 .. size - 1 : i # hash => slot'[i] = table[i]
  BY <1>1, <1>2, <1>4
<1>7. hash < slot_size => slot[hash] = None  BY <1>2, <1>4
<1>8. Placed(s, size, hash)
  BY <1>1, <1>2, <1>4, <1>5, <1>6, <1>7 DEF Placed
<1> QED  BY <1>8
-----------------------------------------------------------------------------
(* Searching the names *)

Sorted ==
    /\ Len(name) \in Nat
    /\ \A i \in 1 .. Len(name) : name[i].name \in Nat
    /\ \A i, j \in 1 .. Len(name) : i < j => name[i].name < name[j].name

\* What a search of the entries from begin to end may come to: the entry of the
\* name, or the place between the entries before it and those after it.
Lands(n, begin, end, r) ==
    /\ r \in [found : BOOLEAN, at : 1 .. Len(name) + 1]
    /\ r.found => r.at \in begin .. end /\ name[r.at].name = n
    /\ ~r.found /\ begin > end => r.at = begin
    /\ ~r.found /\ begin <= end =>
          /\ r.at \in begin .. end + 1
          /\ \A j \in begin .. r.at - 1 : name[j].name < n
          /\ \A j \in r.at .. end : n < name[j].name

\* the step of the binary search
Ranges == (1 .. Len(name) + 1) \X (0 .. Len(name))
Halves(n, go) ==
    go = [range \in Ranges |->
             LET begin == range[1]
                 end == range[2]
                 mid == (begin + end) \div 2
             IN  IF begin > end THEN [found |-> FALSE, at |-> begin]
                 ELSE IF name[mid].name = n THEN [found |-> TRUE, at |-> mid]
                 ELSE IF name[mid].name < n THEN go[<<mid + 1, end>>]
                 ELSE go[<<begin, mid - 1>>]]

\* The binary search is a function of the interval, as its recursion says.
LEMMA SearchIs ==
    ASSUME NEW n
    PROVE  Search(n) = (CHOOSE go : Halves(n, go))[<<1, Len(name)>>]
BY DEF Search, Halves, Ranges

\* The middle is within what is searched.
LEMMA Middle ==
    ASSUME NEW begin \in Nat, NEW end \in Nat, begin <= end
    PROVE  (begin + end) \div 2 \in begin .. end
OBVIOUS

\* A search comes to one thing.
LEMMA LandsOnce ==
    ASSUME Sorted, NEW n \in Nat, NEW begin \in 1 .. Len(name) + 1, NEW end \in 0 .. Len(name),
           NEW r, NEW q, Lands(n, begin, end, r), Lands(n, begin, end, q)
    PROVE  r = q
<1>1. /\ r = [found |-> r.found, at |-> r.at] /\ q = [found |-> q.found, at |-> q.at]
      /\ r.found \in BOOLEAN /\ q.found \in BOOLEAN /\ r.at \in Nat /\ q.at \in Nat
  BY DEF Lands, Sorted
<1>2. CASE begin > end
  <2>1. ~r.found /\ ~q.found  BY <1>2 DEF Lands, Sorted
  <2> QED  BY <1>1, <1>2, <2>1 DEF Lands
<1>3. CASE begin <= end
  <2>1. \A j \in begin .. end : j \in 1 .. Len(name)  BY DEF Sorted
  <2>2. CASE r.found /\ q.found
    <3>1. r.at \in 1 .. Len(name) /\ q.at \in 1 .. Len(name)
          /\ name[r.at].name = n /\ name[q.at].name = n
      BY <2>1, <2>2 DEF Lands
    <3>2. ~(r.at < q.at) /\ ~(q.at < r.at)  BY SMTT(60), <3>1 DEF Sorted
    <3>3. r.at = q.at  BY <1>1, <3>2
    <3> QED  BY <1>1, <2>2, <3>3
  <2>3. CASE r.found /\ ~q.found
    <3>1. r.at \in begin .. end /\ name[r.at].name = n  BY <2>3 DEF Lands
    <3>2. r.at \in begin .. q.at - 1 \/ r.at \in q.at .. end  BY <1>1, <3>1
    <3> QED  BY <1>3, <2>3, <3>1, <3>2 DEF Lands
  <2>4. CASE ~r.found /\ q.found
    <3>1. q.at \in begin .. end /\ name[q.at].name = n  BY <2>4 DEF Lands
    <3>2. q.at \in begin .. r.at - 1 \/ q.at \in r.at .. end  BY <1>1, <3>1
    <3> QED  BY <1>3, <2>4, <3>1, <3>2 DEF Lands
  <2>5. CASE ~r.found /\ ~q.found
    <3>1. /\ r.at \in begin .. end + 1 /\ q.at \in begin .. end + 1
          /\ \A j \in begin .. r.at - 1 : name[j].name < n
          /\ \A j \in r.at .. end : n < name[j].name
          /\ \A j \in begin .. q.at - 1 : name[j].name < n
          /\ \A j \in q.at .. end : n < name[j].name
      BY <1>3, <2>5 DEF Lands
    <3>2. ~(r.at < q.at)
      <4> SUFFICES ASSUME r.at < q.at PROVE FALSE  OBVIOUS
      <4>1. r.at \in begin .. q.at - 1 /\ r.at \in r.at .. end  BY <1>1, <3>1
      <4>2. name[r.at].name < n /\ n < name[r.at].name /\ name[r.at].name \in Nat
        BY <2>1, <3>1, <4>1 DEF Sorted
      <4> QED  BY <4>2
    <3>3. ~(q.at < r.at)
      <4> SUFFICES ASSUME q.at < r.at PROVE FALSE  OBVIOUS
      <4>1. q.at \in begin .. r.at - 1 /\ q.at \in q.at .. end  BY <1>1, <3>1
      <4>2. name[q.at].name < n /\ n < name[q.at].name /\ name[q.at].name \in Nat
        BY <2>1, <3>1, <4>1 DEF Sorted
      <4> QED  BY <4>2
    <3>4. r.at = q.at  BY <1>1, <3>2, <3>3
    <3>5. r.found = q.found  BY <1>1, <2>5
    <3> QED  BY <1>1, <3>4, <3>5
  <2> QED  BY <1>1, <2>2, <2>3, <2>4, <2>5
<1> QED  BY <1>2, <1>3 DEF Sorted

\* A search comes to something.
LEMMA LandsSomewhere ==
    ASSUME Sorted, NEW n \in Nat, NEW begin \in 1 .. Len(name) + 1, NEW end \in 0 .. Len(name)
    PROVE  \E r : Lands(n, begin, end, r)
<1>0. Len(name) \in Nat  BY DEF Sorted
<1>1. CASE begin > end
  <2>1. Lands(n, begin, end, [found |-> FALSE, at |-> begin])  BY <1>1 DEF Lands
  <2> QED  BY <2>1
<1>2. CASE begin <= end /\ \E i \in begin .. end : name[i].name = n
  <2>1. PICK i \in begin .. end : name[i].name = n  BY <1>2
  <2>2. i \in 1 .. Len(name) + 1  BY <1>0
  <2>3. Lands(n, begin, end, [found |-> TRUE, at |-> i])  BY <2>1, <2>2 DEF Lands
  <2> QED  BY <2>3
<1>3. CASE begin <= end /\ ~ \E i \in begin .. end : name[i].name = n
  <2> DEFINE beyond == {i \in begin .. end + 1 : i = end + 1 \/ n < name[i].name}
  <2>1. beyond \in SUBSET Nat /\ end + 1 \in beyond  BY <1>0, <1>3
  <2>2. PICK at \in beyond : \A i \in beyond : at <= i
    <3> HIDE DEF beyond
    <3> QED  BY <2>1, LeastElement
  <2>3. at \in begin .. end + 1 /\ at \in 1 .. Len(name) + 1 /\ at \in Nat  BY <1>0
  <2>4. ASSUME NEW j \in begin .. at - 1 PROVE name[j].name < n
    <3>1. j \in begin .. end /\ j \in 1 .. Len(name) /\ ~(at <= j)  BY <1>0, <2>3
    <3>2. j \notin beyond  BY <2>2, <3>1
    <3>3. ~(n < name[j].name)  BY <2>3, <3>1, <3>2
    <3>4. name[j].name \in Nat /\ name[j].name # n  BY <1>3, <3>1 DEF Sorted
    <3> QED  BY <3>3, <3>4
  <2>5. ASSUME NEW j \in at .. end PROVE n < name[j].name
    <3>1. /\ j \in 1 .. Len(name) /\ at \in 1 .. Len(name) /\ at # end + 1
          /\ (j = at \/ at < j) /\ at \in Nat /\ j \in Nat
      BY <1>0, <2>3
    <3>2. n < name[at].name  BY <3>1
    <3>3. name[at].name \in Nat /\ name[j].name \in Nat /\ (at < j => name[at].name < name[j].name)
      BY <3>1 DEF Sorted
    <3> QED  BY <3>1, <3>2, <3>3
  <2>6. Lands(n, begin, end, [found |-> FALSE, at |-> at])
    <3> HIDE DEF beyond
    <3> QED  BY <1>3, <2>3, <2>4, <2>5 DEF Lands
  <2> QED  BY <2>6
<1> QED  BY <1>0, <1>1, <1>2, <1>3

\* What the half left to search comes to, the whole comes to.
LEMMA LandsHalf ==
    ASSUME Sorted, NEW n \in Nat, NEW begin \in 1 .. Len(name) + 1, NEW end \in 0 .. Len(name),
           begin <= end, NEW mid \in begin .. end
    PROVE  /\ mid + 1 \in 1 .. Len(name) + 1 /\ mid - 1 \in 0 .. Len(name)
           /\ name[mid].name = n => Lands(n, begin, end, [found |-> TRUE, at |-> mid])
           /\ name[mid].name < n =>
                 \A r : Lands(n, mid + 1, end, r) => Lands(n, begin, end, r)
           /\ ~(name[mid].name = n) /\ ~(name[mid].name < n) =>
                 \A r : Lands(n, begin, mid - 1, r) => Lands(n, begin, end, r)
<1>0. /\ Len(name) \in Nat /\ mid \in 1 .. Len(name) /\ name[mid].name \in Nat /\ mid \in Nat
      /\ \A j \in begin .. end : j \in 1 .. Len(name)
  BY DEF Sorted
<1>1. mid + 1 \in 1 .. Len(name) + 1 /\ mid - 1 \in 0 .. Len(name)  BY <1>0
<1>2. ASSUME name[mid].name = n
      PROVE  Lands(n, begin, end, [found |-> TRUE, at |-> mid])
  BY <1>0, <1>2 DEF Lands
<1>3. ASSUME name[mid].name < n, NEW r, Lands(n, mid + 1, end, r)
      PROVE  Lands(n, begin, end, r)
  <2>0. r \in [found : BOOLEAN, at : 1 .. Len(name) + 1] /\ r.at \in Nat
    BY <1>0, <1>3 DEF Lands
  <2>1. CASE r.found
    <3>1. r.at \in mid + 1 .. end /\ name[r.at].name = n  BY <1>3, <2>1 DEF Lands
    <3>2. r.at \in begin .. end  BY <1>0, <2>0, <3>1
    <3> QED  BY <2>0, <2>1, <3>1, <3>2 DEF Lands
  <2>2. CASE ~r.found
    <3>1. r.at \in mid + 1 .. end + 1 /\ \A j \in r.at .. end : n < name[j].name
      BY <1>0, <1>3, <2>0, <2>2 DEF Lands
    <3>2. ASSUME NEW j \in begin .. r.at - 1 PROVE name[j].name < n
      <4>0. j \in begin .. end /\ j \in Nat  BY <1>0, <2>0, <3>1
      <4>1. CASE j <= mid
        <5>1. j \in 1 .. Len(name) /\ name[j].name \in Nat /\ (j = mid \/ j < mid)
          BY <1>0, <4>0, <4>1 DEF Sorted
        <5>2. j < mid => name[j].name < name[mid].name  BY <1>0, <5>1 DEF Sorted
        <5> QED  BY <1>0, <1>3, <5>1, <5>2
      <4>2. CASE mid < j
        <5>1. j \in mid + 1 .. r.at - 1 /\ mid + 1 <= end  BY <1>0, <2>0, <3>1, <4>0, <4>2
        <5> QED  BY <1>3, <2>2, <5>1 DEF Lands
      <4> QED  BY <1>0, <4>0, <4>1, <4>2
    <3>3. r.at \in begin .. end + 1  BY <1>0, <3>1
    <3> QED  BY <2>0, <2>2, <3>1, <3>2, <3>3 DEF Lands
  <2> QED  BY <2>0, <2>1, <2>2
<1>4. ASSUME ~(name[mid].name = n), ~(name[mid].name < n), NEW r, Lands(n, begin, mid - 1, r)
      PROVE  Lands(n, begin, end, r)
  <2>0. /\ r \in [found : BOOLEAN, at : 1 .. Len(name) + 1] /\ r.at \in Nat
        /\ n < name[mid].name
    BY <1>0, <1>4 DEF Lands
  <2>1. CASE r.found
    <3>1. r.at \in begin .. mid - 1 /\ name[r.at].name = n  BY <1>4, <2>1 DEF Lands
    <3>2. r.at \in begin .. end  BY <1>0, <2>0, <3>1
    <3> QED  BY <2>0, <2>1, <3>1, <3>2 DEF Lands
  <2>2. CASE ~r.found
    <3>1. r.at \in begin .. mid /\ \A j \in begin .. r.at - 1 : name[j].name < n
      BY <1>0, <1>4, <2>0, <2>2 DEF Lands
    <3>2. ASSUME NEW j \in r.at .. end PROVE n < name[j].name
      <4>0. j \in begin .. end /\ j \in Nat  BY <1>0, <2>0, <3>1
      <4>1. CASE mid <= j
        <5>1. j \in 1 .. Len(name) /\ name[j].name \in Nat /\ (j = mid \/ mid < j)
          BY <1>0, <4>0, <4>1 DEF Sorted
        <5>2. mid < j => name[mid].name < name[j].name  BY <1>0, <5>1 DEF Sorted
        <5> QED  BY <1>0, <2>0, <5>1, <5>2
      <4>2. CASE j < mid
        <5>1. j \in r.at .. mid - 1 /\ begin <= mid - 1  BY <1>0, <2>0, <3>1, <4>0, <4>2
        <5> QED  BY <1>4, <2>2, <5>1 DEF Lands
      <4> QED  BY <1>0, <4>0, <4>1, <4>2
    <3>3. r.at \in begin .. end + 1  BY <1>0, <3>1
    <3> QED  BY <2>0, <2>2, <3>1, <3>2, <3>3 DEF Lands
  <2> QED  BY <2>0, <2>1, <2>2
<1> QED  BY <1>1, <1>2, <1>3, <1>4
\* There is a function that the search's equation describes.
LEMMA HalvesExists ==
    ASSUME Sorted, NEW n \in Nat
    PROVE  \E go : Halves(n, go)
<1> DEFINE Comes(begin, end) == CHOOSE r : Lands(n, begin, end, r)
           go == [range \in Ranges |-> Comes(range[1], range[2])]
<1>0. Len(name) \in Nat  BY DEF Sorted
<1>r. \A begin \in 1 .. Len(name) + 1, end \in 0 .. Len(name) : <<begin, end>> \in Ranges
  BY DEF Ranges
<1>1. ASSUME NEW begin \in 1 .. Len(name) + 1, NEW end \in 0 .. Len(name)
      PROVE  /\ go[<<begin, end>>] = Comes(begin, end)
             /\ Lands(n, begin, end, Comes(begin, end))
             /\ \A r : Lands(n, begin, end, r) => r = Comes(begin, end)
  <2>1. Lands(n, begin, end, Comes(begin, end))  BY LandsSomewhere
  <2> HIDE DEF Comes
  <2>2. \A r : Lands(n, begin, end, r) => r = Comes(begin, end)  BY <2>1, LandsOnce
  <2>3. go[<<begin, end>>] = Comes(begin, end)  BY <1>r
  <2> QED  BY <2>1, <2>2, <2>3
<1> HIDE DEF Comes
<1>2. go = [range \in Ranges |-> go[range]]  OBVIOUS
<1> HIDE DEF go
<1>3. ASSUME NEW begin \in 1 .. Len(name) + 1, NEW end \in 0 .. Len(name)
      PROVE  go[<<begin, end>>] =
                 IF begin > end THEN [found |-> FALSE, at |-> begin]
                 ELSE LET mid == (begin + end) \div 2
                      IN  IF name[mid].name = n THEN [found |-> TRUE, at |-> mid]
                          ELSE IF name[mid].name < n THEN go[<<mid + 1, end>>]
                          ELSE go[<<begin, mid - 1>>]
  <2>1. CASE begin > end
    <3>1. Lands(n, begin, end, [found |-> FALSE, at |-> begin])
      BY <1>0, <2>1 DEF Lands
    <3> QED  BY <1>1, <2>1, <3>1
  <2>2. CASE begin <= end
    <3> PICK mid : mid = (begin + end) \div 2  OBVIOUS
    <3>1. mid \in begin .. end  BY <1>0, <2>2, Middle
    <3>2. /\ mid + 1 \in 1 .. Len(name) + 1 /\ mid - 1 \in 0 .. Len(name)
          /\ name[mid].name = n => Lands(n, begin, end, [found |-> TRUE, at |-> mid])
          /\ name[mid].name < n =>
                \A r : Lands(n, mid + 1, end, r) => Lands(n, begin, end, r)
          /\ ~(name[mid].name = n) /\ ~(name[mid].name < n) =>
                \A r : Lands(n, begin, mid - 1, r) => Lands(n, begin, end, r)
      BY <2>2, <3>1, LandsHalf
    <3>3. name[mid].name = n => go[<<begin, end>>] = [found |-> TRUE, at |-> mid]
      BY <1>1, <3>2
    <3>4. name[mid].name < n => go[<<begin, end>>] = go[<<mid + 1, end>>]
      BY <1>1, <3>2
    <3>5. ~(name[mid].name = n) /\ ~(name[mid].name < n) => go[<<begin, end>>] = go[<<begin, mid - 1>>]
      BY <1>1, <3>2
    <3> QED  BY <1>0, <2>2, <3>3, <3>4, <3>5
  <2> QED  BY <1>0, <2>1, <2>2
<1>4. ASSUME NEW range \in Ranges
      PROVE  go[range] = LET begin == range[1]
                             end == range[2]
                             mid == (begin + end) \div 2
                         IN  IF begin > end THEN [found |-> FALSE, at |-> begin]
                             ELSE IF name[mid].name = n THEN [found |-> TRUE, at |-> mid]
                             ELSE IF name[mid].name < n THEN go[<<mid + 1, end>>]
                             ELSE go[<<begin, mid - 1>>]
  <2>1. /\ range[1] \in 1 .. Len(name) + 1 /\ range[2] \in 0 .. Len(name)
        /\ range = <<range[1], range[2]>>
    BY DEF Ranges
  <2> QED  BY <1>3, <2>1
<1>5. Halves(n, go)  BY <1>2, <1>4 DEF Halves
<1> QED  BY <1>5

\* The binary search finds the name if the table has it, and otherwise the place it
\* would have to be in.
LEMMA SearchFinds ==
    ASSUME Sorted, NEW n \in Nat
    PROVE  LET r == Search(n)
           IN  /\ r.found \in BOOLEAN
               /\ r.found => r.at \in 1 .. Len(name) /\ name[r.at].name = n
               /\ ~r.found => /\ r.at \in 1 .. Len(name) + 1
                              /\ \A j \in 1 .. r.at - 1 : name[j].name < n
                              /\ \A j \in r.at .. Len(name) : n < name[j].name
<1> DEFINE go == CHOOSE go : Halves(n, go)
<1>0. Len(name) \in Nat  BY DEF Sorted
<1>1. Search(n) = go[<<1, Len(name)>>]  BY SearchIs
<1>2. Halves(n, go)  BY HalvesExists
<1> HIDE DEF go
<1>3. ASSUME NEW begin \in 1 .. Len(name) + 1, NEW end \in 0 .. Len(name)
      PROVE  go[<<begin, end>>] =
                 IF begin > end THEN [found |-> FALSE, at |-> begin]
                 ELSE LET mid == (begin + end) \div 2
                      IN  IF name[mid].name = n THEN [found |-> TRUE, at |-> mid]
                          ELSE IF name[mid].name < n THEN go[<<mid + 1, end>>]
                          ELSE go[<<begin, mid - 1>>]
  <2>1. <<begin, end>> \in Ranges  BY DEF Ranges
  <2> QED  BY <1>2, <2>1 DEF Halves
<1> DEFINE Wrong == {left \in Nat : \E begin \in 1 .. Len(name) + 1, end \in 0 .. Len(name) :
                        /\ begin <= end /\ left = end - begin
                        /\ ~Lands(n, begin, end, go[<<begin, end>>])}
<1>4. ASSUME NEW begin \in 1 .. Len(name) + 1, NEW end \in 0 .. Len(name), begin > end
      PROVE  Lands(n, begin, end, go[<<begin, end>>])
  <2>1. go[<<begin, end>>] = [found |-> FALSE, at |-> begin]  BY <1>3, <1>4
  <2> QED  BY <1>0, <1>4, <2>1 DEF Lands
<1>5. Wrong = {}
  <2> SUFFICES ASSUME Wrong # {} PROVE FALSE  OBVIOUS
  <2>1. PICK left \in Wrong : \A m \in Wrong : left <= m
    <3>1. Wrong \in SUBSET Nat  OBVIOUS
    <3> HIDE DEF Wrong
    <3> QED  BY <3>1, LeastElement
  <2>2. PICK begin \in 1 .. Len(name) + 1, end \in 0 .. Len(name) :
            begin <= end /\ left = end - begin /\ ~Lands(n, begin, end, go[<<begin, end>>])
    OBVIOUS
  <2>3. ASSUME NEW b \in 1 .. Len(name) + 1, NEW e \in 0 .. Len(name), e - b < left
        PROVE  Lands(n, b, e, go[<<b, e>>])
    <3>1. CASE b > e  BY <1>4, <3>1
    <3>2. CASE b <= e
      <4>1. ASSUME ~Lands(n, b, e, go[<<b, e>>]) PROVE e - b \in Wrong
        <5>1. e - b \in Nat  BY <1>0, <3>2
        <5>2. \E b2 \in 1 .. Len(name) + 1, e2 \in 0 .. Len(name) :
                 b2 <= e2 /\ e - b = e2 - b2 /\ ~Lands(n, b2, e2, go[<<b2, e2>>])
          BY <3>2, <4>1
        <5> QED  BY <5>1, <5>2
      <4> HIDE DEF Wrong
      <4>2. left \in Nat /\ e - b \in Int  BY <1>0, <2>2
      <4> QED  BY <2>1, <2>3, <4>1, <4>2
    <3> QED  BY <1>0, <3>1, <3>2
  <2> HIDE DEF Wrong
  <2> PICK mid : mid = (begin + end) \div 2  OBVIOUS
  <2>4. mid \in begin .. end  BY <1>0, <2>2, Middle
  <2>5. /\ mid + 1 \in 1 .. Len(name) + 1 /\ mid - 1 \in 0 .. Len(name)
        /\ name[mid].name = n => Lands(n, begin, end, [found |-> TRUE, at |-> mid])
        /\ name[mid].name < n =>
              \A r : Lands(n, mid + 1, end, r) => Lands(n, begin, end, r)
        /\ ~(name[mid].name = n) /\ ~(name[mid].name < n) =>
              \A r : Lands(n, begin, mid - 1, r) => Lands(n, begin, end, r)
    BY <2>2, <2>4, LandsHalf
  <2>6. go[<<begin, end>>] = IF name[mid].name = n THEN [found |-> TRUE, at |-> mid]
                             ELSE IF name[mid].name < n THEN go[<<mid + 1, end>>]
                             ELSE go[<<begin, mid - 1>>]
    <3>1. ~(begin > end)  BY <1>0, <2>2
    <3>2. go[<<begin, end>>] =
              IF begin > end THEN [found |-> FALSE, at |-> begin]
              ELSE IF name[mid].name = n THEN [found |-> TRUE, at |-> mid]
              ELSE IF name[mid].name < n THEN go[<<mid + 1, end>>]
              ELSE go[<<begin, mid - 1>>]
      BY <1>3
    <3> QED  BY <3>1, <3>2
  <2>7. Lands(n, mid + 1, end, go[<<mid + 1, end>>]) /\ Lands(n, begin, mid - 1, go[<<begin, mid - 1>>])
    BY SMTT(60), <1>0, <2>2, <2>3, <2>4, <2>5
  <2> QED  BY <2>2, <2>5, <2>6, <2>7
<1> PICK r : r = go[<<1, Len(name)>>]  OBVIOUS
<1>6. Lands(n, 1, Len(name), r)
  <2>1. 1 \in 1 .. Len(name) + 1 /\ Len(name) \in 0 .. Len(name)  BY <1>0
  <2>2. CASE 1 > Len(name)  BY <1>4, <2>1, <2>2
  <2>3. CASE 1 <= Len(name)
    <3>1. Len(name) - 1 \in Nat  BY <1>0, <2>3
    <3>2. Len(name) - 1 \notin Wrong  BY <1>5
    <3> QED  BY <2>1, <2>3, <3>1, <3>2
  <2> QED  BY <1>0, <2>2, <2>3
<1>7. /\ r.found \in BOOLEAN
      /\ r.found => r.at \in 1 .. Len(name) /\ name[r.at].name = n
      /\ ~r.found => /\ r.at \in 1 .. Len(name) + 1
                     /\ \A j \in 1 .. r.at - 1 : name[j].name < n
                     /\ \A j \in r.at .. Len(name) : n < name[j].name
  BY <1>0, <1>6 DEF Lands
<1>8. Search(n) = r  BY <1>1
<1> QED  BY <1>7, <1>8
\* an entry put into the table
LEMMA InsertedFacts ==
    ASSUME name \in Seq(Entries), NEW entry \in Entries, NEW before \in 1 .. Len(name) + 1,
           NEW new, new = Inserted(entry, before)
    PROVE  /\ new \in Seq(Entries) /\ Len(new) = Len(name) + 1
           /\ \A i \in 1 .. Len(new) :
                 new[i] = IF i < before THEN name[i]
                          ELSE IF i = before THEN entry ELSE name[i - 1]
<1> DEFINE front == SubSeq(name, 1, before - 1)
           back == SubSeq(name, before, Len(name))
           one == <<entry>>
<1>1. Len(name) \in Nat /\ \A i \in 1 .. Len(name) : name[i] \in Entries
  BY LenProperties, ElementOfSeq
<1>2. /\ front \in Seq(Entries) /\ Len(front) = before - 1
      /\ \A i \in 1 .. before - 1 : front[i] = name[i]
  <2>1. 1 \in Int /\ before - 1 \in Int /\ \A i \in 1 .. before - 1 : name[i] \in Entries
    BY <1>1
  <2>2. /\ front \in Seq(Entries)
        /\ Len(front) = IF 1 <= before - 1 THEN (before - 1) - 1 + 1 ELSE 0
        /\ \A i \in 1 .. (before - 1) - 1 + 1 : front[i] = name[1 + i - 1]
    BY <2>1, SubSeqProperties
  <2> HIDE DEF front
  <2> QED  BY <1>1, <2>2
<1>3. /\ back \in Seq(Entries) /\ Len(back) = Len(name) - before + 1
      /\ \A i \in 1 .. Len(name) - before + 1 : back[i] = name[before + i - 1]
  <2>1. Len(name) \in Int /\ before \in Int /\ \A i \in before .. Len(name) : name[i] \in Entries
    BY <1>1
  <2>2. /\ back \in Seq(Entries)
        /\ Len(back) = IF before <= Len(name) THEN Len(name) - before + 1 ELSE 0
        /\ \A i \in 1 .. Len(name) - before + 1 : back[i] = name[before + i - 1]
    BY <2>1, SubSeqProperties
  <2> HIDE DEF back
  <2> QED  BY <1>1, <2>2
<1>4. one \in Seq(Entries) /\ Len(one) = 1 /\ one[1] = entry  OBVIOUS
<1> HIDE DEF front, back, one
<1> DEFINE half == front \o one
<1>5. /\ half \in Seq(Entries) /\ Len(half) = before
      /\ \A i \in 1 .. before : half[i] = IF i < before THEN name[i] ELSE entry
  <2>1. /\ half \in Seq(Entries) /\ Len(half) = Len(front) + Len(one)
        /\ \A i \in 1 .. Len(front) + Len(one) :
              half[i] = IF i <= Len(front) THEN front[i] ELSE one[i - Len(front)]
    BY <1>2, <1>4, ConcatProperties
  <2> HIDE DEF half
  <2> QED  BY <1>1, <1>2, <1>4, <2>1
<1> HIDE DEF half
<1>6. new = half \o back  BY DEF Inserted, half, front, back, one
<1>7. /\ new \in Seq(Entries) /\ Len(new) = Len(half) + Len(back)
      /\ \A i \in 1 .. Len(half) + Len(back) :
            new[i] = IF i <= Len(half) THEN half[i] ELSE back[i - Len(half)]
  BY <1>3, <1>5, <1>6, ConcatProperties
<1>8. Len(new) = Len(name) + 1  BY <1>1, <1>3, <1>5, <1>7
<1>9. ASSUME NEW i \in 1 .. Len(new)
      PROVE  new[i] = IF i < before THEN name[i]
                      ELSE IF i = before THEN entry ELSE name[i - 1]
  <2>1. i \in 1 .. Len(half) + Len(back) /\ i \in Int  BY <1>1, <1>3, <1>5, <1>8
  <2>2. CASE i <= before  BY <1>5, <1>7, <2>1, <2>2
  <2>3. CASE before < i
    <3>1. /\ i - before \in 1 .. Len(name) - before + 1 /\ before + (i - before) - 1 = i - 1
          /\ ~(i <= Len(half)) /\ ~(i < before) /\ ~(i = before)
      BY <1>1, <1>3, <1>5, <2>1, <2>3
    <3>2. new[i] = back[i - before]  BY <1>5, <1>7, <2>1, <3>1
    <3> QED  BY <1>3, <3>1, <3>2
  <2> QED  BY <2>1, <2>2, <2>3
<1> QED  BY <1>7, <1>8, <1>9

\* an entry taken out of the table
LEMMA DeletedFacts ==
    ASSUME name \in Seq(Entries), NEW at \in 1 .. Len(name), NEW new, new = Deleted(at)
    PROVE  /\ new \in Seq(Entries) /\ Len(new) = Len(name) - 1
           /\ \A i \in 1 .. Len(new) : new[i] = IF i < at THEN name[i] ELSE name[i + 1]
<1> DEFINE front == SubSeq(name, 1, at - 1)
           back == SubSeq(name, at + 1, Len(name))
<1>1. Len(name) \in Nat /\ \A i \in 1 .. Len(name) : name[i] \in Entries
  BY LenProperties, ElementOfSeq
<1>2. /\ front \in Seq(Entries) /\ Len(front) = at - 1
      /\ \A i \in 1 .. at - 1 : front[i] = name[i]
  <2>1. 1 \in Int /\ at - 1 \in Int /\ \A i \in 1 .. at - 1 : name[i] \in Entries
    BY <1>1
  <2>2. /\ front \in Seq(Entries)
        /\ Len(front) = IF 1 <= at - 1 THEN (at - 1) - 1 + 1 ELSE 0
        /\ \A i \in 1 .. (at - 1) - 1 + 1 : front[i] = name[1 + i - 1]
    BY <2>1, SubSeqProperties
  <2> HIDE DEF front
  <2> QED  BY <1>1, <2>2
<1>3. /\ back \in Seq(Entries) /\ Len(back) = Len(name) - at
      /\ \A i \in 1 .. Len(name) - at : back[i] = name[at + i]
  <2>1. Len(name) \in Int /\ at + 1 \in Int /\ \A i \in at + 1 .. Len(name) : name[i] \in Entries
    BY <1>1
  <2>2. /\ back \in Seq(Entries)
        /\ Len(back) = IF at + 1 <= Len(name) THEN Len(name) - (at + 1) + 1 ELSE 0
        /\ \A i \in 1 .. Len(name) - (at + 1) + 1 : back[i] = name[at + 1 + i - 1]
    BY <2>1, SubSeqProperties
  <2> HIDE DEF back
  <2> QED  BY <1>1, <2>2
<1> HIDE DEF front, back
<1>4. new = front \o back  BY DEF Deleted, front, back
<1>5. /\ new \in Seq(Entries) /\ Len(new) = Len(front) + Len(back)
      /\ \A i \in 1 .. Len(front) + Len(back) :
            new[i] = IF i <= Len(front) THEN front[i] ELSE back[i - Len(front)]
  <2>1. front \in Seq(Entries) /\ back \in Seq(Entries)  BY <1>2, <1>3
  <2> QED  BY ONLY <1>4, <2>1, ConcatProperties
<1>6. Len(new) = Len(name) - 1  BY <1>1, <1>2, <1>3, <1>5
<1>7. ASSUME NEW i \in 1 .. Len(new)
      PROVE  new[i] = IF i < at THEN name[i] ELSE name[i + 1]
  <2>1. i \in 1 .. Len(front) + Len(back) /\ i \in Int  BY <1>1, <1>2, <1>3, <1>6
  <2>2. CASE i < at  BY <1>1, <1>2, <1>5, <2>1, <2>2
  <2>3. CASE at <= i
    <3>1. /\ i - (at - 1) \in 1 .. Len(name) - at /\ at + (i - (at - 1)) = i + 1
          /\ ~(i <= Len(front)) /\ ~(i < at)
      BY <1>1, <1>2, <1>6, <2>1, <2>3
    <3>2. new[i] = back[i - (at - 1)]  BY <1>2, <1>5, <2>1, <3>1
    <3> QED  BY <1>3, <3>1, <3>2
  <2> QED  BY <2>1, <2>2, <2>3
<1> QED  BY <1>5, <1>6, <1>7

\* The invariant says that the table can be searched.
LEMMA NamesSorted ==
    ASSUME TablesInv
    PROVE  /\ Sorted
           /\ \A s \in Services : phase[s] # "none" => ctxName[s] \in Names /\ ctxName[s] \in Nat
<1>1. name \in Seq(Entries)  BY DEF TablesInv
<1>2. Len(name) \in Nat /\ \A i \in 1 .. Len(name) : name[i].name \in Nat
  <2>1. Len(name) \in Nat /\ \A i \in 1 .. Len(name) : name[i] \in Entries
    BY <1>1, LenProperties, ElementOfSeq
  <2> QED  BY <2>1, NamesAssumption DEF Entries
<1>3. Sorted  BY <1>2 DEF Sorted, TablesInv, StorageInv, NamesExact
<1>4. ASSUME NEW s \in Services, phase[s] # "none" PROVE ctxName[s] \in Names
  BY <1>4 DEF TablesInv, StorageInv, TypeOK, ContextsInv
<1> QED  BY <1>3, <1>4, NamesAssumption
-----------------------------------------------------------------------------
(* The invariant holds *)

\* The first tables are exact: they are empty.
LEMMA InitTables == Init => TablesInv
<1> SUFFICES ASSUME Init PROVE TablesInv  OBVIOUS
<1> PICK d : d = DefaultSlotSize  OBVIOUS
<1>0. d \in Nat \ {0} /\ d <= HandleSize  BY SizeAssumption, SizesNat
<1>1. DOMAIN slot = 0 .. d - 1 /\ slot_size = d
  <2>1. DOMAIN slot = 0 .. d - 1  BY DEF Init
  <2> QED  BY <1>0, <2>1, TableSize DEF slot_size
<1>2. HandleSize \in Doublings(d)  BY HandleSizeReached
<1>3. name_cap \in Nat \ {0} /\ d \in Doublings(name_cap)
  <2> PICK half : half = DefaultSlotSize \div 2  OBVIOUS
  <2>1. half \in Nat \ {0} /\ d \in Doublings(half)  BY NameCapReached
  <2>2. name_cap = half  BY DEF Init
  <2> QED  BY <2>1, <2>2
<1>4. SizesInv  BY <1>0, <1>1, <1>2, <1>3 DEF SizesInv
<1>5. name = <<>> /\ name \in Seq(Entries) /\ Len(name) = 0  BY DEF Init
<1>6. slot = [i \in 0 .. d - 1 |-> None]  BY DEF Init
<1>7. TypeOK
  BY <1>0, <1>1, <1>3, <1>5, <1>6, SizesNat DEF TypeOK, Init
<1>8. SlotsExact /\ ContextsInv  BY <1>1, <1>6 DEF SlotsExact, ContextsInv, Init
<1>9. NamesExact  BY <1>5 DEF NamesExact
<1>10. AssertionsHold  BY DEF AssertionsHold, Init
<1> QED  BY <1>4, <1>5, <1>7, <1>8, <1>9, <1>10 DEF TablesInv, StorageInv
\* The handles of a table that has as many slots as a handle tells apart are still apart
\* modulo twice as many: the doubling that outgrows them makes no assertion fail.
LEMMA MayOutgrow ==
    ASSUME TablesInv, Outgrows
    PROVE  MayDouble
<1> PICK n, h : n = slot_size /\ h = HandleSize  OBVIOUS
<1>1. /\ n \in Nat \ {0} /\ h \in Doublings(n) /\ h \in Nat \ {0}
      /\ slot \in [0 .. n - 1 -> Services \union {None}]
  BY SizesNat DEF TablesInv, SizesInv, StorageInv, TypeOK
<1>2. n = h
  <2>1. n # h => 2 * n <= h  BY <1>1, MayGrow
  <2> QED  BY <1>1, <2>1 DEF Outgrows
<1>3. ASSUME NEW i \in Occupied
      PROVE  i \in 0 .. h - 1 /\ Rehash(i) = (Harbor * h + i) % (2 * h)
  <2>1. i \in 0 .. h - 1 /\ slot[i] # None /\ i \in DOMAIN slot  BY <1>1, <1>2 DEF Occupied
  <2>2. handle[slot[i]] = HarborHandle(i)  BY <2>1 DEF TablesInv, ContextsInv
  <2>3. HarborHandle(i) = Harbor * h + i  BY <2>1, HandleFacts
  <2> QED  BY <1>2, <2>1, <2>2, <2>3 DEF Rehash
<1>4. ASSUME NEW i \in 0 .. h - 1, NEW j \in 0 .. h - 1,
             (Harbor * h + i) % (2 * h) = (Harbor * h + j) % (2 * h)
      PROVE  i = j
  <2> PICK a, m : a = Harbor * h /\ m = 2 * h  OBVIOUS
  <2>1. a \in Nat /\ m \in Nat \ {0} /\ h \in Nat /\ m = 2 * h  BY <1>1, SizesNat
  <2> PICK x, y : x = a + i /\ y = a + j  OBVIOUS
  <2>2. x \in Int /\ y \in Int /\ x % m = y % m  BY <1>4, <2>1
  <2>3. x - y < m /\ y - x < m  BY <2>1
  <2>4. x = y  BY ONLY <2>1, <2>2, <2>3, ModClose
  <2> QED  BY <2>1, <2>4
<1>5. \A i, j \in Occupied : Rehash(i) = Rehash(j) => i = j  BY <1>3, <1>4
<1>6. 2 * slot_size - 1 <= IndexMask  BY <1>2, SizesNat
<1> QED  BY <1>5, <1>6 DEF MayDouble

\* Past that every table has two slots whose contexts have one handle, and the next doubling
\* that copies them both makes the assertion fail (skynet_service.c:113).
LEMMA HandlesRunOut ==
    ASSUME NEW s \in Services, NEW t \in Services,
           slot_size > HandleSize, 0 \in DOMAIN slot, HandleSize \in DOMAIN slot,
           slot[0] = s, slot[HandleSize] = t,
           handle[s] = HarborHandle(0), handle[t] = HarborHandle(HandleSize)
    PROVE  handle[s] = handle[t] /\ ~MayDouble
<1>1. HandleSize \in Nat \ {0} /\ Harbor \in Nat  BY SizesNat
<1>2. HandleSize % HandleSize = 0 /\ 0 % HandleSize = 0
  <2> PICK h : h = HandleSize  OBVIOUS
  <2>1. h = 1 * h + 0 /\ 0 = 0 * h + 0 /\ 0 \in 0 .. h - 1 /\ h \in Nat \ {0}  BY <1>1
  <2> QED  BY <2>1, ModIs
<1>3. HarborHandle(0) = HarborHandle(HandleSize)  BY <1>2 DEF HarborHandle
<1>4. 0 \in Occupied /\ HandleSize \in Occupied  BY NamesAssumption DEF Occupied
<1>5. Rehash(0) = Rehash(HandleSize)  BY <1>3 DEF Rehash
<1> QED  BY <1>1, <1>3, <1>4, <1>5 DEF MayDouble

\* A new context takes a slot nobody has, and the others keep theirs.
LEMMA CreateStep ==
    ASSUME TablesInv, NEW s \in Services, NEW n \in Names, Create(s, n)
    PROVE  TablesInv'
<1> PICK size, hash : Placed(s, size, hash)  BY CreatePlaces
<1> PICK old : old = slot_size  OBVIOUS
<1>1. /\ old \in Nat \ {0} /\ old <= HandleSize
      /\ slot \in [0 .. old - 1 -> Services \union {None}] /\ DOMAIN slot = 0 .. old - 1
      /\ name_cap \in Nat \ {0} /\ old \in Doublings(name_cap)
      /\ handle \in [Services -> Handles \union {None}]
      /\ ctxName \in [Services -> Names \union {None}]
      /\ phase \in [Services -> {"none", "creating", "running"}]
  BY DEF TablesInv, StorageInv, TypeOK, SizesInv
<1>2. /\ size \in Nat \ {0} /\ HandleSize \in Doublings(size)
      /\ size = old \/ size = 2 * old
      /\ hash \in 0 .. size - 1 /\ (hash < old => slot[hash] = None)
      /\ DOMAIN slot' = 0 .. size - 1
      /\ slot'[hash] = s
      /\ \A i \in 0 .. size - 1 : i # hash => slot'[i] = IF i < old THEN slot[i] ELSE None
      /\ handle' = [handle EXCEPT ![s] = HarborHandle(hash)]
      /\ slot_index' \in 0 .. IndexMask + 1
      /\ outcome' # "assertion"
  BY DEF Placed
<1>3. /\ phase[s] = "none"
      /\ phase' = [phase EXCEPT ![s] = "creating"]
      /\ ctxName' = [ctxName EXCEPT ![s] = n]
      /\ name' = name /\ name_cap' = name_cap
  BY DEF Create
<1>4. slot_size' = size  BY <1>2, TableSize DEF slot_size
<1>5. size <= HandleSize /\ HandleSize \in Nat /\ hash \in 0 .. HandleSize - 1
  BY <1>2, SizeDivides, SizesNat
<1>6. HarborHandle(hash) \in Handles /\ HarborIndex(HarborHandle(hash)) = hash
  BY <1>5, HandleFacts
<1>7. ASSUME NEW i \in 0 .. old - 1, slot[i] # None
      PROVE  slot[i] \in Services /\ slot[i] # s /\ phase[slot[i]] # "none"
             /\ handle[slot[i]] = HarborHandle(i)
  BY <1>1, <1>3, <1>7 DEF TablesInv, StorageInv, SlotsExact, ContextsInv
<1>8. \A i \in 0 .. size - 1 : i # hash /\ slot'[i] # None =>
         i \in 0 .. old - 1 /\ slot'[i] = slot[i] /\ slot[i] # None
  BY <1>1, <1>2
<1>t. None \notin Services /\ None \notin Names /\ n # None  BY NamesAssumption
<1>9. TypeOK'
  <2>1. slot' \in [0 .. size - 1 -> Services \union {None}]
    <3>1. \A i \in 0 .. size - 1 : slot'[i] \in Services \union {None}
      BY <1>2, <1>7, <1>8
    <3>2. \E t, d : slot' = [t EXCEPT ![d] = s]  BY DEF Create
    <3>3. slot' = [i \in DOMAIN slot' |-> slot'[i]]  BY <3>2
    <3> QED  BY <1>2, <3>1, <3>3
  <2>2. name_cap' \in Nat /\ Len(name)' <= name_cap'
    BY <1>1, <1>3 DEF TablesInv, StorageInv, TypeOK
  <2> QED  BY <1>1, <1>2, <1>3, <1>4, <1>5, <1>6, <2>1, <2>2 DEF TypeOK
<1>10. SlotsExact'
  <2>1. ASSUME NEW t \in Services, phase'[t] # "none"
        PROVE  HarborIndex(handle'[t]) < slot_size' /\ slot'[HarborIndex(handle'[t])] = t
    <3>1. CASE t = s  BY <1>1, <1>2, <1>4, <1>6, <3>1
    <3>2. CASE t # s
      <4> PICK i : i = HarborIndex(handle[t])  OBVIOUS
      <4>1. phase[t] # "none" /\ handle'[t] = handle[t]  BY <1>1, <1>2, <1>3, <2>1, <3>2
      <4>2. i < old /\ slot[i] = t  BY <4>1 DEF TablesInv, StorageInv, SlotsExact
      <4>3. i \in 0 .. HandleSize - 1
        BY <4>1, IndexFacts DEF TablesInv, ContextsInv
      <4>4. i \in 0 .. size - 1 /\ i # hash  BY <1>1, <1>2, <1>t, <4>2, <4>3
      <4> QED  BY <1>2, <1>4, <4>1, <4>2, <4>4
    <3> QED  BY <3>1, <3>2
  <2>2. ASSUME NEW i \in DOMAIN slot', slot'[i] # None PROVE phase'[slot'[i]] # "none"
    <3>1. CASE i = hash  BY <1>1, <1>2, <1>3, <3>1
    <3>2. CASE i # hash  BY <1>1, <1>2, <1>3, <1>7, <1>8, <2>2, <3>2
    <3> QED  BY <3>1, <3>2
  <2> QED  BY <2>1, <2>2 DEF SlotsExact
<1>11. ContextsInv'
  <2>1. ASSUME NEW t \in Services
        PROVE  /\ phase'[t] # "none" => handle'[t] \in Handles
               /\ phase'[t] = "none" <=> ctxName'[t] = None
    BY <1>1, <1>2, <1>3, <1>6, <1>t DEF TablesInv, ContextsInv
  <2>2. ASSUME NEW i \in DOMAIN slot', slot'[i] # None PROVE handle'[slot'[i]] = HarborHandle(i)
    <3>1. CASE i = hash  BY <1>1, <1>2, <3>1
    <3>2. CASE i # hash  BY <1>1, <1>2, <1>7, <1>8, <2>2, <3>2
    <3> QED  BY <3>1, <3>2
  <2>3. \A i \in DOMAIN slot' : slot'[i] # None => handle'[slot'[i]] = HarborHandle(i)
    BY <2>2
  <2> QED  BY <2>1, <2>3 DEF ContextsInv, HarborHandle
<1>12. NamesExact'
  <2>1. ASSUME NEW i \in 1 .. Len(name)
        PROVE  \E t \in Services : phase'[t] = "running" /\ ctxName'[t] = name[i].name
                                   /\ handle'[t] = name[i].handle
    <3>1. PICK t \in Services :
              phase[t] = "running" /\ ctxName[t] = name[i].name /\ handle[t] = name[i].handle
      BY DEF TablesInv, StorageInv, NamesExact
    <3>2. t # s  BY <1>3, <3>1
    <3> QED  BY <1>1, <1>2, <1>3, <3>1, <3>2
  <2>2. \A i, j \in 1 .. Len(name) : i < j => name[i].name < name[j].name
    BY DEF TablesInv, StorageInv, NamesExact
  <2> QED  BY <1>3, <2>1, <2>2 DEF NamesExact
<1>13. SizesInv'
  <2>1. size \in Doublings(name_cap)  BY ZenonT(60), <1>1, <1>2, DoublingsNext
  <2> QED  BY <1>1, <1>2, <1>3, <1>4, <2>1 DEF SizesInv
<1> QED
  BY <1>2, <1>3, <1>9, <1>10, <1>11, <1>12, <1>13 DEF TablesInv, StorageInv, AssertionsHold, Entries, Handles, HarborHandle
\* A name entered keeps the table sorted, and neither table outgrows the other: while a
\* service is being created there are fewer names than slots, so that a full table
\* of names is at least one doubling behind.
LEMMA RegisterStep ==
    ASSUME TablesInv, NEW s \in Services, RegisterName(s)
    PROVE  TablesInv'
<1> PICK n, h : n = ctxName[s] /\ h = handle[s]  OBVIOUS
<1> PICK r : r = Search(n)  OBVIOUS
<1>1. /\ phase[s] = "creating"
      /\ phase' = [phase EXCEPT ![s] = "running"]
      /\ slot' = slot /\ slot_index' = slot_index /\ handle' = handle /\ ctxName' = ctxName
      /\ slot_size' = slot_size
  BY DEF RegisterName, slot_size
<1>2. /\ phase \in [Services -> {"none", "creating", "running"}]
      /\ name_cap \in Nat \ {0} /\ slot_size \in Doublings(name_cap) /\ slot_size \in Nat
      /\ Len(name) <= name_cap /\ name \in Seq(Entries) /\ Len(name) \in Nat
  BY LenProperties DEF TablesInv, StorageInv, TypeOK, SizesInv
<1>3. Sorted /\ n \in Names /\ n \in Nat  BY <1>1, NamesSorted
<1>4. h \in Handles  BY <1>1 DEF TablesInv, ContextsInv
<1>5. /\ r.found \in BOOLEAN
      /\ r.found => r.at \in 1 .. Len(name) /\ name[r.at].name = n
      /\ ~r.found => /\ r.at \in 1 .. Len(name) + 1
                     /\ \A j \in 1 .. r.at - 1 : name[j].name < n
                     /\ \A j \in r.at .. Len(name) : n < name[j].name
  BY <1>3, SearchFinds
<1> DEFINE entry == [name |-> n, handle |-> h]
<1>6. IF r.found THEN name' = name /\ name_cap' = name_cap /\ outcome' = outcome
      ELSE /\ name' = Inserted(entry, r.at)
           /\ name_cap' = IF NamesFull THEN 2 * name_cap ELSE name_cap
           /\ outcome' = IF name_cap' > slot_size THEN "assertion" ELSE "fine"
  BY DEF RegisterName
<1>e. entry \in Entries /\ entry.name = n /\ entry.handle = h  BY <1>3, <1>4 DEF Entries
<1> HIDE DEF entry
<1>7. ~r.found => /\ name' \in Seq(Entries) /\ Len(name') = Len(name) + 1
                  /\ \A i \in 1 .. Len(name') :
                        name'[i] = IF i < r.at THEN name[i]
                                   ELSE IF i = r.at THEN entry ELSE name[i - 1]
  BY <1>2, <1>5, <1>6, <1>e, InsertedFacts
<1>8. /\ name_cap' \in Nat \ {0} /\ slot_size \in Doublings(name_cap')
      /\ Len(name') <= name_cap' /\ name' \in Seq(Entries)
      /\ outcome' # "assertion"
  <2>1. CASE r.found  BY <1>2, <1>6, <2>1 DEF TablesInv, AssertionsHold
  <2>2. CASE ~r.found /\ NamesFull
    <3>1. Len(name) < slot_size /\ name_cap <= Len(name)  BY <1>1, <2>2, NamesFit DEF NamesFull
    <3>2. slot_size # name_cap  BY <1>2, <3>1
    <3>3. 2 * name_cap \in Nat \ {0} /\ slot_size \in Doublings(2 * name_cap)
          /\ 2 * name_cap <= slot_size
      BY <1>2, <3>2, MayGrow
    <3>4. name_cap' = 2 * name_cap  BY <1>6, <2>2
    <3>5. Len(name) + 1 <= 2 * name_cap /\ ~(name_cap' > slot_size)  BY <1>2, <3>3, <3>4
    <3>6. outcome' = "fine"  BY <1>6, <2>2, <3>5
    <3> QED  BY <1>7, <2>2, <3>3, <3>4, <3>5, <3>6
  <2>3. CASE ~r.found /\ ~NamesFull
    <3>1. name_cap' = name_cap /\ Len(name) + 1 <= name_cap  BY <1>2, <1>6, <2>3 DEF NamesFull
    <3>2. name_cap <= slot_size  BY <1>2, DoublingsAbove
    <3>3. ~(name_cap' > slot_size)  BY <1>2, <3>1, <3>2
    <3>4. outcome' = "fine"  BY <1>6, <2>3, <3>3
    <3> QED  BY <1>2, <1>7, <2>3, <3>1, <3>4
  <2> QED  BY <1>5, <2>1, <2>2, <2>3
<1>9. TypeOK'
  BY <1>1, <1>2, <1>8 DEF TablesInv, StorageInv, TypeOK, Handles, HarborHandle
<1>10. SlotsExact'
  BY <1>1, <1>2 DEF TablesInv, StorageInv, SlotsExact, TypeOK, HarborIndex
<1>11. ContextsInv'
  BY <1>1, <1>2 DEF TablesInv, StorageInv, ContextsInv, Handles, HarborHandle
<1>12. NamesExact'
  <2>0. ASSUME NEW i \in 1 .. Len(name)
        PROVE  \E t \in Services : phase'[t] = "running" /\ ctxName'[t] = name[i].name
                                   /\ handle'[t] = name[i].handle
    <3>1. PICK t \in Services :
              phase[t] = "running" /\ ctxName[t] = name[i].name /\ handle[t] = name[i].handle
      BY DEF TablesInv, StorageInv, NamesExact
    <3> QED  BY <1>1, <1>2, <3>1
  <2>1. CASE r.found
    <3>1. \A i, j \in 1 .. Len(name) : i < j => name[i].name < name[j].name
      BY <1>3 DEF Sorted
    <3> QED  BY <1>6, <2>0, <2>1, <3>1 DEF NamesExact
  <2>2. CASE ~r.found
    <3>0. r.at \in 1 .. Len(name) + 1 /\ r.at \in Nat  BY <1>2, <1>5, <2>2
    <3>1. ASSUME NEW i \in 1 .. Len(name')
          PROVE  \/ i < r.at /\ i \in 1 .. Len(name) /\ name'[i] = name[i] /\ name'[i].name < n
                 \/ i = r.at /\ name'[i] = entry /\ name'[i].name = n
                 \/ /\ r.at < i /\ i - 1 \in 1 .. Len(name) /\ name'[i] = name[i - 1]
                    /\ n < name'[i].name
      <4>0. i \in 1 .. Len(name) + 1 /\ i \in Nat  BY <1>2, <1>7, <2>2
      <4>1. CASE i < r.at
        <5>1. i \in 1 .. r.at - 1 /\ i \in 1 .. Len(name)  BY <1>2, <3>0, <4>0, <4>1
        <5> QED  BY <1>5, <1>7, <2>2, <4>1, <5>1
      <4>2. CASE i = r.at
        <5>1. ~(i < r.at)  BY <3>0, <4>2
        <5> QED  BY <1>7, <1>e, <2>2, <4>2, <5>1
      <4>3. CASE r.at < i
        <5>1. i - 1 \in r.at .. Len(name) /\ i - 1 \in 1 .. Len(name) /\ ~(i < r.at) /\ i # r.at
          BY <1>2, <3>0, <4>0, <4>3
        <5> QED  BY <1>5, <1>7, <2>2, <4>3, <5>1
      <4> QED  BY <3>0, <4>0, <4>1, <4>2, <4>3
    <3>2. ASSUME NEW i \in 1 .. Len(name'), NEW j \in 1 .. Len(name'), i < j
          PROVE  name'[i].name < name'[j].name
      <4>0. /\ \A k, l \in 1 .. Len(name) : k < l => name[k].name < name[l].name
            /\ \A k \in 1 .. Len(name) : name[k].name \in Nat
            /\ i \in Nat /\ j \in Nat
        BY <1>2, <1>3, <1>7, <2>2 DEF Sorted
      <4>1. CASE i < r.at /\ j < r.at  BY <3>0, <3>1, <3>2, <4>0, <4>1
      <4>2. CASE i < r.at /\ ~(j < r.at)
        <5>1. name'[i] = name[i] /\ i \in 1 .. Len(name) /\ name'[i].name < n
          BY <3>0, <3>1, <4>0, <4>2
        <5>2. \/ name'[j].name = n
              \/ j - 1 \in 1 .. Len(name) /\ name'[j] = name[j - 1] /\ n < name'[j].name
          BY <3>0, <3>1, <4>0, <4>2
        <5> QED  BY <1>3, <4>0, <5>1, <5>2
      <4>3. CASE i = r.at
        <5>1. name'[i].name = n  BY <3>0, <3>1, <4>0, <4>3
        <5>2. n < name'[j].name  BY <3>0, <3>1, <3>2, <4>0, <4>3
        <5> QED  BY <5>1, <5>2
      <4>4. CASE r.at < i
        <5>1. /\ i - 1 \in 1 .. Len(name) /\ name'[i] = name[i - 1]
              /\ j - 1 \in 1 .. Len(name) /\ name'[j] = name[j - 1] /\ i - 1 < j - 1
          BY <3>0, <3>1, <3>2, <4>0, <4>4
        <5> QED  BY <4>0, <5>1
      <4> QED  BY <3>0, <4>0, <4>1, <4>2, <4>3, <4>4
    <3>3. ASSUME NEW i \in 1 .. Len(name')
          PROVE  \E t \in Services : phase'[t] = "running" /\ ctxName'[t] = name'[i].name
                                     /\ handle'[t] = name'[i].handle
      <4>1. CASE name'[i] = entry  BY <1>1, <1>2, <1>e, <4>1
      <4>2. CASE name'[i] # entry
        <5>1. \E k \in 1 .. Len(name) : name'[i] = name[k]  BY <3>1, <4>2
        <5> QED  BY <2>0, <5>1
      <4> QED  BY <4>1, <4>2
    <3> QED  BY <3>2, <3>3 DEF NamesExact
  <2> QED  BY <1>5, <2>1, <2>2
<1>13. SizesInv'  BY <1>1, <1>8 DEF TablesInv, SizesInv
<1> QED
  BY <1>8, <1>9, <1>10, <1>11, <1>12, <1>13 DEF TablesInv, StorageInv, AssertionsHold, Entries, Handles, HarborHandle

\* A context released leaves its slot, and its name goes with it whoever has it: the
\* entries left are of the others.
LEMMA ReleaseStep ==
    ASSUME TablesInv, NEW s \in Services, Release(s)
    PROVE  TablesInv'
<1> PICK n : n = ctxName[s]  OBVIOUS
<1> PICK r : r = Search(n)  OBVIOUS
<1> PICK hash : hash = HarborIndex(handle[s])  OBVIOUS
<1>1. /\ phase[s] # "none"
      /\ phase' = [phase EXCEPT ![s] = "none"]
      /\ slot' = [slot EXCEPT ![hash] = None] /\ slot_index' = slot_index
      /\ handle' = [handle EXCEPT ![s] = None] /\ ctxName' = [ctxName EXCEPT ![s] = None]
      /\ name_cap' = name_cap
      /\ outcome' = IF hash >= slot_size THEN "assertion" ELSE "fine"
      /\ name' = IF r.found THEN Deleted(r.at) ELSE name
  BY DEF Release
<1> PICK size : size = slot_size  OBVIOUS
<1>2. /\ size \in Nat \ {0}
      /\ slot \in [0 .. size - 1 -> Services \union {None}] /\ DOMAIN slot = 0 .. size - 1
      /\ handle \in [Services -> Handles \union {None}]
      /\ ctxName \in [Services -> Names \union {None}]
      /\ phase \in [Services -> {"none", "creating", "running"}]
      /\ name_cap \in Nat /\ Len(name) <= name_cap
      /\ name \in Seq(Entries) /\ Len(name) \in Nat
  BY LenProperties DEF TablesInv, StorageInv, TypeOK, SizesInv
<1>t. None \notin Services /\ None \notin Names  BY NamesAssumption
<1>3. Sorted /\ n \in Names /\ n \in Nat  BY <1>1, NamesSorted
<1>4. hash \in 0 .. size - 1 /\ slot[hash] = s
  <2>1. hash < size /\ slot[hash] = s  BY <1>1 DEF TablesInv, StorageInv, SlotsExact
  <2>2. hash \in 0 .. HandleSize - 1  BY <1>1, IndexFacts DEF TablesInv, ContextsInv
  <2> QED  BY <1>2, <2>1, <2>2
<1>5. outcome' # "assertion"  BY <1>1, <1>2, <1>4
<1>6. slot' \in [0 .. size - 1 -> Services \union {None}] /\ slot_size' = size
      /\ slot'[hash] = None /\ \A i \in 0 .. size - 1 : i # hash => slot'[i] = slot[i]
  BY <1>1, <1>2, <1>4, TableSize DEF slot_size
<1>7. \A i \in 0 .. size - 1 : slot'[i] # None => i # hash /\ slot[i] # s
  <2> SUFFICES ASSUME NEW i \in 0 .. size - 1, slot'[i] # None PROVE i # hash /\ slot[i] # s
    OBVIOUS
  <2>1. i # hash  BY <1>6
  <2>2. slot[i] # s  BY <1>2, <1>4, <1>t, <2>1, SlotsDistinct
  <2> QED  BY <2>1, <2>2
<1>8. /\ r.found \in BOOLEAN
      /\ r.found => r.at \in 1 .. Len(name) /\ name[r.at].name = n
      /\ ~r.found => /\ \A j \in 1 .. r.at - 1 : name[j].name < n
                     /\ \A j \in r.at .. Len(name) : n < name[j].name
                     /\ r.at \in 1 .. Len(name) + 1
  BY <1>3, SearchFinds
<1>9. r.found => /\ name' \in Seq(Entries) /\ Len(name') = Len(name) - 1
                 /\ \A i \in 1 .. Len(name') :
                       name'[i] = IF i < r.at THEN name[i] ELSE name[i + 1]
  <2> SUFFICES ASSUME r.found
               PROVE  /\ name' \in Seq(Entries) /\ Len(name') = Len(name) - 1
                      /\ \A i \in 1 .. Len(name') :
                            name'[i] = IF i < r.at THEN name[i] ELSE name[i + 1]
    OBVIOUS
  <2>1. name' = Deleted(r.at) /\ r.at \in 1 .. Len(name)  BY <1>1, <1>8
  <2>2. name \in Seq(Entries)  BY <1>2
  <2> QED  BY ONLY <2>1, <2>2, DeletedFacts
\* each entry left stood in the table, in the same order, and is not of the name
<1>10. /\ name' \in Seq(Entries) /\ Len(name') \in Nat /\ Len(name') <= Len(name)
       /\ \E from \in [1 .. Len(name') -> 1 .. Len(name)] :
             /\ \A i \in 1 .. Len(name') : name'[i] = name[from[i]] /\ name[from[i]].name # n
             /\ \A i, j \in 1 .. Len(name') : i < j => from[i] < from[j]
  <2>1. CASE r.found
    <3> DEFINE from == [i \in 1 .. Len(name') |-> IF i < r.at THEN i ELSE i + 1]
    <3>1. r.at \in 1 .. Len(name) /\ r.at \in Nat /\ Len(name') = Len(name) - 1 /\ name[r.at].name = n
      BY <1>2, <1>8, <1>9, <2>1
    <3>2. ASSUME NEW i \in 1 .. Len(name')
          PROVE  /\ from[i] \in 1 .. Len(name) /\ from[i] # r.at
                 /\ name'[i] = name[from[i]]
      BY <1>2, <1>9, <2>1, <3>1
    <3>3. \A i, j \in 1 .. Len(name') : i < j => from[i] < from[j]
      BY <1>2, <3>1
    <3>4. from \in [1 .. Len(name') -> 1 .. Len(name)]
      <4>1. from = [i \in 1 .. Len(name') |-> from[i]]  OBVIOUS
      <4> HIDE DEF from
      <4> QED  BY <3>2, <4>1
    <3> HIDE DEF from
    <3>5. ASSUME NEW i \in 1 .. Len(name') PROVE name[from[i]].name # n
      BY <3>1, <3>2, EntriesDistinct
    <3>6. /\ \A i \in 1 .. Len(name') : name'[i] = name[from[i]] /\ name[from[i]].name # n
          /\ \A i, j \in 1 .. Len(name') : i < j => from[i] < from[j]
      BY <3>2, <3>3, <3>5
    <3>7. name' \in Seq(Entries) /\ Len(name') \in Nat /\ Len(name') <= Len(name)
      BY <1>2, <1>9, <2>1, <3>1
    <3> QED  BY ONLY <3>4, <3>6, <3>7
  <2>2. CASE ~r.found
    <3> DEFINE from == [i \in 1 .. Len(name) |-> i]
    <3>1. name' = name  BY <1>1, <2>2
    <3>2. ASSUME NEW i \in 1 .. Len(name) PROVE name[i].name # n
      <4>1. i \in 1 .. r.at - 1 \/ i \in r.at .. Len(name)  BY <1>2, <1>8, <2>2
      <4> QED  BY <1>3, <1>8, <2>2, <4>1
    <3>3. /\ from \in [1 .. Len(name) -> 1 .. Len(name)]
          /\ \A i \in 1 .. Len(name) : name[i] = name[from[i]] /\ name[from[i]].name # n
          /\ \A i, j \in 1 .. Len(name) : i < j => from[i] < from[j]
      BY <3>2
    <3> HIDE DEF from
    <3>4. Len(name') = Len(name) /\ name' \in Seq(Entries) /\ Len(name') \in Nat
          /\ Len(name') <= Len(name)
      BY <1>2, <3>1
    <3>5. /\ from \in [1 .. Len(name') -> 1 .. Len(name)]
          /\ \A i \in 1 .. Len(name') : name'[i] = name[from[i]] /\ name[from[i]].name # n
          /\ \A i, j \in 1 .. Len(name') : i < j => from[i] < from[j]
      BY <3>1, <3>3, <3>4
    <3> QED  BY ONLY <3>4, <3>5
  <2> QED  BY <1>8, <2>1, <2>2
<1>11. TypeOK'
  BY <1>1, <1>2, <1>6, <1>10 DEF TablesInv, StorageInv, TypeOK, Handles, HarborHandle
<1>12. SlotsExact'
  <2>1. ASSUME NEW t \in Services, phase'[t] # "none"
        PROVE  HarborIndex(handle'[t]) < slot_size' /\ slot'[HarborIndex(handle'[t])] = t
    <3> PICK i : i = HarborIndex(handle[t])  OBVIOUS
    <3>1. t # s /\ phase[t] # "none" /\ handle'[t] = handle[t]  BY <1>1, <1>2, <2>1
    <3>2. i < size /\ slot[i] = t  BY <3>1 DEF TablesInv, StorageInv, SlotsExact
    <3>3. i \in 0 .. HandleSize - 1  BY <3>1, IndexFacts DEF TablesInv, ContextsInv
    <3>4. i \in 0 .. size - 1 /\ i # hash  BY <1>2, <1>4, <3>1, <3>2, <3>3
    <3> QED  BY <1>6, <3>1, <3>2, <3>4
  <2>2. ASSUME NEW i \in DOMAIN slot', slot'[i] # None PROVE phase'[slot'[i]] # "none"
    <3>1. i \in 0 .. size - 1  BY <1>6
    <3>2. slot'[i] = slot[i] /\ slot[i] # s /\ slot[i] \in Services  BY <1>2, <1>6, <1>7, <2>2, <3>1
    <3>3. phase[slot[i]] # "none"
      BY <1>2, <2>2, <3>1, <3>2 DEF TablesInv, StorageInv, SlotsExact
    <3> QED  BY <1>1, <1>2, <3>2, <3>3
  <2> QED  BY <2>1, <2>2 DEF SlotsExact
<1>13. ContextsInv'
  <2>1. ASSUME NEW t \in Services
        PROVE  /\ phase'[t] # "none" => handle'[t] \in Handles
               /\ phase'[t] = "none" <=> ctxName'[t] = None
    BY <1>1, <1>2, <1>t DEF TablesInv, ContextsInv
  <2>2. ASSUME NEW i \in DOMAIN slot', slot'[i] # None PROVE handle'[slot'[i]] = HarborHandle(i)
    <3>1. i \in 0 .. size - 1  BY <1>6
    <3>2. slot'[i] = slot[i] /\ slot[i] # s /\ slot[i] \in Services  BY <1>2, <1>6, <1>7, <2>2, <3>1
    <3>3. handle[slot[i]] = HarborHandle(i)  BY <1>2, <2>2, <3>1, <3>2 DEF TablesInv, ContextsInv
    <3> QED  BY <1>1, <1>2, <3>2, <3>3
  <2>3. \A i \in DOMAIN slot' : slot'[i] # None => handle'[slot'[i]] = HarborHandle(i)
    BY <2>2
  <2> QED  BY <2>1, <2>3 DEF ContextsInv, HarborHandle
<1>14. NamesExact'
  <2> PICK from \in [1 .. Len(name') -> 1 .. Len(name)] :
         /\ \A i \in 1 .. Len(name') : name'[i] = name[from[i]] /\ name[from[i]].name # n
         /\ \A i, j \in 1 .. Len(name') : i < j => from[i] < from[j]
    BY <1>10
  <2>1. \A i, j \in 1 .. Len(name') : i < j => name'[i].name < name'[j].name
    BY <1>3 DEF Sorted
  <2>2. ASSUME NEW i \in 1 .. Len(name')
        PROVE  \E t \in Services : phase'[t] = "running" /\ ctxName'[t] = name'[i].name
                                   /\ handle'[t] = name'[i].handle
    <3>1. from[i] \in 1 .. Len(name) /\ name'[i] = name[from[i]] /\ name'[i].name # n  OBVIOUS
    <3>2. PICK t \in Services : /\ phase[t] = "running" /\ ctxName[t] = name'[i].name
                                /\ handle[t] = name'[i].handle
      BY <3>1 DEF TablesInv, StorageInv, NamesExact
    <3>3. t # s  BY <3>1, <3>2
    <3> QED  BY <1>1, <1>2, <3>2, <3>3
  <2> QED  BY <2>1, <2>2 DEF NamesExact
<1>15. SizesInv'  BY <1>1, <1>6 DEF TablesInv, SizesInv
<1> QED
  BY <1>5, <1>10, <1>11, <1>12, <1>13, <1>14, <1>15
  DEF TablesInv, StorageInv, AssertionsHold, Entries, Handles, HarborHandle
\* Every step keeps the tables exact.
LEMMA StepTables == TablesInv /\ [Next]_vars => TablesInv'
<1> SUFFICES ASSUME TablesInv, [Next]_vars PROVE TablesInv'  OBVIOUS
<1>1. ASSUME NEW s \in Services, RegisterName(s) PROVE TablesInv'  BY <1>1, RegisterStep
<1>2. ASSUME NEW s \in Services, Release(s) PROVE TablesInv'  BY <1>2, ReleaseStep
<1>3. ASSUME NEW s \in Services, NEW n \in Names, Create(s, n) PROVE TablesInv'
  BY <1>3, CreateStep
<1>4. CASE UNCHANGED vars
  BY <1>4 DEF vars, TablesInv, StorageInv, TypeOK, SlotsExact, NamesExact, SizesInv, ContextsInv,
              AssertionsHold, Entries, Handles, HarborHandle, HarborIndex, slot_size
<1>5. ASSUME NEW s \in Services, Outgrow(s) PROVE TablesInv'
  <2>1. UNCHANGED <<slot, slot_index, name, name_cap, handle, ctxName, phase>>
    BY <1>5 DEF Outgrow
  <2>2. MayDouble  BY <1>5, MayOutgrow DEF Outgrow
  <2>3. AssertionsHold'  BY <1>5, <2>2 DEF Outgrow, Doubling, AssertionsHold
  <2> QED
    BY <2>1, <2>3 DEF TablesInv, StorageInv, TypeOK, SlotsExact, NamesExact, SizesInv, ContextsInv,
              Entries, Handles, HarborHandle, HarborIndex, slot_size
<1> QED  BY <1>1, <1>2, <1>3, <1>4, <1>5 DEF Next

\* So the tables are exact at any time.
THEOREM TablesInvAlways == Spec => []TablesInv
<1>1. Init => TablesInv  BY InitTables
<1>2. TablesInv /\ [Next]_vars => TablesInv'  BY StepTables
<1> QED  BY <1>1, <1>2, PTL DEF Spec

\* Every context is in the slot its handle names and no slot keeps a freed one; the
\* table of names is strictly sorted and each entry is of a running service created
\* under it (skynet_service.c:72, 267, 316).
THEOREM StorageIsExact == Spec => []StorageInv
<1>1. TablesInv => StorageInv  BY DEF TablesInv
<1> QED  BY <1>1, TablesInvAlways, PTL

\* For any number of services and names no assertion of the storage fails while the table has
\* no more slots than a handle tells apart, nor in the doubling past them, where the model
\* ends (skynet_service.c:108, 113, 125, 284); HandlesRunOut says what comes after.
THEOREM StorageAsserts == Spec => []AssertionsHold
<1>1. TablesInv => AssertionsHold  BY DEF TablesInv
<1> QED  BY <1>1, TablesInvAlways, PTL
-----------------------------------------------------------------------------
(* The lookups *)

\* A handle finds the live context that has it, and no other finds it.
FoundByHandle ==
    \A h \in Handles :
        /\ Find(h) \in Services \union {None}
        /\ \A s \in Services : Find(h) = s <=> phase[s] # "none" /\ handle[s] = h

\* the table has the handle under the name
Entered(n, h) == \E i \in 1 .. Len(name) : name[i].name = n /\ name[i].handle = h

\* A name finds the context of its entry.
FoundByName ==
    \A n \in Names :
        /\ FindName(n) \in Services \union {None}
        /\ \A s \in Services : FindName(n) = s <=> phase[s] # "none" /\ Entered(n, handle[s])

\* A handle finds the service that has it, and nothing if there is none.
LEMMA FindFacts == TablesInv => FoundByHandle
<1> SUFFICES ASSUME TablesInv, NEW h \in Handles
             PROVE  /\ Find(h) \in Services \union {None}
                    /\ \A s \in Services : Find(h) = s <=> phase[s] # "none" /\ handle[s] = h
  BY DEF FoundByHandle
<1> PICK i : i = HarborIndex(h)  OBVIOUS
<1>1. i \in 0 .. HandleSize - 1  BY IndexFacts
<1>2. slot \in [0 .. slot_size - 1 -> Services \union {None}] /\ slot_size \in Nat
  BY DEF TablesInv, StorageInv, TypeOK, SizesInv
<1>t. None \notin Services  BY NamesAssumption
<1>3. Find(h) = IF i < slot_size /\ slot[i] # None /\ handle[slot[i]] = h THEN slot[i] ELSE None
  BY DEF Find
<1>4. i < slot_size => i \in DOMAIN slot /\ slot[i] \in Services \union {None}
  BY <1>1, <1>2
<1>5. ASSUME NEW s \in Services, phase[s] # "none", handle[s] = h PROVE Find(h) = s
  <2>1. i < slot_size /\ slot[i] = s  BY <1>5 DEF TablesInv, StorageInv, SlotsExact
  <2> QED  BY <1>3, <1>5, <1>t, <2>1
<1>6. ASSUME NEW s \in Services, Find(h) = s PROVE phase[s] # "none" /\ handle[s] = h
  <2>1. i < slot_size /\ slot[i] = s /\ handle[s] = h  BY <1>3, <1>6, <1>t
  <2>2. phase[s] # "none"  BY <1>4, <1>t, <2>1 DEF TablesInv, StorageInv, SlotsExact
  <2> QED  BY <2>1, <2>2
<1> QED  BY <1>3, <1>4, <1>5, <1>6

\* A name finds the service it was given to, and nothing if there is none.
LEMMA FindNameFacts == TablesInv => FoundByName
<1> SUFFICES ASSUME TablesInv, NEW n \in Names
             PROVE  /\ FindName(n) \in Services \union {None}
                    /\ \A s \in Services :
                          FindName(n) = s <=> phase[s] # "none" /\ Entered(n, handle[s])
  BY DEF FoundByName
<1>t. None \notin Services /\ n \in Nat  BY NamesAssumption
<1> PICK r : r = Search(n)  OBVIOUS
<1>1. /\ r.found \in BOOLEAN
      /\ r.found => r.at \in 1 .. Len(name) /\ name[r.at].name = n
      /\ ~r.found => /\ r.at \in 1 .. Len(name) + 1
                     /\ \A j \in 1 .. r.at - 1 : name[j].name < n
                     /\ \A j \in r.at .. Len(name) : n < name[j].name
  BY <1>t, NamesSorted, SearchFinds
<1>2. Len(name) \in Nat /\ name \in Seq(Entries)  BY LenProperties DEF TablesInv
<1>3. FindName(n) = Find(IF r.found THEN name[r.at].handle ELSE 0)  BY DEF FindName
<1>4. CASE r.found
  <2> PICK h : h = name[r.at].handle  OBVIOUS
  <2>1. h \in Handles
    <3>1. name[r.at] \in Entries  BY <1>1, <1>2, <1>4, ElementOfSeq
    <3> QED  BY <3>1 DEF Entries
  <2>2. /\ Find(h) \in Services \union {None}
        /\ \A s \in Services : Find(h) = s <=> phase[s] # "none" /\ handle[s] = h
    BY <2>1, FindFacts DEF FoundByHandle
  <2>3. \A i \in 1 .. Len(name) : name[i].name = n => i = r.at
    BY <1>1, <1>4, EntriesDistinct
  <2> QED  BY <1>1, <1>3, <1>4, <2>2, <2>3 DEF Entered
<1>5. CASE ~r.found
  <2>1. ASSUME NEW i \in 1 .. Len(name) PROVE name[i].name # n
    <3>1. i \in 1 .. r.at - 1 \/ i \in r.at .. Len(name)  BY <1>1, <1>2, <1>5
    <3> QED  BY <1>1, <1>5, <1>t, <3>1
  <2>2. Find(0) = None
    <3>1. HarborIndex(0) = 0
      <4>1. 0 = 0 * HandleSize + 0 /\ 0 \in 0 .. HandleSize - 1  BY SizesNat
      <4> QED  BY <4>1, SizesNat, ModIs DEF HarborIndex
    <3>2. slot_size \in Nat \ {0} /\ DOMAIN slot = 0 .. slot_size - 1
      BY DEF TablesInv, StorageInv, TypeOK, SizesInv
    <3>3. slot[0] # None => handle[slot[0]] # 0
      <4>1. 0 \in DOMAIN slot /\ 0 \in 0 .. HandleSize - 1  BY <3>2, SizesNat
      <4>2. HarborHandle(0) # 0  BY <4>1, HandleFacts
      <4> QED  BY <4>1, <4>2 DEF TablesInv, ContextsInv
    <3> QED  BY <3>1, <3>3 DEF Find
  <2> QED  BY <1>3, <1>5, <1>t, <2>1, <2>2 DEF Entered
<1> QED  BY <1>1, <1>4, <1>5

\* What the lookups find, before and after a step.
LEMMA FoundNext == TablesInv' => FoundByHandle' /\ FoundByName'
<1>1. TablesInv => FoundByHandle /\ FoundByName  BY FindFacts, FindNameFacts
<1> QED  BY <1>1, PTL
\* A handle is of one live context.
LEMMA HandlesDistinct ==
    ASSUME TablesInv, NEW s \in Services, NEW t \in Services,
           phase[s] # "none", phase[t] # "none", handle[s] = handle[t]
    PROVE  s = t
BY DEF TablesInv, StorageInv, SlotsExact

\* An entry has the handle and the name of a running context.
LEMMA EntryOwner ==
    ASSUME TablesInv, NEW n, NEW h, Entered(n, h)
    PROVE  \E t \in Services : phase[t] = "running" /\ ctxName[t] = n /\ handle[t] = h
BY DEF Entered, TablesInv, StorageInv, NamesExact

\* A registration enters the name unless the table has it.
LEMMA RegisterEnters ==
    ASSUME TablesInv, NEW s \in Services, RegisterName(s)
    PROVE  \/ /\ \E h : Entered(ctxName[s], h)
              /\ \A m, g : Entered(m, g)' <=> Entered(m, g)
           \/ /\ \A h : ~Entered(ctxName[s], h)
              /\ \A m, g : Entered(m, g)' <=>
                     Entered(m, g) \/ (m = ctxName[s] /\ g = handle[s])
<1> PICK n, h : n = ctxName[s] /\ h = handle[s]  OBVIOUS
<1> PICK r : r = Search(n)  OBVIOUS
<1>1. /\ phase[s] = "creating"
      /\ IF r.found THEN name' = name
         ELSE name' = Inserted([name |-> n, handle |-> h], r.at)
  BY DEF RegisterName
<1>2. Sorted /\ n \in Names /\ n \in Nat /\ name \in Seq(Entries) /\ Len(name) \in Nat
  BY <1>1, NamesSorted, LenProperties DEF TablesInv
<1>3. /\ r.found \in BOOLEAN
      /\ r.found => r.at \in 1 .. Len(name) /\ name[r.at].name = n
      /\ ~r.found => /\ r.at \in 1 .. Len(name) + 1
                     /\ \A j \in 1 .. r.at - 1 : name[j].name < n
                     /\ \A j \in r.at .. Len(name) : n < name[j].name
  BY <1>2, SearchFinds
<1>4. CASE r.found
  <2>1. Entered(n, name[r.at].handle)  BY <1>3, <1>4 DEF Entered
  <2>2. \A m, g : Entered(m, g)' <=> Entered(m, g)  BY <1>1, <1>4 DEF Entered
  <2> QED  BY <2>1, <2>2
<1>5. CASE ~r.found
  <2> DEFINE entry == [name |-> n, handle |-> h]
  <2>1. \A g : ~Entered(n, g)
    <3> SUFFICES ASSUME NEW i \in 1 .. Len(name) PROVE name[i].name # n  BY DEF Entered
    <3>1. i \in 1 .. r.at - 1 \/ i \in r.at .. Len(name)  BY <1>2, <1>3, <1>5
    <3> QED  BY <1>2, <1>3, <1>5, <3>1
  <2>2. entry \in Entries /\ entry.name = n /\ entry.handle = h
    BY <1>1, <1>2 DEF Entries, TablesInv, ContextsInv
  <2> HIDE DEF entry
  <2>3. /\ Len(name') = Len(name) + 1
        /\ \A i \in 1 .. Len(name') :
              name'[i] = IF i < r.at THEN name[i] ELSE IF i = r.at THEN entry ELSE name[i - 1]
    BY <1>1, <1>2, <1>3, <1>5, <2>2, InsertedFacts DEF entry
  <2>4. r.at \in 1 .. Len(name') /\ r.at \in Nat  BY <1>2, <1>3, <1>5, <2>3
  <2>5. ASSUME NEW m, NEW g, Entered(m, g)' PROVE Entered(m, g) \/ (m = n /\ g = h)
    <3>1. PICK i \in 1 .. Len(name') : name'[i].name = m /\ name'[i].handle = g
      BY <2>5 DEF Entered
    <3>2. CASE i = r.at
      <4>1. name'[i] = entry  BY <2>3, <2>4, <3>2
      <4> QED  BY <2>2, <3>1, <4>1
    <3>3. CASE i # r.at
      <4>1. \E k \in 1 .. Len(name) : name'[i] = name[k]
        <5>1. CASE i < r.at  BY <1>2, <2>3, <2>4, <5>1
        <5>2. CASE r.at < i
          <6>1. i - 1 \in 1 .. Len(name) /\ ~(i < r.at)  BY <1>2, <2>3, <2>4, <5>2
          <6> QED  BY <2>3, <3>3, <6>1
        <5> QED  BY <1>2, <2>3, <2>4, <3>3, <5>1, <5>2
      <4> QED  BY <3>1, <4>1 DEF Entered
    <3> QED  BY <3>2, <3>3
  <2>6. ASSUME NEW m, NEW g, Entered(m, g) PROVE Entered(m, g)'
    <3>1. PICK i \in 1 .. Len(name) : name[i].name = m /\ name[i].handle = g
      BY <2>6 DEF Entered
    <3>2. \E k \in 1 .. Len(name') : name'[k] = name[i]
      <4>1. CASE i < r.at
        <5>1. i \in 1 .. Len(name')  BY <1>2, <2>3
        <5> QED  BY <2>3, <4>1, <5>1
      <4>2. CASE r.at <= i
        <5>1. i + 1 \in 1 .. Len(name') /\ ~(i + 1 < r.at) /\ i + 1 # r.at /\ (i + 1) - 1 = i
          BY <1>2, <2>3, <2>4, <4>2
        <5> QED  BY <2>3, <5>1
      <4> QED  BY <1>2, <2>4, <4>1, <4>2
    <3> QED  BY <3>1, <3>2 DEF Entered
  <2>7. Entered(n, h)'
    <3>1. name'[r.at] = entry  BY <2>3, <2>4
    <3> QED  BY <2>2, <2>4, <3>1 DEF Entered
  <2>8. \A m, g : Entered(m, g)' <=> Entered(m, g) \/ (m = n /\ g = h)
    BY <2>5, <2>6, <2>7
  <2> QED  BY <2>1, <2>8
<1> QED  BY <1>3, <1>4, <1>5

\* A release takes the entry of the context's name out, and no other.
LEMMA ReleaseRemoves ==
    ASSUME TablesInv, NEW s \in Services, Release(s)
    PROVE  \A m, g : Entered(m, g)' <=> Entered(m, g) /\ m # ctxName[s]
<1> PICK n : n = ctxName[s]  OBVIOUS
<1> PICK r : r = Search(n)  OBVIOUS
<1>1. phase[s] # "none" /\ name' = IF r.found THEN Deleted(r.at) ELSE name
  BY DEF Release
<1>2. Sorted /\ n \in Names /\ n \in Nat /\ name \in Seq(Entries) /\ Len(name) \in Nat
  BY <1>1, NamesSorted, LenProperties DEF TablesInv
<1>3. /\ r.found \in BOOLEAN
      /\ r.found => r.at \in 1 .. Len(name) /\ name[r.at].name = n
      /\ ~r.found => /\ r.at \in 1 .. Len(name) + 1
                     /\ \A j \in 1 .. r.at - 1 : name[j].name < n
                     /\ \A j \in r.at .. Len(name) : n < name[j].name
  BY <1>2, SearchFinds
<1>4. CASE r.found
  <2>0. r.at \in 1 .. Len(name) /\ r.at \in Nat /\ name[r.at].name = n  BY <1>2, <1>3, <1>4
  <2>1. /\ Len(name') = Len(name) - 1
        /\ \A i \in 1 .. Len(name') : name'[i] = IF i < r.at THEN name[i] ELSE name[i + 1]
    BY <1>1, <1>2, <1>4, <2>0, DeletedFacts
  <2>2. \A i \in 1 .. Len(name) : name[i].name = n => i = r.at
    BY <2>0, EntriesDistinct
  <2>3. ASSUME NEW m, NEW g, Entered(m, g)' PROVE Entered(m, g) /\ m # n
    <3>1. PICK i \in 1 .. Len(name') : name'[i].name = m /\ name'[i].handle = g
      BY <2>3 DEF Entered
    <3>2. PICK k \in 1 .. Len(name) : name'[i] = name[k] /\ k # r.at
      <4>1. CASE i < r.at
        <5>1. i \in 1 .. Len(name) /\ i # r.at  BY <1>2, <2>0, <2>1, <4>1
        <5> QED  BY <2>1, <4>1, <5>1
      <4>2. CASE r.at <= i
        <5>1. i + 1 \in 1 .. Len(name) /\ i + 1 # r.at /\ ~(i < r.at)
          BY <1>2, <2>0, <2>1, <4>2
        <5> QED  BY <2>1, <5>1
      <4> QED  BY <1>2, <2>0, <2>1, <4>1, <4>2
    <3> QED  BY <2>2, <3>1, <3>2 DEF Entered
  <2>4. ASSUME NEW m, NEW g, Entered(m, g), m # n PROVE Entered(m, g)'
    <3>1. PICK i \in 1 .. Len(name) : name[i].name = m /\ name[i].handle = g
      BY <2>4 DEF Entered
    <3>2. i # r.at  BY <2>0, <2>4, <3>1
    <3>3. \E k \in 1 .. Len(name') : name'[k] = name[i]
      <4>1. CASE i < r.at
        <5>1. i \in 1 .. Len(name')  BY <1>2, <2>0, <2>1, <4>1
        <5> QED  BY <2>1, <4>1, <5>1
      <4>2. CASE r.at < i
        <5>1. i - 1 \in 1 .. Len(name') /\ ~(i - 1 < r.at) /\ (i - 1) + 1 = i
          BY <1>2, <2>0, <2>1, <4>2
        <5> QED  BY <2>1, <5>1
      <4> QED  BY <1>2, <2>0, <3>2, <4>1, <4>2
    <3> QED  BY <3>1, <3>3 DEF Entered
  <2> QED  BY <2>3, <2>4
<1>5. CASE ~r.found
  <2>1. \A g : ~Entered(n, g)
    <3> SUFFICES ASSUME NEW i \in 1 .. Len(name) PROVE name[i].name # n  BY DEF Entered
    <3>1. i \in 1 .. r.at - 1 \/ i \in r.at .. Len(name)  BY <1>2, <1>3, <1>5
    <3> QED  BY <1>2, <1>3, <1>5, <3>1
  <2>2. \A m, g : Entered(m, g)' <=> Entered(m, g)  BY <1>1, <1>5 DEF Entered
  <2> QED  BY <2>1, <2>2
<1> QED  BY <1>3, <1>4, <1>5
-----------------------------------------------------------------------------
(* The storage implements the registry *)

\* Two results that agree on every service are the same.
LEMMA SameService ==
    ASSUME NEW x \in Services \union {None}, NEW y \in Services \union {None},
           \A t \in Services : x = t <=> y = t
    PROVE  x = y
BY NamesAssumption

\* The first tables are an empty registry.
LEMMA RegistryInit == Init => Abstract!Init
<1> SUFFICES ASSUME Init PROVE Abstract!Init  OBVIOUS
<1>1. FoundByHandle /\ FoundByName  BY InitTables, FindFacts, FindNameFacts
<1>2. phase = [s \in Services |-> "none"] /\ ctxName = [s \in Services |-> None]
  BY DEF Init
<1>3. \A h \in Handles : Find(h) = None
  BY <1>1, <1>2 DEF FoundByHandle
<1>4. \A n \in Names : FindName(n) = None
  BY <1>1, <1>2 DEF FoundByName
<1> QED  BY <1>2, <1>3, <1>4 DEF Abstract!Init

\* A creation gives the context a handle nobody has.
LEMMA CreateRegisters ==
    ASSUME TablesInv, TablesInv', NEW s \in Services, NEW n \in Names, Create(s, n)
    PROVE  \E h \in Handles : Abstract!Create(s, n, h)
<1> PICK size, hash : Placed(s, size, hash)  BY CreatePlaces
<1> PICK h : h = HarborHandle(hash)  OBVIOUS
<1>1. /\ size \in Nat \ {0} /\ HandleSize \in Doublings(size) /\ hash \in 0 .. size - 1
      /\ hash < slot_size => slot[hash] = None
      /\ handle' = [handle EXCEPT ![s] = h]
  BY DEF Placed
<1>2. hash \in 0 .. HandleSize - 1  BY <1>1, SizeDivides, SizesNat
<1>3. h \in Handles /\ HarborIndex(h) = hash  BY <1>2, HandleFacts
<1>4. /\ phase[s] = "none" /\ phase' = [phase EXCEPT ![s] = "creating"]
      /\ ctxName' = [ctxName EXCEPT ![s] = n] /\ name' = name
  BY DEF Create
<1>5. /\ phase \in [Services -> {"none", "creating", "running"}]
      /\ handle \in [Services -> Handles \union {None}]
      /\ None \notin Services
      /\ \A t \in Services : phase[t] = "none" <=> ctxName[t] = None
  BY NamesAssumption DEF TablesInv, StorageInv, TypeOK, ContextsInv
<1>6. \A t \in Services : ~(phase[t] # "none" /\ handle[t] = h)
  BY <1>1, <1>3, <1>5 DEF TablesInv, StorageInv, SlotsExact
<1>7. FoundByHandle /\ FoundByName /\ FoundByHandle' /\ FoundByName'
  BY FindFacts, FindNameFacts, FoundNext
<1>8. Find(h) = None  BY <1>3, <1>6, <1>7 DEF FoundByHandle
<1>9. ASSUME NEW g \in Handles PROVE Find(g)' = IF g = h THEN s ELSE Find(g)
  <2>1. /\ Find(g) \in Services \union {None} /\ Find(g)' \in Services \union {None}
        /\ \A t \in Services : Find(g) = t <=> phase[t] # "none" /\ handle[t] = g
        /\ \A t \in Services : Find(g)' = t <=> phase'[t] # "none" /\ handle'[t] = g
    BY <1>7 DEF FoundByHandle, Handles, HarborHandle
  <2>2. CASE g = h  BY <1>1, <1>4, <1>5, <2>1, <2>2
  <2>3. CASE g # h
    <3>1. \A t \in Services : Find(g) = t <=> Find(g)' = t  BY <1>1, <1>4, <1>5, <2>1, <2>3
    <3> QED  BY <2>1, <2>3, <3>1, SameService
  <2> QED  BY <2>2, <2>3
<1>10. ASSUME NEW m \in Names PROVE FindName(m)' = FindName(m)
  <2>1. /\ FindName(m) \in Services \union {None} /\ FindName(m)' \in Services \union {None}
        /\ \A t \in Services : FindName(m) = t <=> phase[t] # "none" /\ Entered(m, handle[t])
        /\ \A t \in Services :
              FindName(m)' = t <=> phase'[t] # "none" /\ Entered(m, handle'[t])
    BY <1>4, <1>7 DEF FoundByName, Entered
  <2>2. ~Entered(m, h)  BY <1>6, EntryOwner
  <2>3. \A t \in Services : FindName(m) = t <=> FindName(m)' = t
    BY <1>1, <1>4, <1>5, <2>1, <2>2
  <2> QED  BY <2>1, <2>3, SameService
<1>11. [g \in Handles |-> Find(g)]' = [[g \in Handles |-> Find(g)] EXCEPT ![h] = s]
  BY <1>9 DEF Handles, HarborHandle
<1>12. [m \in Names |-> FindName(m)]' = [m \in Names |-> FindName(m)]
  BY <1>10
<1>13. ctxName[s] = None /\ [g \in Handles |-> Find(g)][h] = None  BY <1>3, <1>4, <1>5, <1>8
<1>14. Abstract!Create(s, n, h)
  BY <1>4, <1>11, <1>12, <1>13 DEF Abstract!Create
<1> QED  BY <1>3, <1>14

\* A registration gives the context the name, or changes nothing that is looked up.
LEMMA RegisterRegisters ==
    ASSUME TablesInv, TablesInv', NEW s \in Services, RegisterName(s)
    PROVE  Abstract!Register(s) \/ UNCHANGED Abstract!vars
<1> PICK n : n = ctxName[s]  OBVIOUS
<1>1. /\ phase[s] = "creating" /\ phase' = [phase EXCEPT ![s] = "running"]
      /\ handle' = handle /\ ctxName' = ctxName /\ slot' = slot /\ n \in Names
  BY NamesSorted DEF RegisterName
<1>2. /\ phase \in [Services -> {"none", "creating", "running"}]
      /\ handle \in [Services -> Handles \union {None}]
      /\ None \notin Services /\ None \notin Names
  BY NamesAssumption DEF TablesInv, StorageInv, TypeOK
<1>3. FoundByName /\ FoundByName'  BY FindNameFacts, FoundNext
<1>4. \A g \in Handles : Find(g)' = Find(g)
  BY <1>1 DEF Find, slot_size, HarborIndex
<1>5. [g \in Handles |-> Find(g)]' = [g \in Handles |-> Find(g)]
  BY <1>4 DEF Handles, HarborHandle
<1>6. ASSUME NEW m \in Names
      PROVE  /\ FindName(m) \in Services \union {None} /\ FindName(m)' \in Services \union {None}
             /\ \A t \in Services :
                   FindName(m) = t <=> phase[t] # "none" /\ Entered(m, handle[t])
             /\ \A t \in Services :
                   FindName(m)' = t <=> phase[t] # "none" /\ Entered(m, handle[t])'
  BY <1>1, <1>2, <1>3 DEF FoundByName
<1>7. CASE /\ \E h : Entered(n, h)
           /\ \A m, g : Entered(m, g)' <=> Entered(m, g)
  <2>1. ASSUME NEW m \in Names PROVE FindName(m)' = FindName(m)
    <3>1. \A t \in Services : Entered(m, handle[t])' <=> Entered(m, handle[t])
      BY ZenonT(60), <1>1, <1>7 DEF Entered
    <3>2. \A t \in Services : FindName(m) = t <=> FindName(m)' = t  BY <1>6, <3>1
    <3> QED  BY <1>6, <3>2, SameService
  <2>2. [m \in Names |-> FindName(m)]' = [m \in Names |-> FindName(m)]  BY <2>1
  <2> QED  BY <1>1, <1>5, <2>2 DEF Abstract!vars
<1>8. CASE /\ \A h : ~Entered(n, h)
           /\ \A m, g : Entered(m, g)' <=> Entered(m, g) \/ (m = n /\ g = handle[s])
  <2>1. ASSUME NEW m \in Names PROVE FindName(m)' = IF m = n THEN s ELSE FindName(m)
    <3>1. \A t \in Services :
             Entered(m, handle[t])' <=>
                 Entered(m, handle[t]) \/ (m = n /\ handle[t] = handle[s])
      <4> SUFFICES ASSUME NEW t \in Services
                   PROVE  Entered(m, handle[t])' <=>
                              Entered(m, handle[t]) \/ (m = n /\ handle[t] = handle[s])
        OBVIOUS
      <4> PICK g : g = handle[t]  OBVIOUS
      <4>1. Entered(m, handle[t])' <=> Entered(m, g)'  BY <1>1 DEF Entered
      <4> QED  BY <1>8, <4>1
    <3>2. CASE m = n
      <4>1. phase[s] # "none" /\ Entered(m, handle[s])'  BY <1>1, <3>1, <3>2
      <4> QED  BY <1>6, <3>2, <4>1
    <3>3. CASE m # n
      <4>1. \A t \in Services : FindName(m) = t <=> FindName(m)' = t  BY <1>6, <3>1, <3>3
      <4> QED  BY <1>6, <3>3, <4>1, SameService
    <3> QED  BY <3>2, <3>3
  <2>2. FindName(n) = None  BY <1>1, <1>6, <1>8
  <2>3. [m \in Names |-> FindName(m)]' = [[m \in Names |-> FindName(m)] EXCEPT ![n] = s]
    BY <2>1
  <2>4. [m \in Names |-> FindName(m)][n] = None  BY <1>1, <2>2
  <2> QED  BY <1>1, <1>2, <1>5, <2>3, <2>4 DEF Abstract!Register
<1> QED  BY <1>7, <1>8, RegisterEnters

\* A release takes the context's handle and its name away.
LEMMA ReleaseRegisters ==
    ASSUME TablesInv, TablesInv', NEW s \in Services, Release(s)
    PROVE  Abstract!Release(s)
<1> PICK n : n = ctxName[s]  OBVIOUS
<1>1. /\ phase[s] # "none" /\ phase' = [phase EXCEPT ![s] = "none"]
      /\ handle' = [handle EXCEPT ![s] = None] /\ ctxName' = [ctxName EXCEPT ![s] = None]
      /\ n \in Names
  BY NamesSorted DEF Release
<1>2. /\ phase \in [Services -> {"none", "creating", "running"}]
      /\ handle \in [Services -> Handles \union {None}]
      /\ None \notin Services /\ None \notin Names
  BY NamesAssumption DEF TablesInv, StorageInv, TypeOK
<1>3. FoundByHandle /\ FoundByName /\ FoundByHandle' /\ FoundByName'
  BY FindFacts, FindNameFacts, FoundNext
<1>4. ASSUME NEW g \in Handles PROVE Find(g)' = IF Find(g) = s THEN None ELSE Find(g)
  <2>1. /\ Find(g) \in Services \union {None} /\ Find(g)' \in Services \union {None}
        /\ \A t \in Services : Find(g) = t <=> phase[t] # "none" /\ handle[t] = g
        /\ \A t \in Services : Find(g)' = t <=> phase'[t] # "none" /\ handle'[t] = g
    BY <1>3 DEF FoundByHandle, Handles, HarborHandle
  <2>2. \A t \in Services : Find(g)' = t <=> t # s /\ Find(g) = t
    BY <1>1, <1>2, <2>1
  <2>3. CASE Find(g) = s  BY <2>1, <2>2, <2>3
  <2>4. CASE Find(g) # s
    <3>1. \A t \in Services : Find(g) = t <=> Find(g)' = t  BY <2>2, <2>4
    <3> QED  BY <2>1, <2>4, <3>1, SameService
  <2> QED  BY <2>3, <2>4
<1>5. ASSUME NEW m \in Names PROVE FindName(m)' = IF m = n THEN None ELSE FindName(m)
  <2>1. /\ FindName(m) \in Services \union {None} /\ FindName(m)' \in Services \union {None}
        /\ \A t \in Services : FindName(m) = t <=> phase[t] # "none" /\ Entered(m, handle[t])
        /\ \A t \in Services :
              FindName(m)' = t <=> phase'[t] # "none" /\ Entered(m, handle[t])'
    BY <1>3 DEF FoundByName
  <2>2. \A g : Entered(m, g)' <=> Entered(m, g) /\ m # n  BY ReleaseRemoves
  <2>3. ASSUME NEW t \in Services, t # s
        PROVE  Entered(m, handle[t])' <=> Entered(m, handle[t]) /\ m # n
    <3> PICK g : g = handle[t]  OBVIOUS
    <3>1. handle'[t] = g  BY <1>1, <1>2, <2>3
    <3>2. Entered(m, handle[t])' <=> Entered(m, g)'  BY <3>1 DEF Entered
    <3> QED  BY <2>2, <3>2
  \* an entry with the context's handle is of its name
  <2>4. Entered(m, handle[s]) => m = n
    <3> SUFFICES ASSUME Entered(m, handle[s]) PROVE m = n  OBVIOUS
    <3>1. PICK t \in Services :
              phase[t] = "running" /\ ctxName[t] = m /\ handle[t] = handle[s]
      BY EntryOwner
    <3>2. t = s  BY <1>1, <3>1, HandlesDistinct
    <3> QED  BY <3>1, <3>2
  <2>5. \A t \in Services : FindName(m)' = t <=> m # n /\ FindName(m) = t
    <3> SUFFICES ASSUME NEW t \in Services PROVE FindName(m)' = t <=> m # n /\ FindName(m) = t
      OBVIOUS
    <3>1. CASE t = s  BY <1>1, <1>2, <2>1, <2>4, <3>1
    <3>2. CASE t # s  BY <1>1, <1>2, <2>1, <2>3, <3>2
    <3> QED  BY <3>1, <3>2
  <2>6. CASE m = n  BY <2>1, <2>5, <2>6
  <2>7. CASE m # n
    <3>1. \A t \in Services : FindName(m) = t <=> FindName(m)' = t  BY <2>5, <2>7
    <3> QED  BY <2>1, <2>7, <3>1, SameService
  <2> QED  BY <2>6, <2>7
<1>6. [g \in Handles |-> Find(g)]' =
         [g \in Handles |-> IF Find(g) = s THEN None ELSE Find(g)]
  BY <1>4 DEF Handles, HarborHandle
<1>7. [m \in Names |-> FindName(m)]' = [[m \in Names |-> FindName(m)] EXCEPT ![n] = None]
  BY <1>5
<1>8. ctxName[s] # None  BY <1>1, <1>2
<1> QED  BY <1>1, <1>6, <1>7, <1>8 DEF Abstract!Release

\* The storage implements the registry, for any services, names and sizes: what the
\* lookups by handle and by name find changes as the registry says, through the
\* growth of both tables and the reuse of slots (skynet_service.c:72-147, 208-354).
THEOREM StorageImplementsRegistry == Spec => ImplementsRegistry
<1>1. Init => Abstract!Init  BY RegistryInit
<1>2. TablesInv /\ TablesInv' /\ [Next]_vars => [Abstract!Next]_(Abstract!vars)
  <2> SUFFICES ASSUME TablesInv, TablesInv', [Next]_vars
               PROVE  [Abstract!Next]_(Abstract!vars)
    OBVIOUS
  <2>1. ASSUME NEW s \in Services, NEW n \in Names, Create(s, n)
        PROVE  Abstract!Next
    <3>1. \E h \in Handles : Abstract!Create(s, n, h)  BY <2>1, CreateRegisters
    <3> QED  BY <3>1 DEF Abstract!Next
  <2>2. ASSUME NEW s \in Services, RegisterName(s)
        PROVE  Abstract!Next \/ UNCHANGED Abstract!vars
    <3>1. Abstract!Register(s) \/ UNCHANGED Abstract!vars  BY <2>2, RegisterRegisters
    <3> QED  BY <3>1 DEF Abstract!Next
  <2>3. ASSUME NEW s \in Services, Release(s)
        PROVE  Abstract!Next
    <3>1. Abstract!Release(s)  BY <2>3, ReleaseRegisters
    <3> QED  BY <3>1 DEF Abstract!Next
  <2>4. ASSUME UNCHANGED <<slot, name, handle, ctxName>> PROVE UNCHANGED Abstract!vars
    <3>1. /\ \A h \in Handles : Find(h)' = Find(h)
          /\ \A n \in Names : FindName(n)' = FindName(n)
      BY <2>4 DEF Find, FindName, Search, slot_size, HarborIndex
    <3>2. [h \in Handles |-> Find(h)]' = [h \in Handles |-> Find(h)]
          /\ [n \in Names |-> FindName(n)]' = [n \in Names |-> FindName(n)]
      BY <3>1 DEF Handles, HarborHandle
    <3> QED  BY <2>4, <3>2 DEF Abstract!vars
  <2>5. ASSUME NEW s \in Services, Outgrow(s) PROVE UNCHANGED Abstract!vars
    BY <2>4, <2>5 DEF Outgrow
  <2>6. UNCHANGED vars => UNCHANGED Abstract!vars  BY <2>4 DEF vars
  <2> QED  BY <2>1, <2>2, <2>3, <2>5, <2>6 DEF Next
<1> QED
  BY <1>1, <1>2, TablesInvAlways, PTL DEF Spec, ImplementsRegistry, Abstract!Spec
===============================================================================
