-------------------------- MODULE ServiceCloseProofs --------------------------
(***************************************************************************)
(* What closing promises, for any contexts, slots, workers, senders and     *)
(* closers, whoever sends to a service or closes it, and when.              *)
(*                                                                          *)
(* The invariant comes in four parts, each of which uses those before it.   *)
(* TypeInv has the types and the bounds of the counts.  Order(c) has what   *)
(* no race can break: how far the creation of a context is, and what that   *)
(* says of the context and its queue.  Safe(c) has what holds of a plain    *)
(* service unless closing it lost a race: its queue is in one place, and    *)
(* what is owed is in the queue or in one callback's hands.  Sound has what *)
(* holds while nothing at all went wrong: a slot and its context agree.     *)
(***************************************************************************)
EXTENDS ServiceClose, FiniteSetTheorems, SequenceTheorems, TLAPS

-----------------------------------------------------------------------------
(* Lists *)

OnceIn(s, seq) == \A i, j \in DOMAIN seq : seq[i] = s /\ seq[j] = s => i = j

\* Appending adds one member at the end.
LEMMA InAppend ==
    ASSUME NEW S, NEW seq \in Seq(S), NEW e \in S
    PROVE  /\ Append(seq, e) \in Seq(S)
           /\ \A s : In(s, Append(seq, e)) <=> In(s, seq) \/ s = e
<1> DEFINE new == Append(seq, e)
<1>1. new \in Seq(S) /\ Len(new) = Len(seq) + 1
      /\ (\A i \in 1 .. Len(seq) : new[i] = seq[i]) /\ new[Len(seq) + 1] = e
  BY AppendProperties
<1>2. Len(seq) \in Nat  BY LenProperties
<1> HIDE DEF new
<1>3. ASSUME NEW s, In(s, new) PROVE In(s, seq) \/ s = e
  <2>1. PICK i \in 1 .. Len(seq) + 1 : new[i] = s  BY <1>1, <1>3 DEF In
  <2>2. CASE i = Len(seq) + 1  BY <1>1, <2>1, <2>2
  <2>3. CASE i # Len(seq) + 1
    <3>1. i \in 1 .. Len(seq)  BY <1>2, <2>3
    <3> QED  BY <1>1, <2>1, <3>1 DEF In
  <2> QED  BY <2>2, <2>3
<1>4. ASSUME NEW s, In(s, seq) PROVE In(s, new)
  <2>1. PICK i \in 1 .. Len(seq) : seq[i] = s  BY <1>4 DEF In
  <2>2. i \in 1 .. Len(new) /\ new[i] = s  BY <1>1, <1>2, <2>1
  <2> QED  BY <2>2 DEF In
<1>5. In(e, new)
  <2>1. Len(seq) + 1 \in 1 .. Len(new)  BY <1>1, <1>2
  <2> QED  BY <1>1, <2>1 DEF In
<1>6. \A s : In(s, new) <=> In(s, seq) \/ s = e  BY <1>3, <1>4, <1>5
<1> QED  BY <1>1, <1>6 DEF new

\* Appending a newcomer leaves each member as often as it was.
LEMMA OnceAppend ==
    ASSUME NEW S, NEW seq \in Seq(S), NEW e \in S, NEW s, OnceIn(s, seq), s # e \/ ~In(s, seq)
    PROVE  OnceIn(s, Append(seq, e))
<1> PICK new : new = Append(seq, e)  OBVIOUS
<1>1. new \in Seq(S) /\ Len(new) = Len(seq) + 1
      /\ (\A i \in 1 .. Len(seq) : new[i] = seq[i]) /\ new[Len(seq) + 1] = e
  BY AppendProperties
<1>2. Len(seq) \in Nat /\ DOMAIN seq = 1 .. Len(seq) /\ DOMAIN new = 1 .. Len(new)
  BY <1>1, LenProperties
<1>3. \A i \in DOMAIN new : i \in 1 .. Len(seq) \/ i = Len(seq) + 1  BY <1>1, <1>2
<1>4. ASSUME NEW i \in DOMAIN new, NEW j \in DOMAIN new, new[i] = s, new[j] = s
      PROVE  i = j
  <2>1. CASE s = e
    <3>1. \A k \in 1 .. Len(seq) : seq[k] # s  BY <2>1 DEF In
    <3> QED  BY <1>1, <1>3, <1>4, <3>1
  <2>2. CASE s # e
    <3>1. i \in 1 .. Len(seq) /\ j \in 1 .. Len(seq)  BY <1>1, <1>3, <1>4, <2>2
    <3> QED  BY <1>1, <1>2, <1>4, <3>1 DEF OnceIn
  <2> QED  BY <2>1, <2>2
<1> QED  BY <1>4 DEF OnceIn

\* Taking the head off a list
LEMMA TailFacts ==
    ASSUME NEW S, NEW seq \in Seq(S), seq # <<>>
    PROVE  /\ Head(seq) \in S /\ In(Head(seq), seq) /\ Tail(seq) \in Seq(S)
           /\ \A s : In(s, Tail(seq)) => In(s, seq)
           /\ \A s : In(s, seq) /\ s # Head(seq) => In(s, Tail(seq))
           /\ \A s : OnceIn(s, seq) => OnceIn(s, Tail(seq))
           /\ OnceIn(Head(seq), seq) => ~In(Head(seq), Tail(seq))
<1> PICK rest : rest = Tail(seq)  OBVIOUS
<1> PICK h : h = Head(seq)  OBVIOUS
<1>1. /\ h \in S /\ rest \in Seq(S) /\ Len(rest) = Len(seq) - 1
      /\ \A i \in 1 .. Len(rest) : rest[i] = seq[i + 1]
  BY HeadTailProperties
<1>2. Len(seq) \in Nat \ {0} /\ h = seq[1]  BY EmptySeq
<1>3. DOMAIN seq = 1 .. Len(seq) /\ DOMAIN rest = 1 .. Len(rest)  BY <1>1, LenProperties
<1>4. In(h, seq)  BY <1>2 DEF In
<1>5. \A i \in 1 .. Len(rest) : i + 1 \in 1 .. Len(seq) /\ i + 1 # 1  BY <1>1, <1>2
<1>6. ASSUME NEW s, In(s, rest) PROVE In(s, seq)  BY <1>1, <1>5, <1>6 DEF In
<1>7. ASSUME NEW s, In(s, seq), s # h PROVE In(s, rest)
  <2>1. PICK i \in 1 .. Len(seq) : seq[i] = s  BY <1>7 DEF In
  <2>2. i # 1  BY <1>2, <1>7, <2>1
  <2>3. i - 1 \in 1 .. Len(rest) /\ (i - 1) + 1 = i  BY <1>1, <1>2, <2>2
  <2>4. rest[i - 1] = s  BY <1>1, <2>1, <2>3
  <2> QED  BY <2>3, <2>4 DEF In
<1>8. ASSUME NEW s, OnceIn(s, seq), NEW i \in DOMAIN rest, NEW j \in DOMAIN rest,
             rest[i] = s, rest[j] = s
      PROVE  i = j
  <2>1. i + 1 \in DOMAIN seq /\ j + 1 \in DOMAIN seq  BY <1>3, <1>5
  <2>2. seq[i + 1] = s /\ seq[j + 1] = s  BY <1>1, <1>3, <1>8
  <2>3. i + 1 = j + 1  BY <1>8, <2>1, <2>2 DEF OnceIn
  <2> QED  BY <1>3, <2>3
<1>9. ASSUME OnceIn(h, seq), In(h, rest) PROVE FALSE
  <2>1. PICK i \in 1 .. Len(rest) : rest[i] = h  BY <1>9 DEF In
  <2>2. i + 1 \in 1 .. Len(seq) /\ i + 1 # 1 /\ 1 \in 1 .. Len(seq)  BY <1>2, <1>5
  <2>3. seq[i + 1] = h  BY <1>1, <2>1
  <2> QED  BY <1>2, <1>3, <1>9, <2>2, <2>3 DEF OnceIn
<1>10. \A s : OnceIn(s, seq) => OnceIn(s, rest)  BY <1>8 DEF OnceIn
<1> QED  BY <1>1, <1>4, <1>6, <1>7, <1>9, <1>10

\* What becomes of the list when its head is taken off, and perhaps put at the end
LEMMA TakenFacts ==
    ASSUME NEW S, NEW seq \in Seq(S), seq # <<>>, NEW b \in BOOLEAN, NEW new,
           new = IF b THEN Append(Tail(seq), Head(seq)) ELSE Tail(seq)
    PROVE  /\ new \in Seq(S) /\ Head(seq) \in S /\ In(Head(seq), seq)
           /\ \A s : In(s, new) => In(s, seq)
           /\ \A s : s # Head(seq) => (In(s, new) <=> In(s, seq))
           /\ \A s : OnceIn(s, seq) => OnceIn(s, new)
           /\ ~b /\ OnceIn(Head(seq), seq) => ~In(Head(seq), new)
<1> PICK h : h = Head(seq)  OBVIOUS
<1> PICK rest : rest = Tail(seq)  OBVIOUS
<1>1. /\ h \in S /\ In(h, seq) /\ rest \in Seq(S)
      /\ \A s : In(s, rest) => In(s, seq)
      /\ \A s : In(s, seq) /\ s # h => In(s, rest)
      /\ \A s : OnceIn(s, seq) => OnceIn(s, rest)
      /\ OnceIn(h, seq) => ~In(h, rest)
  BY TailFacts
<1>2. CASE b
  <2>1. new = Append(rest, h)  BY <1>2
  <2>2. Append(rest, h) \in Seq(S) /\ \A s : In(s, Append(rest, h)) <=> In(s, rest) \/ s = h
    BY <1>1, InAppend
  <2>3. ASSUME NEW s, OnceIn(s, seq) PROVE OnceIn(s, new)
    BY <1>1, <2>1, <2>3, OnceAppend
  <2> QED  BY <1>1, <1>2, <2>1, <2>2, <2>3
<1>3. CASE ~b
  <2>1. new = rest  BY <1>3
  <2> QED  BY <1>1, <1>3, <2>1
<1> QED  BY <1>2, <1>3

-----------------------------------------------------------------------------
(* The types and the counts, whatever went wrong *)

Life == {"none", "alive", "freed"}
CtxRecs == [life : Life, handle : Handles \union {Null}, closing : BOOLEAN]
QueueRecs ==
    [life : Life, length : Nat, in_global : BOOLEAN, concurrent : BOOLEAN, release : BOOLEAN]
Stages == {"idle", "begun", "creating", "report", "done", "unlink", "free", "failed"}
WorkerRecs ==
    [pc : {"idle", "find", "check", "drain", "drainCallback", "one", "callback", "requeue",
           "unlink", "free"},
     q : Ctxs \union {Null}, ctx : Ctxs \union {Null}]
SenderRecs == [pc : {"idle", "found", "push", "done"}, ctx : Ctxs \union {Null}]
CloserRecs == [pc : {"idle", "found", "test", "push", "done"}, ctx : Ctxs \union {Null}]
Races == {"none", "late", "twice", "outrun", "missed"}
Fates == {"ok", "stale", "dangling", "abort"}

\* the types, but for the bounds on the counts, which are the model's
Shape ==
    /\ slot \in [Handles -> Ctxs \union {Null}]
    /\ ctx \in [Ctxs -> CtxRecs]
    /\ queue \in [Ctxs -> QueueRecs]
    /\ global \in Seq(Ctxs)
    /\ creator \in [Ctxs -> Stages]
    /\ worker \in [Workers -> WorkerRecs]
    /\ sender \in [Senders -> SenderRecs]
    /\ closer \in [Closers -> CloserRecs]
    /\ owed \in [Ctxs -> Nat]
    /\ race \in [Ctxs -> Races]

\* A context that has been created has its handle for good.
Made == {c \in Ctxs : ctx[c].handle \in Handles}

\* The contexts that a worker, and a sender or closer, goes by
InHand(r) == (IF r.pc = "idle" THEN {} ELSE {r.q})
             \cup (IF r.pc \in {"idle", "find"} THEN {} ELSE {r.ctx})
Known(r) == IF r.pc \in {"idle", "done"} THEN {} ELSE {r.ctx}

\* Every context that a slot, a queue or a thread names has been created.
SlotsMade == \A h \in Handles : slot[h] # Null => slot[h] \in Made
QueuesMade == \A c \in Ctxs : creator[c] # "idle" \/ In(c, global) => c \in Made
WorkersMade == \A w \in Workers : InHand(worker[w]) \subseteq Made
SendersMade == \A t \in Senders : Known(sender[t]) \subseteq Made
ClosersMade == \A k \in Closers : Known(closer[k]) \subseteq Made

\* The messages in a callback's hands, and those that other threads sent at most
Busy(r, c) == r.pc \in {"drainCallback", "callback"} /\ r.ctx = c
Callbacks(c) == {w \in Workers : Busy(worker[w], c)}
Sent == {t \in Senders : sender[t].pc = "done"}
CountInv(c) ==
    /\ queue[c].length + Cardinality(Callbacks(c)) <= owed[c]
    /\ queue[c].length <= MaxMsgs + Cardinality(Sent)

TypeInv ==
    /\ Shape /\ fate \in Fates
    /\ SlotsMade /\ QueuesMade /\ WorkersMade /\ SendersMade /\ ClosersMade
    /\ \A c \in Ctxs : CountInv(c)

\* The sets counted are finite.
LEMMA CountedFinite ==
    ASSUME NEW c
    PROVE  /\ IsFiniteSet(Callbacks(c)) /\ Cardinality(Callbacks(c)) \in Nat
           /\ IsFiniteSet(Sent) /\ Cardinality(Sent) \in Nat
           /\ Cardinality(Sent) <= Cardinality(Senders) /\ Cardinality(Senders) \in Nat
<1>1. Callbacks(c) \in SUBSET Workers /\ Sent \in SUBSET Senders  BY DEF Callbacks, Sent
<1>2. IsFiniteSet(Callbacks(c)) /\ IsFiniteSet(Sent)
      /\ Cardinality(Sent) <= Cardinality(Senders)
  BY <1>1, ThreadsAssumption, FS_Subset
<1> QED  BY <1>2, ThreadsAssumption, FS_CardinalityType

\* Two sets that differ in one element at most.
LEMMA OneCounts ==
    ASSUME NEW S, NEW T, NEW e, IsFiniteSet(S), IsFiniteSet(T), S \ {e} = T \ {e}
    PROVE  Cardinality(T) = Cardinality(S) - (IF e \in S THEN 1 ELSE 0) + (IF e \in T THEN 1 ELSE 0)
<1>1. IsFiniteSet(S \ {e}) /\ Cardinality(S \ {e}) = Cardinality(S) - (IF e \in S THEN 1 ELSE 0)
  <2>1. Cardinality(S) \in Nat  BY FS_CardinalityType
  <2> QED  BY <2>1, FS_RemoveElement
<1>2. Cardinality(T \ {e}) = Cardinality(T) - (IF e \in T THEN 1 ELSE 0)
  <2>1. Cardinality(T) \in Nat  BY FS_CardinalityType
  <2> QED  BY <2>1, FS_RemoveElement
<1>3. Cardinality(S \ {e}) \in Nat /\ Cardinality(S) \in Nat /\ Cardinality(T) \in Nat
  BY <1>1, FS_CardinalityType
<1> QED  BY <1>1, <1>2, <1>3

\* Of a worker's step: what it names, and which callbacks it is in
LEMMA WorkerGoes ==
    ASSUME TypeInv, NEW w \in Workers, NEW new \in WorkerRecs, worker' = [worker EXCEPT ![w] = new],
           Made \subseteq Made', InHand(new) \subseteq Made'
    PROVE  /\ worker' \in [Workers -> WorkerRecs] /\ WorkersMade'
           /\ \A c \in Ctxs :
                 LET was == IF Busy(worker[w], c) THEN 1 ELSE 0
                     is == IF Busy(new, c) THEN 1 ELSE 0
                 IN  Cardinality(Callbacks(c)') = Cardinality(Callbacks(c)) - was + is
<1>1. /\ worker \in [Workers -> WorkerRecs] /\ worker' \in [Workers -> WorkerRecs]
      /\ worker'[w] = new /\ \A v \in Workers \ {w} : worker'[v] = worker[v]
  BY DEF TypeInv, Shape
<1>2. WorkersMade'
  <2>1. ASSUME NEW v \in Workers, v # w PROVE InHand(worker[v]) \subseteq Made' /\ worker'[v] = worker[v]
    BY <1>1, <2>1 DEF TypeInv, WorkersMade
  <2>2. ASSUME NEW v \in Workers PROVE InHand(worker[v])' \subseteq Made'
    <3>1. CASE v = w  BY <1>1, <3>1 DEF InHand
    <3>2. CASE v # w  BY <2>1, <3>2 DEF InHand
    <3> QED  BY <3>1, <3>2
  <2> QED  BY <2>2 DEF WorkersMade
<1>3. ASSUME NEW c \in Ctxs
      PROVE  LET was == IF Busy(worker[w], c) THEN 1 ELSE 0
                 is == IF Busy(new, c) THEN 1 ELSE 0
             IN  Cardinality(Callbacks(c)') = Cardinality(Callbacks(c)) - was + is
  <2> PICK S : S = Callbacks(c)  OBVIOUS
  <2> PICK T : T = {v \in Workers : Busy(worker'[v], c)}  OBVIOUS
  <2>1. T = Callbacks(c)'  BY DEF Callbacks, Busy
  <2>2. S \ {w} = T \ {w}  BY <1>1 DEF Callbacks
  <2>3. IsFiniteSet(S)  BY CountedFinite
  <2>4. T \in SUBSET Workers  OBVIOUS
  <2>5. IsFiniteSet(T)  BY <2>4, ThreadsAssumption, FS_Subset
  <2>6. (w \in S <=> Busy(worker[w], c)) /\ (w \in T <=> Busy(new, c))  BY <1>1 DEF Callbacks
  <2>7. Cardinality(T) = Cardinality(S) - (IF w \in S THEN 1 ELSE 0) + (IF w \in T THEN 1 ELSE 0)
    BY <2>2, <2>3, <2>5, OneCounts
  <2> QED  BY <2>1, <2>6, <2>7
<1> QED  BY <1>1, <1>2, <1>3

\* What a step leaves alone is as it was.
LEMMA KeptMade ==
    ASSUME TypeInv, Made \subseteq Made'
    PROVE  /\ slot' = slot => SlotsMade'
           /\ creator' = creator /\ global' = global => QueuesMade'
           /\ worker' = worker => WorkersMade'
           /\ sender' = sender => SendersMade'
           /\ closer' = closer => ClosersMade'
BY DEF TypeInv, SlotsMade, QueuesMade, WorkersMade, SendersMade, ClosersMade, InHand, Known

\* A race that is noted is one of those there are, and it is noted of one context.
LEMMA LostFacts ==
    ASSUME Shape, NEW c \in Ctxs, NEW how \in Races, Lost(how, c)
    PROVE  /\ race' \in [Ctxs -> Races] /\ \A d \in Ctxs \ {c} : race'[d] = race[d]
           /\ race'[c] = IF race[c] \in {"none", "missed"} THEN how ELSE race[c]
BY DEF Shape, Lost

\* No message comes, goes to a callback or returns from one; some may be freed.
LEMMA KeptCounts ==
    ASSUME TypeInv, queue' \in [Ctxs -> QueueRecs], owed' = owed,
           \A c \in Ctxs : queue'[c].length <= queue[c].length,
           \A c \in Ctxs : Cardinality(Callbacks(c)') = Cardinality(Callbacks(c)),
           Cardinality(Sent') >= Cardinality(Sent), Cardinality(Sent') \in Nat
    PROVE  \A c \in Ctxs : CountInv(c)'
<1> SUFFICES ASSUME NEW c \in Ctxs PROVE CountInv(c)'  OBVIOUS
<1>1. /\ Cardinality(Callbacks(c)) \in Nat /\ Cardinality(Sent) \in Nat
      /\ Cardinality(Callbacks(c)') = Cardinality(Callbacks(c))
  BY CountedFinite
<1>3. queue'[c].length \in Nat /\ queue[c].length \in Nat
  BY DEF TypeInv, Shape, QueueRecs
<1>4. owed[c] \in Nat  BY DEF TypeInv, Shape
<1>5. CountInv(c)  BY DEF TypeInv
<1>6. queue'[c].length <= queue[c].length  OBVIOUS
<1> QED  BY <1>1, <1>3, <1>4, <1>5, <1>6, MaxMsgsAssumption DEF CountInv

\* Nothing that is counted changes.
LEMMA SameCounts ==
    ASSUME TypeInv, UNCHANGED <<owed, worker, sender>>, queue' \in [Ctxs -> QueueRecs],
           \A c \in Ctxs : queue'[c].length <= queue[c].length
    PROVE  \A c \in Ctxs : CountInv(c)'
<1>1. \A c \in Ctxs : Callbacks(c)' = Callbacks(c)  BY DEF Callbacks, Busy
<1>2. Sent' = Sent  BY DEF Sent
<1>3. Cardinality(Sent) >= Cardinality(Sent) /\ Cardinality(Sent) \in Nat  BY CountedFinite
<1> QED  BY <1>1, <1>2, <1>3, KeptCounts

\* A queue in the global queue, once more or not
LEMMA QueuedMade ==
    ASSUME TypeInv, NEW c \in Made, Made \subseteq Made', creator' = creator,
           global' = global \/ global' = Append(global, c)
    PROVE  global' \in Seq(Ctxs) /\ QueuesMade'
<1>1. global \in Seq(Ctxs) /\ c \in Ctxs  BY DEF TypeInv, Shape, Made
<1>2. global' \in Seq(Ctxs) /\ \A s : In(s, global') => In(s, global) \/ s = c
  <2>1. Append(global, c) \in Seq(Ctxs) /\ \A s : In(s, Append(global, c)) <=> In(s, global) \/ s = c
    BY <1>1, InAppend
  <2>2. CASE global' = global  BY <1>1, <2>2
  <2>3. CASE global' = Append(global, c)  BY <2>1, <2>3
  <2> QED  BY <2>2, <2>3
<1> QED  BY <1>2 DEF TypeInv, QueuesMade

\* skynet_mq_push: what is owed, and with it the queue's length, goes up by one.
LEMMA PushFacts ==
    ASSUME Shape, NEW c \in Ctxs, Push(c)
    PROVE  /\ queue' \in [Ctxs -> QueueRecs] /\ owed' \in [Ctxs -> Nat]
           /\ race' \in [Ctxs -> Races]
           /\ \A d \in Ctxs \ {c} : queue'[d] = queue[d] /\ owed'[d] = owed[d]
                                    /\ race'[d] = race[d]
           /\ queue'[c].life = queue[c].life /\ queue'[c].in_global
           /\ queue'[c].length = queue[c].length + 1
           /\ queue'[c].concurrent = queue[c].concurrent
           /\ owed'[c] = owed[c] + 1
           /\ race'[c] = IF ctx[c].closing /\ ~queue[c].in_global /\ race[c] \in {"none", "missed"}
                         THEN "late" ELSE race[c]
<1>1. queue[c] \in QueueRecs  BY DEF Shape
<1>2. PICK n \in Nat : n = queue[c].length + 1  BY <1>1 DEF QueueRecs
<1>3. queue'[c] = [queue[c] EXCEPT !.length = n, !.in_global = TRUE]
  BY <1>2 DEF Shape, Push
<1>4. queue'[c] \in QueueRecs  BY <1>1, <1>3 DEF QueueRecs
<1>5. queue' = [queue EXCEPT ![c] = queue'[c]]  BY <1>2, <1>3 DEF Shape, Push
<1>6. queue' \in [Ctxs -> QueueRecs] /\ owed' \in [Ctxs -> Nat]
  BY <1>4, <1>5 DEF Shape, Push
<1>7. \A d \in Ctxs \ {c} : queue'[d] = queue[d] /\ owed'[d] = owed[d]
  BY DEF Shape, Push
<1>8. owed'[c] = owed[c] + 1  BY DEF Shape, Push
<1>9. /\ race' \in [Ctxs -> Races] /\ \A d \in Ctxs \ {c} : race'[d] = race[d]
      /\ race'[c] = IF ctx[c].closing /\ ~queue[c].in_global /\ race[c] \in {"none", "missed"}
                    THEN "late" ELSE race[c]
  <2>1. CASE ctx[c].closing /\ ~queue[c].in_global
    <3>1. Lost("late", c) /\ "late" \in Races  BY <2>1 DEF Push, Races
    <3> QED  BY <2>1, <3>1, LostFacts
  <2>2. CASE ~(ctx[c].closing /\ ~queue[c].in_global)
    <3>1. race' = race  BY <2>2 DEF Push
    <3> QED  BY <2>2, <3>1 DEF Shape
  <2> QED  BY <2>1, <2>2
<1>10. /\ queue'[c].life = queue[c].life /\ queue'[c].in_global
       /\ queue'[c].length = queue[c].length + 1
       /\ queue'[c].concurrent = queue[c].concurrent
  BY <1>1, <1>2, <1>3 DEF QueueRecs
<1> QED  BY <1>6, <1>7, <1>8, <1>9, <1>10

\* It keeps the types.
LEMMA PushTyped ==
    ASSUME TypeInv, NEW c \in Made, Push(c), UNCHANGED <<ctx, creator>>
    PROVE  /\ queue' \in [Ctxs -> QueueRecs] /\ owed' \in [Ctxs -> Nat]
           /\ race' \in [Ctxs -> Races] /\ global' \in Seq(Ctxs) /\ QueuesMade'
<1>1. Made' = Made /\ c \in Ctxs  BY DEF Made
<1>2. global' = global \/ global' = Append(global, c)  BY DEF Push
<1>3. global' \in Seq(Ctxs) /\ QueuesMade'  BY <1>1, <1>2, QueuedMade
<1>4. Shape  BY DEF TypeInv
<1> QED  BY <1>1, <1>3, <1>4, PushFacts

\* The counts after it, if it is within the bound or counted for its sender
LEMMA PushCounts ==
    ASSUME TypeInv, NEW c \in Made, Push(c), UNCHANGED <<ctx, creator, worker>>,
           \/ sender' = sender /\ queue[c].length < MaxMsgs
           \/ Cardinality(Sent') = Cardinality(Sent) + 1
    PROVE  \A d \in Ctxs : CountInv(d)'
<1> SUFFICES ASSUME NEW d \in Ctxs PROVE CountInv(d)'  OBVIOUS
<1>1. CountInv(d) /\ Callbacks(d)' = Callbacks(d)  BY DEF TypeInv, Callbacks, Busy
<1>2. Cardinality(Callbacks(d)) \in Nat /\ Cardinality(Sent) \in Nat  BY CountedFinite
<1>3. owed[d] \in Nat /\ queue[d].length \in Nat
  BY DEF TypeInv, Shape, QueueRecs
<1>4. sender' = sender => Sent' = Sent  BY DEF Sent
<1>5. c \in Ctxs /\ Shape  BY DEF Made, TypeInv
<1>6. /\ queue'[c].length = queue[c].length + 1 /\ owed'[c] = owed[c] + 1
      /\ \A e \in Ctxs \ {c} : queue'[e] = queue[e] /\ owed'[e] = owed[e]
  BY <1>5, PushFacts
<1>7. CASE d = c  BY <1>1, <1>2, <1>3, <1>4, <1>6, <1>7, MaxMsgsAssumption DEF CountInv
<1>8. CASE d # c  BY <1>1, <1>2, <1>3, <1>4, <1>6, <1>8, MaxMsgsAssumption DEF CountInv
<1> QED  BY <1>7, <1>8

-----------------------------------------------------------------------------
(* The creation of a service keeps the types *)

\* The types and the counts hold on when skynet_service_create makes the context.
LEMMA TypeCreateBegin ==
    ASSUME TypeInv, NEW c \in Ctxs, NEW h \in Handles, CreateBegin(c, h)
    PROVE  TypeInv'
<1> USE DEF books
<1> PICK new : new = [life |-> "alive", handle |-> h, closing |-> FALSE]  OBVIOUS
<1>1. /\ ctx' = [ctx EXCEPT ![c] = new]
      /\ slot' = [slot EXCEPT ![h] = c] /\ creator' = [creator EXCEPT ![c] = "begun"]
      /\ UNCHANGED <<queue, global, worker, sender, closer, books>> /\ fate' \in Fates
  BY DEF CreateBegin, TypeInv
<1>2. new \in CtxRecs /\ new.handle = h  BY DEF CtxRecs, Life
<1>3. ctx' \in [Ctxs -> CtxRecs]  BY <1>1, <1>2 DEF TypeInv, Shape
<1>4. slot' \in [Handles -> Ctxs \union {Null}] /\ creator' \in [Ctxs -> Stages]
  BY <1>1 DEF TypeInv, Shape, Stages
<1>5. Shape'  BY <1>1, <1>3, <1>4 DEF TypeInv, Shape
<1>6. ctx'[c] = new /\ \A d \in Ctxs \ {c} : ctx'[d] = ctx[d]  BY <1>1 DEF TypeInv, Shape
<1>7. Made \subseteq Made' /\ c \in Made'  BY <1>2, <1>6 DEF Made
<1>8. SlotsMade' /\ QueuesMade'
  BY <1>1, <1>7 DEF TypeInv, Shape, SlotsMade, QueuesMade
<1>9. WorkersMade' /\ SendersMade' /\ ClosersMade'  BY <1>1, <1>7, KeptMade
<1>10. queue' \in [Ctxs -> QueueRecs] /\ \A d \in Ctxs : queue'[d].length <= queue[d].length
  BY <1>1 DEF TypeInv, Shape, QueueRecs
<1>11. \A d \in Ctxs : CountInv(d)'  BY <1>1, <1>10, SameCounts
<1> QED  BY <1>1, <1>5, <1>8, <1>9, <1>11 DEF TypeInv

\* The types and the counts hold on when it makes the queue.
LEMMA TypeCreateQueue ==
    ASSUME TypeInv, NEW c \in Ctxs, CreateQueue(c)
    PROVE  TypeInv'
<1> USE DEF books
<1> PICK q : q = queue[c]  OBVIOUS
<1> PICK new : new = [q EXCEPT !.life = "alive", !.in_global = TRUE]  OBVIOUS
<1>1. /\ creator[c] = "begun" /\ queue' = [queue EXCEPT ![c] = new]
      /\ creator' = [creator EXCEPT ![c] = "creating"]
      /\ UNCHANGED <<slot, ctx, global, worker, sender, closer, books>> /\ fate' \in Fates
  BY DEF CreateQueue, TypeInv, Shape
<1>2. q \in QueueRecs  BY DEF TypeInv, Shape
<1>3. new \in QueueRecs /\ new.length = q.length  BY <1>2 DEF QueueRecs, Life
<1>4. queue' \in [Ctxs -> QueueRecs] /\ \A d \in Ctxs : queue'[d].length = queue[d].length
  BY <1>1, <1>3 DEF TypeInv, Shape
<1>5. \A d \in Ctxs : queue'[d].length <= queue[d].length  BY <1>4 DEF TypeInv, Shape, QueueRecs
<1>6. Shape'  BY <1>1, <1>4 DEF TypeInv, Shape, Stages
<1>7. Made' = Made  BY <1>1 DEF Made
<1>8. SlotsMade' /\ WorkersMade' /\ SendersMade' /\ ClosersMade'  BY <1>1, <1>7, KeptMade
<1>9. QueuesMade'  BY <1>1, <1>7 DEF TypeInv, Shape, QueuesMade
<1>10. \A d \in Ctxs : CountInv(d)'  BY <1>1, <1>4, <1>5, SameCounts
<1> QED  BY <1>1, <1>6, <1>8, <1>9, <1>10 DEF TypeInv

\* The types and the counts hold on when a creator sends to the service it creates.
LEMMA TypeCreateSends ==
    ASSUME TypeInv, NEW c \in Ctxs, CreateSends(c)
    PROVE  TypeInv'
<1>1. /\ creator[c] = "creating" /\ queue[c].length < MaxMsgs /\ Push(c)
      /\ UNCHANGED <<slot, ctx, creator, worker, sender, closer, fate>>
  BY DEF CreateSends
<1>2. c \in Made /\ Made' = Made  BY <1>1 DEF TypeInv, QueuesMade, Made
<1>3. /\ queue' \in [Ctxs -> QueueRecs] /\ owed' \in [Ctxs -> Nat]
      /\ race' \in [Ctxs -> Races] /\ global' \in Seq(Ctxs) /\ QueuesMade'
  BY <1>1, <1>2, PushTyped
<1>4. Shape' /\ fate' \in Fates  BY <1>1, <1>3 DEF TypeInv, Shape
<1>5. SlotsMade' /\ WorkersMade' /\ SendersMade' /\ ClosersMade'  BY <1>1, <1>2, KeptMade
<1>6. \A d \in Ctxs : CountInv(d)'  BY <1>1, <1>2, PushCounts
<1> QED  BY <1>3, <1>4, <1>5, <1>6 DEF TypeInv

\* A step that writes neither contexts nor queues nor counts
LEMMA TypeStill ==
    ASSUME TypeInv, UNCHANGED <<ctx, queue, books, worker, sender>>, fate' \in Fates,
           slot' \in [Handles -> Ctxs \union {Null}], global' \in Seq(Ctxs),
           creator' \in [Ctxs -> Stages], closer' \in [Closers -> CloserRecs],
           SlotsMade', QueuesMade', ClosersMade'
    PROVE  TypeInv'
<1> USE DEF books
<1>1. Shape' /\ queue' \in [Ctxs -> QueueRecs]  BY DEF TypeInv, Shape
<1>2. Made' = Made  BY DEF Made
<1>3. WorkersMade' /\ SendersMade'  BY <1>2, KeptMade
<1>4. \A c \in Ctxs : queue'[c].length <= queue[c].length  BY DEF TypeInv, Shape, QueueRecs
<1>5. \A c \in Ctxs : CountInv(c)'  BY <1>1, <1>4, SameCounts
<1> QED  BY <1>1, <1>3, <1>5 DEF TypeInv

\* skynet_service_release takes a context out of its slot.
LEMMA UnlinkTyped ==
    ASSUME TypeInv, NEW c \in Ctxs, Unlink(c), UNCHANGED ctx
    PROVE  slot' \in [Handles -> Ctxs \union {Null}] /\ SlotsMade'
<1>1. slot' \in [Handles -> Ctxs \union {Null}] /\ \A h \in Handles : slot'[h] = Null \/ slot'[h] = slot[h]
  BY DEF Unlink, TypeInv, Shape
<1> QED  BY <1>1 DEF TypeInv, SlotsMade, Made

\* The types and the counts hold on when a creation ends and, where it failed, the slot is
\* cleared.
LEMMA TypeCreatorUnlinks ==
    ASSUME TypeInv, NEW c \in Ctxs,
           CreateSucceeds(c) \/ CreatorReports(c) \/ CreateFails(c) \/ CreatorUnlinks(c)
    PROVE  TypeInv'
<1>1. /\ creator[c] # "idle" /\ creator' \in [Ctxs -> Stages]
      /\ \A d \in Ctxs : creator'[d] # "idle" => creator[d] # "idle"
      /\ UNCHANGED <<ctx, queue, books, worker, sender, closer>>
      /\ fate' \in Fates
  BY DEF CreateSucceeds, CreatorReports, CreateFails, CreatorUnlinks, TypeInv, Shape, Stages,
         Fates, heap
<1>2. c \in Made /\ Made' = Made  BY <1>1 DEF TypeInv, QueuesMade, Made
<1>3. global' = global \/ global' = Append(global, c)
  BY DEF CreateSucceeds, CreatorReports, CreateFails, CreatorUnlinks, heap
<1>4. slot' = slot \/ Unlink(c)
  BY DEF CreateSucceeds, CreatorReports, CreateFails, CreatorUnlinks, heap
<1>5. slot' \in [Handles -> Ctxs \union {Null}] /\ SlotsMade'
  BY <1>1, <1>2, <1>4, UnlinkTyped, KeptMade DEF TypeInv, Shape
<1>6. global' \in Seq(Ctxs) /\ QueuesMade'
  <2>1. Append(global, c) \in Seq(Ctxs) /\ \A s : In(s, Append(global, c)) <=> In(s, global) \/ s = c
    BY InAppend DEF TypeInv, Shape
  <2>2. global' \in Seq(Ctxs) /\ \A s : In(s, global') => In(s, global) \/ s = c
    <3>1. CASE global' = global  BY <3>1 DEF TypeInv, Shape
    <3>2. CASE global' = Append(global, c)  BY <2>1, <3>2
    <3> QED  BY <1>3, <3>1, <3>2
  <2> QED  BY <1>1, <1>2, <2>2 DEF TypeInv, QueuesMade
<1>7. ClosersMade' /\ closer' \in [Closers -> CloserRecs]
  BY <1>1, <1>2, KeptMade DEF TypeInv, Shape
<1> QED  BY <1>1, <1>5, <1>6, <1>7, TypeStill

\* It frees the queue with what is in it, or marks it.
LEMMA FreeTyped ==
    ASSUME TypeInv, NEW c \in Ctxs, FreeCtx(c)
    PROVE  /\ ctx' \in [Ctxs -> CtxRecs] /\ queue' \in [Ctxs -> QueueRecs] /\ Made' = Made
           /\ \A d \in Ctxs : queue'[d].length <= queue[d].length
<1> PICK q : q = queue[c]  OBVIOUS
<1>1. q \in QueueRecs  BY DEF TypeInv, Shape
<1>2. Released(q) \in QueueRecs /\ Released(q).length <= q.length
  <2>1. [q EXCEPT !.release = TRUE, !.concurrent = FALSE] \in QueueRecs
        /\ [q EXCEPT !.release = TRUE, !.concurrent = FALSE].length = q.length
    BY <1>1 DEF QueueRecs
  <2>2. [q EXCEPT !.life = "freed", !.length = 0] \in QueueRecs
        /\ [q EXCEPT !.life = "freed", !.length = 0].length = 0
    BY <1>1 DEF QueueRecs, Life
  <2>3. q.length \in Nat  BY <1>1 DEF QueueRecs
  <2>4. CASE ~q.release /\ q.concurrent
    <3>1. Released(q) = [q EXCEPT !.release = TRUE, !.concurrent = FALSE]  BY <2>4 DEF Released
    <3> QED  BY <2>1, <2>3, <3>1
  <2>5. CASE q.release \/ ~q.concurrent
    <3>1. Released(q) = [q EXCEPT !.life = "freed", !.length = 0]  BY <2>5 DEF Released
    <3> QED  BY <2>2, <2>3, <3>1
  <2> QED  BY <2>4, <2>5
<1>3. queue' = [queue EXCEPT ![c] = Released(q)]  BY DEF FreeCtx, TypeInv, Shape
<1>4. queue' \in [Ctxs -> QueueRecs]  BY <1>2, <1>3 DEF TypeInv, Shape
<1>5. \A d \in Ctxs : queue'[d].length <= queue[d].length
  BY <1>2, <1>3 DEF TypeInv, Shape, QueueRecs
<1>6. ctx' \in [Ctxs -> CtxRecs] /\ \A d \in Ctxs : ctx'[d].handle = ctx[d].handle
  BY DEF FreeCtx, TypeInv, Shape, CtxRecs, Life
<1>7. Made' = Made  BY <1>6 DEF Made
<1> QED  BY <1>4, <1>5, <1>6, <1>7

\* The types and the counts hold on when a creator frees the context and its queue.
LEMMA TypeCreatorFrees ==
    ASSUME TypeInv, NEW c \in Ctxs, CreatorFrees(c)
    PROVE  TypeInv'
<1> USE DEF books
<1>1. /\ creator[c] = "free" /\ FreeCtx(c) /\ creator' = [creator EXCEPT ![c] = "failed"]
      /\ UNCHANGED <<slot, global, worker, sender, closer, books>> /\ fate' \in Fates
  BY DEF CreatorFrees, TypeInv
<1>2. /\ ctx' \in [Ctxs -> CtxRecs] /\ queue' \in [Ctxs -> QueueRecs] /\ Made' = Made
      /\ \A d \in Ctxs : queue'[d].length <= queue[d].length
  BY <1>1, FreeTyped
<1>3. Shape'  BY <1>1, <1>2 DEF TypeInv, Shape, Stages
<1>4. SlotsMade' /\ WorkersMade' /\ SendersMade' /\ ClosersMade'  BY <1>1, <1>2, KeptMade
<1>5. QueuesMade'  BY <1>1, <1>2 DEF TypeInv, Shape, QueuesMade
<1>6. \A d \in Ctxs : CountInv(d)'  BY <1>1, <1>2, SameCounts
<1> QED  BY <1>1, <1>3, <1>4, <1>5, <1>6 DEF TypeInv

-----------------------------------------------------------------------------
(* The workers' types and counts *)

\* A step that takes no worker into a callback nor out of it
LEMMA TypeWorker ==
    ASSUME TypeInv, NEW w \in Workers, NEW new \in WorkerRecs, worker' = [worker EXCEPT ![w] = new],
           InHand(new) \subseteq Made, \A c \in Ctxs : Busy(new, c) <=> Busy(worker[w], c),
           UNCHANGED <<creator, sender, closer, owed>>, race' \in [Ctxs -> Races], fate' \in Fates,
           ctx' \in [Ctxs -> CtxRecs], Made \subseteq Made',
           slot' \in [Handles -> Ctxs \union {Null}], SlotsMade',
           global' \in Seq(Ctxs), QueuesMade',
           queue' \in [Ctxs -> QueueRecs], \A c \in Ctxs : queue'[c].length <= queue[c].length
    PROVE  TypeInv'
<1>1. InHand(new) \subseteq Made'  OBVIOUS
<1>2. /\ worker' \in [Workers -> WorkerRecs] /\ WorkersMade'
      /\ \A c \in Ctxs :
            LET was == IF Busy(worker[w], c) THEN 1 ELSE 0
                is == IF Busy(new, c) THEN 1 ELSE 0
            IN  Cardinality(Callbacks(c)') = Cardinality(Callbacks(c)) - was + is
  BY <1>1, WorkerGoes
<1>3. Shape'  BY <1>2 DEF TypeInv, Shape
<1>4. SendersMade' /\ ClosersMade'  BY KeptMade
<1>5. ASSUME NEW c \in Ctxs PROVE Cardinality(Callbacks(c)') = Cardinality(Callbacks(c))
  <2>1. Cardinality(Callbacks(c)) \in Nat  BY CountedFinite
  <2> QED  BY <1>2, <2>1
<1>6. Sent' = Sent  BY DEF Sent
<1> PICK n : n = Cardinality(Sent)  OBVIOUS
<1>7. n \in Nat  BY CountedFinite
<1>8. n >= n  BY ONLY <1>7
<1>9. \A c \in Ctxs : CountInv(c)'  BY <1>5, <1>6, <1>7, <1>8, KeptCounts
<1> QED  BY <1>2, <1>3, <1>4, <1>9 DEF TypeInv

\* What a worker has is typed and made; a new pc keeps the rest.
LEMMA InHandFacts ==
    ASSUME TypeInv, NEW w \in Workers, NEW label, label \in {"check", "drain", "drainCallback", "one",
               "callback", "requeue", "unlink", "free"}
    PROVE  LET r == worker[w]
               new == [r EXCEPT !.pc = label]
           IN  /\ r \in WorkerRecs /\ new \in WorkerRecs
               /\ r.pc # "idle" => r.q \in Made
               /\ r.pc \notin {"idle", "find"} => r.ctx \in Made /\ InHand(new) \subseteq Made
               /\ new.pc = label /\ new.ctx = r.ctx
<1>1. worker[w] \in WorkerRecs /\ InHand(worker[w]) \subseteq Made
  BY DEF TypeInv, Shape, WorkersMade
<1> QED  BY <1>1 DEF WorkerRecs, InHand

\* A worker at rest, with nothing in hand
LEMMA RestFacts == AtRest \in WorkerRecs /\ InHand(AtRest) = {} /\ \A c : ~Busy(AtRest, c)
BY DEF AtRest, WorkerRecs, InHand, Busy

\* What most of the workers' steps leave alone
LEMMA SameTyped ==
    ASSUME TypeInv
    PROVE  /\ ctx \in [Ctxs -> CtxRecs] /\ slot \in [Handles -> Ctxs \union {Null}]
           /\ global \in Seq(Ctxs) /\ queue \in [Ctxs -> QueueRecs]
           /\ \A c \in Ctxs : queue[c].length <= queue[c].length
           /\ race \in [Ctxs -> Races] /\ fate \in Fates
           /\ ctx' = ctx => Made' = Made
           /\ ctx' = ctx /\ slot' = slot => SlotsMade'
           /\ ctx' = ctx /\ global' = global /\ creator' = creator => QueuesMade'
BY DEF TypeInv, Shape, QueueRecs, Made, SlotsMade, QueuesMade

\* The types and the counts hold on when a worker pops the global queue.
LEMMA TypePopGlobal ==
    ASSUME TypeInv, NEW w \in Workers, PopGlobal(w)
    PROVE  TypeInv'
<1> USE DEF books
<1> PICK q : q = Head(global)  OBVIOUS
<1> PICK b : b = (queue[q].concurrent = TRUE)  OBVIOUS
<1> PICK new : new = [pc |-> "find", q |-> q, ctx |-> Null]  OBVIOUS
<1>1. /\ worker[w].pc = "idle" /\ global # <<>> /\ worker' = [worker EXCEPT ![w] = new]
      /\ UNCHANGED <<slot, ctx, queue, creator, sender, closer, books, fate>>
  BY DEF PopGlobal, At
<1>2. global \in Seq(Ctxs)  BY SameTyped
<1>3. q \in Ctxs /\ b \in BOOLEAN  BY <1>1, <1>2, HeadTailProperties
<1>4. queue[q].concurrent = b  BY <1>3 DEF TypeInv, Shape, QueueRecs
<1> PICK taken : taken = global'  OBVIOUS
<1>5. taken = IF b THEN Append(Tail(global), Head(global)) ELSE Tail(global)
  BY <1>4 DEF PopGlobal
<1>6. /\ taken \in Seq(Ctxs) /\ In(q, global) /\ \A s : In(s, taken) => In(s, global)
  BY <1>1, <1>2, <1>3, <1>5, TakenFacts
<1>7. q \in Made /\ Made' = Made  BY <1>1, <1>3, <1>6, SameTyped DEF TypeInv, QueuesMade
<1>8. QueuesMade'  BY <1>1, <1>6, <1>7 DEF TypeInv, QueuesMade
<1>9. new \in WorkerRecs /\ InHand(new) \subseteq Made /\ (\A c : ~Busy(new, c))
  BY <1>3, <1>7 DEF WorkerRecs, InHand, Busy
<1>10. \A c : ~Busy(worker[w], c)  BY <1>1 DEF Busy
<1> QED  BY <1>1, <1>6, <1>7, <1>8, <1>9, <1>10, SameTyped, TypeWorker

\* The types and the counts hold on when a worker looks for the context of its queue.
LEMMA TypeFindCtx ==
    ASSUME TypeInv, NEW w \in Workers, FindCtx(w)
    PROVE  TypeInv'
<1> USE DEF books, heap
<1> PICK q : q = worker[w].q  OBVIOUS
<1> PICK found : found = slot[ctx[q].handle]  OBVIOUS
<1> PICK new : new = IF found = Null THEN AtRest ELSE [pc |-> "check", q |-> q, ctx |-> found]
  OBVIOUS
<1>1. /\ worker[w].pc = "find" /\ worker' = [worker EXCEPT ![w] = new]
      /\ UNCHANGED <<slot, ctx, queue, global, creator, sender, closer, books, fate>>
  BY DEF FindCtx, At
<1>2. q \in Made /\ ctx[q].handle \in Handles
  BY <1>1, InHandFacts DEF Made
<1>3. found # Null => found \in Made  BY <1>2 DEF TypeInv, SlotsMade
<1>4. new \in WorkerRecs /\ InHand(new) \subseteq Made /\ (\A c : ~Busy(new, c))
  <2>1. CASE found = Null  BY <2>1, RestFacts
  <2>2. CASE found # Null  BY <1>2, <1>3, <2>2 DEF WorkerRecs, InHand, Busy, Made
  <2> QED  BY <2>1, <2>2
<1>5. \A c : ~Busy(worker[w], c)  BY <1>1 DEF Busy
<1> QED  BY <1>1, <1>4, <1>5, SameTyped, TypeWorker

\* The types and the counts hold on when a worker looks at the closing flag.
LEMMA TypeCheckCtx ==
    ASSUME TypeInv, NEW w \in Workers, CheckCtx(w)
    PROVE  TypeInv'
<1> USE DEF books, heap
<1>1. PICK label \in {"drain", "one"} : Goto(w, label)  BY DEF CheckCtx
<1> PICK new : new = [worker[w] EXCEPT !.pc = label]  OBVIOUS
<1>2. /\ worker[w].pc = "check" /\ worker' = [worker EXCEPT ![w] = new]
      /\ UNCHANGED <<slot, ctx, queue, global, creator, sender, closer, books, fate>>
  BY <1>1 DEF CheckCtx, At, Goto
<1>3. new \in WorkerRecs /\ InHand(new) \subseteq Made /\ new.pc = label
  BY <1>2, InHandFacts
<1>4. \A c : ~Busy(worker[w], c) /\ ~Busy(new, c)  BY <1>2, <1>3 DEF Busy
<1> QED  BY <1>2, <1>3, <1>4, SameTyped, TypeWorker

\* A message goes from the queue to a callback: it is counted before and after.
LEMMA TypePopMessage ==
    ASSUME TypeInv, NEW w \in Workers, PopMessage(w)
    PROVE  TypeInv'
<1> USE DEF books
<1> PICK c : c = worker[w].ctx  OBVIOUS
<1>1. PICK label \in {"drainCallback", "callback"} : Goto(w, label)  BY DEF PopMessage
<1> PICK new : new = [worker[w] EXCEPT !.pc = label]  OBVIOUS
<1>2. /\ worker[w].pc \in {"drain", "one"} /\ worker' = [worker EXCEPT ![w] = new]
      /\ queue[c].length > 0 /\ queue' = [queue EXCEPT ![c].length = @ - 1]
      /\ UNCHANGED <<slot, ctx, global, creator, sender, closer, books, fate>>
  BY <1>1 DEF PopMessage, Popping, At, Goto
<1>3. /\ new \in WorkerRecs /\ InHand(new) \subseteq Made /\ new.pc = label /\ new.ctx = c
      /\ c \in Made /\ Made' = Made
  BY ZenonT(60), <1>2, InHandFacts, SameTyped
<1>4. /\ worker' \in [Workers -> WorkerRecs] /\ WorkersMade'
      /\ \A d \in Ctxs :
            LET was == IF Busy(worker[w], d) THEN 1 ELSE 0
                is == IF Busy(new, d) THEN 1 ELSE 0
            IN  Cardinality(Callbacks(d)') = Cardinality(Callbacks(d)) - was + is
  BY <1>2, <1>3, WorkerGoes
<1>5. c \in Ctxs /\ queue[c] \in QueueRecs  BY <1>3 DEF Made, TypeInv, Shape
<1> PICK q : q = queue[c]  OBVIOUS
<1> PICK n : n = q.length - 1  OBVIOUS
<1>6. /\ n \in Nat /\ [q EXCEPT !.length = n] \in QueueRecs /\ [q EXCEPT !.length = n].length = n
  BY <1>2, <1>5 DEF QueueRecs
<1>7. queue' = [queue EXCEPT ![c] = [q EXCEPT !.length = n]]  BY <1>2, <1>5 DEF TypeInv, Shape
<1>8. /\ queue' \in [Ctxs -> QueueRecs] /\ queue'[c].length = queue[c].length - 1
      /\ \A d \in Ctxs \ {c} : queue'[d] = queue[d]
  BY <1>5, <1>6, <1>7 DEF TypeInv, Shape
<1>9. Shape'  BY <1>2, <1>4, <1>8 DEF TypeInv, Shape
<1>10. SlotsMade' /\ QueuesMade' /\ SendersMade' /\ ClosersMade'  BY <1>2, <1>3, KeptMade
<1>11. ASSUME NEW d \in Ctxs PROVE CountInv(d)'
  <2>1. CountInv(d) /\ Sent' = Sent  BY <1>2 DEF TypeInv, Sent
  <2>2. /\ owed'[d] = owed[d] /\ owed[d] \in Nat /\ queue[d].length \in Nat
    BY <1>2 DEF TypeInv, Shape, QueueRecs
  <2>3. Cardinality(Callbacks(d)) \in Nat /\ ~Busy(worker[w], d)  BY <1>2, CountedFinite DEF Busy
  <2>4. Busy(new, d) <=> d = c  BY <1>3 DEF Busy
  <2>5. Cardinality(Callbacks(d)') = Cardinality(Callbacks(d)) + (IF d = c THEN 1 ELSE 0)
    BY <1>4, <2>3, <2>4
  <2>6. queue'[d].length = queue[d].length - (IF d = c THEN 1 ELSE 0)  BY <1>8, <2>2
  <2>7. Cardinality(Sent) \in Nat  BY CountedFinite
  <2> QED  BY <2>1, <2>2, <2>3, <2>5, <2>6, <2>7, MaxMsgsAssumption DEF CountInv
<1>12. fate' \in Fates  BY <1>2, SameTyped
<1> QED  BY <1>4, <1>9, <1>10, <1>11, <1>12 DEF TypeInv
\* The types and the counts hold on when a worker finds its queue empty.
LEMMA TypePopEmpty ==
    ASSUME TypeInv, NEW w \in Workers, PopEmpty(w)
    PROVE  TypeInv'
<1> PICK c : c = worker[w].ctx  OBVIOUS
<1> PICK new : new = IF worker[w].pc = "drain" THEN [worker[w] EXCEPT !.pc = "unlink"] ELSE AtRest
  OBVIOUS
<1>1. /\ worker[w].pc \in {"drain", "one"} /\ worker' = [worker EXCEPT ![w] = new]
      /\ queue' = [queue EXCEPT ![c].in_global = queue[c].concurrent /\ @]
      /\ UNCHANGED <<slot, ctx, global, creator, sender, closer, owed, fate>>
  BY DEF PopEmpty, Popping, At
<1>2. /\ new \in WorkerRecs /\ InHand(new) \subseteq Made /\ c \in Made
      /\ new.pc \in {"idle", "unlink"}
  BY <1>1, InHandFacts, RestFacts DEF AtRest
<1>3. \A d : ~Busy(worker[w], d) /\ ~Busy(new, d)  BY <1>1, <1>2 DEF Busy
<1>4. c \in Ctxs /\ queue[c] \in QueueRecs  BY <1>2 DEF Made, TypeInv, Shape
<1> PICK q : q = queue[c]  OBVIOUS
<1> PICK b : b = (q.concurrent /\ q.in_global)  OBVIOUS
<1>5. b \in BOOLEAN  OBVIOUS
<1>6. [q EXCEPT !.in_global = b] \in QueueRecs /\ [q EXCEPT !.in_global = b].length = q.length
  BY <1>4, <1>5 DEF QueueRecs
<1>7. queue' = [queue EXCEPT ![c] = [q EXCEPT !.in_global = b]]  BY <1>1, <1>4 DEF TypeInv, Shape
<1>8. queue' \in [Ctxs -> QueueRecs] /\ \A d \in Ctxs : queue'[d].length = queue[d].length
  BY <1>4, <1>6, <1>7 DEF TypeInv, Shape
<1>9. \A d \in Ctxs : queue'[d].length <= queue[d].length  BY <1>8, SameTyped
<1>10. race' \in [Ctxs -> Races]
  <2>1. Lost("outrun", c) \/ Lost("missed", c) \/ race' = race  BY DEF PopEmpty
  <2>2. Shape /\ "outrun" \in Races /\ "missed" \in Races  BY DEF TypeInv, Races
  <2> QED  BY <1>4, <2>1, <2>2, LostFacts, SameTyped
<1> QED  BY <1>1, <1>2, <1>3, <1>8, <1>9, <1>10, SameTyped, TypeWorker

\* The types and the counts hold on when a callback sends.
LEMMA TypeCallbackSends ==
    ASSUME TypeInv, NEW w \in Workers, CallbackSends(w)
    PROVE  TypeInv'
<1> PICK c : c = worker[w].ctx  OBVIOUS
<1>1. /\ worker[w].pc \in {"drainCallback", "callback"} /\ queue[c].length < MaxMsgs /\ Push(c)
      /\ UNCHANGED <<slot, ctx, creator, worker, sender, closer, fate>>
  BY DEF CallbackSends, InCallback, At
<1>2. c \in Made /\ Made' = Made  BY <1>1, InHandFacts, SameTyped
<1>3. /\ queue' \in [Ctxs -> QueueRecs] /\ owed' \in [Ctxs -> Nat]
      /\ race' \in [Ctxs -> Races] /\ global' \in Seq(Ctxs) /\ QueuesMade'
  BY <1>1, <1>2, PushTyped
<1>4. Shape' /\ fate' \in Fates  BY <1>1, <1>3 DEF TypeInv, Shape
<1>5. SlotsMade' /\ WorkersMade' /\ SendersMade' /\ ClosersMade'  BY <1>1, <1>2, KeptMade
<1>6. \A d \in Ctxs : CountInv(d)'  BY <1>1, <1>2, PushCounts
<1> QED  BY <1>1, <1>3, <1>4, <1>5, <1>6 DEF TypeInv

\* A context is marked as closing.
LEMMA ClosingTyped ==
    ASSUME TypeInv, NEW c, ctx' = [ctx EXCEPT ![c].closing = TRUE]
    PROVE  ctx' \in [Ctxs -> CtxRecs] /\ Made' = Made
<1>1. ctx' \in [Ctxs -> CtxRecs] /\ \A d \in Ctxs : ctx'[d].handle = ctx[d].handle
  BY DEF TypeInv, Shape, CtxRecs
<1> QED  BY <1>1 DEF Made

\* The types and the counts hold on when a callback closes a service.
LEMMA TypeCallbackCloses ==
    ASSUME TypeInv, NEW w \in Workers, CallbackCloses(w)
    PROVE  TypeInv'
<1> USE DEF books
<1> PICK r : r = worker[w]  OBVIOUS
<1> PICK c : c = r.ctx  OBVIOUS
<1>1. /\ r.pc = "callback" /\ ctx' = [ctx EXCEPT ![c].closing = TRUE]
      /\ global' = global \/ global' = Append(global, c)
      /\ UNCHANGED <<slot, queue, creator, worker, sender, closer, books, fate>>
  BY DEF CallbackCloses, At
<1>2. c \in Made /\ r \in WorkerRecs  BY <1>1, InHandFacts
<1>3. ctx' \in [Ctxs -> CtxRecs] /\ Made' = Made  BY <1>1, ClosingTyped
<1>4. global' \in Seq(Ctxs) /\ QueuesMade'  BY <1>1, <1>2, <1>3, QueuedMade
<1>5. SlotsMade' /\ InHand(r) \subseteq Made
  BY <1>1, <1>3, KeptMade DEF TypeInv, WorkersMade
<1>6. worker' = [worker EXCEPT ![w] = r]  BY <1>1 DEF TypeInv, Shape
<1> QED  BY <1>1, <1>2, <1>3, <1>4, <1>5, <1>6, SameTyped, TypeWorker

\* A message leaves its callback: it is owed before and not after.
LEMMA TypeCallbackEnd ==
    ASSUME TypeInv, NEW w \in Workers, CallbackEnd(w)
    PROVE  TypeInv'
<1> USE DEF heap
<1> PICK c : c = worker[w].ctx  OBVIOUS
<1>1. PICK label \in {"requeue", "drain"} : Goto(w, label)  BY DEF CallbackEnd
<1> PICK new : new = [worker[w] EXCEPT !.pc = label]  OBVIOUS
<1>2. /\ worker[w].pc \in {"drainCallback", "callback"} /\ worker' = [worker EXCEPT ![w] = new]
      /\ owed' = [owed EXCEPT ![c] = @ - 1]
      /\ UNCHANGED <<slot, ctx, queue, global, creator, sender, closer, race, fate>>
  BY <1>1 DEF CallbackEnd, InCallback, At, Goto
<1>3. /\ new \in WorkerRecs /\ InHand(new) \subseteq Made /\ new.pc = label
      /\ c \in Made /\ c \in Ctxs /\ Made' = Made
  BY ZenonT(60), <1>2, InHandFacts, SameTyped DEF Made
<1>4. /\ worker' \in [Workers -> WorkerRecs] /\ WorkersMade'
      /\ \A d \in Ctxs :
            LET was == IF Busy(worker[w], d) THEN 1 ELSE 0
                is == IF Busy(new, d) THEN 1 ELSE 0
            IN  Cardinality(Callbacks(d)') = Cardinality(Callbacks(d)) - was + is
  BY <1>2, <1>3, WorkerGoes
<1>5. \A d \in Ctxs : owed[d] \in Nat /\ owed'[d] = IF d = c THEN owed[d] - 1 ELSE owed[d]
  BY <1>2, <1>3 DEF TypeInv, Shape
<1>6. ASSUME NEW d \in Ctxs
      PROVE  /\ Cardinality(Callbacks(d)) \in Nat
             /\ Cardinality(Callbacks(d)') = Cardinality(Callbacks(d)) - (IF d = c THEN 1 ELSE 0)
  <2>1. Cardinality(Callbacks(d)) \in Nat /\ ~Busy(new, d)  BY <1>3, CountedFinite DEF Busy
  <2>2. Busy(worker[w], d) <=> d = c  BY <1>2 DEF Busy
  <2> QED  BY <1>4, <2>1, <2>2
<1>7. Cardinality(Callbacks(c)) # 0
  <2>1. w \in Callbacks(c)  BY <1>2 DEF Callbacks, Busy
  <2> QED  BY <2>1, CountedFinite, FS_EmptySet
<1>8. ASSUME NEW d \in Ctxs PROVE CountInv(d)' /\ owed'[d] \in Nat
  <2>1. CountInv(d) /\ Sent' = Sent  BY <1>2 DEF TypeInv, Sent
  <2>2. queue'[d] = queue[d] /\ queue[d].length \in Nat
    BY <1>2 DEF TypeInv, Shape, QueueRecs
  <2>3. Cardinality(Sent) \in Nat  BY CountedFinite
  <2> QED  BY <1>5, <1>6, <1>7, <2>1, <2>2, <2>3, MaxMsgsAssumption DEF CountInv
<1>9. owed' \in [Ctxs -> Nat]  BY <1>2, <1>8 DEF TypeInv, Shape
<1>10. Shape' /\ fate' \in Fates  BY <1>2, <1>4, <1>9 DEF TypeInv, Shape
<1>11. SlotsMade' /\ QueuesMade' /\ SendersMade' /\ ClosersMade'  BY <1>2, <1>3, KeptMade
<1> QED  BY <1>4, <1>8, <1>10, <1>11 DEF TypeInv

\* The types and the counts hold on when a worker pushes its queue again.
LEMMA TypeRequeue ==
    ASSUME TypeInv, NEW w \in Workers, Requeue(w)
    PROVE  TypeInv'
<1> USE DEF books
<1> PICK q : q = worker[w].ctx  OBVIOUS
<1> PICK new : new = AtRest  OBVIOUS
<1>1. /\ worker[w].pc = "requeue" /\ worker' = [worker EXCEPT ![w] = new]
      /\ global' = global \/ global' = Append(global, q)
      /\ UNCHANGED <<slot, ctx, queue, creator, sender, closer, books, fate>>
  BY DEF Requeue, Return, At
<1>2. q \in Made /\ Made' = Made  BY <1>1, InHandFacts, SameTyped
<1>3. global' \in Seq(Ctxs) /\ QueuesMade'  BY <1>1, <1>2, QueuedMade
<1>4. \A c : ~Busy(worker[w], c)  BY <1>1 DEF Busy
<1>5. new \in WorkerRecs /\ InHand(new) \subseteq Made /\ \A c : ~Busy(new, c)  BY RestFacts
<1> QED  BY <1>1, <1>2, <1>3, <1>4, <1>5, SameTyped, TypeWorker

\* The types and the counts hold on when a worker takes a drained context out of its slot.
LEMMA TypeWorkerUnlinks ==
    ASSUME TypeInv, NEW w \in Workers, WorkerUnlinks(w)
    PROVE  TypeInv'
<1> USE DEF books
<1> PICK c : c = worker[w].ctx  OBVIOUS
<1> PICK new : new = [worker[w] EXCEPT !.pc = "free"]  OBVIOUS
<1>1. /\ worker[w].pc = "unlink" /\ worker' = [worker EXCEPT ![w] = new] /\ Unlink(c)
      /\ UNCHANGED <<ctx, queue, global, creator, sender, closer, books, fate>>
  BY DEF WorkerUnlinks, Goto, At
<1>2. /\ new \in WorkerRecs /\ InHand(new) \subseteq Made /\ new.pc = "free"
      /\ c \in Ctxs /\ Made' = Made
  BY <1>1, InHandFacts, SameTyped DEF Made
<1>3. slot' \in [Handles -> Ctxs \union {Null}] /\ SlotsMade'  BY <1>1, <1>2, UnlinkTyped
<1>4. \A d : ~Busy(worker[w], d) /\ ~Busy(new, d)  BY <1>1, <1>2 DEF Busy
<1> QED  BY <1>1, <1>2, <1>3, <1>4, SameTyped, TypeWorker

\* The types and the counts hold on when a worker frees a drained context and its queue.
LEMMA TypeWorkerFrees ==
    ASSUME TypeInv, NEW w \in Workers, WorkerFrees(w)
    PROVE  TypeInv'
<1> USE DEF books
<1> PICK c : c = worker[w].ctx  OBVIOUS
<1> PICK new : new = AtRest  OBVIOUS
<1>1. /\ worker[w].pc = "free" /\ worker' = [worker EXCEPT ![w] = new] /\ FreeCtx(c)
      /\ UNCHANGED <<slot, global, creator, sender, closer, books, fate>>
  BY DEF WorkerFrees, Return, At
<1>2. c \in Ctxs  BY <1>1, InHandFacts DEF Made
<1>3. /\ ctx' \in [Ctxs -> CtxRecs] /\ queue' \in [Ctxs -> QueueRecs] /\ Made' = Made
      /\ \A d \in Ctxs : queue'[d].length <= queue[d].length
  BY <1>1, <1>2, FreeTyped
<1>4. SlotsMade' /\ QueuesMade'  BY <1>1, <1>3, KeptMade
<1>5. \A d : ~Busy(worker[w], d)  BY <1>1 DEF Busy
<1>6. new \in WorkerRecs /\ InHand(new) \subseteq Made /\ \A d : ~Busy(new, d)  BY RestFacts
<1> QED  BY <1>1, <1>3, <1>4, <1>5, <1>6, SameTyped, TypeWorker

-----------------------------------------------------------------------------
(* The senders' and closers' types and counts *)

\* Of a sender's step: what it names, and whether it is counted
LEMMA SenderCounted ==
    ASSUME TypeInv, NEW t \in Senders, NEW new \in SenderRecs, sender' = [sender EXCEPT ![t] = new],
           Known(new) \subseteq Made, Made' = Made, sender[t].pc # "done"
    PROVE  /\ sender' \in [Senders -> SenderRecs] /\ SendersMade'
           /\ Cardinality(Sent') = Cardinality(Sent) + (IF new.pc = "done" THEN 1 ELSE 0)
           /\ Cardinality(Sent') \in Nat /\ Cardinality(Sent') >= Cardinality(Sent)
<1>1. /\ sender \in [Senders -> SenderRecs] /\ sender' \in [Senders -> SenderRecs]
      /\ sender'[t] = new /\ \A u \in Senders \ {t} : sender'[u] = sender[u]
  BY DEF TypeInv, Shape
<1>2. SendersMade'
  <2>1. ASSUME NEW u \in Senders PROVE Known(sender[u])' \subseteq Made'
    <3>1. CASE u = t  BY <1>1, <3>1 DEF Known
    <3>2. CASE u # t
      <4>1. Known(sender[u]) \subseteq Made /\ sender'[u] = sender[u]
        BY <1>1, <3>2 DEF TypeInv, SendersMade
      <4> QED  BY <4>1 DEF Known
    <3> QED  BY <3>1, <3>2
  <2> QED  BY <2>1 DEF SendersMade
<1>3. Cardinality(Sent') = Cardinality(Sent) + (IF new.pc = "done" THEN 1 ELSE 0)
  <2> PICK S : S = Sent  OBVIOUS
  <2> PICK T : T = {u \in Senders : sender'[u].pc = "done"}  OBVIOUS
  <2>1. T = Sent'  BY DEF Sent
  <2>2. S \ {t} = T \ {t}  BY <1>1 DEF Sent
  <2>3. IsFiniteSet(S) /\ Cardinality(S) \in Nat  BY CountedFinite
  <2>4. T \in SUBSET Senders  OBVIOUS
  <2>5. IsFiniteSet(T)  BY <2>4, ThreadsAssumption, FS_Subset
  <2>6. t \notin S /\ (t \in T <=> new.pc = "done")  BY <1>1 DEF Sent
  <2>7. Cardinality(T) = Cardinality(S) - (IF t \in S THEN 1 ELSE 0) + (IF t \in T THEN 1 ELSE 0)
    BY ONLY <2>2, <2>3, <2>5, OneCounts
  <2> QED  BY <2>1, <2>3, <2>6, <2>7
<1>4. Cardinality(Sent) \in Nat  BY CountedFinite
<1>5. Cardinality(Sent') \in Nat /\ Cardinality(Sent') >= Cardinality(Sent)  BY <1>3, <1>4
<1> QED  BY <1>1, <1>2, <1>3, <1>5

\* A step of a sender that pushes nothing
LEMMA TypeSender ==
    ASSUME TypeInv, NEW t \in Senders, NEW new \in SenderRecs, sender' = [sender EXCEPT ![t] = new],
           Known(new) \subseteq Made, sender[t].pc # "done",
           UNCHANGED <<slot, ctx, queue, global, creator, worker, closer, books, fate>>
    PROVE  TypeInv'
<1> USE DEF books
<1>1. Made' = Made  BY SameTyped
<1>2. /\ sender' \in [Senders -> SenderRecs] /\ SendersMade'
      /\ Cardinality(Sent') \in Nat /\ Cardinality(Sent') >= Cardinality(Sent)
  BY <1>1, SenderCounted
<1>3. Shape'  BY <1>2 DEF TypeInv, Shape
<1>4. SlotsMade' /\ QueuesMade' /\ WorkersMade' /\ ClosersMade'  BY <1>1, KeptMade
<1>5. \A c \in Ctxs : Cardinality(Callbacks(c)') = Cardinality(Callbacks(c))
  BY DEF Callbacks, Busy
<1>6. \A c \in Ctxs : queue'[c].length <= queue[c].length  BY SameTyped
<1>7. \A c \in Ctxs : CountInv(c)'  BY <1>2, <1>5, <1>6, SameTyped, KeptCounts
<1> QED  BY <1>2, <1>3, <1>4, <1>7, SameTyped DEF TypeInv

\* The types and the counts hold on when a sender finds a context by its handle.
LEMMA TypeSenderFinds ==
    ASSUME TypeInv, NEW t \in Senders, NEW h \in Handles, SenderFinds(t, h)
    PROVE  TypeInv'
<1> PICK c : c = slot[h]  OBVIOUS
<1> PICK new : new = [pc |-> "found", ctx |-> c]  OBVIOUS
<1>1. /\ sender[t].pc = "idle" /\ c # Null /\ sender' = [sender EXCEPT ![t] = new]
      /\ UNCHANGED <<slot, ctx, queue, global, creator, worker, closer, books, fate>>
  BY DEF SenderFinds, heap
<1>2. c \in Made /\ c \in Ctxs  BY <1>1 DEF TypeInv, SlotsMade, Made
<1>3. new \in SenderRecs /\ Known(new) \subseteq Made  BY <1>2 DEF SenderRecs, Known
<1> QED  BY <1>1, <1>3, TypeSender

\* Nothing is known to a sender or a closer that is through.
LEMMA OverFacts == Over \in SenderRecs /\ Over \in CloserRecs /\ Known(Over) = {} /\ Over.pc = "done"
BY DEF Over, SenderRecs, CloserRecs, Known

\* The types and the counts hold on when a sender tests the closing flag.
LEMMA TypeSenderTests ==
    ASSUME TypeInv, NEW t \in Senders, SenderTests(t)
    PROVE  TypeInv'
<1> PICK r : r = sender[t]  OBVIOUS
<1> PICK new : new = IF ctx[r.ctx].closing THEN Over ELSE [r EXCEPT !.pc = "push"]  OBVIOUS
<1>1. r \in SenderRecs /\ Known(r) \subseteq Made  BY DEF TypeInv, Shape, SendersMade
<1>2. /\ r.pc = "found" /\ sender' = [sender EXCEPT ![t] = new]
      /\ UNCHANGED <<slot, ctx, queue, global, creator, worker, closer, books, fate>>
  BY DEF SenderTests, TypeInv, Shape, heap
<1>3. [r EXCEPT !.pc = "push"] \in SenderRecs /\ Known([r EXCEPT !.pc = "push"]) \subseteq Made
  BY <1>1, <1>2 DEF SenderRecs, Known
<1>4. new \in SenderRecs /\ Known(new) \subseteq Made  BY <1>3, OverFacts
<1> QED  BY <1>2, <1>4, TypeSender

\* What a sender pushes is counted for it: senders push once each.
LEMMA TypeSenderPushes ==
    ASSUME TypeInv, NEW t \in Senders, SenderPushes(t)
    PROVE  TypeInv'
<1> PICK r : r = sender[t]  OBVIOUS
<1> PICK c : c = r.ctx  OBVIOUS
<1> PICK new : new = Over  OBVIOUS
<1>1. r \in SenderRecs /\ Known(r) \subseteq Made  BY DEF TypeInv, Shape, SendersMade
<1>2. /\ r.pc = "push" /\ sender' = [sender EXCEPT ![t] = new] /\ Push(c)
      /\ UNCHANGED <<slot, ctx, creator, worker, closer, fate>>
  BY DEF SenderPushes
<1>3. c \in Made /\ c \in Ctxs /\ Made' = Made  BY <1>1, <1>2, SameTyped DEF Known, Made
<1>4. new \in SenderRecs /\ Known(new) \subseteq Made /\ new.pc = "done"  BY OverFacts
<1>5. /\ sender' \in [Senders -> SenderRecs] /\ SendersMade'
      /\ Cardinality(Sent') = Cardinality(Sent) + 1
  BY <1>2, <1>3, <1>4, SenderCounted
<1>6. /\ queue' \in [Ctxs -> QueueRecs] /\ owed' \in [Ctxs -> Nat]
      /\ race' \in [Ctxs -> Races] /\ global' \in Seq(Ctxs) /\ QueuesMade'
  BY <1>2, <1>3, PushTyped
<1>7. Shape'  BY <1>2, <1>5, <1>6 DEF TypeInv, Shape
<1>8. SlotsMade' /\ WorkersMade' /\ ClosersMade'  BY <1>2, <1>3, KeptMade
<1>9. \A d \in Ctxs : CountInv(d)'  BY <1>2, <1>3, <1>5, PushCounts
<1> QED  BY <1>2, <1>5, <1>6, <1>7, <1>8, <1>9, SameTyped DEF TypeInv

\* Of a closer's step
LEMMA CloserTyped ==
    ASSUME TypeInv, NEW k \in Closers, NEW new \in CloserRecs, closer' = [closer EXCEPT ![k] = new],
           Known(new) \subseteq Made, Made' = Made
    PROVE  closer' \in [Closers -> CloserRecs] /\ ClosersMade'
<1>1. /\ closer \in [Closers -> CloserRecs] /\ closer' \in [Closers -> CloserRecs]
      /\ closer'[k] = new /\ \A j \in Closers \ {k} : closer'[j] = closer[j]
  BY DEF TypeInv, Shape
<1>2. ASSUME NEW j \in Closers PROVE Known(closer[j])' \subseteq Made'
  <2>1. CASE j = k  BY <1>1, <2>1 DEF Known
  <2>2. CASE j # k
    <3>1. Known(closer[j]) \subseteq Made /\ closer'[j] = closer[j]
      BY <1>1, <2>2 DEF TypeInv, ClosersMade
    <3> QED  BY <3>1 DEF Known
  <2> QED  BY <2>1, <2>2
<1> QED  BY <1>1, <1>2 DEF ClosersMade

\* The types and the counts hold on when a closer finds a context by its handle.
LEMMA TypeCloserFinds ==
    ASSUME TypeInv, NEW k \in Closers, NEW h \in Handles, CloserFinds(k, h)
    PROVE  TypeInv'
<1> PICK c : c = slot[h]  OBVIOUS
<1> PICK new : new = [pc |-> "found", ctx |-> c]  OBVIOUS
<1>1. /\ c # Null /\ closer' = [closer EXCEPT ![k] = new]
      /\ UNCHANGED <<slot, ctx, queue, global, creator, worker, sender, books, fate>>
  BY DEF CloserFinds, heap
<1>2. c \in Made /\ c \in Ctxs  BY <1>1 DEF TypeInv, SlotsMade, Made
<1>3. new \in CloserRecs /\ Known(new) \subseteq Made /\ Made' = Made
  BY <1>1, <1>2, SameTyped DEF CloserRecs, Known
<1>4. closer' \in [Closers -> CloserRecs] /\ ClosersMade'  BY <1>1, <1>3, CloserTyped
<1>5. creator' \in [Ctxs -> Stages]  BY <1>1 DEF TypeInv, Shape
<1> QED  BY <1>1, <1>4, <1>5, SameTyped, TypeStill

\* It marks the context, looks at in_global, and may push the queue.
LEMMA TypeCloserStep ==
    ASSUME TypeInv, NEW k \in Closers, CloserMarks(k) \/ CloserTests(k) \/ CloserPushes(k)
    PROVE  TypeInv'
<1> USE DEF books, heap
<1> PICK r : r = closer[k]  OBVIOUS
<1> PICK c : c = r.ctx  OBVIOUS
<1>1. r \in CloserRecs /\ Known(r) \subseteq Made  BY DEF TypeInv, Shape, ClosersMade
<1>2. /\ r.pc \in {"found", "test", "push"}
      /\ UNCHANGED <<slot, queue, creator, worker, sender, owed, fate>>
      /\ ctx' = ctx \/ ctx' = [ctx EXCEPT ![c].closing = TRUE]
      /\ global' = global \/ global' = Append(global, c)
      /\ race' = race \/ Lost("twice", c)
  BY DEF CloserMarks, CloserTests, CloserPushes
<1>3. PICK new : /\ closer' = [closer EXCEPT ![k] = new]
                 /\ \/ new = Over
                    \/ new = [r EXCEPT !.pc = "test"]
                    \/ new = [r EXCEPT !.pc = "push"]
  BY DEF CloserMarks, CloserTests, CloserPushes, TypeInv, Shape
<1>4. ctx' \in [Ctxs -> CtxRecs] /\ Made' = Made
  BY <1>2, ClosingTyped, SameTyped
<1>5. c \in Made /\ c \in Ctxs  BY <1>1, <1>2 DEF Known, Made
<1>6. /\ [r EXCEPT !.pc = "test"] \in CloserRecs /\ Known([r EXCEPT !.pc = "test"]) \subseteq Made
      /\ [r EXCEPT !.pc = "push"] \in CloserRecs /\ Known([r EXCEPT !.pc = "push"]) \subseteq Made
  BY <1>1, <1>2 DEF CloserRecs, Known
<1>7. new \in CloserRecs /\ Known(new) \subseteq Made  BY <1>3, <1>6, OverFacts
<1>8. closer' \in [Closers -> CloserRecs] /\ ClosersMade'  BY <1>3, <1>4, <1>7, CloserTyped
<1>9. global' \in Seq(Ctxs) /\ QueuesMade'  BY <1>2, <1>4, <1>5, QueuedMade
<1>10. race' \in [Ctxs -> Races]
  <2>1. Shape /\ "twice" \in Races  BY DEF TypeInv, Races
  <2> QED  BY <1>2, <1>5, <2>1, LostFacts, SameTyped
<1>11. Shape'  BY <1>2, <1>4, <1>8, <1>9, <1>10 DEF TypeInv, Shape
<1>12. SlotsMade' /\ WorkersMade' /\ SendersMade'  BY <1>2, <1>4, KeptMade
<1>13. queue' \in [Ctxs -> QueueRecs] /\ \A d \in Ctxs : queue'[d].length <= queue[d].length
  BY <1>2, SameTyped
<1>14. \A d \in Ctxs : CountInv(d)'  BY <1>2, <1>13, SameCounts
<1> QED  BY <1>2, <1>8, <1>9, <1>11, <1>12, <1>14, SameTyped DEF TypeInv

-----------------------------------------------------------------------------
\* At first the fields have their types and nothing is owed.
LEMMA FirstTyped == Init => TypeInv
<1> SUFFICES ASSUME Init PROVE TypeInv  OBVIOUS
<1> USE CtxAssumption DEF Init, AtRest, Call
<1>1. Len(global) = 0 /\ global \in Seq(Ctxs)  BY EmptySeq
<1>2. \A c : ~In(c, global)  BY <1>1 DEF In
<1>3. Shape
  BY <1>1 DEF Shape, Life, CtxRecs, QueueRecs, Stages, WorkerRecs, SenderRecs, CloserRecs, Races
<1>4. SlotsMade /\ QueuesMade  BY <1>2 DEF SlotsMade, QueuesMade
<1>5. WorkersMade /\ SendersMade /\ ClosersMade
  BY DEF WorkersMade, SendersMade, ClosersMade, InHand, Known
<1>6. ASSUME NEW c \in Ctxs PROVE CountInv(c)
  <2>1. Callbacks(c) = {}  BY DEF Callbacks, Busy
  <2>2. Cardinality(Callbacks(c)) = 0 /\ Cardinality(Sent) \in Nat
    BY <2>1, FS_EmptySet, CountedFinite
  <2> QED  BY <2>2, MaxMsgsAssumption DEF CountInv
<1> QED  BY <1>3, <1>4, <1>5, <1>6 DEF TypeInv, Fates

\* Something undefined, or a failed assertion, and no more
Trips ==
    \/ \E c \in Ctxs : CreatorTrips(c)
    \/ \E w \in Workers : WorkerTrips(w) \/ CheckAborts(w)
    \/ \E t \in Senders : SenderTrips(t)
    \/ \E k \in Closers : CloserTrips(k)

\* The types and the counts hold on when a step is undefined, or changes nothing.
LEMMA TypeTrips ==
    ASSUME TypeInv, Trips \/ UNCHANGED vars
    PROVE  TypeInv'
<1> USE DEF vars, books, heap
<1>1. /\ UNCHANGED <<slot, ctx, queue, global, creator, worker, sender, closer, books>>
      /\ fate' \in Fates
  BY SameTyped DEF Trips, CreatorTrips, WorkerTrips, CheckAborts, SenderTrips, CloserTrips, Fates
<1>2. creator' \in [Ctxs -> Stages] /\ closer' \in [Closers -> CloserRecs] /\ ClosersMade'
  BY <1>1, SameTyped, KeptMade DEF TypeInv, Shape
<1> QED  BY <1>1, <1>2, SameTyped, TypeStill DEF TypeInv

\* Every step keeps the types and the counts.
LEMMA TypeNext == TypeInv /\ [Next]_vars => TypeInv'
<1> SUFFICES ASSUME TypeInv, [Next]_vars PROVE TypeInv'  OBVIOUS
<1>1. ASSUME NEW c \in Ctxs, NEW h \in Handles, CreateBegin(c, h) PROVE TypeInv'
  BY <1>1, TypeCreateBegin
<1>2. ASSUME NEW c \in Ctxs, CreateSends(c) \/ CreatorEnds(c), ~Trips PROVE TypeInv'
  BY <1>2, TypeCreateSends, TypeCreateQueue, TypeCreatorUnlinks, TypeCreatorFrees
  DEF CreatorEnds, Trips
<1>3. ASSUME NEW w \in Workers, WorkerStep(w) \/ CallbackSends(w) \/ CallbackCloses(w), ~Trips
      PROVE  TypeInv'
  BY <1>3, TypePopGlobal, TypeFindCtx, TypeCheckCtx, TypePopMessage, TypePopEmpty,
     TypeCallbackEnd, TypeRequeue, TypeWorkerUnlinks, TypeWorkerFrees, TypeCallbackSends,
     TypeCallbackCloses
  DEF WorkerStep, Trips
<1>4. ASSUME NEW t \in Senders, NEW h \in Handles, SenderFinds(t, h) PROVE TypeInv'
  BY <1>4, TypeSenderFinds
<1>5. ASSUME NEW t \in Senders, SenderTests(t) \/ SenderPushes(t) PROVE TypeInv'
  BY <1>5, TypeSenderTests, TypeSenderPushes
<1>6. ASSUME NEW k \in Closers, NEW h \in Handles, CloserFinds(k, h) PROVE TypeInv'
  BY <1>6, TypeCloserFinds
<1>7. ASSUME NEW k \in Closers, CloserStep(k), ~Trips PROVE TypeInv'
  BY <1>7, TypeCloserStep DEF CloserStep, Trips
<1>8. ASSUME NEW t \in Senders, SenderTrips(t) PROVE Trips  BY <1>8 DEF Trips
<1>9. CASE Trips \/ UNCHANGED vars  BY <1>9, TypeTrips
<1> QED  BY <1>1, <1>2, <1>3, <1>4, <1>5, <1>6, <1>7, <1>8, <1>9 DEF Next

\* The types, for the bounds of the counts
LEMMA TypeFollows == TypeInv => TypeOK
<1> SUFFICES ASSUME TypeInv PROVE TypeOK  OBVIOUS
<1>1. ASSUME NEW c \in Ctxs PROVE queue[c].length \in 0 .. MaxLength
  <2>1. /\ Cardinality(Sent) \in Nat
        /\ Cardinality(Sent) <= Cardinality(Senders) /\ Cardinality(Senders) \in Nat
    BY CountedFinite
  <2>2. queue[c].length \in Nat  BY DEF TypeInv, Shape, QueueRecs
  <2>3. CountInv(c)  BY DEF TypeInv
  <2> QED  BY <2>1, <2>2, <2>3, MaxMsgsAssumption DEF CountInv, MaxLength
<1>2. queue \in [Ctxs -> [life : {"none", "alive", "freed"}, length : 0 .. MaxLength,
                          in_global : BOOLEAN, concurrent : BOOLEAN, release : BOOLEAN]]
  BY <1>1 DEF TypeInv, Shape, QueueRecs, Life
<1> QED
  BY <1>2
  DEF TypeInv, TypeOK, Shape, CtxRecs, Life, Stages, WorkerRecs, SenderRecs, CloserRecs, Fates,
      Races

\* Whoever closes a service and when, whatever is used after it was freed: the fields keep
\* their types, no queue is longer than its senders allow (nor shorter than empty), and no
\* more callbacks return than messages were put in the queue.
THEOREM TypeCorrect == Spec => []TypeOK
<1>1. Init => TypeInv  BY FirstTyped
<1>2. TypeInv /\ [Next]_vars => TypeInv'  BY TypeNext
<1> QED  BY <1>1, <1>2, TypeFollows, PTL DEF Spec
-----------------------------------------------------------------------------
(* What no race can break, and what one can *)

Holds(w, c) == worker[w].q = c
Unplaced(c) == ~In(c, global) /\ \A w \in Workers : ~Holds(w, c)
Handling(c) == \E w \in Workers : Holds(w, c) /\ InCallback(w)
Plain(c) == c \notin ConcurrentCtxs
Young(c) == creator[c] \in {"idle", "begun"}
Created(c) == creator[c] \in {"report", "done"}

\* a worker at rest has nothing in hand, and from the assertion on it works on the context
\* that its queue is of
TidyRec(r) ==
    /\ r.pc = "idle" <=> r.q = Null
    /\ r.pc \notin {"idle", "find", "check"} => r.ctx = r.q
Tidy == \A w \in Workers : TidyRec(worker[w])

\* how far a context's life is, and what its queue's life is then
LifeOrder(c) ==
    /\ creator[c] = "idle" <=> ctx[c].life = "none"
    /\ creator[c] = "idle" => ctx[c].handle = Null /\ ~ctx[c].closing
    /\ Young(c) <=> queue[c].life = "none"
    /\ Young(c) => queue[c].length = 0 /\ owed[c] = 0
    /\ CtxAlive(c) /\ ~Young(c) => QueueAlive(c)
    /\ creator[c] = "failed" => ctx[c].life = "freed"
    /\ ctx[c].life = "freed" => ctx[c].closing \/ creator[c] = "failed"

\* the queue of a plain context is plain; that of a concurrent one is in the global queue
\* or soon will be, until the context is freed
KindOrder(c) ==
    /\ Plain(c) => ~queue[c].concurrent
    /\ ~Plain(c) => /\ ctx[c].life = "freed" \/ queue[c].concurrent
                    /\ Young(c) \/ queue[c].in_global
                    /\ OnceIn(c, global)

\* a context in creation is its creator's, but for the messages sent to it
NewOrder(c) ==
    /\ creator[c] \in {"begun", "creating", "unlink", "free"} => CtxAlive(c)
    /\ creator[c] \in {"creating", "unlink", "free"} => queue[c].in_global
    /\ ~Created(c) => Unplaced(c)

\* closing is set before anyone acts on it
CloseOrder(c) ==
    /\ \A k \in Closers : closer[k].ctx = c =>
          /\ closer[k].pc \in {"test", "push"} => ctx[c].closing
          /\ closer[k].pc = "push" => Created(c) /\ Plain(c)
    /\ \A w \in Workers : Holds(w, c) /\ worker[w].pc \in {"drain", "drainCallback", "unlink", "free"} =>
          ctx[c].closing

Order(c) == LifeOrder(c) /\ KindOrder(c) /\ NewOrder(c) /\ CloseOrder(c)

Closing(k, c) == closer[k].ctx = c /\ closer[k].pc \in {"test", "push"}

\* the queue is in one place, and marked wherever that is unless it is about to be drained
PlaceSafe(c) ==
    /\ OnceIn(c, global)
    /\ \A w \in Workers : Holds(w, c) =>
          /\ ~In(c, global)
          /\ \A v \in Workers : Holds(v, c) => v = w
          /\ worker[w].pc \in {"one", "callback", "requeue"} => queue[c].in_global
          /\ worker[w].pc \in {"unlink", "free"} => ~queue[c].in_global /\ queue[c].length = 0
    /\ ctx[c].life = "freed" => Unplaced(c)
    /\ ~queue[c].in_global /\ ~Unplaced(c) =>
          ctx[c].closing /\ \A k \in Closers : ~Closing(k, c)

\* one thread at most is closing it, and pushes it only when it is in no place
CloserSafe(c) ==
    \A k \in Closers : Closing(k, c) =>
        /\ closer[k].pc = "push" => ~queue[c].in_global /\ Unplaced(c)
        /\ \A j \in Closers : Closing(j, c) => j = k

\* what is owed is in the queue, but for a message in a callback's hands
OwedSafe(c) ==
    /\ ctx[c].life # "freed" => owed[c] = queue[c].length + (IF Handling(c) THEN 1 ELSE 0)
    /\ ctx[c].life = "freed" /\ Created(c) => owed[c] = 0

Safe(c) == PlaceSafe(c) /\ CloserSafe(c) /\ OwedSafe(c)

Kept(c) == Order(c) /\ (Plain(c) /\ ~Raced(c) => Safe(c))
CloseInv == Tidy /\ \A c \in Ctxs : Kept(c)

-----------------------------------------------------------------------------
(* What an action must show *)

\* all that Kept(c) looks at
SameOf(c) ==
    /\ ctx'[c] = ctx[c] /\ queue'[c] = queue[c] /\ creator'[c] = creator[c]
    /\ owed'[c] = owed[c] /\ race'[c] = race[c]
    /\ In(c, global') <=> In(c, global)
    /\ OnceIn(c, global) => OnceIn(c, global')
    /\ \A w \in Workers : worker'[w].q = c \/ worker[w].q = c => worker'[w] = worker[w]
    /\ \A k \in Closers : closer'[k].ctx = c => closer'[k] = closer[k] \/ closer'[k].pc = "found"

\* A context that a step does not touch keeps its invariant.
LEMMA OthersKeep ==
    ASSUME NEW c \in Ctxs, Kept(c), SameOf(c)
    PROVE  Kept(c)'
<1>1. \A w \in Workers : (Holds(w, c)' <=> Holds(w, c)) /\ (Holds(w, c) => worker'[w] = worker[w])
  BY DEF SameOf, Holds
<1>2. Unplaced(c)' <=> Unplaced(c)  BY <1>1 DEF SameOf, Unplaced
<1>3. Handling(c)' <=> Handling(c)  BY <1>1 DEF Handling, InCallback, At
<1>4. \A k \in Closers : Closing(k, c)' => Closing(k, c) /\ closer'[k] = closer[k]
  BY DEF SameOf, Closing
<1>5. LifeOrder(c)'  BY DEF Kept, Order, LifeOrder, SameOf, Young, CtxAlive, QueueAlive
<1>6. KindOrder(c)'  BY DEF Kept, Order, KindOrder, SameOf, Young, Plain
<1>7. NewOrder(c)'  BY <1>2 DEF Kept, Order, NewOrder, SameOf, CtxAlive, Created
<1>8. CloseOrder(c)'
  <2>1. ASSUME NEW k \in Closers, closer'[k].ctx = c
        PROVE  /\ closer'[k].pc \in {"test", "push"} => ctx'[c].closing
               /\ closer'[k].pc = "push" => Created(c)' /\ Plain(c)
    BY <2>1 DEF Kept, Order, CloseOrder, SameOf, Created
  <2>2. ASSUME NEW w \in Workers, Holds(w, c)',
               worker'[w].pc \in {"drain", "drainCallback", "unlink", "free"}
        PROVE  ctx'[c].closing
    BY <1>1, <2>2 DEF Kept, Order, CloseOrder, SameOf
  <2> QED  BY <2>1, <2>2 DEF CloseOrder, Plain
<1>9. ASSUME Plain(c), ~Raced(c)' PROVE Safe(c)'
  <2>1. Safe(c)  BY <1>9 DEF Kept, Raced, SameOf
  <2>2. PlaceSafe(c)'  BY <1>1, <1>2, <1>4, <2>1 DEF Safe, PlaceSafe, SameOf
  <2>3. CloserSafe(c)'  BY <1>2, <1>4, <2>1 DEF Safe, CloserSafe, SameOf
  <2>4. OwedSafe(c)'  BY <1>3, <2>1 DEF Safe, OwedSafe, SameOf, Created
  <2> QED  BY <2>2, <2>3, <2>4 DEF Safe
<1> QED  BY <1>5, <1>6, <1>7, <1>8, <1>9 DEF Kept, Order, Plain

\* A step on one context: the rest follows.
LEMMA StepOn ==
    ASSUME CloseInv, NEW c \in Ctxs, Tidy', \A d \in Ctxs \ {c} : SameOf(d),
           Order(c)', Plain(c) /\ ~Raced(c)' => Safe(c)'
    PROVE  CloseInv'
<1>1. \A d \in Ctxs \ {c} : Kept(d)'  BY OthersKeep DEF CloseInv
<1>2. Kept(c)'  BY DEF Kept, Plain
<1> QED  BY <1>1, <1>2 DEF CloseInv

\* A queue at the end of the global queue
LEMMA Appended ==
    ASSUME Shape, NEW c \in Ctxs, global' = Append(global, c)
    PROVE  /\ \A d : In(d, global') <=> In(d, global) \/ d = c
           /\ \A d : OnceIn(d, global) /\ (d # c \/ ~In(c, global)) => OnceIn(d, global')
<1>1. global \in Seq(Ctxs)  BY DEF Shape
<1>2. \A d : In(d, Append(global, c)) <=> In(d, global) \/ d = c  BY <1>1, InAppend
<1>3. ASSUME NEW d, OnceIn(d, global), d # c \/ ~In(c, global) PROVE OnceIn(d, Append(global, c))
  <2>1. d # c \/ ~In(d, global)  BY <1>3
  <2> QED  BY <1>1, <1>3, <2>1, OnceAppend
<1> QED  BY <1>2, <1>3

-----------------------------------------------------------------------------
\* At first there is no context and every thread is at rest.
LEMMA FirstKept == Init => CloseInv
<1> SUFFICES ASSUME Init PROVE CloseInv  OBVIOUS
<1> USE CtxAssumption DEF Init, AtRest, Call
<1>1. Len(global) = 0 /\ DOMAIN global = {}  OBVIOUS
<1>2. \A c : ~In(c, global) /\ OnceIn(c, global)  BY <1>1 DEF In, OnceIn
<1>3. Tidy  BY DEF Tidy, TidyRec
<1>4. ASSUME NEW c \in Ctxs PROVE Kept(c)
  <2>1. Unplaced(c) /\ ~Handling(c)  BY <1>2 DEF Unplaced, Handling, Holds
  <2>2. LifeOrder(c)  BY DEF LifeOrder, Young, CtxAlive, QueueAlive
  <2>3. KindOrder(c)  BY <1>2 DEF KindOrder, Plain, Young
  <2>4. NewOrder(c)  BY <2>1 DEF NewOrder
  <2>5. CloseOrder(c)  BY DEF CloseOrder, Holds
  <2>6. PlaceSafe(c)  BY <1>2, <2>1 DEF PlaceSafe, Holds
  <2>7. CloserSafe(c)  BY DEF CloserSafe, Closing
  <2>8. OwedSafe(c)  BY <2>1 DEF OwedSafe
  <2> QED  BY <2>2, <2>3, <2>4, <2>5, <2>6, <2>7, <2>8 DEF Kept, Order, Safe
<1> QED  BY <1>3, <1>4 DEF CloseInv

-----------------------------------------------------------------------------
(* skynet_service_create *)

\* The invariant holds on when skynet_service_create makes the context.
LEMMA KeepCreateBegin ==
    ASSUME TypeInv, CloseInv, NEW c \in Ctxs, NEW h \in Handles, CreateBegin(c, h)
    PROVE  CloseInv'
<1> USE DEF books
<1>1. /\ creator[c] = "idle" /\ creator' = [creator EXCEPT ![c] = "begun"]
      /\ ctx' = [ctx EXCEPT ![c] = [life |-> "alive", handle |-> h, closing |-> FALSE]]
      /\ UNCHANGED <<queue, global, worker, closer, owed, race>>
  BY DEF CreateBegin
<1>2. /\ ctx'[c].life = "alive" /\ ctx'[c].closing = FALSE /\ creator'[c] = "begun"
      /\ \A d \in Ctxs \ {c} : ctx'[d] = ctx[d] /\ creator'[d] = creator[d]
  BY <1>1 DEF TypeInv, Shape
<1>3. \A d \in Ctxs \ {c} : SameOf(d)  BY <1>1, <1>2 DEF SameOf
<1>4. Tidy'  BY <1>1 DEF CloseInv, Tidy
<1>5. Kept(c) /\ Order(c)  BY DEF CloseInv, Kept
<1>6. Unplaced(c) /\ ctx[c].life = "none" /\ ctx[c].closing = FALSE
  BY <1>1, <1>5 DEF Order, NewOrder, LifeOrder, Created, TypeInv, Shape, CtxRecs
<1>7. Unplaced(c)' /\ \A w \in Workers : ~Holds(w, c)'
  BY <1>1, <1>6 DEF Unplaced, Holds
<1>8. \A k \in Closers : ~Closing(k, c)'  BY <1>1, <1>5, <1>6 DEF Order, CloseOrder, Closing
<1>9. LifeOrder(c)'
  BY <1>1, <1>2, <1>5 DEF Order, LifeOrder, Young, CtxAlive, QueueAlive
<1>10. KindOrder(c)'  BY <1>1, <1>2, <1>5, <1>6 DEF Order, KindOrder, Young, Plain
<1>11. NewOrder(c)'  BY <1>2, <1>7 DEF NewOrder, CtxAlive
<1>12. CloseOrder(c)'  BY <1>7, <1>8 DEF CloseOrder, Closing
<1>13. ASSUME Plain(c), ~Raced(c)' PROVE Safe(c)'
  <2>1. Safe(c)  BY <1>1, <1>5, <1>13 DEF Kept, Raced
  <2>2. PlaceSafe(c)'  BY <1>1, <1>2, <1>7, <2>1 DEF Safe, PlaceSafe
  <2>3. CloserSafe(c)'  BY <1>8 DEF CloserSafe
  <2>4. ~Handling(c)' /\ queue[c].length = 0 /\ owed[c] = 0
    BY <1>1, <1>5, <1>7 DEF Handling, Order, LifeOrder, Young
  <2>5. OwedSafe(c)'  BY <1>1, <1>2, <2>4 DEF OwedSafe
  <2> QED  BY <2>2, <2>3, <2>5 DEF Safe
<1> QED  BY <1>3, <1>4, <1>9, <1>10, <1>11, <1>12, <1>13, StepOn DEF Order

\* A queue made alive and marked has the length and the kind it had.
LEMMA BornFacts ==
    ASSUME Shape, NEW c \in Ctxs,
           queue' = [queue EXCEPT ![c].life = "alive", ![c].in_global = TRUE]
    PROVE  /\ queue'[c].life = "alive" /\ queue'[c].in_global = TRUE
           /\ queue'[c].length = queue[c].length /\ queue'[c].concurrent = queue[c].concurrent
           /\ \A d \in Ctxs \ {c} : queue'[d] = queue[d]
<1> PICK q : q = queue[c]  OBVIOUS
<1>1. q \in QueueRecs  BY DEF Shape
<1> PICK r : r = [q EXCEPT !.life = "alive", !.in_global = TRUE]  OBVIOUS
<1>2. queue'[c] = r /\ \A d \in Ctxs \ {c} : queue'[d] = queue[d]
  BY DEF Shape
<1>3. /\ r.life = "alive" /\ r.in_global = TRUE
      /\ r.length = q.length /\ r.concurrent = q.concurrent
  BY <1>1 DEF QueueRecs
<1> QED  BY <1>2, <1>3

\* The invariant holds on when it makes the queue.
LEMMA KeepCreateQueue ==
    ASSUME TypeInv, CloseInv, NEW c \in Ctxs, CreateQueue(c)
    PROVE  CloseInv'
<1> USE DEF books
<1>1. /\ creator[c] = "begun" /\ creator' = [creator EXCEPT ![c] = "creating"]
      /\ queue' = [queue EXCEPT ![c].life = "alive", ![c].in_global = TRUE]
      /\ UNCHANGED <<ctx, global, worker, closer, owed, race>> /\ Shape
  BY DEF CreateQueue, TypeInv
<1>2. /\ creator'[c] = "creating" /\ \A d \in Ctxs \ {c} : creator'[d] = creator[d]
  BY <1>1 DEF Shape
<1>3. /\ queue'[c].life = "alive" /\ queue'[c].in_global = TRUE
      /\ queue'[c].length = queue[c].length /\ queue'[c].concurrent = queue[c].concurrent
      /\ \A d \in Ctxs \ {c} : queue'[d] = queue[d]
  BY <1>1, BornFacts
<1>4. \A d \in Ctxs \ {c} : SameOf(d)  BY <1>1, <1>2, <1>3 DEF SameOf
<1>5. Tidy'  BY <1>1 DEF CloseInv, Tidy
<1>6. Kept(c) /\ Order(c)  BY DEF CloseInv, Kept
<1>7. Unplaced(c) /\ CtxAlive(c)  BY <1>1, <1>6 DEF Order, NewOrder, Created
<1>8. Unplaced(c)' /\ \A w \in Workers : ~Holds(w, c)'
  BY <1>1, <1>7 DEF Unplaced, Holds
<1>9. \A k \in Closers : closer'[k] = closer[k] /\ (closer[k].ctx = c => closer[k].pc # "push")
  BY <1>1, <1>6 DEF Order, CloseOrder, Created
<1>10. LifeOrder(c)'
  BY <1>1, <1>2, <1>3, <1>6, <1>7 DEF Order, LifeOrder, Young, CtxAlive, QueueAlive
<1>11. KindOrder(c)'  BY <1>1, <1>3, <1>6 DEF Order, KindOrder, Plain
<1>12. NewOrder(c)'  BY <1>1, <1>3, <1>7, <1>8 DEF NewOrder, CtxAlive
<1>13. CloseOrder(c)'  BY <1>1, <1>6, <1>8, <1>9 DEF Order, CloseOrder
<1>14. ASSUME Plain(c), ~Raced(c)' PROVE Safe(c)'
  <2>1. Safe(c)  BY <1>1, <1>6, <1>14 DEF Kept, Raced
  <2>2. PlaceSafe(c)'  BY <1>1, <1>3, <1>8, <2>1 DEF Safe, PlaceSafe
  <2>3. CloserSafe(c)'  BY <1>1, <1>9, <2>1 DEF Safe, CloserSafe, Closing
  <2>4. Handling(c)' <=> Handling(c)  BY <1>1 DEF Handling, Holds, InCallback, At
  <2>5. ctx'[c].life # "freed"  BY <1>1, <1>7 DEF CtxAlive
  <2>6. OwedSafe(c)'  BY <1>1, <1>3, <2>1, <2>4, <2>5 DEF Safe, OwedSafe
  <2> QED  BY <2>2, <2>3, <2>6 DEF Safe
<1> QED  BY <1>4, <1>5, <1>10, <1>11, <1>12, <1>13, <1>14, StepOn DEF Order

\* The invariant holds on when the creation succeeds and the queue is pushed.
LEMMA KeepCreateSucceeds ==
    ASSUME TypeInv, CloseInv, NEW c \in Ctxs, CreateSucceeds(c)
    PROVE  CloseInv'
<1> USE DEF books
<1>1. /\ creator[c] = "creating" /\ creator' = [creator EXCEPT ![c] = "report"]
      /\ global' = Append(global, c)
      /\ UNCHANGED <<ctx, queue, worker, closer, owed, race>> /\ Shape
  BY DEF CreateSucceeds, TypeInv
<1>2. /\ creator'[c] = "report" /\ \A d \in Ctxs \ {c} : creator'[d] = creator[d]
  BY <1>1 DEF Shape
<1>3. Kept(c) /\ Order(c)  BY DEF CloseInv, Kept
<1>4. Unplaced(c) /\ CtxAlive(c) /\ queue[c].in_global  BY <1>1, <1>3 DEF Order, NewOrder, Created
<1>5. /\ \A d : In(d, global') <=> In(d, global) \/ d = c
      /\ \A d : OnceIn(d, global) => OnceIn(d, global')
  BY <1>1, <1>4, Appended DEF Unplaced
<1>6. \A d \in Ctxs \ {c} : SameOf(d)  BY <1>1, <1>2, <1>5 DEF SameOf
<1>7. Tidy'  BY <1>1 DEF CloseInv, Tidy
<1>8. \A w \in Workers : ~Holds(w, c)'  BY <1>1, <1>4 DEF Unplaced, Holds
<1>9. \A k \in Closers : closer'[k] = closer[k] /\ (closer[k].ctx = c => closer[k].pc # "push")
  BY <1>1, <1>3 DEF Order, CloseOrder, Created
<1>10. LifeOrder(c)'
  BY <1>1, <1>2, <1>3, <1>4 DEF Order, LifeOrder, Young, CtxAlive, QueueAlive
<1>11. KindOrder(c)'  BY <1>1, <1>3, <1>4, <1>5 DEF Order, KindOrder, Plain
<1>12. NewOrder(c)'  BY <1>2 DEF NewOrder, Created
<1>13. CloseOrder(c)'  BY <1>1, <1>3, <1>8, <1>9 DEF Order, CloseOrder
<1>14. ASSUME Plain(c), ~Raced(c)' PROVE Safe(c)'
  <2>1. Safe(c)  BY <1>1, <1>3, <1>14 DEF Kept, Raced
  <2>2. ctx'[c].life # "freed" /\ queue'[c].in_global  BY <1>1, <1>4 DEF CtxAlive
  <2>3. PlaceSafe(c)'  BY <1>5, <1>8, <2>1, <2>2 DEF Safe, PlaceSafe
  <2>4. CloserSafe(c)'  BY <1>1, <1>9, <2>1 DEF Safe, CloserSafe, Closing
  <2>5. Handling(c)' <=> Handling(c)  BY <1>1 DEF Handling, Holds, InCallback, At
  <2>6. OwedSafe(c)'  BY <1>1, <2>1, <2>2, <2>5 DEF Safe, OwedSafe
  <2> QED  BY <2>3, <2>4, <2>6 DEF Safe
<1> QED  BY <1>6, <1>7, <1>10, <1>11, <1>12, <1>13, <1>14, StepOn DEF Order

\* The invariant holds on when the handle is read again, when the creation fails, and when
\* the slot is cleared then.
LEMMA KeepCreator ==
    ASSUME TypeInv, CloseInv, NEW c \in Ctxs,
           CreatorReports(c) \/ CreateFails(c) \/ CreatorUnlinks(c)
    PROVE  CloseInv'
<1> USE DEF books, heap
<1>1. /\ UNCHANGED <<ctx, queue, global, worker, closer, owed, race>> /\ Shape
      /\ \A d \in Ctxs \ {c} : creator'[d] = creator[d]
      /\ \/ creator[c] = "report" /\ creator'[c] = "done"
         \/ creator[c] = "creating" /\ creator'[c] = "unlink"
         \/ creator[c] = "unlink" /\ creator'[c] = "free"
  BY DEF CreatorReports, CreateFails, CreatorUnlinks, TypeInv, Shape
<1>2. Kept(c) /\ Order(c)  BY DEF CloseInv, Kept
<1>3. \A d \in Ctxs \ {c} : SameOf(d)  BY <1>1 DEF SameOf
<1>4. Tidy'  BY <1>1 DEF CloseInv, Tidy
<1>5. Unplaced(c)' <=> Unplaced(c)  BY <1>1 DEF Unplaced, Holds
<1>6. Handling(c)' <=> Handling(c)  BY <1>1 DEF Handling, Holds, InCallback, At
<1>7. Created(c)' <=> Created(c)  BY <1>1 DEF Created
<1>8. LifeOrder(c)'  BY <1>1, <1>2 DEF Order, LifeOrder, Young, CtxAlive, QueueAlive
<1>9. KindOrder(c)'  BY <1>1, <1>2 DEF Order, KindOrder, Plain, Young
<1>10. NewOrder(c)'  BY <1>1, <1>2, <1>5, <1>7 DEF Order, NewOrder, CtxAlive
<1>11. CloseOrder(c)'  BY <1>1, <1>2, <1>7 DEF Order, CloseOrder, Holds, Plain
<1>12. ASSUME Plain(c), ~Raced(c)' PROVE Safe(c)'
  <2>1. Safe(c)  BY <1>1, <1>2, <1>12 DEF Kept, Raced
  <2>2. PlaceSafe(c)'  BY <1>1, <1>5, <2>1 DEF Safe, PlaceSafe, Holds, Closing
  <2>3. CloserSafe(c)'  BY <1>1, <1>5, <2>1 DEF Safe, CloserSafe, Closing
  <2>4. OwedSafe(c)'  BY <1>1, <1>6, <1>7, <2>1 DEF Safe, OwedSafe
  <2> QED  BY <2>2, <2>3, <2>4 DEF Safe
<1> QED  BY <1>3, <1>4, <1>8, <1>9, <1>10, <1>11, <1>12, StepOn DEF Order

\* Freeing a context changes the records of that context and of its queue only.
LEMMA FreeFacts ==
    ASSUME Shape, NEW c \in Ctxs, FreeCtx(c)
    PROVE  /\ \A d \in Ctxs \ {c} : queue'[d] = queue[d] /\ ctx'[d] = ctx[d]
           /\ ctx'[c].life = "freed" /\ ctx'[c].closing = ctx[c].closing
           /\ ctx'[c].handle = ctx[c].handle
           /\ queue'[c].in_global = queue[c].in_global
           /\ queue'[c].concurrent => queue[c].concurrent
           /\ queue[c].life = "alive" => queue'[c].life # "none"
<1> PICK q : q = queue[c]  OBVIOUS
<1> PICK r : r = ctx[c]  OBVIOUS
<1>1. q \in QueueRecs /\ r \in CtxRecs  BY DEF Shape
<1>2. /\ queue'[c] = Released(q) /\ ctx'[c] = [r EXCEPT !.life = "freed"]
      /\ \A d \in Ctxs \ {c} : queue'[d] = queue[d] /\ ctx'[d] = ctx[d]
  BY DEF FreeCtx, Shape
<1>3. /\ ctx'[c].life = "freed" /\ ctx'[c].closing = r.closing /\ ctx'[c].handle = r.handle
  BY <1>1, <1>2 DEF CtxRecs
<1>4. CASE ~q.release /\ q.concurrent
  <2>1. queue'[c] = [q EXCEPT !.release = TRUE, !.concurrent = FALSE]
    BY <1>2, <1>4 DEF Released
  <2> QED  BY <1>1, <1>2, <1>3, <2>1 DEF QueueRecs
<1>5. CASE ~(~q.release /\ q.concurrent)
  <2>1. queue'[c] = [q EXCEPT !.life = "freed", !.length = 0]
    BY <1>2, <1>5 DEF Released
  <2>2. queue'[c].concurrent = q.concurrent /\ queue'[c].in_global = q.in_global
        /\ queue'[c].life = "freed"
    BY <1>1, <2>1 DEF QueueRecs
  <2> QED  BY <1>1, <1>2, <1>3, <2>1, <2>2
<1> QED  BY <1>4, <1>5

\* The invariant holds on when a creator frees the context and its queue.
LEMMA KeepCreatorFrees ==
    ASSUME TypeInv, CloseInv, NEW c \in Ctxs, CreatorFrees(c)
    PROVE  CloseInv'
<1> USE DEF books
<1>1. /\ creator[c] = "free" /\ creator' = [creator EXCEPT ![c] = "failed"]
      /\ FreeCtx(c) /\ QueueAlive(c)
      /\ UNCHANGED <<global, worker, closer, owed, race>> /\ Shape
  BY DEF CreatorFrees, Allocated, TypeInv
<1>2. /\ creator'[c] = "failed" /\ \A d \in Ctxs \ {c} : creator'[d] = creator[d]
  BY <1>1 DEF Shape
<1>3. /\ \A d \in Ctxs \ {c} : queue'[d] = queue[d] /\ ctx'[d] = ctx[d]
      /\ ctx'[c].life = "freed" /\ ctx'[c].closing = ctx[c].closing
      /\ queue'[c].in_global = queue[c].in_global
      /\ queue'[c].concurrent => queue[c].concurrent
      /\ queue'[c].life # "none"
  BY <1>1, FreeFacts DEF QueueAlive
<1>4. Kept(c) /\ Order(c)  BY DEF CloseInv, Kept
<1>5. Unplaced(c)  BY <1>1, <1>4 DEF Order, NewOrder, Created
<1>6. \A d \in Ctxs \ {c} : SameOf(d)  BY <1>1, <1>2, <1>3 DEF SameOf
<1>7. Tidy'  BY <1>1 DEF CloseInv, Tidy
<1>8. Unplaced(c)' /\ \A w \in Workers : ~Holds(w, c)'  BY <1>1, <1>5 DEF Unplaced, Holds
<1>9. \A k \in Closers : closer'[k] = closer[k] /\ (closer[k].ctx = c => closer[k].pc # "push")
  BY <1>1, <1>4 DEF Order, CloseOrder, Created
<1>10. LifeOrder(c)'  BY <1>2, <1>3 DEF LifeOrder, Young, CtxAlive, QueueAlive
<1>11. KindOrder(c)'  BY <1>1, <1>3, <1>4 DEF Order, KindOrder, Plain, Young
<1>12. NewOrder(c)'  BY <1>2, <1>8 DEF NewOrder
<1>13. CloseOrder(c)'  BY <1>3, <1>4, <1>8, <1>9 DEF Order, CloseOrder
<1>14. ASSUME Plain(c), ~Raced(c)' PROVE Safe(c)'
  <2>1. Safe(c)  BY <1>1, <1>4, <1>14 DEF Kept, Raced
  <2>2. PlaceSafe(c)'  BY <1>1, <1>8, <2>1 DEF Safe, PlaceSafe
  <2>3. CloserSafe(c)'  BY <1>1, <1>9, <2>1 DEF Safe, CloserSafe, Closing
  <2>4. OwedSafe(c)'  BY <1>2, <1>3 DEF OwedSafe, Created
  <2> QED  BY <2>2, <2>3, <2>4 DEF Safe
<1> QED  BY <1>6, <1>7, <1>10, <1>11, <1>12, <1>13, <1>14, StepOn DEF Order

-----------------------------------------------------------------------------
(* skynet_mq_push *)

\* The invariant holds on when a creator, a callback or another thread sends: the queue is
\* marked, or it is in no place, or the message comes late.
LEMMA KeepPush ==
    ASSUME TypeInv, CloseInv, NEW c \in Ctxs, Push(c), Allocated(c),
           UNCHANGED <<ctx, creator, worker, closer>>
    PROVE  CloseInv'
<1>1. Shape /\ CtxAlive(c) /\ QueueAlive(c)  BY DEF TypeInv, Allocated
<1>2. /\ \A d \in Ctxs \ {c} : queue'[d] = queue[d] /\ owed'[d] = owed[d] /\ race'[d] = race[d]
      /\ queue'[c].life = queue[c].life /\ queue'[c].in_global
      /\ queue'[c].length = queue[c].length + 1
      /\ queue'[c].concurrent = queue[c].concurrent
      /\ owed'[c] = owed[c] + 1
      /\ race'[c] = IF ctx[c].closing /\ ~queue[c].in_global /\ race[c] \in {"none", "missed"}
                    THEN "late" ELSE race[c]
  BY <1>1, PushFacts
<1>3. IF queue[c].in_global THEN global' = global ELSE global' = Append(global, c)
  BY DEF Push
<1>4. /\ \A d : In(d, global') <=> In(d, global) \/ (d = c /\ ~queue[c].in_global)
      /\ \A d : OnceIn(d, global) /\ (d # c \/ queue[c].in_global \/ ~In(c, global))
                   => OnceIn(d, global')
  <2>1. CASE queue[c].in_global  BY <1>3, <2>1
  <2>2. CASE ~queue[c].in_global  BY <1>1, <1>3, <2>2, Appended
  <2> QED  BY <2>1, <2>2
<1>5. Kept(c) /\ Order(c)  BY DEF CloseInv, Kept
<1>6. ~Young(c)  BY <1>1, <1>5 DEF Order, LifeOrder, QueueAlive
<1>7. \A d \in Ctxs \ {c} : SameOf(d)  BY <1>2, <1>4 DEF SameOf
<1>8. Tidy'  BY DEF CloseInv, Tidy
<1>9. \A w \in Workers : Holds(w, c)' <=> Holds(w, c)  BY DEF Holds
<1>10. Created(c) \/ queue[c].in_global
  <2>1. creator[c] # "failed"  BY <1>1, <1>5 DEF Order, LifeOrder, CtxAlive
  <2>2. creator[c] \in Stages  BY <1>1 DEF Shape
  <2> QED  BY <1>5, <1>6, <2>1, <2>2 DEF Order, NewOrder, Young, Created, Stages
<1>11. LifeOrder(c)'
  BY <1>2, <1>5, <1>6 DEF Order, LifeOrder, Young, CtxAlive, QueueAlive
<1>12. KindOrder(c)'  BY <1>2, <1>4, <1>5, <1>6 DEF Order, KindOrder, Plain, Young
<1>13. NewOrder(c)'
  <2>1. ASSUME ~Created(c) PROVE Unplaced(c)'
    BY <1>4, <1>5, <1>9, <1>10, <2>1 DEF Order, NewOrder, Unplaced
  <2> QED  BY <1>2, <1>5, <2>1 DEF Order, NewOrder, CtxAlive, Created
<1>14. CloseOrder(c)'  BY <1>5, <1>9 DEF Order, CloseOrder, Created, Plain
<1>15. ASSUME Plain(c), ~Raced(c)' PROVE Safe(c)'
  <2>1. Safe(c)
    <3>1. race[c] \in Races  BY <1>1 DEF Shape
    <3> QED  BY <1>2, <1>5, <1>15, <3>1 DEF Kept, Raced, Races
  <2>2. queue[c].in_global \/ ~ctx[c].closing
    <3>1. race[c] \in Races  BY <1>1 DEF Shape
    <3> QED  BY <1>2, <1>15, <3>1 DEF Raced, Races
  <2>3. queue[c].in_global \/ Unplaced(c)  BY <2>1, <2>2 DEF Safe, PlaceSafe
  <2>4. ctx[c].life # "freed" /\ \A k \in Closers : Closing(k, c)' => Closing(k, c) /\ ctx[c].closing
    BY <1>1, <1>5 DEF CtxAlive, Order, CloseOrder, Closing
  <2>5. PlaceSafe(c)'
    <3>1. OnceIn(c, global')  BY <1>4, <2>1, <2>3 DEF Safe, PlaceSafe, Unplaced
    <3>2. ASSUME NEW w \in Workers, Holds(w, c)'
          PROVE  /\ ~In(c, global')
                 /\ \A v \in Workers : Holds(v, c)' => v = w
                 /\ worker[w].pc \notin {"unlink", "free"}
      <4>1. Holds(w, c) /\ ~Unplaced(c)  BY <1>9, <3>2 DEF Unplaced
      <4>2. queue[c].in_global  BY <2>3, <4>1
      <4> QED  BY <1>4, <1>9, <2>1, <4>1, <4>2 DEF Safe, PlaceSafe
    <3> QED  BY <1>2, <2>4, <3>1, <3>2 DEF PlaceSafe
  <2>6. CloserSafe(c)'  BY <2>1, <2>2, <2>4 DEF Safe, CloserSafe, Closing
  <2>7. OwedSafe(c)'
    <3>1. Handling(c)' <=> Handling(c)  BY <1>9 DEF Handling, InCallback, At
    <3>2. PICK n \in {0, 1} : n = IF Handling(c) THEN 1 ELSE 0  OBVIOUS
    <3>3. owed[c] = queue[c].length + n /\ queue[c].length \in Nat
      BY <1>1, <2>1, <2>4, <3>2 DEF Safe, OwedSafe, Shape, QueueRecs
    <3>4. owed'[c] = queue'[c].length + n  BY <1>2, <3>3
    <3> QED  BY <2>4, <3>1, <3>2, <3>4 DEF OwedSafe
  <2> QED  BY <2>5, <2>6, <2>7 DEF Safe
<1> QED  BY <1>7, <1>8, <1>11, <1>12, <1>13, <1>14, <1>15, StepOn DEF Order

-----------------------------------------------------------------------------
(* skynet_message_dispatch *)

\* w has the queue of c in hand before its step, or after it, or both
Moves(w, c, new) ==
    /\ worker' = [worker EXCEPT ![w] = new]
    /\ worker[w].q \in {c, Null} /\ new.q \in {c, Null} /\ TidyRec(new)

\* A worker's step on the queue it has, takes or drops leaves the other queues where they are.
LEMMA WorkerOthers ==
    ASSUME Shape, Tidy, NEW w \in Workers, NEW c \in Ctxs, NEW new \in WorkerRecs,
           Moves(w, c, new)
    PROVE  /\ Tidy'
           /\ worker'[w] = new /\ \A v \in Workers \ {w} : worker'[v] = worker[v]
           /\ \A d \in Ctxs \ {c} : \A v \in Workers :
                 worker'[v].q = d \/ worker[v].q = d => worker'[v] = worker[v]
           /\ Holds(w, c)' <=> new.q = c
           /\ \A v \in Workers \ {w} : Holds(v, c)' <=> Holds(v, c)
<1> USE DEF Moves
<1>1. worker'[w] = new /\ \A v \in Workers \ {w} : worker'[v] = worker[v]  BY DEF Shape
<1>2. Tidy'
  <2> SUFFICES ASSUME NEW v \in Workers PROVE TidyRec(worker'[v])
    BY DEF Tidy, TidyRec
  <2>1. CASE v = w  BY <1>1, <2>1
  <2>2. CASE v # w  BY <1>1, <2>2 DEF Tidy
  <2> QED  BY <2>1, <2>2
<1>3. ASSUME NEW d \in Ctxs \ {c}, NEW v \in Workers, worker'[v].q = d \/ worker[v].q = d
      PROVE  worker'[v] = worker[v]
  <2>1. d # Null  BY CtxAssumption
  <2> QED  BY <1>1, <1>3, <2>1
<1> QED  BY <1>1, <1>2, <1>3 DEF Holds

\* What a worker holds, it works on, and it may do so only with a context that is created.
LEMMA HolderFacts ==
    ASSUME TypeInv, CloseInv, NEW w \in Workers, worker[w].pc # "idle"
    PROVE  LET c == worker[w].q
           IN  /\ c \in Ctxs /\ Holds(w, c) /\ ~Unplaced(c) /\ Created(c) /\ Kept(c)
               /\ worker[w].pc \notin {"find", "check"} => worker[w].ctx = c
<1> PICK c : c = worker[w].q  OBVIOUS
<1>1. c \in Ctxs  BY InHandFacts DEF TypeInv, WorkersMade, InHand, Made
<1>2. Holds(w, c) /\ ~Unplaced(c)  BY DEF Holds, Unplaced
<1>3. Kept(c)  BY <1>1 DEF CloseInv
<1>4. Created(c)  BY <1>2, <1>3 DEF Kept, Order, NewOrder
<1>5. worker[w].pc \notin {"find", "check"} => worker[w].ctx = c  BY DEF CloseInv, Tidy, TidyRec
<1> QED  BY <1>1, <1>2, <1>3, <1>4, <1>5

\* The invariant holds on when a worker goes on with its queue, or drops it, and changes
\* nothing else.
LEMMA KeepWorker ==
    ASSUME TypeInv, CloseInv, NEW w \in Workers, NEW c \in Ctxs, NEW new \in WorkerRecs,
           Moves(w, c, new), worker[w].pc # "idle", worker[w].q = c,
           UNCHANGED <<ctx, queue, global, creator, closer, owed, race>>,
           worker[w].pc \notin {"drainCallback", "callback"},
           new.pc \notin {"drainCallback", "callback"},
           new.pc \in {"drain", "unlink", "free"} => ctx[c].closing,
           Plain(c) /\ Safe(c) =>
               /\ new.pc \in {"one", "requeue"} => queue[c].in_global
               /\ new.pc \in {"unlink", "free"} => ~queue[c].in_global /\ queue[c].length = 0
    PROVE  CloseInv'
<1>1. /\ c \in Ctxs /\ Holds(w, c) /\ ~Unplaced(c) /\ Created(c) /\ Kept(c)
  BY HolderFacts
<1>2. Shape /\ Tidy /\ Order(c)  BY <1>1 DEF TypeInv, CloseInv, Kept
<1>3. /\ Tidy'
      /\ worker'[w] = new /\ \A v \in Workers \ {w} : worker'[v] = worker[v]
      /\ \A d \in Ctxs \ {c} : \A v \in Workers :
            worker'[v].q = d \/ worker[v].q = d => worker'[v] = worker[v]
      /\ Holds(w, c)' <=> new.q = c
      /\ \A v \in Workers \ {w} : Holds(v, c)' <=> Holds(v, c)
  BY <1>2, WorkerOthers
<1>4. \A d \in Ctxs \ {c} : SameOf(d)  BY <1>3 DEF SameOf
<1>5. \A v \in Workers : Holds(v, c)' => Holds(v, c)  BY <1>1, <1>3
<1>6. Unplaced(c) => Unplaced(c)'  BY <1>5 DEF Unplaced
<1>7. Handling(c)' <=> Handling(c)
  <2>1. ~InCallback(w) /\ ~InCallback(w)'  BY <1>3 DEF InCallback, At
  <2>2. \A v \in Workers \ {w} : InCallback(v)' <=> InCallback(v)  BY <1>3 DEF InCallback, At
  <2> QED  BY <1>3, <2>1, <2>2 DEF Handling
<1>8. LifeOrder(c)'  BY <1>2 DEF Order, LifeOrder, Young, CtxAlive, QueueAlive
<1>9. KindOrder(c)'  BY <1>2 DEF Order, KindOrder, Plain, Young
<1>10. NewOrder(c)'  BY <1>1, <1>2 DEF Order, NewOrder, CtxAlive, Created
<1>11. CloseOrder(c)'
  <2>1. ASSUME NEW v \in Workers, Holds(v, c)',
               worker'[v].pc \in {"drain", "drainCallback", "unlink", "free"}
        PROVE  ctx'[c].closing
    <3>1. CASE v = w  BY <1>3, <2>1, <3>1
    <3>2. CASE v # w  BY <1>2, <1>3, <2>1, <3>2 DEF Order, CloseOrder
    <3> QED  BY <3>1, <3>2
  <2> QED  BY <1>1, <1>2, <2>1 DEF Order, CloseOrder, Created, Plain
<1>12. ASSUME Plain(c), ~Raced(c)' PROVE Safe(c)'
  <2>1. Safe(c)  BY <1>1, <1>12 DEF Kept, Raced
  <2>2. \A v \in Workers : Holds(v, c) => v = w  BY <1>1, <2>1 DEF Safe, PlaceSafe
  <2>3. PlaceSafe(c)'
    <3>1. ASSUME NEW v \in Workers, Holds(v, c)'
          PROVE  /\ ~In(c, global')
                 /\ \A u \in Workers : Holds(u, c)' => u = v
                 /\ worker'[v].pc \in {"one", "callback", "requeue"} => queue'[c].in_global
                 /\ worker'[v].pc \in {"unlink", "free"} =>
                       ~queue'[c].in_global /\ queue'[c].length = 0
      <4>1. v = w /\ ~In(c, global)  BY <1>5, <2>1, <2>2, <3>1 DEF Safe, PlaceSafe
      <4> QED  BY <1>3, <1>5, <1>12, <2>1, <2>2, <4>1
    <3>2. ctx[c].life # "freed"  BY <1>1, <2>1 DEF Safe, PlaceSafe
    <3>3. ~queue[c].in_global => ctx[c].closing /\ \A k \in Closers : ~Closing(k, c)
      BY <1>1, <2>1 DEF Safe, PlaceSafe
    <3> QED  BY <2>1, <3>1, <3>2, <3>3 DEF Safe, PlaceSafe, Closing
  <2>4. CloserSafe(c)'  BY <1>6, <2>1 DEF Safe, CloserSafe, Closing
  <2>5. OwedSafe(c)'  BY <1>7, <2>1 DEF Safe, OwedSafe, Created
  <2> QED  BY <2>3, <2>4, <2>5 DEF Safe
<1> QED  BY <1>3, <1>4, <1>8, <1>9, <1>10, <1>11, <1>12, StepOn DEF Order

\* The invariant holds on when a worker looks for the context of its queue.
LEMMA KeepFindCtx ==
    ASSUME TypeInv, CloseInv, NEW w \in Workers, FindCtx(w)
    PROVE  CloseInv'
<1> USE DEF books, heap
<1> PICK c : c = worker[w].q  OBVIOUS
<1> PICK found : found = slot[ctx[c].handle]  OBVIOUS
<1> PICK new : new = IF found = Null THEN AtRest ELSE [pc |-> "check", q |-> c, ctx |-> found]
  OBVIOUS
<1>1. /\ worker[w].pc = "find" /\ worker' = [worker EXCEPT ![w] = new]
      /\ UNCHANGED <<ctx, queue, global, creator, closer, owed, race>>
  BY DEF FindCtx, At
<1>2. c \in Ctxs /\ c # Null  BY <1>1, HolderFacts, CtxAssumption
<1>3. c \in Made /\ ctx[c].handle \in Handles
  BY <1>1, InHandFacts DEF Made
<1>4. found # Null => found \in Ctxs  BY <1>3 DEF TypeInv, SlotsMade, Made
<1>5. new \in WorkerRecs  BY <1>2, <1>4, RestFacts DEF WorkerRecs
<1>6. \/ new.pc = "idle" /\ new.q = Null
      \/ new.pc = "check" /\ new.q = c
  BY DEF AtRest
<1>7. TidyRec(new)  BY <1>2, <1>6 DEF TidyRec
<1> QED  BY <1>1, <1>2, <1>5, <1>6, <1>7, KeepWorker DEF Moves

\* The invariant holds on when a worker looks at the closing flag.
LEMMA KeepCheckCtx ==
    ASSUME TypeInv, CloseInv, NEW w \in Workers, CheckCtx(w)
    PROVE  CloseInv'
<1> USE DEF books, heap
<1> PICK r : r = worker[w]  OBVIOUS
<1> PICK c : c = r.q  OBVIOUS
<1> PICK label : label = IF ctx[c].closing THEN "drain" ELSE "one"  OBVIOUS
<1> PICK new : new = [r EXCEPT !.pc = label]  OBVIOUS
<1>1. /\ r.pc = "check" /\ r.ctx = c /\ worker' = [worker EXCEPT ![w] = new]
      /\ UNCHANGED <<ctx, queue, global, creator, closer, owed, race>>
  BY DEF CheckCtx, At, Goto, TypeInv, Shape
<1>2. c \in Ctxs /\ c # Null /\ ~Unplaced(c)  BY <1>1, HolderFacts, CtxAssumption
<1>3. new \in WorkerRecs /\ new.pc = label /\ new.q = c /\ new.ctx = c
  BY <1>1 DEF TypeInv, Shape, WorkerRecs
<1>4. (label = "drain" /\ ctx[c].closing) \/ (label = "one" /\ ~ctx[c].closing)  OBVIOUS
<1>5. Safe(c) /\ label = "one" => queue[c].in_global  BY <1>2, <1>4 DEF Safe, PlaceSafe
<1>6. TidyRec(new)  BY <1>1, <1>2, <1>3, <1>4 DEF TidyRec
<1> QED  BY <1>1, <1>2, <1>3, <1>4, <1>5, <1>6, KeepWorker DEF Moves

\* The invariant holds on when a worker takes a drained context out of its slot.
LEMMA KeepWorkerUnlinks ==
    ASSUME TypeInv, CloseInv, NEW w \in Workers, WorkerUnlinks(w)
    PROVE  CloseInv'
<1> USE DEF books
<1> PICK r : r = worker[w]  OBVIOUS
<1> PICK c : c = r.q  OBVIOUS
<1> PICK new : new = [r EXCEPT !.pc = "free"]  OBVIOUS
<1>1. /\ r.pc = "unlink" /\ worker' = [worker EXCEPT ![w] = new]
      /\ UNCHANGED <<ctx, queue, global, creator, closer, owed, race>>
  BY DEF WorkerUnlinks, At, Goto, TypeInv, Shape
<1>2. c \in Ctxs /\ c # Null /\ Kept(c) /\ Holds(w, c) /\ r.ctx = c
  BY <1>1, HolderFacts, CtxAssumption
<1>3. new \in WorkerRecs /\ new.pc = "free" /\ new.q = c /\ new.ctx = c
  BY <1>1, <1>2 DEF TypeInv, Shape, WorkerRecs
<1>4. ctx[c].closing  BY <1>1, <1>2 DEF Kept, Order, CloseOrder
<1>5. Safe(c) => ~queue[c].in_global /\ queue[c].length = 0
  BY <1>1, <1>2 DEF Safe, PlaceSafe
<1>6. TidyRec(new)  BY <1>1, <1>2, <1>3, <1>4 DEF TidyRec
<1> QED  BY <1>1, <1>2, <1>3, <1>4, <1>5, <1>6, KeepWorker DEF Moves

\* The invariant holds on when a worker pops the global queue.
LEMMA KeepPopGlobal ==
    ASSUME TypeInv, CloseInv, NEW w \in Workers, PopGlobal(w)
    PROVE  CloseInv'
<1> USE DEF books
<1> PICK c : c = Head(global)  OBVIOUS
<1> PICK b : b = (queue[c].concurrent = TRUE)  OBVIOUS
<1> PICK new : new = [pc |-> "find", q |-> c, ctx |-> Null]  OBVIOUS
<1> PICK taken : taken = global'  OBVIOUS
<1>1. /\ worker[w].pc = "idle" /\ global # <<>> /\ worker' = [worker EXCEPT ![w] = new]
      /\ UNCHANGED <<ctx, queue, creator, closer, owed, race>>
  BY DEF PopGlobal, At
<1>2. Shape /\ Tidy /\ global \in Seq(Ctxs)  BY DEF TypeInv, Shape, CloseInv
<1>3. c \in Ctxs /\ b \in BOOLEAN  BY <1>1, <1>2, HeadTailProperties
<1>4. queue[c].concurrent = b  BY <1>2, <1>3 DEF Shape, QueueRecs
<1>5. taken = IF b THEN Append(Tail(global), Head(global)) ELSE Tail(global)
  BY <1>4 DEF PopGlobal
<1>6. /\ In(c, global)
      /\ \A s : s # c => (In(s, taken) <=> In(s, global))
      /\ \A s : OnceIn(s, global) => OnceIn(s, taken)
      /\ ~b /\ OnceIn(c, global) => ~In(c, taken)
  BY <1>1, <1>2, <1>3, <1>5, TakenFacts
<1>7. new \in WorkerRecs /\ c # Null  BY <1>3, CtxAssumption DEF WorkerRecs
<1>8. worker[w].q = Null  BY <1>1, <1>2 DEF Tidy, TidyRec
<1>9. Moves(w, c, new)  BY <1>1, <1>7, <1>8 DEF Moves, TidyRec
<1>10. /\ Tidy'
       /\ worker'[w] = new /\ \A v \in Workers \ {w} : worker'[v] = worker[v]
       /\ \A d \in Ctxs \ {c} : \A v \in Workers :
             worker'[v].q = d \/ worker[v].q = d => worker'[v] = worker[v]
       /\ Holds(w, c)' <=> new.q = c
       /\ \A v \in Workers \ {w} : Holds(v, c)' <=> Holds(v, c)
  BY <1>2, <1>3, <1>7, <1>9, WorkerOthers
<1>11. \A d \in Ctxs \ {c} : SameOf(d)  BY <1>1, <1>6, <1>10 DEF SameOf
<1>12. Kept(c) /\ Order(c) /\ ~Unplaced(c)  BY <1>3, <1>6 DEF CloseInv, Kept, Unplaced
<1>13. Created(c)  BY <1>12 DEF Order, NewOrder
<1>14. ~Holds(w, c) /\ ~InCallback(w) /\ ~InCallback(w)'
  BY <1>1, <1>7, <1>8, <1>10 DEF Holds, InCallback, At
<1>15. Handling(c)' <=> Handling(c)
  <2>1. \A v \in Workers \ {w} : InCallback(v)' <=> InCallback(v)  BY <1>10 DEF InCallback, At
  <2> QED  BY <1>10, <1>14, <2>1 DEF Handling
<1>16. LifeOrder(c)'  BY <1>1, <1>12 DEF Order, LifeOrder, Young, CtxAlive, QueueAlive
<1>17. KindOrder(c)'  BY <1>1, <1>6, <1>12 DEF Order, KindOrder, Plain, Young
<1>18. NewOrder(c)'  BY <1>1, <1>12, <1>13 DEF Order, NewOrder, CtxAlive, Created
<1>19. CloseOrder(c)'
  <2>1. ASSUME NEW v \in Workers, Holds(v, c)',
               worker'[v].pc \in {"drain", "drainCallback", "unlink", "free"}
        PROVE  ctx'[c].closing
    <3>1. v # w  BY <1>10, <2>1
    <3> QED  BY <1>1, <1>10, <1>12, <2>1, <3>1 DEF Order, CloseOrder
  <2> QED  BY <1>1, <1>12, <1>13, <2>1 DEF Order, CloseOrder, Created, Plain
<1>20. ASSUME Plain(c), ~Raced(c)' PROVE Safe(c)'
  <2>1. Safe(c)  BY <1>1, <1>12, <1>20 DEF Kept, Raced
  <2>2. ~In(c, global') /\ OnceIn(c, global')
    BY <1>4, <1>6, <1>12, <1>20, <2>1 DEF Safe, PlaceSafe, Order, KindOrder
  <2>3. \A v \in Workers : ~Holds(v, c)  BY <1>6, <2>1 DEF Safe, PlaceSafe
  <2>4. \A v \in Workers : Holds(v, c)' => v = w  BY <1>10, <2>3
  <2>5. ctx[c].life # "freed"  BY <1>12, <2>1 DEF Safe, PlaceSafe
  <2>6. ~queue[c].in_global => ctx[c].closing /\ \A k \in Closers : ~Closing(k, c)
    BY <1>12, <2>1 DEF Safe, PlaceSafe
  <2>7. \A k \in Closers : Closing(k, c) => closer[k].pc # "push"
    BY <1>12, <2>1 DEF Safe, CloserSafe
  <2>8. PlaceSafe(c)'  BY <1>1, <1>10, <2>2, <2>4, <2>5, <2>6 DEF PlaceSafe, Closing
  <2>9. CloserSafe(c)'  BY <1>1, <2>1, <2>7 DEF Safe, CloserSafe, Closing
  <2>10. OwedSafe(c)'  BY <1>1, <1>15, <2>1 DEF Safe, OwedSafe, Created
  <2> QED  BY <2>8, <2>9, <2>10 DEF Safe
<1> QED  BY <1>3, <1>10, <1>11, <1>16, <1>17, <1>18, <1>19, <1>20, StepOn DEF Order

\* One field of a queue is changed.
LEMMA QueueFacts ==
    ASSUME Shape, NEW c \in Ctxs
    PROVE  /\ \A n : queue' = [queue EXCEPT ![c].length = n] =>
                 /\ \A d \in Ctxs \ {c} : queue'[d] = queue[d]
                 /\ queue'[c].length = n /\ queue'[c].life = queue[c].life
                 /\ queue'[c].in_global = queue[c].in_global
                 /\ queue'[c].concurrent = queue[c].concurrent
           /\ \A b : queue' = [queue EXCEPT ![c].in_global = b] =>
                 /\ \A d \in Ctxs \ {c} : queue'[d] = queue[d]
                 /\ queue'[c].in_global = b /\ queue'[c].life = queue[c].life
                 /\ queue'[c].length = queue[c].length
                 /\ queue'[c].concurrent = queue[c].concurrent
<1> PICK q : q = queue[c]  OBVIOUS
<1>1. q \in QueueRecs  BY DEF Shape
<1>2. ASSUME NEW n, queue' = [queue EXCEPT ![c].length = n]
      PROVE  /\ \A d \in Ctxs \ {c} : queue'[d] = queue[d]
             /\ queue'[c].length = n /\ queue'[c].life = queue[c].life
             /\ queue'[c].in_global = queue[c].in_global
             /\ queue'[c].concurrent = queue[c].concurrent
  <2>1. queue'[c] = [q EXCEPT !.length = n] /\ \A d \in Ctxs \ {c} : queue'[d] = queue[d]
    BY <1>2 DEF Shape
  <2> QED  BY <1>1, <2>1 DEF QueueRecs
<1>3. ASSUME NEW b, queue' = [queue EXCEPT ![c].in_global = b]
      PROVE  /\ \A d \in Ctxs \ {c} : queue'[d] = queue[d]
             /\ queue'[c].in_global = b /\ queue'[c].life = queue[c].life
             /\ queue'[c].length = queue[c].length
             /\ queue'[c].concurrent = queue[c].concurrent
  <2>1. queue'[c] = [q EXCEPT !.in_global = b] /\ \A d \in Ctxs \ {c} : queue'[d] = queue[d]
    BY <1>3 DEF Shape
  <2> QED  BY <1>1, <2>1 DEF QueueRecs
<1> QED  BY <1>2, <1>3

\* The invariant holds on when a message goes from the queue to a callback.
LEMMA KeepPopMessage ==
    ASSUME TypeInv, CloseInv, NEW w \in Workers, PopMessage(w)
    PROVE  CloseInv'
<1> USE DEF books
<1> PICK r : r = worker[w]  OBVIOUS
<1> PICK c : c = r.q  OBVIOUS
<1> PICK label : label = IF r.pc = "drain" THEN "drainCallback" ELSE "callback"  OBVIOUS
<1> PICK new : new = [r EXCEPT !.pc = label]  OBVIOUS
<1>1. /\ r.pc \in {"drain", "one"} /\ worker' = [worker EXCEPT ![w] = new]
      /\ UNCHANGED <<ctx, global, creator, closer, owed, race>> /\ Shape
  BY DEF PopMessage, Popping, At, Goto, TypeInv, Shape
<1>2. /\ c \in Ctxs /\ Holds(w, c) /\ ~Unplaced(c) /\ Created(c) /\ Kept(c) /\ r.ctx = c
  BY <1>1, HolderFacts
<1>3. /\ CtxAlive(c) /\ queue[c].length > 0
      /\ queue' = [queue EXCEPT ![c].length = queue[c].length - 1]
  BY <1>2 DEF PopMessage, Allocated
<1>4. /\ \A d \in Ctxs \ {c} : queue'[d] = queue[d]
      /\ queue'[c].length = queue[c].length - 1 /\ queue'[c].life = queue[c].life
      /\ queue'[c].in_global = queue[c].in_global /\ queue'[c].concurrent = queue[c].concurrent
  BY <1>1, <1>2, <1>3, QueueFacts
<1>5. new \in WorkerRecs /\ new.pc = label /\ new.q = c /\ new.ctx = c
  BY <1>1, <1>2 DEF Shape, WorkerRecs
<1>6. Shape /\ Tidy /\ Order(c) /\ c \in Ctxs /\ new \in WorkerRecs /\ Moves(w, c, new)
  BY <1>1, <1>2, <1>5, CtxAssumption DEF Moves, TidyRec, CloseInv, Kept
<1>7. /\ Tidy'
      /\ worker'[w] = new /\ \A v \in Workers \ {w} : worker'[v] = worker[v]
      /\ \A d \in Ctxs \ {c} : \A v \in Workers :
            worker'[v].q = d \/ worker[v].q = d => worker'[v] = worker[v]
      /\ Holds(w, c)' <=> new.q = c
      /\ \A v \in Workers \ {w} : Holds(v, c)' <=> Holds(v, c)
  BY ONLY <1>6, WorkerOthers
<1>8. \A d \in Ctxs \ {c} : SameOf(d)  BY <1>1, <1>4, <1>7 DEF SameOf
<1>9. \A v \in Workers : Holds(v, c)' <=> Holds(v, c)  BY <1>2, <1>5, <1>7
<1>10. LifeOrder(c)'
  BY <1>1, <1>2, <1>4, <1>6 DEF Order, LifeOrder, Young, CtxAlive, QueueAlive, Created
<1>11. KindOrder(c)'  BY <1>1, <1>4, <1>6 DEF Order, KindOrder, Plain, Young
<1>12. NewOrder(c)'  BY <1>1, <1>2, <1>4, <1>6 DEF Order, NewOrder, CtxAlive, Created
<1>13. CloseOrder(c)'
  <2>1. ASSUME NEW v \in Workers, Holds(v, c)',
               worker'[v].pc \in {"drain", "drainCallback", "unlink", "free"}
        PROVE  ctx[c].closing
    <3>1. CASE v = w  BY <1>1, <1>2, <1>5, <1>6, <1>7, <2>1, <3>1 DEF Order, CloseOrder
    <3>2. CASE v # w  BY <1>6, <1>7, <2>1, <3>2 DEF Order, CloseOrder
    <3> QED  BY <3>1, <3>2
  <2> QED  BY <1>1, <1>2, <1>6, <2>1 DEF Order, CloseOrder, Created, Plain
<1>14. ASSUME Plain(c), ~Raced(c)' PROVE Safe(c)'
  <2>1. Safe(c)  BY <1>1, <1>2, <1>14 DEF Kept, Raced
  <2>2. \A v \in Workers : Holds(v, c) => v = w  BY <1>2, <2>1 DEF Safe, PlaceSafe
  <2>3. label = "callback" => queue[c].in_global  BY <1>1, <1>2, <2>1 DEF Safe, PlaceSafe
  <2>4. PlaceSafe(c)'
    <3>1. ~In(c, global) /\ OnceIn(c, global)  BY <1>2, <2>1 DEF Safe, PlaceSafe
    <3>2. ctx[c].life # "freed"  BY <1>3 DEF CtxAlive
    <3>3. ~queue[c].in_global => ctx[c].closing /\ \A k \in Closers : ~Closing(k, c)
      BY <1>2, <2>1 DEF Safe, PlaceSafe
    <3>4. label \in {"callback", "drainCallback"}  OBVIOUS
    <3> QED  BY <1>1, <1>4, <1>5, <1>7, <1>9, <2>2, <2>3, <3>1, <3>2, <3>3, <3>4
             DEF PlaceSafe, Closing
  <2>5. CloserSafe(c)'
    <3>1. \A k \in Closers : Closing(k, c) => closer[k].pc # "push"
      BY <1>2, <2>1 DEF Safe, CloserSafe
    <3> QED  BY <1>1, <2>1, <3>1 DEF Safe, CloserSafe, Closing
  <2>6. ~Handling(c)  BY <1>1, <2>2 DEF Handling, InCallback, At
  <2>7. Handling(c)'  BY <1>2, <1>5, <1>7, <1>9 DEF Handling, InCallback, At
  <2>8. owed[c] = queue[c].length /\ queue[c].length \in Nat
    BY <1>1, <1>2, <1>3, <2>1, <2>6 DEF Safe, OwedSafe, CtxAlive, Shape, QueueRecs
  <2>9. owed'[c] = queue'[c].length + 1  BY <1>1, <1>4, <2>8
  <2>10. OwedSafe(c)'  BY <1>1, <1>3, <2>7, <2>9 DEF OwedSafe, CtxAlive
  <2> QED  BY <2>4, <2>5, <2>10 DEF Safe
<1> QED  BY <1>2, <1>7, <1>8, <1>10, <1>11, <1>12, <1>13, <1>14, StepOn DEF Order


-----------------------------------------------------------------------------
(* The rest of a worker's steps *)

Releasing == {"drain", "drainCallback", "unlink", "free"}

\* What any step of a worker with the queue of c in hand leaves as it was.
LEMMA HolderSteps ==
    ASSUME TypeInv, CloseInv, NEW w \in Workers, NEW c \in Ctxs, NEW new \in WorkerRecs,
           Moves(w, c, new), worker[w].pc # "idle", worker[w].q = c,
           UNCHANGED <<creator, closer>>, ctx[c].closing => ctx'[c].closing,
           new.pc \in Releasing => ctx'[c].closing
    PROVE  /\ Shape /\ Tidy' /\ Kept(c) /\ Order(c) /\ Created(c) /\ Holds(w, c) /\ ~Unplaced(c)
           /\ NewOrder(c)' /\ CloseOrder(c)'
           /\ worker'[w] = new
           /\ \A d \in Ctxs \ {c} : \A v \in Workers :
                 worker'[v].q = d \/ worker[v].q = d => worker'[v] = worker[v]
<1>1. Holds(w, c) /\ ~Unplaced(c) /\ Created(c) /\ Kept(c)  BY HolderFacts
<1>2. Shape /\ Tidy /\ Order(c)  BY <1>1 DEF TypeInv, CloseInv, Kept
<1>3. /\ Tidy'
      /\ worker'[w] = new /\ \A v \in Workers \ {w} : worker'[v] = worker[v]
      /\ \A d \in Ctxs \ {c} : \A v \in Workers :
            worker'[v].q = d \/ worker[v].q = d => worker'[v] = worker[v]
      /\ \A v \in Workers \ {w} : Holds(v, c)' <=> Holds(v, c)
  BY <1>2, WorkerOthers
<1>4. NewOrder(c)'  BY <1>1 DEF NewOrder, Created
<1>5. CloseOrder(c)'
  <2>1. ASSUME NEW v \in Workers, Holds(v, c)', worker'[v].pc \in Releasing
        PROVE  ctx'[c].closing
    <3>1. CASE v = w  BY <1>3, <2>1, <3>1
    <3>2. CASE v # w  BY <1>2, <1>3, <2>1, <3>2 DEF Order, CloseOrder, Releasing
    <3> QED  BY <3>1, <3>2
  <2> QED  BY <1>1, <1>2, <2>1 DEF Order, CloseOrder, Created, Plain, Releasing
<1> QED  BY <1>1, <1>2, <1>3, <1>4, <1>5

\* The worker that has the queue of a plain service in hand is the only place of it.
LEMMA SoleHolder ==
    ASSUME Shape, Tidy, NEW w \in Workers, NEW c \in Ctxs, NEW new \in WorkerRecs,
           Moves(w, c, new), Holds(w, c), Safe(c)
    PROVE  /\ \A v \in Workers : Holds(v, c)' => v = w
           /\ Holds(w, c)' <=> new.q = c
           /\ ~In(c, global) /\ OnceIn(c, global) /\ ctx[c].life # "freed"
           /\ \A k \in Closers : Closing(k, c) => closer[k].pc # "push"
           /\ ~queue[c].in_global => ctx[c].closing /\ \A k \in Closers : ~Closing(k, c)
           /\ Handling(c) <=> worker[w].pc \in {"drainCallback", "callback"}
           /\ Handling(c)' <=> new.q = c /\ new.pc \in {"drainCallback", "callback"}
<1>1. /\ worker'[w] = new /\ \A v \in Workers \ {w} : worker'[v] = worker[v]
      /\ Holds(w, c)' <=> new.q = c
      /\ \A v \in Workers \ {w} : Holds(v, c)' <=> Holds(v, c)
  BY WorkerOthers
<1>2. ~Unplaced(c)  BY DEF Unplaced
<1>3. \A v \in Workers : Holds(v, c) => v = w  BY DEF Safe, PlaceSafe
<1>4. \A v \in Workers : Holds(v, c)' => v = w  BY <1>1, <1>3
<1>5. Handling(c) <=> worker[w].pc \in {"drainCallback", "callback"}
  BY <1>3 DEF Handling, InCallback, At
<1>6. Handling(c)' <=> new.q = c /\ new.pc \in {"drainCallback", "callback"}
  BY <1>1, <1>4 DEF Handling, InCallback, At
<1>7. /\ ~In(c, global) /\ OnceIn(c, global) /\ ctx[c].life # "freed"
      /\ ~queue[c].in_global => ctx[c].closing /\ \A k \in Closers : ~Closing(k, c)
  BY <1>2 DEF Safe, PlaceSafe
<1>8. \A k \in Closers : Closing(k, c) => closer[k].pc # "push"
  BY <1>2 DEF Safe, CloserSafe
<1> QED  BY <1>1, <1>4, <1>5, <1>6, <1>7, <1>8

\* The invariant holds on when a worker finds the queue empty.
LEMMA KeepPopEmpty ==
    ASSUME TypeInv, CloseInv, NEW w \in Workers, PopEmpty(w)
    PROVE  CloseInv'
<1> PICK r : r = worker[w]  OBVIOUS
<1> PICK c : c = r.q  OBVIOUS
<1> PICK new : new = IF r.pc = "drain" THEN [r EXCEPT !.pc = "unlink"] ELSE AtRest  OBVIOUS
<1> PICK b : b = (queue[c].concurrent /\ queue[c].in_global)  OBVIOUS
<1>1. /\ r.pc \in {"drain", "one"} /\ worker' = [worker EXCEPT ![w] = new]
      /\ UNCHANGED <<ctx, global, creator, closer, owed>> /\ Shape
  BY DEF PopEmpty, Popping, At, TypeInv, Shape
<1>2. /\ c \in Ctxs /\ Holds(w, c) /\ Created(c) /\ Kept(c) /\ r.ctx = c
  BY <1>1, HolderFacts
<1>3. /\ CtxAlive(c) /\ QueueAlive(c) /\ queue[c].length = 0
      /\ queue' = [queue EXCEPT ![c].in_global = b]
  BY <1>2 DEF PopEmpty, Allocated
<1>4. /\ r.pc = "drain" /\ CloserComes(c) => Lost("outrun", c)
      /\ race' = race \/ Lost("outrun", c) \/ Lost("missed", c)
  BY <1>1, <1>2 DEF PopEmpty, At
<1>5. /\ \A d \in Ctxs \ {c} : race'[d] = race[d]
      /\ Raced(c) => Raced(c)'
      /\ r.pc = "drain" /\ CloserComes(c) => Raced(c)'
  <2>1. ASSUME NEW how \in {"outrun", "missed"}, Lost(how, c)
        PROVE  /\ \A d \in Ctxs \ {c} : race'[d] = race[d]
               /\ race'[c] = IF race[c] \in {"none", "missed"} THEN how ELSE race[c]
    <3>1. how \in Races  BY DEF Races
    <3> QED  BY <1>1, <1>2, <2>1, <3>1, LostFacts
  <2>2. race[c] \in Races  BY <1>1, <1>2 DEF Shape
  <2> QED  BY <1>4, <2>1, <2>2 DEF Raced, Races
<1>6. /\ \A d \in Ctxs \ {c} : queue'[d] = queue[d]
      /\ queue'[c].length = 0 /\ queue'[c].life = queue[c].life
      /\ queue'[c].in_global = b /\ queue'[c].concurrent = queue[c].concurrent
  <2>1. Shape /\ c \in Ctxs /\ queue' = [queue EXCEPT ![c].in_global = b]  BY <1>1, <1>2, <1>3
  <2>2. /\ \A d \in Ctxs \ {c} : queue'[d] = queue[d]
        /\ queue'[c].in_global = b /\ queue'[c].life = queue[c].life
        /\ queue'[c].length = queue[c].length /\ queue'[c].concurrent = queue[c].concurrent
    BY ONLY <2>1, QueueFacts
  <2> QED  BY <1>3, <2>2
<1>7. /\ r.pc = "drain" => new.pc = "unlink" /\ new.q = c /\ new.ctx = c
      /\ r.pc = "one" => new.pc = "idle" /\ new.q = Null
      /\ new \in WorkerRecs
  BY <1>1, <1>2, RestFacts DEF Shape, WorkerRecs, AtRest
<1>8. ctx[c].closing \/ r.pc = "one"
  BY <1>1, <1>2 DEF Kept, Order, CloseOrder
<1>9. /\ Shape /\ Tidy /\ c \in Ctxs /\ new \in WorkerRecs /\ Moves(w, c, new)
      /\ TypeInv /\ CloseInv /\ worker[w].pc # "idle" /\ worker[w].q = c
      /\ UNCHANGED <<creator, closer>> /\ (ctx[c].closing => ctx'[c].closing)
      /\ new.pc \in Releasing => ctx'[c].closing
  BY <1>1, <1>2, <1>7, <1>8, CtxAssumption DEF Moves, TidyRec, CloseInv, Releasing
<1>10. /\ Tidy' /\ Order(c) /\ ~Unplaced(c) /\ NewOrder(c)' /\ CloseOrder(c)'
       /\ worker'[w] = new
       /\ \A d \in Ctxs \ {c} : \A v \in Workers :
             worker'[v].q = d \/ worker[v].q = d => worker'[v] = worker[v]
  BY ONLY <1>9, HolderSteps
<1>11. \A d \in Ctxs \ {c} : SameOf(d)  BY <1>1, <1>5, <1>6, <1>10 DEF SameOf
<1>12. LifeOrder(c)'
  BY <1>1, <1>2, <1>6, <1>10 DEF Order, LifeOrder, Young, CtxAlive, QueueAlive, Created
<1>13. KindOrder(c)'
  <2>1. ctx[c].life # "freed" /\ ~Young(c)  BY <1>2, <1>3 DEF CtxAlive, Young, Created
  <2>2. ~Plain(c) => b  BY <1>10, <2>1 DEF Order, KindOrder
  <2> QED  BY <1>1, <1>6, <1>10, <2>1, <2>2 DEF Order, KindOrder, Plain
<1>14. ASSUME Plain(c), ~Raced(c)' PROVE Safe(c)'
  <2>1. Safe(c) /\ ~b  BY <1>2, <1>5, <1>10, <1>14 DEF Kept, Order, KindOrder
  <2>2. /\ \A v \in Workers : Holds(v, c)' => v = w
        /\ Holds(w, c)' <=> new.q = c
        /\ ~In(c, global) /\ OnceIn(c, global) /\ ctx[c].life # "freed"
        /\ \A k \in Closers : Closing(k, c) => closer[k].pc # "push"
        /\ ~Handling(c) /\ ~Handling(c)'
    <3>1. /\ Shape /\ Tidy /\ c \in Ctxs /\ new \in WorkerRecs /\ Moves(w, c, new)
          /\ Holds(w, c) /\ Safe(c)
          /\ worker[w].pc \notin {"drainCallback", "callback"}
          /\ new.pc \notin {"drainCallback", "callback"}
      BY <1>1, <1>2, <1>7, <1>9, <2>1
    <3> QED  BY ONLY <3>1, SoleHolder
  <2>3. CASE r.pc = "drain"
    <3>1. \A k \in Closers : ~Closing(k, c)
      BY <1>5, <1>14, <2>2, <2>3 DEF CloserComes, Closing
    <3>2. \A k \in Closers : ~Closing(k, c)'  BY <1>1, <3>1 DEF Closing
    <3>3. PlaceSafe(c)'
      <4>1. /\ ctx'[c].closing /\ ctx'[c].life # "freed"
            /\ ~queue'[c].in_global /\ queue'[c].length = 0
        BY <1>1, <1>6, <1>8, <2>1, <2>2, <2>3
      <4>2. worker'[w].pc = "unlink" /\ ~In(c, global') /\ OnceIn(c, global')
        BY <1>1, <1>7, <1>10, <2>2, <2>3
      <4>3. \A v \in Workers : Holds(v, c)' => v = w  BY <2>2
      <4> QED  BY ONLY <3>2, <4>1, <4>2, <4>3 DEF PlaceSafe
    <3>4. CloserSafe(c)'  BY <3>2 DEF CloserSafe
    <3>5. OwedSafe(c)'  BY <1>1, <1>3, <1>6, <2>1, <2>2 DEF Safe, OwedSafe, Created
    <3> QED  BY <3>3, <3>4, <3>5 DEF Safe
  <2>4. CASE r.pc = "one"
    <3>1. \A v \in Workers : ~Holds(v, c)'  BY <1>2, <1>7, <2>2, <2>4, CtxAssumption
    <3>2. Unplaced(c)'  BY <1>1, <2>2, <3>1 DEF Unplaced
    <3>3. PlaceSafe(c)'  BY <1>1, <2>2, <3>1, <3>2 DEF PlaceSafe
    <3>4. CloserSafe(c)'  BY <1>1, <2>1, <2>2 DEF Safe, CloserSafe, Closing
    <3>5. OwedSafe(c)'  BY <1>1, <1>3, <1>6, <2>1, <2>2 DEF Safe, OwedSafe, Created
    <3> QED  BY <3>3, <3>4, <3>5 DEF Safe
  <2> QED  BY <1>1, <2>3, <2>4
<1> QED  BY <1>2, <1>10, <1>11, <1>12, <1>13, <1>14, StepOn DEF Order

\* The invariant holds on when the service's own callback closes it: the queue is marked.
LEMMA KeepCallbackCloses ==
    ASSUME TypeInv, CloseInv, NEW w \in Workers, CallbackCloses(w)
    PROVE  CloseInv'
<1> USE DEF books
<1> PICK c : c = worker[w].q  OBVIOUS
<1>1. /\ worker[w].pc = "callback" /\ Shape
      /\ UNCHANGED <<queue, creator, worker, closer, owed, race>>
  BY DEF CallbackCloses, At, TypeInv
<1>2. /\ c \in Ctxs /\ Holds(w, c) /\ ~Unplaced(c) /\ Created(c) /\ Kept(c) /\ worker[w].ctx = c
  BY <1>1, HolderFacts
<1>3. /\ CtxAlive(c) /\ ctx' = [ctx EXCEPT ![c].closing = TRUE]
      /\ IF queue[c].in_global THEN global' = global ELSE global' = Append(global, c)
  BY <1>2 DEF CallbackCloses, Allocated
<1>4. /\ \A d \in Ctxs \ {c} : ctx'[d] = ctx[d]
      /\ ctx'[c].life = ctx[c].life /\ ctx'[c].closing = TRUE
  <2> PICK q : q = ctx[c]  OBVIOUS
  <2>1. q \in CtxRecs /\ ctx \in [Ctxs -> CtxRecs]  BY <1>1, <1>2 DEF Shape
  <2>2. ctx'[c] = [q EXCEPT !.closing = TRUE] /\ \A d \in Ctxs \ {c} : ctx'[d] = ctx[d]
    BY <1>2, <1>3, <2>1
  <2> QED  BY <2>1, <2>2 DEF CtxRecs
<1>5. /\ \A d \in Ctxs \ {c} : In(d, global') <=> In(d, global)
      /\ \A d \in Ctxs \ {c} : OnceIn(d, global) => OnceIn(d, global')
      /\ queue[c].in_global => global' = global
      /\ In(c, global) => In(c, global')
  <2>1. CASE queue[c].in_global  BY <1>3, <2>1
  <2>2. CASE ~queue[c].in_global
    <3>1. Shape /\ c \in Ctxs /\ global' = Append(global, c)  BY <1>1, <1>2, <1>3, <2>2
    <3>2. /\ \A d : In(d, global') <=> In(d, global) \/ d = c
          /\ \A d : OnceIn(d, global) /\ (d # c \/ ~In(c, global)) => OnceIn(d, global')
      BY ONLY <3>1, Appended
    <3> QED  BY <2>2, <3>2
  <2> QED  BY <2>1, <2>2
<1>6. \A d \in Ctxs \ {c} : SameOf(d)  BY <1>1, <1>4, <1>5 DEF SameOf
<1>7. Tidy'  BY <1>1 DEF CloseInv, Tidy
<1>8. Order(c)  BY <1>2 DEF Kept
<1>9. LifeOrder(c)'
  BY <1>1, <1>2, <1>4, <1>8 DEF Order, LifeOrder, Young, CtxAlive, QueueAlive, Created
<1>10. KindOrder(c)'
  <2>1. ~Plain(c) => queue[c].in_global
    BY <1>2, <1>8 DEF Order, KindOrder, Young, Created
  <2> QED  BY <1>1, <1>4, <1>5, <1>8, <2>1 DEF Order, KindOrder, Plain, Young
<1>11. NewOrder(c)'  BY <1>1, <1>2 DEF NewOrder, Created
<1>12. CloseOrder(c)'  BY <1>1, <1>4, <1>8 DEF Order, CloseOrder, Created, Plain
<1>13. ASSUME Plain(c), ~Raced(c)' PROVE Safe(c)'
  <2>1. Safe(c)  BY <1>1, <1>2, <1>13 DEF Kept, Raced
  <2>2. queue[c].in_global  BY <1>1, <1>2, <2>1 DEF Safe, PlaceSafe
  <2>3. global' = global  BY <1>5, <2>2
  <2>4. \A v \in Workers : Holds(v, c)' <=> Holds(v, c)  BY <1>1 DEF Holds
  <2>5. Unplaced(c)' <=> Unplaced(c)  BY <2>3, <2>4 DEF Unplaced
  <2>6. Handling(c)' <=> Handling(c)  BY <1>1, <2>4 DEF Handling, InCallback, At
  <2>7. PlaceSafe(c)'  BY <1>1, <1>4, <2>1, <2>2, <2>3, <2>4, <2>5 DEF Safe, PlaceSafe
  <2>8. CloserSafe(c)'  BY <1>1, <2>1, <2>5 DEF Safe, CloserSafe, Closing
  <2>9. OwedSafe(c)'  BY <1>1, <1>4, <2>1, <2>6 DEF Safe, OwedSafe, Created
  <2> QED  BY <2>7, <2>8, <2>9 DEF Safe
<1> QED  BY <1>2, <1>6, <1>7, <1>9, <1>10, <1>11, <1>12, <1>13, StepOn DEF Order

\* The invariant holds on when a callback returns: its message is no longer owed.
LEMMA KeepCallbackEnd ==
    ASSUME TypeInv, CloseInv, NEW w \in Workers, CallbackEnd(w)
    PROVE  CloseInv'
<1> USE DEF heap
<1> PICK r : r = worker[w]  OBVIOUS
<1> PICK c : c = r.q  OBVIOUS
<1> PICK label : label = IF r.pc = "callback" THEN "requeue" ELSE "drain"  OBVIOUS
<1> PICK new : new = [r EXCEPT !.pc = label]  OBVIOUS
<1>1. /\ r.pc \in {"drainCallback", "callback"} /\ worker' = [worker EXCEPT ![w] = new]
      /\ UNCHANGED <<ctx, queue, global, creator, closer, race>> /\ Shape
  BY DEF CallbackEnd, InCallback, At, Goto, TypeInv, Shape
<1>2. /\ c \in Ctxs /\ Holds(w, c) /\ Created(c) /\ Kept(c) /\ r.ctx = c
  BY <1>1, HolderFacts
<1>3. /\ owed'[c] = owed[c] - 1 /\ \A d \in Ctxs \ {c} : owed'[d] = owed[d]
  BY <1>1, <1>2 DEF CallbackEnd, Shape
<1>4. new \in WorkerRecs /\ new.pc = label /\ new.q = c /\ new.ctx = c
  BY <1>1, <1>2 DEF Shape, WorkerRecs
<1>5. label = "drain" => ctx[c].closing  BY <1>1, <1>2 DEF Kept, Order, CloseOrder
<1>6. /\ Shape /\ Tidy /\ c \in Ctxs /\ new \in WorkerRecs /\ Moves(w, c, new)
      /\ TypeInv /\ CloseInv /\ worker[w].pc # "idle" /\ worker[w].q = c
      /\ UNCHANGED <<creator, closer>> /\ (ctx[c].closing => ctx'[c].closing)
      /\ new.pc \in Releasing => ctx'[c].closing
  BY <1>1, <1>2, <1>4, <1>5, CtxAssumption DEF Moves, TidyRec, CloseInv, Releasing
<1>7. /\ Tidy' /\ Order(c) /\ ~Unplaced(c) /\ NewOrder(c)' /\ CloseOrder(c)'
      /\ worker'[w] = new
      /\ \A d \in Ctxs \ {c} : \A v \in Workers :
            worker'[v].q = d \/ worker[v].q = d => worker'[v] = worker[v]
  BY ONLY <1>6, HolderSteps
<1>8. \A d \in Ctxs \ {c} : SameOf(d)  BY <1>1, <1>3, <1>7 DEF SameOf
<1>9. LifeOrder(c)'
  BY <1>1, <1>2, <1>7 DEF Order, LifeOrder, Young, CtxAlive, QueueAlive, Created
<1>10. KindOrder(c)'  BY <1>1, <1>7 DEF Order, KindOrder, Plain, Young
<1>11. ASSUME Plain(c), ~Raced(c)' PROVE Safe(c)'
  <2>1. Safe(c)  BY <1>1, <1>2, <1>11 DEF Kept, Raced
  <2>2. /\ \A v \in Workers : Holds(v, c)' => v = w
        /\ Holds(w, c)' <=> new.q = c
        /\ ~In(c, global) /\ OnceIn(c, global) /\ ctx[c].life # "freed"
        /\ \A k \in Closers : Closing(k, c) => closer[k].pc # "push"
        /\ ~queue[c].in_global => ctx[c].closing /\ \A k \in Closers : ~Closing(k, c)
        /\ Handling(c) /\ ~Handling(c)'
    <3>1. /\ Holds(w, c) /\ Safe(c)
          /\ worker[w].pc \in {"drainCallback", "callback"}
          /\ new.pc \notin {"drainCallback", "callback"}
      BY <1>1, <1>2, <1>4, <2>1
    <3> QED  BY ONLY <1>6, <3>1, SoleHolder
  <2>3. label = "requeue" => queue[c].in_global  BY <1>1, <1>2, <2>1 DEF Safe, PlaceSafe
  <2>4. PlaceSafe(c)'
    <3>1. label \in {"requeue", "drain"}  OBVIOUS
    <3>2. \A k \in Closers : Closing(k, c)' <=> Closing(k, c)  BY <1>1 DEF Closing
    <3> QED  BY <1>1, <1>4, <1>7, <2>2, <2>3, <3>1, <3>2 DEF PlaceSafe
  <2>5. CloserSafe(c)'  BY <1>1, <2>1, <2>2 DEF Safe, CloserSafe, Closing
  <2>6. OwedSafe(c)'
    <3>1. owed[c] = queue[c].length + 1 /\ queue[c].length \in Nat
      BY <1>1, <1>2, <2>1, <2>2 DEF Safe, OwedSafe, Shape, QueueRecs
    <3>2. owed'[c] = queue'[c].length  BY <1>1, <1>3, <3>1
    <3> QED  BY <1>1, <2>2, <3>2, <3>1 DEF OwedSafe
  <2> QED  BY <2>4, <2>5, <2>6 DEF Safe
<1> QED  BY <1>2, <1>7, <1>8, <1>9, <1>10, <1>11, StepOn DEF Order

\* The invariant holds on when a worker puts the queue of a plain service back.
LEMMA KeepRequeue ==
    ASSUME TypeInv, CloseInv, NEW w \in Workers, Requeue(w)
    PROVE  CloseInv'
<1> USE DEF books
<1> PICK c : c = worker[w].q  OBVIOUS
<1> PICK new : new = AtRest  OBVIOUS
<1>1. /\ worker[w].pc = "requeue" /\ worker' = [worker EXCEPT ![w] = new] /\ Shape
      /\ UNCHANGED <<ctx, queue, creator, closer, owed, race>>
  BY DEF Requeue, Return, At, TypeInv
<1>2. /\ c \in Ctxs /\ Holds(w, c) /\ Created(c) /\ Kept(c) /\ worker[w].ctx = c
  BY <1>1, HolderFacts
<1>3. /\ CtxAlive(c)
      /\ IF queue[c].concurrent THEN global' = global ELSE global' = Append(global, c)
  BY <1>2 DEF Requeue, Allocated
<1>4. new \in WorkerRecs /\ new.pc = "idle" /\ new.q = Null /\ c # Null
  BY <1>2, RestFacts, CtxAssumption DEF AtRest
<1>5. /\ Shape /\ Tidy /\ c \in Ctxs /\ new \in WorkerRecs /\ Moves(w, c, new)
      /\ TypeInv /\ CloseInv /\ worker[w].pc # "idle" /\ worker[w].q = c
      /\ UNCHANGED <<creator, closer>> /\ (ctx[c].closing => ctx'[c].closing)
      /\ new.pc \in Releasing => ctx'[c].closing
  BY <1>1, <1>2, <1>4 DEF Moves, TidyRec, CloseInv, Releasing
<1>6. /\ Tidy' /\ Order(c) /\ ~Unplaced(c) /\ NewOrder(c)' /\ CloseOrder(c)'
      /\ worker'[w] = new
      /\ \A d \in Ctxs \ {c} : \A v \in Workers :
            worker'[v].q = d \/ worker[v].q = d => worker'[v] = worker[v]
  BY ONLY <1>5, HolderSteps
<1>7. /\ \A d \in Ctxs \ {c} : In(d, global') <=> In(d, global)
      /\ \A d : OnceIn(d, global) /\ (d # c \/ ~In(c, global)) => OnceIn(d, global')
      /\ queue[c].concurrent => global' = global
  <2>1. CASE queue[c].concurrent  BY <1>3, <2>1
  <2>2. CASE ~queue[c].concurrent
    <3>1. Shape /\ c \in Ctxs /\ global' = Append(global, c)  BY <1>1, <1>2, <1>3, <2>2
    <3>2. /\ \A d : In(d, global') <=> In(d, global) \/ d = c
          /\ \A d : OnceIn(d, global) /\ (d # c \/ ~In(c, global)) => OnceIn(d, global')
      BY ONLY <3>1, Appended
    <3> QED  BY <2>2, <3>2
  <2> QED  BY <2>1, <2>2
<1>8. \A d \in Ctxs \ {c} : SameOf(d)  BY <1>1, <1>6, <1>7 DEF SameOf
<1>9. LifeOrder(c)'
  BY <1>1, <1>2, <1>6 DEF Order, LifeOrder, Young, CtxAlive, QueueAlive, Created
<1>10. KindOrder(c)'
  <2>1. ~Plain(c) => queue[c].concurrent  BY <1>3, <1>6 DEF Order, KindOrder, CtxAlive
  <2> QED  BY <1>1, <1>6, <1>7, <2>1 DEF Order, KindOrder, Plain, Young
<1>11. ASSUME Plain(c), ~Raced(c)' PROVE Safe(c)'
  <2>1. Safe(c)  BY <1>1, <1>2, <1>11 DEF Kept, Raced
  <2>2. /\ \A v \in Workers : Holds(v, c)' => v = w
        /\ Holds(w, c)' <=> new.q = c
        /\ ~In(c, global) /\ OnceIn(c, global) /\ ctx[c].life # "freed"
        /\ \A k \in Closers : Closing(k, c) => closer[k].pc # "push"
        /\ ~Handling(c) /\ ~Handling(c)'
    <3>1. /\ Holds(w, c) /\ Safe(c)
          /\ worker[w].pc \notin {"drainCallback", "callback"}
          /\ new.pc \notin {"drainCallback", "callback"}
      BY <1>1, <1>2, <1>4, <2>1
    <3> QED  BY ONLY <1>5, <3>1, SoleHolder
  <2>3. \A v \in Workers : ~Holds(v, c)'  BY <1>4, <2>2
  <2>4. queue[c].in_global  BY <1>1, <1>2, <2>1 DEF Safe, PlaceSafe
  <2>5. OnceIn(c, global')  BY <1>7, <2>2
  <2>6. PlaceSafe(c)'  BY <1>1, <2>2, <2>3, <2>4, <2>5 DEF PlaceSafe
  <2>7. CloserSafe(c)'  BY <1>1, <2>1, <2>2 DEF Safe, CloserSafe, Closing
  <2>8. OwedSafe(c)'  BY <1>1, <2>1, <2>2 DEF Safe, OwedSafe, Created
  <2> QED  BY <2>6, <2>7, <2>8 DEF Safe
<1> QED  BY <1>2, <1>6, <1>8, <1>9, <1>10, <1>11, StepOn DEF Order

\* The invariant holds on when a worker frees a drained context and its queue.
LEMMA KeepWorkerFrees ==
    ASSUME TypeInv, CloseInv, NEW w \in Workers, WorkerFrees(w)
    PROVE  CloseInv'
<1> USE DEF books
<1> PICK c : c = worker[w].q  OBVIOUS
<1> PICK new : new = AtRest  OBVIOUS
<1>1. /\ worker[w].pc = "free" /\ worker' = [worker EXCEPT ![w] = new] /\ Shape
      /\ UNCHANGED <<global, creator, closer, owed, race>>
  BY DEF WorkerFrees, Return, At, TypeInv
<1>2. /\ c \in Ctxs /\ Holds(w, c) /\ Created(c) /\ Kept(c) /\ worker[w].ctx = c
  BY <1>1, HolderFacts
<1>3. FreeCtx(c) /\ CtxAlive(c) /\ queue[c].life = "alive"
  BY <1>2 DEF WorkerFrees, Allocated, QueueAlive
<1>4. /\ \A d \in Ctxs \ {c} : queue'[d] = queue[d] /\ ctx'[d] = ctx[d]
      /\ ctx'[c].life = "freed" /\ ctx'[c].closing = ctx[c].closing
      /\ queue'[c].in_global = queue[c].in_global
      /\ queue'[c].concurrent => queue[c].concurrent
      /\ queue'[c].life # "none"
  BY ONLY <1>1, <1>2, <1>3, FreeFacts
<1>5. new \in WorkerRecs /\ new.pc = "idle" /\ new.q = Null /\ c # Null
  BY <1>2, RestFacts, CtxAssumption DEF AtRest
<1>6. /\ Shape /\ Tidy /\ c \in Ctxs /\ new \in WorkerRecs /\ Moves(w, c, new)
      /\ TypeInv /\ CloseInv /\ worker[w].pc # "idle" /\ worker[w].q = c
      /\ UNCHANGED <<creator, closer>> /\ (ctx[c].closing => ctx'[c].closing)
      /\ new.pc \in Releasing => ctx'[c].closing
  BY <1>1, <1>2, <1>4, <1>5 DEF Moves, TidyRec, CloseInv, Releasing
<1>7. /\ Tidy' /\ Order(c) /\ ~Unplaced(c) /\ NewOrder(c)' /\ CloseOrder(c)'
      /\ worker'[w] = new
      /\ \A d \in Ctxs \ {c} : \A v \in Workers :
            worker'[v].q = d \/ worker[v].q = d => worker'[v] = worker[v]
  BY ONLY <1>6, HolderSteps
<1>8. \A d \in Ctxs \ {c} : SameOf(d)  BY <1>1, <1>4, <1>7 DEF SameOf
<1>9. LifeOrder(c)'
  <2>1. ctx[c].closing  BY <1>1, <1>2, <1>7 DEF Order, CloseOrder
  <2> QED  BY <1>1, <1>2, <1>4, <2>1 DEF LifeOrder, Young, CtxAlive, QueueAlive, Created
<1>10. KindOrder(c)'  BY <1>1, <1>4, <1>7 DEF Order, KindOrder, Plain, Young
<1>11. ASSUME Plain(c), ~Raced(c)' PROVE Safe(c)'
  <2>1. Safe(c)  BY <1>1, <1>2, <1>11 DEF Kept, Raced
  <2>2. /\ \A v \in Workers : Holds(v, c)' => v = w
        /\ Holds(w, c)' <=> new.q = c
        /\ ~In(c, global) /\ OnceIn(c, global) /\ ctx[c].life # "freed"
        /\ ~queue[c].in_global => ctx[c].closing /\ \A k \in Closers : ~Closing(k, c)
        /\ ~Handling(c) /\ ~Handling(c)'
    <3>1. /\ Holds(w, c) /\ Safe(c)
          /\ worker[w].pc \notin {"drainCallback", "callback"}
          /\ new.pc \notin {"drainCallback", "callback"}
      BY <1>1, <1>2, <1>5, <2>1
    <3> QED  BY ONLY <1>6, <3>1, SoleHolder
  <2>3. ~queue[c].in_global /\ queue[c].length = 0  BY <1>1, <1>2, <2>1 DEF Safe, PlaceSafe
  <2>4. \A v \in Workers : ~Holds(v, c)'  BY <1>5, <2>2
  <2>5. Unplaced(c)'  BY <1>1, <2>2, <2>4 DEF Unplaced
  <2>6. PlaceSafe(c)'  BY <1>1, <2>2, <2>4, <2>5 DEF PlaceSafe
  <2>7. \A k \in Closers : ~Closing(k, c)'  BY <1>1, <2>2, <2>3 DEF Closing
  <2>8. CloserSafe(c)'  BY <2>7 DEF CloserSafe
  <2>9. owed[c] = 0  BY <1>1, <2>1, <2>2, <2>3 DEF Safe, OwedSafe
  <2>10. OwedSafe(c)'  BY <1>1, <1>4, <2>9 DEF OwedSafe
  <2> QED  BY <2>6, <2>8, <2>10 DEF Safe
<1> QED  BY <1>2, <1>7, <1>8, <1>9, <1>10, <1>11, StepOn DEF Order

-----------------------------------------------------------------------------
(* skynet_service_close, by another service *)

\* A context that a closer goes by has been created.
LEMMA CloserFacts ==
    ASSUME TypeInv, CloseInv, NEW k \in Closers, closer[k].pc \notin {"idle", "done"}
    PROVE  LET c == closer[k].ctx
           IN  c \in Ctxs /\ c # Null /\ Kept(c) /\ Order(c) /\ Shape
<1>1. closer[k].ctx \in Ctxs  BY DEF TypeInv, ClosersMade, Known, Made
<1>2. Kept(closer[k].ctx)  BY <1>1 DEF CloseInv
<1> QED  BY <1>1, <1>2, CtxAssumption DEF Kept, TypeInv

\* The invariant holds on when nothing is changed that it speaks of: a closer finds a
\* context, a sender finds one or tests its flag, a step is undefined.
LEMMA KeepStill ==
    ASSUME TypeInv, CloseInv, UNCHANGED <<ctx, queue, global, creator, worker, owed, race>>,
           \A k \in Closers : closer'[k] = closer[k] \/ closer'[k].pc = "found"
    PROVE  CloseInv'
<1>1. \A c \in Ctxs : SameOf(c)  BY DEF SameOf
<1>2. \A c \in Ctxs : Kept(c)'  BY <1>1, OthersKeep DEF CloseInv
<1>3. Tidy'  BY DEF CloseInv, Tidy
<1> QED  BY <1>2, <1>3 DEF CloseInv

\* It holds on when a closer finds a context.
LEMMA KeepCloserFinds ==
    ASSUME TypeInv, CloseInv, NEW k \in Closers, NEW h \in Handles, CloserFinds(k, h)
    PROVE  CloseInv'
<1> PICK new : new = [pc |-> "found", ctx |-> slot[h]]  OBVIOUS
<1>1. /\ closer' = [closer EXCEPT ![k] = new] /\ new.pc = "found"
      /\ UNCHANGED <<ctx, queue, global, creator, worker, owed, race>>
  BY DEF CloserFinds, heap, books
<1>2. closer \in [Closers -> CloserRecs]  BY DEF TypeInv, Shape
<1>3. \A j \in Closers : closer'[j] = closer[j] \/ closer'[j].pc = "found"  BY <1>1, <1>2
<1> QED  BY ONLY <1>1, <1>3, TypeInv, CloseInv, KeepStill

\* It holds on when a closer sets closing: it is the first, or it comes twice.
LEMMA KeepCloserMarks ==
    ASSUME TypeInv, CloseInv, NEW k \in Closers, CloserMarks(k)
    PROVE  CloseInv'
<1> PICK c : c = closer[k].ctx  OBVIOUS
<1>1. /\ closer[k].pc = "found" /\ CtxAlive(c)
      /\ ctx' = [ctx EXCEPT ![c].closing = TRUE]
      /\ closer' = [closer EXCEPT ![k].pc = "test"]
      /\ UNCHANGED <<queue, global, creator, worker, owed>>
      /\ IF ctx[c].closing THEN Lost("twice", c) ELSE race' = race
  BY DEF CloserMarks
<1>2. c \in Ctxs /\ c # Null /\ Kept(c) /\ Order(c) /\ Shape  BY <1>1, CloserFacts
<1>3. /\ \A d \in Ctxs \ {c} : ctx'[d] = ctx[d]
      /\ ctx'[c].life = ctx[c].life /\ ctx'[c].closing = TRUE
  <2> PICK q : q = ctx[c]  OBVIOUS
  <2>1. q \in CtxRecs /\ ctx \in [Ctxs -> CtxRecs]  BY <1>2 DEF Shape
  <2>2. ctx'[c] = [q EXCEPT !.closing = TRUE] /\ \A d \in Ctxs \ {c} : ctx'[d] = ctx[d]
    BY <1>1, <1>2, <2>1
  <2> QED  BY <2>1, <2>2 DEF CtxRecs
<1>4. /\ closer'[k].pc = "test" /\ closer'[k].ctx = c
      /\ \A j \in Closers \ {k} : closer'[j] = closer[j]
  <2> PICK q : q = closer[k]  OBVIOUS
  <2>1. q \in CloserRecs /\ closer \in [Closers -> CloserRecs]  BY <1>2 DEF Shape
  <2>2. closer'[k] = [q EXCEPT !.pc = "test"] /\ \A j \in Closers \ {k} : closer'[j] = closer[j]
    BY <1>1, <2>1
  <2> QED  BY <2>1, <2>2 DEF CloserRecs
<1>5. /\ \A d \in Ctxs \ {c} : race'[d] = race[d]
      /\ Raced(c) => Raced(c)'
      /\ ctx[c].closing => Raced(c)'
  <2>1. race[c] \in Races /\ "twice" \in Races  BY <1>2 DEF Shape, Races
  <2>2. CASE ctx[c].closing
    <3>1. Lost("twice", c)  BY <1>1, <2>2
    <3>2. /\ \A d \in Ctxs \ {c} : race'[d] = race[d]
          /\ race'[c] = IF race[c] \in {"none", "missed"} THEN "twice" ELSE race[c]
      BY ONLY <1>2, <2>1, <3>1, LostFacts
    <3> QED  BY <2>1, <3>2 DEF Raced, Races
  <2>3. CASE ~ctx[c].closing  BY <1>1, <2>3 DEF Raced
  <2> QED  BY <2>2, <2>3
<1>6. \A d \in Ctxs \ {c} : SameOf(d)  BY <1>1, <1>3, <1>4, <1>5 DEF SameOf
<1>7. Tidy'  BY <1>1 DEF CloseInv, Tidy
<1>8. \A w \in Workers : Holds(w, c)' <=> Holds(w, c)  BY <1>1 DEF Holds
<1>9. Unplaced(c)' <=> Unplaced(c)  BY <1>1, <1>8 DEF Unplaced
<1>10. LifeOrder(c)'
  BY <1>1, <1>2, <1>3 DEF Order, LifeOrder, Young, CtxAlive, QueueAlive
<1>11. KindOrder(c)'  BY <1>1, <1>2, <1>3 DEF Order, KindOrder, Plain, Young
<1>12. NewOrder(c)'  BY <1>1, <1>2, <1>3, <1>9 DEF Order, NewOrder, CtxAlive, Created
<1>13. CloseOrder(c)'
  BY <1>1, <1>2, <1>3, <1>4 DEF Order, CloseOrder, Created, Plain
<1>14. ASSUME Plain(c), ~Raced(c)' PROVE Safe(c)'
  <2>1. Safe(c) /\ ~ctx[c].closing  BY <1>2, <1>5, <1>14 DEF Kept
  <2>2. \A j \in Closers : ~Closing(j, c)  BY <1>2, <2>1 DEF Order, CloseOrder, Closing
  <2>3. \A j \in Closers : Closing(j, c)' => j = k  BY <1>4, <2>2 DEF Closing
  <2>4. queue[c].in_global \/ Unplaced(c)  BY <2>1 DEF Safe, PlaceSafe
  <2>5. Handling(c)' <=> Handling(c)  BY <1>1, <1>8 DEF Handling, InCallback, At
  <2>6. PlaceSafe(c)'  BY <1>1, <1>3, <1>8, <1>9, <2>1, <2>4 DEF Safe, PlaceSafe
  <2>7. CloserSafe(c)'  BY <1>4, <2>3 DEF CloserSafe
  <2>8. OwedSafe(c)'  BY <1>1, <1>3, <2>1, <2>5 DEF Safe, OwedSafe, Created
  <2> QED  BY <2>6, <2>7, <2>8 DEF Safe
<1> QED  BY <1>2, <1>6, <1>7, <1>10, <1>11, <1>12, <1>13, <1>14, StepOn DEF Order

\* It holds on when a closer looks at the mark: a queue without one, of a context that
\* no other thread closes, is in no place.
LEMMA KeepCloserTests ==
    ASSUME TypeInv, CloseInv, NEW k \in Closers, CloserTests(k)
    PROVE  CloseInv'
<1> USE DEF books, heap
<1> PICK c : c = closer[k].ctx  OBVIOUS
<1> PICK r : r = closer[k]  OBVIOUS
<1> PICK new : new = IF queue[c].in_global THEN Over ELSE [r EXCEPT !.pc = "push"]  OBVIOUS
<1>1. /\ r.pc = "test" /\ CtxAlive(c) /\ QueueAlive(c)
      /\ closer' = [closer EXCEPT ![k] = new]
      /\ UNCHANGED <<ctx, queue, global, creator, worker, owed, race>>
  BY DEF CloserTests, Allocated, TypeInv, Shape
<1>2. c \in Ctxs /\ c # Null /\ Kept(c) /\ Order(c) /\ Shape  BY <1>1, CloserFacts
<1>3. /\ queue[c].in_global => new.ctx = Null
      /\ ~queue[c].in_global => new.pc = "push" /\ new.ctx = c
  BY <1>2 DEF Shape, CloserRecs, Over
<1>4. closer'[k] = new /\ \A j \in Closers \ {k} : closer'[j] = closer[j]  BY <1>1, <1>2 DEF Shape
<1>5. \A d \in Ctxs \ {c} : SameOf(d)
  <2>1. ASSUME NEW d \in Ctxs \ {c} PROVE closer'[k].ctx # d
    BY <1>3, <1>4, CtxAssumption
  <2> QED  BY <1>1, <1>4, <2>1 DEF SameOf
<1>6. Tidy'  BY <1>1 DEF CloseInv, Tidy
<1>7. \A w \in Workers : Holds(w, c)' <=> Holds(w, c)  BY <1>1 DEF Holds
<1>8. Unplaced(c)' <=> Unplaced(c)  BY <1>1, <1>7 DEF Unplaced
<1>9. ctx[c].closing  BY <1>1, <1>2 DEF Order, CloseOrder
<1>10. queue[c].in_global \/ (Created(c) /\ Plain(c))
  <2>1. creator[c] # "failed" /\ ~Young(c)
    BY <1>1, <1>2 DEF Order, LifeOrder, CtxAlive, QueueAlive
  <2>2. creator[c] \in Stages  BY <1>2 DEF Shape
  <2>3. queue[c].in_global \/ Created(c)
    BY <1>2, <2>1, <2>2 DEF Order, NewOrder, Young, Created, Stages
  <2> QED  BY <1>2, <2>1, <2>3 DEF Order, KindOrder
<1>11. LifeOrder(c)'  BY <1>1, <1>2 DEF Order, LifeOrder, Young, CtxAlive, QueueAlive
<1>12. KindOrder(c)'  BY <1>1, <1>2 DEF Order, KindOrder, Plain, Young
<1>13. NewOrder(c)'  BY <1>1, <1>2, <1>8 DEF Order, NewOrder, CtxAlive, Created
<1>14. CloseOrder(c)'
  <2>1. ASSUME NEW j \in Closers, closer'[j].ctx = c
        PROVE  /\ closer'[j].pc \in {"test", "push"} => ctx'[c].closing
               /\ closer'[j].pc = "push" => Created(c)' /\ Plain(c)
    <3>1. CASE j = k  BY <1>1, <1>2, <1>3, <1>4, <1>9, <1>10, <2>1, <3>1 DEF Created
    <3>2. CASE j # k  BY <1>1, <1>2, <1>4, <2>1, <3>2 DEF Order, CloseOrder, Created
    <3> QED  BY <3>1, <3>2
  <2> QED  BY <1>1, <1>2, <2>1 DEF Order, CloseOrder, Plain
<1>15. ASSUME Plain(c), ~Raced(c)' PROVE Safe(c)'
  <2>1. Safe(c)  BY <1>1, <1>2, <1>15 DEF Kept, Raced
  <2>2. Closing(k, c)  BY <1>1 DEF Closing
  <2>3. \A j \in Closers : Closing(j, c)' => Closing(j, c)
    BY <1>4, <2>2 DEF Closing
  <2>4. queue[c].in_global \/ Unplaced(c)  BY <2>1, <2>2 DEF Safe, PlaceSafe
  <2>5. Handling(c)' <=> Handling(c)  BY <1>1, <1>7 DEF Handling, InCallback, At
  <2>6. PlaceSafe(c)'  BY <1>1, <1>7, <1>8, <2>1, <2>3 DEF Safe, PlaceSafe
  <2>7. CloserSafe(c)'
    <3>1. ASSUME NEW j \in Closers, Closing(j, c)', closer'[j].pc = "push"
          PROVE  ~queue[c].in_global /\ Unplaced(c)
      <4>1. CASE j = k  BY <1>2, <1>3, <1>4, <2>4, <3>1, <4>1 DEF Closing
      <4>2. CASE j # k  BY <1>4, <2>1, <2>3, <3>1, <4>2 DEF Safe, CloserSafe
      <4> QED  BY <4>1, <4>2
    <3> QED  BY <1>1, <1>8, <2>1, <2>3, <3>1 DEF Safe, CloserSafe
  <2>8. OwedSafe(c)'  BY <1>1, <2>1, <2>5 DEF Safe, OwedSafe, Created
  <2> QED  BY <2>6, <2>7, <2>8 DEF Safe
<1> QED  BY <1>2, <1>5, <1>6, <1>11, <1>12, <1>13, <1>14, <1>15, StepOn DEF Order

\* It holds on when a closer pushes the queue of a service that had come to rest.
LEMMA KeepCloserPushes ==
    ASSUME TypeInv, CloseInv, NEW k \in Closers, CloserPushes(k)
    PROVE  CloseInv'
<1> USE DEF books
<1> PICK c : c = closer[k].ctx  OBVIOUS
<1> PICK new : new = Over  OBVIOUS
<1>1. /\ closer[k].pc = "push" /\ CtxAlive(c) /\ global' = Append(global, c)
      /\ closer' = [closer EXCEPT ![k] = new] /\ new.ctx = Null
      /\ UNCHANGED <<ctx, queue, creator, worker, owed, race>>
  BY DEF CloserPushes, Allocated, Over
<1>2. c \in Ctxs /\ c # Null /\ Kept(c) /\ Order(c) /\ Shape  BY <1>1, CloserFacts
<1>3. closer'[k] = new /\ \A j \in Closers \ {k} : closer'[j] = closer[j]  BY <1>1, <1>2 DEF Shape
<1>4. /\ \A d : In(d, global') <=> In(d, global) \/ d = c
      /\ \A d : OnceIn(d, global) /\ (d # c \/ ~In(c, global)) => OnceIn(d, global')
  <2>1. Shape /\ c \in Ctxs /\ global' = Append(global, c)  BY <1>1, <1>2
  <2> QED  BY ONLY <2>1, Appended
<1>5. \A d \in Ctxs \ {c} : SameOf(d)
  <2>1. ASSUME NEW d \in Ctxs \ {c} PROVE closer'[k].ctx # d
    BY <1>1, <1>3, CtxAssumption
  <2> QED  BY <1>1, <1>3, <1>4, <2>1 DEF SameOf
<1>6. Tidy'  BY <1>1 DEF CloseInv, Tidy
<1>7. \A w \in Workers : Holds(w, c)' <=> Holds(w, c)  BY <1>1 DEF Holds
<1>8. \A j \in Closers : closer'[j].ctx = c => j # k /\ closer'[j] = closer[j]
  BY <1>1, <1>2, <1>3
<1>9. ctx[c].closing /\ Created(c) /\ Plain(c)  BY <1>1, <1>2 DEF Order, CloseOrder
<1>10. LifeOrder(c)'  BY <1>1, <1>2 DEF Order, LifeOrder, Young, CtxAlive, QueueAlive
<1>11. KindOrder(c)'  BY <1>1, <1>2, <1>9 DEF Order, KindOrder, Plain
<1>12. NewOrder(c)'  BY <1>1, <1>9 DEF NewOrder, Created
<1>13. CloseOrder(c)'  BY <1>1, <1>2, <1>8 DEF Order, CloseOrder, Created, Plain
<1>14. ASSUME ~Raced(c)' PROVE Safe(c)'
  <2>1. Safe(c)  BY <1>1, <1>2, <1>9, <1>14 DEF Kept, Raced
  <2>2. Closing(k, c)  BY <1>1 DEF Closing
  <2>3. Unplaced(c) /\ \A j \in Closers : Closing(j, c) => j = k
    BY <1>1, <2>1, <2>2 DEF Safe, CloserSafe
  <2>4. \A j \in Closers : ~Closing(j, c)'  BY <1>8, <2>3 DEF Closing
  <2>5. \A w \in Workers : ~Holds(w, c)'  BY <1>7, <2>3 DEF Unplaced
  <2>6. OnceIn(c, global')  BY <1>4, <2>1, <2>3 DEF Safe, PlaceSafe, Unplaced
  <2>7. Handling(c)' <=> Handling(c)  BY <1>1, <1>7 DEF Handling, InCallback, At
  <2>8. PlaceSafe(c)'  BY <1>1, <1>9, <2>4, <2>5, <2>6 DEF PlaceSafe, CtxAlive
  <2>9. CloserSafe(c)'  BY <2>4 DEF CloserSafe
  <2>10. OwedSafe(c)'  BY <1>1, <2>1, <2>7 DEF Safe, OwedSafe, Created
  <2> QED  BY <2>8, <2>9, <2>10 DEF Safe
<1> QED  BY <1>2, <1>5, <1>6, <1>10, <1>11, <1>12, <1>13, <1>14, StepOn DEF Order

-----------------------------------------------------------------------------
\* It holds on through a step of a sender, an undefined step and a step of none.
LEMMA KeepRest ==
    ASSUME TypeInv, CloseInv,
           \/ Trips \/ UNCHANGED vars
           \/ \E t \in Senders : SenderTests(t)
           \/ \E t \in Senders, h \in Handles : SenderFinds(t, h)
    PROVE  CloseInv'
<1>1. UNCHANGED <<ctx, queue, global, creator, worker, closer, owed, race>>
  BY DEF Trips, CreatorTrips, WorkerTrips, CheckAborts, SenderTrips, CloserTrips, SenderFinds,
         SenderTests, vars, books, heap
<1>2. \A k \in Closers : closer'[k] = closer[k]  BY <1>1
<1> QED  BY <1>1, <1>2, KeepStill

\* It holds on whoever sends.
LEMMA KeepSends ==
    ASSUME TypeInv, CloseInv,
           \/ \E c \in Ctxs : CreateSends(c)
           \/ \E w \in Workers : CallbackSends(w)
           \/ \E t \in Senders : SenderPushes(t)
    PROVE  CloseInv'
<1>1. ASSUME NEW c \in Ctxs, CreateSends(c) PROVE CloseInv'
  <2>1. /\ creator[c] = "creating" /\ Push(c) /\ UNCHANGED <<ctx, creator, worker, closer>>
    BY <1>1 DEF CreateSends
  <2>2. Order(c)  BY DEF CloseInv, Kept
  <2>3. Allocated(c)  BY <2>1, <2>2 DEF Order, NewOrder, LifeOrder, Young, Allocated
  <2> QED  BY <2>1, <2>3, KeepPush
<1>2. ASSUME NEW w \in Workers, CallbackSends(w) PROVE CloseInv'
  <2> PICK c : c = worker[w].ctx  OBVIOUS
  <2>1. /\ Push(c) /\ Allocated(c) /\ UNCHANGED <<ctx, creator, worker, closer>>
        /\ worker[w].pc \in {"drainCallback", "callback"}
    BY <1>2 DEF CallbackSends, InCallback, At
  <2>2. c \in Made  BY <2>1, InHandFacts
  <2>3. c \in Ctxs  BY <2>2 DEF Made
  <2> QED  BY <2>1, <2>3, KeepPush
<1>3. ASSUME NEW t \in Senders, SenderPushes(t) PROVE CloseInv'
  <2> PICK c : c = sender[t].ctx  OBVIOUS
  <2>1. /\ Push(c) /\ Allocated(c) /\ UNCHANGED <<ctx, creator, worker, closer>>
        /\ sender[t].pc = "push"
    BY <1>3 DEF SenderPushes
  <2>2. c \in Ctxs  BY <2>1 DEF TypeInv, SendersMade, Known, Made
  <2> QED  BY <2>1, <2>2, KeepPush
<1> QED  BY <1>1, <1>2, <1>3

\* Every step keeps the invariant.
LEMMA CloseNext == TypeInv /\ CloseInv /\ [Next]_vars => CloseInv'
<1> SUFFICES ASSUME TypeInv, CloseInv, [Next]_vars PROVE CloseInv'  OBVIOUS
<1>1. ASSUME NEW c \in Ctxs, NEW h \in Handles, CreateBegin(c, h) PROVE CloseInv'
  BY <1>1, KeepCreateBegin
<1>2. ASSUME NEW c \in Ctxs, CreateSends(c) PROVE CloseInv'  BY <1>2, KeepSends
<1>3. ASSUME NEW c \in Ctxs, CreatorEnds(c), ~Trips PROVE CloseInv'
  BY <1>3, KeepCreateQueue, KeepCreateSucceeds, KeepCreator, KeepCreatorFrees
  DEF CreatorEnds, Trips
<1>4. ASSUME NEW w \in Workers, WorkerStep(w), ~Trips PROVE CloseInv'
  BY <1>4, KeepPopGlobal, KeepFindCtx, KeepCheckCtx, KeepPopMessage, KeepPopEmpty,
     KeepCallbackEnd, KeepRequeue, KeepWorkerUnlinks, KeepWorkerFrees
  DEF WorkerStep, Trips
<1>5. ASSUME NEW w \in Workers, CallbackSends(w) \/ CallbackCloses(w) PROVE CloseInv'
  BY <1>5, KeepSends, KeepCallbackCloses
<1>6. ASSUME NEW t \in Senders, SenderTests(t) \/ SenderPushes(t) PROVE CloseInv'
  BY <1>6, KeepSends, KeepRest
<1>7. ASSUME NEW k \in Closers, NEW h \in Handles, CloserFinds(k, h) PROVE CloseInv'
  BY <1>7, KeepCloserFinds
<1>8. ASSUME NEW k \in Closers, CloserStep(k), ~Trips PROVE CloseInv'
  BY <1>8, KeepCloserMarks, KeepCloserTests, KeepCloserPushes DEF CloserStep, Trips
<1>9. ASSUME NEW t \in Senders, NEW h \in Handles, SenderFinds(t, h) PROVE CloseInv'
  BY <1>9, KeepRest
<1>10. ASSUME NEW t \in Senders, SenderTrips(t) PROVE Trips  BY <1>10 DEF Trips
<1>11. CASE Trips \/ UNCHANGED vars  BY <1>11, KeepRest
<1> QED  BY <1>1, <1>2, <1>3, <1>4, <1>5, <1>6, <1>7, <1>8, <1>9, <1>10, <1>11 DEF Next

\* What the invariant says of the places of a queue, and of the messages of a service.
LEMMA CloseFollows ==
    ASSUME TypeInv, CloseInv
    PROVE  PlacedOnce /\ NothingDropped
<1>1. ASSUME NEW c \in Ctxs, ~Raced(c) PROVE Once(c)
  <2>1. OnceIn(c, global)
    BY <1>1 DEF CloseInv, Kept, Order, KindOrder, Safe, PlaceSafe, Plain
  <2> QED  BY <2>1 DEF OnceIn, Once
<1>2. ASSUME NEW c \in Ctxs, ~Raced(c), c \notin ConcurrentCtxs, NEW w \in InHands(c)
      PROVE  ~In(c, global) /\ InHands(c) = {w}
  <2>1. Safe(c)  BY <1>2 DEF CloseInv, Kept, Plain
  <2>2. w \in Workers /\ Holds(w, c)  BY <1>2 DEF InHands, Holds
  <2>3. ~In(c, global) /\ \A v \in Workers : Holds(v, c) => v = w  BY <2>1, <2>2 DEF Safe, PlaceSafe
  <2> QED  BY <2>2, <2>3 DEF InHands, Holds
<1>3. ASSUME NEW c \in Ctxs \ ConcurrentCtxs, creator[c] \in {"report", "done"},
             ctx[c].life = "freed", ~Raced(c)
      PROVE  owed[c] = 0
  BY <1>3 DEF CloseInv, Kept, Plain, Safe, OwedSafe, Created
<1> QED  BY <1>1, <1>2, <1>3 DEF PlacedOnce, NothingDropped

\* A queue is in one place through its service's whole life, creation and release included,
\* whoever sends to it or closes it, unless closing that very service lost a race.
THEOREM PlacedOnceAlways == Spec => []PlacedOnce
<1>1. Init => TypeInv /\ CloseInv  BY FirstTyped, FirstKept
<1>2. TypeInv /\ CloseInv /\ [Next]_vars => (TypeInv /\ CloseInv)'  BY TypeNext, CloseNext
<1>3. TypeInv /\ CloseInv => PlacedOnce  BY CloseFollows
<1> QED  BY <1>1, <1>2, <1>3, PTL DEF Spec

\* A plain service is released with none of the messages it accepted unhandled, whoever
\* sends to it while it closes, unless closing that very service lost a race.
THEOREM NothingDroppedAlways == Spec => []NothingDropped
<1>1. Init => TypeInv /\ CloseInv  BY FirstTyped, FirstKept
<1>2. TypeInv /\ CloseInv /\ [Next]_vars => (TypeInv /\ CloseInv)'  BY TypeNext, CloseNext
<1>3. TypeInv /\ CloseInv => NothingDropped  BY CloseFollows
<1> QED  BY <1>1, <1>2, <1>3, PTL DEF Spec

-----------------------------------------------------------------------------
(* While nothing went wrong *)

\* a context is in its slot from its creation until a release takes it out
Slotted(c) ==
    CtxAlive(c) /\ creator[c] # "free" /\ \A w \in Workers : worker[w].ctx = c => ~At(w, "free")
SlotsAgree == \A h \in Handles, c \in Ctxs : slot[h] = c <=> Slotted(c) /\ ctx[c].handle = h

\* a slot and its context agree, and what a worker finds by a queue is that queue's context
FoundOwn == \A w \in Workers : worker[w].ctx \in {worker[w].q, Null}
Sound == fate \notin {"stale", "abort"} /\ SlotsAgree /\ FoundOwn
SoundInv == ~Disturbed => Sound

\* A race that was lost stays lost.
LEMMA RacedStays ==
    ASSUME Shape, NEW c \in Ctxs, NEW how, race' = race \/ Lost(how, c), NEW d \in Ctxs, Raced(d)
    PROVE  Raced(d)'
<1>1. race \in [Ctxs -> Races]  BY DEF Shape
<1> QED  BY <1>1 DEF Lost, Raced

\* A context that is closing stays so.
LEMMA ClosingStays ==
    ASSUME Shape, NEW c \in Ctxs, NEW d \in Ctxs, ctx[d].closing,
           \/ ctx' = ctx
           \/ ctx' = [ctx EXCEPT ![c].closing = TRUE]
           \/ ctx' = [ctx EXCEPT ![c].life = "freed"]
    PROVE  ctx'[d].closing
<1> PICK r : r = ctx[c]  OBVIOUS
<1>1. r \in CtxRecs /\ ctx \in [Ctxs -> CtxRecs]  BY DEF Shape
<1>2. CASE c # d  BY <1>1, <1>2
<1>3. CASE c = d /\ ctx' = ctx  BY <1>3
<1>4. CASE c = d /\ ctx' = [ctx EXCEPT ![c].closing = TRUE]
  <2>1. ctx'[c] = [r EXCEPT !.closing = TRUE]  BY <1>1, <1>4
  <2> QED  BY <1>1, <1>4, <2>1 DEF CtxRecs
<1>5. CASE c = d /\ ctx' = [ctx EXCEPT ![c].life = "freed"]
  <2>1. ctx'[c] = [r EXCEPT !.life = "freed"]  BY <1>1, <1>5
  <2> QED  BY <1>1, <1>5, <2>1 DEF CtxRecs
<1> QED  BY <1>2, <1>3, <1>4, <1>5

\* What a step does to the race and the flags: one context's at most
Gently(c) ==
    /\ race' = race \/ \E how \in Races : Lost(how, c)
    /\ \/ ctx' = ctx
       \/ ctx' = [ctx EXCEPT ![c].closing = TRUE]
       \/ ctx' = [ctx EXCEPT ![c].life = "freed"]

\* What went wrong stays wrong.
LEMMA DisturbedStays ==
    ASSUME Shape, NEW c \in Ctxs, Gently(c), Disturbed
    PROVE  Disturbed'
<1>1. PICK d \in Ctxs : Raced(d) \/ (d \in ConcurrentCtxs /\ ctx[d].closing)  BY DEF Disturbed
<1>2. CASE Raced(d)
  <2>1. PICK how : race' = race \/ Lost(how, c)  BY DEF Gently
  <2>2. Raced(d)'  BY <1>2, <2>1, RacedStays
  <2> QED  BY <2>2 DEF Disturbed
<1>3. CASE d \in ConcurrentCtxs /\ ctx[d].closing
  <2>1. ctx'[d].closing  BY <1>3, ClosingStays DEF Gently
  <2> QED  BY <1>3, <2>1 DEF Disturbed
<1> QED  BY <1>1, <1>2, <1>3

\* While nothing went wrong, a queue that is anywhere, and its context, are allocated.
LEMMA PlacedAlive ==
    ASSUME TypeInv, CloseInv, ~Disturbed, NEW c \in Ctxs, ~Unplaced(c)
    PROVE  CtxAlive(c) /\ QueueAlive(c) /\ Created(c)
<1>1. Order(c) /\ (Plain(c) => Safe(c)) /\ (~Plain(c) => ~ctx[c].closing)
  BY DEF CloseInv, Kept, Disturbed, Plain
<1>2. Created(c)  BY <1>1 DEF Order, NewOrder
<1>3. ctx[c].life # "freed"
  <2>1. CASE Plain(c)  BY <1>1, <2>1 DEF Safe, PlaceSafe
  <2>2. CASE ~Plain(c)  BY <1>1, <1>2, <2>2 DEF Order, LifeOrder, Created
  <2> QED  BY <2>1, <2>2
<1>4. ctx[c].life \in Life  BY DEF TypeInv, Shape, CtxRecs
<1>5. ctx[c].life # "none" /\ ~Young(c)  BY <1>1, <1>2 DEF Order, LifeOrder, Created, Young
<1> QED  BY <1>1, <1>2, <1>3, <1>4, <1>5 DEF Life, Order, LifeOrder, CtxAlive

\* A worker past the lookup works on the context of the queue it has.
LEMMA OwnContext ==
    ASSUME TypeInv, CloseInv, Sound, NEW w \in Workers, worker[w].pc \notin {"idle", "find"}
    PROVE  worker[w].ctx = worker[w].q
<1>1. worker[w].ctx \in Ctxs  BY DEF TypeInv, WorkersMade, InHand, Made
<1> QED  BY <1>1, CtxAssumption DEF Sound, FoundOwn

\* A context with a queue in a worker's hands is in its slot until that worker has
\* taken it out.
LEMMA HeldSlotted ==
    ASSUME TypeInv, CloseInv, ~Disturbed, NEW w \in Workers, NEW c \in Ctxs, Holds(w, c),
           worker[w].pc # "free"
    PROVE  Slotted(c)
<1>1. CtxAlive(c) /\ Created(c)  BY PlacedAlive DEF Unplaced
<1>2. ASSUME NEW v \in Workers, worker[v].ctx = c, At(v, "free") PROVE FALSE
  <2>1. Holds(v, c)  BY <1>2 DEF CloseInv, Tidy, TidyRec, At, Holds
  <2>2. ctx[c].closing  BY <1>2, <2>1 DEF CloseInv, Kept, Order, CloseOrder, At
  <2>3. Safe(c)  BY <2>2 DEF CloseInv, Kept, Disturbed, Plain
  <2>4. v = w  BY <2>1, <2>3 DEF Safe, PlaceSafe
  <2> QED  BY <1>2, <2>4 DEF At
<1> QED  BY <1>1, <1>2 DEF Slotted, Created

\* No worker works on a context whose queue is nowhere.
LEMMA NoneReleases ==
    ASSUME CloseInv, NEW c \in Ctxs, Unplaced(c), NEW w \in Workers, worker[w].ctx = c
    PROVE  ~At(w, "free")
BY DEF CloseInv, Tidy, TidyRec, At, Unplaced, Holds

-----------------------------------------------------------------------------
(* What an action must show to keep Sound *)

\* Nothing that decides whether a context is in its slot
Settled ==
    /\ slot' = slot /\ fate' \notin {"stale", "abort"}
    /\ \A c \in Ctxs : /\ ctx'[c].life = ctx[c].life /\ ctx'[c].handle = ctx[c].handle
                       /\ creator'[c] = "free" <=> creator[c] = "free"
    /\ \A w \in Workers :
          \/ worker'[w] = worker[w]
          \/ /\ worker'[w].pc # "free" /\ worker[w].pc # "free"
             /\ worker'[w].ctx \in {worker'[w].q, Null}

\* A step of that kind keeps Sound.
LEMMA SoundSettled ==
    ASSUME Sound, Settled
    PROVE  Sound'
<1>1. \A c \in Ctxs : Slotted(c)' <=> Slotted(c)
  <2> SUFFICES ASSUME NEW c \in Ctxs PROVE Slotted(c)' <=> Slotted(c)  OBVIOUS
  <2>1. \A w \in Workers :
           worker'[w].ctx = c /\ worker'[w].pc = "free" <=>
           worker[w].ctx = c /\ worker[w].pc = "free"
    BY DEF Settled
  <2>2. CtxAlive(c)' <=> CtxAlive(c)  BY DEF Settled, CtxAlive
  <2>3. creator'[c] = "free" <=> creator[c] = "free"  BY DEF Settled
  <2> QED  BY <2>1, <2>2, <2>3 DEF Slotted, At
<1>2. SlotsAgree'  BY <1>1 DEF Sound, Settled, SlotsAgree
<1>3. FoundOwn'  BY DEF Sound, Settled, FoundOwn
<1> QED  BY <1>2, <1>3 DEF Sound, Settled

\* Marking a context leaves it where it is.
LEMMA MarkFacts ==
    ASSUME Shape, NEW c \in Ctxs, ctx' = ctx \/ ctx' = [ctx EXCEPT ![c].closing = TRUE]
    PROVE  \A d \in Ctxs : ctx'[d].life = ctx[d].life /\ ctx'[d].handle = ctx[d].handle
<1> PICK r : r = ctx[c]  OBVIOUS
<1>1. r \in CtxRecs /\ ctx \in [Ctxs -> CtxRecs]  BY DEF Shape
<1>2. CASE ctx' = ctx  BY <1>2
<1>3. CASE ctx' = [ctx EXCEPT ![c].closing = TRUE]
  <2>1. ctx'[c] = [r EXCEPT !.closing = TRUE] /\ \A d \in Ctxs \ {c} : ctx'[d] = ctx[d]
    BY <1>1, <1>3
  <2>2. ctx'[c].life = r.life /\ ctx'[c].handle = r.handle  BY <1>1, <2>1 DEF CtxRecs
  <2> QED  BY <2>1, <2>2
<1> QED  BY <1>2, <1>3

\* A step gentle with a context, and settled, keeps SoundInv.
LEMMA GentleKeeps ==
    ASSUME Shape, SoundInv, NEW c \in Ctxs, Gently(c), ~Disturbed /\ Sound => Sound'
    PROVE  SoundInv'
<1>1. Disturbed => Disturbed'  BY DisturbedStays
<1> QED  BY <1>1 DEF SoundInv

\* A step that leaves the flags and the races alone, and keeps Sound, keeps SoundInv.
LEMMA CalmKeeps ==
    ASSUME SoundInv, UNCHANGED <<ctx, race>>, ~Disturbed /\ Sound => Sound'
    PROVE  SoundInv'
<1>1. Disturbed => Disturbed'  BY DEF Disturbed, Raced
<1> QED  BY <1>1 DEF SoundInv

\* A worker's step that is not part of a release is settled.
LEMMA WorkerSettles ==
    ASSUME TypeInv, Sound, NEW w \in Workers, NEW new, worker' = [worker EXCEPT ![w] = new],
           worker[w].pc # "free", new.pc # "free", new.ctx \in {new.q, Null},
           UNCHANGED <<slot, creator, fate>>,
           \A d \in Ctxs : ctx'[d].life = ctx[d].life /\ ctx'[d].handle = ctx[d].handle
    PROVE  Settled
<1>1. worker \in [Workers -> WorkerRecs]  BY DEF TypeInv, Shape
<1>2. worker'[w] = new /\ \A v \in Workers \ {w} : worker'[v] = worker[v]  BY <1>1
<1>3. \A v \in Workers :
          \/ worker'[v] = worker[v]
          \/ /\ worker'[v].pc # "free" /\ worker[v].pc # "free"
             /\ worker'[v].ctx \in {worker'[v].q, Null}
  BY <1>2
<1> QED  BY <1>3 DEF Settled, Sound

\* A worker that goes on has what it had.
LEMMA GoneOn ==
    ASSUME TypeInv, Sound, NEW w \in Workers, NEW label, Goto(w, label), label # "free",
           worker[w].pc # "free", UNCHANGED <<slot, creator, fate>>,
           \A d \in Ctxs : ctx'[d].life = ctx[d].life /\ ctx'[d].handle = ctx[d].handle
    PROVE  Settled
<1> PICK r : r = worker[w]  OBVIOUS
<1> PICK new : new = [r EXCEPT !.pc = label]  OBVIOUS
<1>1. worker \in [Workers -> WorkerRecs] /\ r \in WorkerRecs  BY DEF TypeInv, Shape
<1>2. worker' = [worker EXCEPT ![w] = new]  BY <1>1 DEF Goto
<1>3. new.pc = label /\ new.q = r.q /\ new.ctx = r.ctx  BY <1>1 DEF WorkerRecs
<1>4. new.ctx \in {new.q, Null}  BY <1>3 DEF Sound, FoundOwn
<1> QED  BY <1>2, <1>3, <1>4, WorkerSettles

\* A worker that returns has nothing.
LEMMA GoneHome ==
    ASSUME TypeInv, Sound, NEW w \in Workers, Return(w),
           worker[w].pc # "free", UNCHANGED <<slot, creator, fate>>,
           \A d \in Ctxs : ctx'[d].life = ctx[d].life /\ ctx'[d].handle = ctx[d].handle
    PROVE  Settled
<1> PICK new : new = AtRest  OBVIOUS
<1>1. worker' = [worker EXCEPT ![w] = new]  BY DEF Return
<1>2. new.pc # "free" /\ new.ctx \in {new.q, Null}  BY DEF AtRest
<1> QED  BY <1>1, <1>2, WorkerSettles

\* The steps of the other threads that release nothing
LEMMA SoundOthers ==
    ASSUME TypeInv, SoundInv,
           \/ UNCHANGED vars
           \/ \E c \in Ctxs : CreatorTrips(c)
           \/ \E t \in Senders : SenderTests(t) \/ SenderTrips(t)
           \/ \E k \in Closers : CloserTests(k) \/ CloserPushes(k) \/ CloserTrips(k)
           \/ \E t \in Senders, h \in Handles : SenderFinds(t, h)
           \/ \E k \in Closers, h \in Handles : CloserFinds(k, h)
    PROVE  SoundInv'
<1>1. /\ UNCHANGED <<slot, ctx, creator, worker, race>> /\ fate' \in {fate, "dangling"}
  BY DEF CreatorTrips, SenderTests, SenderTrips, CloserTests, CloserPushes, CloserTrips,
         SenderFinds, CloserFinds, vars, heap, books
<1>2. Sound => Settled  BY <1>1 DEF Settled, Sound
<1> QED  BY <1>1, <1>2, SoundSettled, CalmKeeps

\* The steps of a creator that release nothing
LEMMA SoundCreator ==
    ASSUME TypeInv, SoundInv, NEW c \in Ctxs,
           CreateQueue(c) \/ CreateSucceeds(c) \/ CreatorReports(c) \/ CreateFails(c)
    PROVE  SoundInv'
<1>1. PICK label \in {"creating", "report", "done", "unlink"} :
         /\ creator' = [creator EXCEPT ![c] = label] /\ creator[c] # "free"
         /\ UNCHANGED <<slot, ctx, worker, race, fate>>
  BY DEF CreateQueue, CreateSucceeds, CreatorReports, CreateFails, heap, books
<1>2. creator \in [Ctxs -> Stages]  BY DEF TypeInv, Shape
<1>3. \A d \in Ctxs : creator'[d] = "free" <=> creator[d] = "free"  BY <1>1, <1>2
<1>4. Sound => Settled  BY <1>1, <1>3 DEF Settled, Sound
<1> QED  BY <1>1, <1>4, SoundSettled, CalmKeeps

\* Whoever sends, and a closer or a callback that sets the flag
LEMMA SoundMarks ==
    ASSUME TypeInv, SoundInv,
           \/ \E c \in Ctxs : CreateSends(c)
           \/ \E w \in Workers : CallbackSends(w) \/ CallbackCloses(w)
           \/ \E t \in Senders : SenderPushes(t)
           \/ \E k \in Closers : CloserMarks(k)
    PROVE  SoundInv'
<1>1. PICK c \in Ctxs :
         /\ ctx' = ctx \/ ctx' = [ctx EXCEPT ![c].closing = TRUE]
         /\ race' = race \/ Lost("late", c) \/ Lost("twice", c)
  <2>1. ASSUME NEW c \in Ctxs, CreateSends(c)
        PROVE  ctx' = ctx /\ (race' = race \/ Lost("late", c))
    BY <2>1 DEF CreateSends, Push
  <2>2. ASSUME NEW w \in Workers, CallbackSends(w) \/ CallbackCloses(w)
        PROVE  /\ worker[w].ctx \in Ctxs
               /\ ctx' = ctx \/ ctx' = [ctx EXCEPT ![worker[w].ctx].closing = TRUE]
               /\ race' = race \/ Lost("late", worker[w].ctx)
    <3>1. worker[w].pc \in {"drainCallback", "callback"}
      BY <2>2 DEF CallbackSends, CallbackCloses, InCallback, At
    <3>2. worker[w].ctx \in Ctxs  BY <3>1, InHandFacts DEF Made
    <3> QED  BY <2>2, <3>2 DEF CallbackSends, CallbackCloses, Push, books
  <2>3. ASSUME NEW t \in Senders, SenderPushes(t)
        PROVE  /\ sender[t].ctx \in Ctxs /\ ctx' = ctx
               /\ race' = race \/ Lost("late", sender[t].ctx)
    BY <2>3 DEF SenderPushes, Push, TypeInv, SendersMade, Known, Made
  <2>4. ASSUME NEW k \in Closers, CloserMarks(k)
        PROVE  /\ closer[k].ctx \in Ctxs
               /\ ctx' = [ctx EXCEPT ![closer[k].ctx].closing = TRUE]
               /\ race' = race \/ Lost("twice", closer[k].ctx)
    BY <2>4 DEF CloserMarks, TypeInv, ClosersMade, Known, Made
  <2> QED  BY <2>1, <2>2, <2>3, <2>4
<1>2. UNCHANGED <<slot, creator, worker, fate>>
  BY DEF CreateSends, CallbackSends, CallbackCloses, SenderPushes, CloserMarks
<1>3. Shape  BY DEF TypeInv
<1>4. \A d \in Ctxs : ctx'[d].life = ctx[d].life /\ ctx'[d].handle = ctx[d].handle
  BY <1>1, <1>3, MarkFacts
<1>5. Sound => Settled  BY <1>2, <1>4 DEF Settled, Sound
<1>6. Gently(c)
  <2>1. {"late", "twice"} \subseteq Races  BY DEF Races
  <2> QED  BY <1>1, <2>1 DEF Gently
<1> QED  BY <1>3, <1>5, <1>6, SoundSettled, GentleKeeps

\* A worker's steps that release nothing
LEMMA SoundWorker ==
    ASSUME TypeInv, SoundInv, NEW w \in Workers,
           CheckCtx(w) \/ PopMessage(w) \/ CallbackEnd(w) \/ Requeue(w) \/ PopGlobal(w)
    PROVE  SoundInv'
<1> USE DEF heap, books
<1>1. UNCHANGED <<slot, ctx, creator, race, fate>> /\ worker[w].pc # "free"
  BY DEF CheckCtx, PopMessage, CallbackEnd, Requeue, PopGlobal, At, Popping, InCallback
<1>2. CASE CheckCtx(w) \/ PopMessage(w) \/ CallbackEnd(w)
  <2>1. PICK label \in {"drain", "one", "drainCallback", "callback", "requeue"} : Goto(w, label)
    BY <1>2 DEF CheckCtx, PopMessage, CallbackEnd
  <2>2. Sound => Settled  BY <1>1, <2>1, GoneOn
  <2> QED  BY <1>1, <2>2, SoundSettled, CalmKeeps
<1>3. CASE Requeue(w)
  <2>1. Sound => Settled  BY <1>1, <1>3, GoneHome DEF Requeue
  <2> QED  BY <1>1, <2>1, SoundSettled, CalmKeeps
<1>4. CASE PopGlobal(w)
  <2> PICK new : new = [pc |-> "find", q |-> Head(global), ctx |-> Null]  OBVIOUS
  <2>1. worker' = [worker EXCEPT ![w] = new] /\ new.pc = "find" /\ new.ctx = Null
    BY <1>4 DEF PopGlobal
  <2>2. Sound => Settled  BY <1>1, <2>1, WorkerSettles
  <2> QED  BY <1>1, <2>2, SoundSettled, CalmKeeps
<1> QED  BY <1>2, <1>3, <1>4

\* A queue found empty
LEMMA SoundPopEmpty ==
    ASSUME TypeInv, SoundInv, NEW w \in Workers, PopEmpty(w)
    PROVE  SoundInv'
<1> PICK r : r = worker[w]  OBVIOUS
<1> PICK c : c = r.ctx  OBVIOUS
<1> PICK new : new = IF r.pc = "drain" THEN [r EXCEPT !.pc = "unlink"] ELSE AtRest  OBVIOUS
<1>1. /\ r.pc \in {"drain", "one"} /\ worker' = [worker EXCEPT ![w] = new]
      /\ UNCHANGED <<slot, ctx, creator, fate>>
      /\ race' = race \/ Lost("outrun", c) \/ Lost("missed", c)
  BY DEF PopEmpty, Popping, At, TypeInv, Shape
<1>2. c \in Ctxs /\ r \in WorkerRecs  BY <1>1, InHandFacts DEF Made
<1>3. Sound => new.ctx \in {new.q, Null}
  <2>1. r.pc = "drain" => new.ctx = r.ctx /\ new.q = r.q  BY <1>2 DEF WorkerRecs
  <2>2. r.pc # "drain" => new.ctx = Null  BY DEF AtRest
  <2> QED  BY <2>1, <2>2 DEF Sound, FoundOwn
<1>4. new.pc # "free"  BY <1>1, <1>2 DEF WorkerRecs, AtRest
<1>5. ASSUME Sound PROVE Settled
  <2>1. /\ TypeInv /\ Sound /\ worker' = [worker EXCEPT ![w] = new] /\ worker[w].pc # "free"
        /\ new.pc # "free" /\ new.ctx \in {new.q, Null} /\ UNCHANGED <<slot, creator, fate>>
        /\ \A d \in Ctxs : ctx'[d].life = ctx[d].life /\ ctx'[d].handle = ctx[d].handle
    BY <1>1, <1>3, <1>4, <1>5
  <2> QED  BY ONLY <2>1, WorkerSettles
<1>6. Gently(c)
  <2>1. {"outrun", "missed"} \subseteq Races  BY DEF Races
  <2> QED  BY <1>1, <2>1 DEF Gently
<1>7. Shape  BY DEF TypeInv
<1> QED  BY <1>2, <1>5, <1>6, <1>7, SoundSettled, GentleKeeps

\* A worker finds the context of its queue in the slot.
LEMMA SoundFindCtx ==
    ASSUME TypeInv, CloseInv, SoundInv, NEW w \in Workers, FindCtx(w)
    PROVE  SoundInv'
<1> USE DEF heap, books
<1> PICK c : c = worker[w].q  OBVIOUS
<1> PICK found : found = slot[ctx[c].handle]  OBVIOUS
<1> PICK new : new = IF found = Null THEN AtRest ELSE [pc |-> "check", q |-> c, ctx |-> found]
  OBVIOUS
<1>1. /\ worker[w].pc = "find" /\ worker' = [worker EXCEPT ![w] = new]
      /\ UNCHANGED <<slot, ctx, creator, race, fate>>
  BY DEF FindCtx, At
<1>2. c \in Ctxs /\ Holds(w, c)  BY <1>1, HolderFacts
<1>3. ctx[c].handle \in Handles  BY <1>1, InHandFacts DEF Made
<1>4. ASSUME ~Disturbed, Sound PROVE Settled
  <2>1. Slotted(c)  BY <1>1, <1>2, <1>4, HeldSlotted
  <2>2. found = c  BY <1>2, <1>3, <1>4, <2>1 DEF Sound, SlotsAgree
  <2>3. new.ctx \in {new.q, Null} /\ new.pc # "free"  BY <2>2 DEF AtRest
  <2> QED  BY <1>1, <1>4, <2>3, WorkerSettles
<1> QED  BY <1>1, <1>4, SoundSettled, CalmKeeps

-----------------------------------------------------------------------------
(* The steps that put a context in its slot and take it out *)

\* A context that is taken out of its slot leaves the other slots as they are.
LEMMA TakenOut ==
    ASSUME TypeInv, Sound, NEW c \in Ctxs, c \in Made, Slotted(c), ~Slotted(c)', Unlink(c),
           UNCHANGED ctx, \A d \in Ctxs \ {c} : Slotted(d)' <=> Slotted(d)
    PROVE  SlotsAgree'
<1> PICK a : a = ctx[c].handle  OBVIOUS
<1>1. a \in Handles /\ slot \in [Handles -> Ctxs \union {Null}]  BY DEF Made, TypeInv, Shape
<1>2. slot[a] = c  BY <1>1 DEF Sound, SlotsAgree
<1>3. slot'[a] = Null /\ \A h \in Handles \ {a} : slot'[h] = slot[h]  BY <1>1 DEF Unlink
<1>4. ASSUME NEW h \in Handles, NEW d \in Ctxs
      PROVE  slot'[h] = d <=> Slotted(d)' /\ ctx'[d].handle = h
  <2>1. slot[h] = d <=> Slotted(d) /\ ctx[d].handle = h  BY DEF Sound, SlotsAgree
  <2>2. CASE d = c
    <3>1. slot'[h] # c  BY <1>2, <1>3, <2>1, <2>2, CtxAssumption
    <3> QED  BY <2>2, <3>1
  <2>3. CASE d # c /\ h = a  BY <1>2, <1>3, <2>1, <2>3, CtxAssumption
  <2>4. CASE d # c /\ h # a  BY <1>3, <2>1, <2>4
  <2> QED  BY <2>2, <2>3, <2>4
<1> QED  BY <1>4 DEF SlotsAgree

\* A context is put in a slot that is free.
LEMMA SoundCreateBegin ==
    ASSUME TypeInv, CloseInv, SoundInv, NEW c \in Ctxs, NEW h \in Handles, CreateBegin(c, h)
    PROVE  SoundInv'
<1> USE DEF books
<1>1. /\ creator[c] = "idle" /\ creator' = [creator EXCEPT ![c] = "begun"]
      /\ ctx' = [ctx EXCEPT ![c] = [life |-> "alive", handle |-> h, closing |-> FALSE]]
      /\ slot[h] = Null /\ slot' = [slot EXCEPT ![h] = c]
      /\ UNCHANGED <<worker, race, fate>> /\ Shape
  BY DEF CreateBegin, TypeInv
<1>2. /\ ctx'[c].life = "alive" /\ ctx'[c].handle = h /\ creator'[c] = "begun"
      /\ \A d \in Ctxs \ {c} : ctx'[d] = ctx[d] /\ creator'[d] = creator[d]
      /\ slot'[h] = c /\ \A a \in Handles \ {h} : slot'[a] = slot[a]
  BY <1>1 DEF Shape
<1>3. Unplaced(c) /\ ctx[c].life = "none" /\ ctx[c].closing = FALSE
  BY <1>1 DEF CloseInv, Kept, Order, NewOrder, LifeOrder, Created, Shape, CtxRecs
<1>4. Disturbed => Disturbed'  BY <1>1, <1>2, <1>3 DEF Disturbed, Raced
<1>5. Slotted(c)' /\ ~Slotted(c)
  <2>1. \A w \in Workers : worker[w].ctx = c => ~At(w, "free")  BY <1>3, NoneReleases
  <2> QED  BY <1>1, <1>2, <1>3, <2>1 DEF Slotted, CtxAlive, At
<1>6. \A d \in Ctxs \ {c} : Slotted(d)' <=> Slotted(d)
  BY <1>1, <1>2 DEF Slotted, CtxAlive, At
<1>7. ASSUME Sound PROVE SlotsAgree'
  <2>1. ASSUME NEW a \in Handles, NEW d \in Ctxs
        PROVE  slot'[a] = d <=> Slotted(d)' /\ ctx'[d].handle = a
    <3>1. slot[a] = d <=> Slotted(d) /\ ctx[d].handle = a  BY <1>7 DEF Sound, SlotsAgree
    <3>2. CASE d = c  BY <1>2, <1>5, <3>1, <3>2
    <3>3. CASE d # c /\ a = h  BY <1>1, <1>2, <1>6, <3>1, <3>3, CtxAssumption
    <3>4. CASE d # c /\ a # h  BY <1>2, <1>6, <3>1, <3>4
    <3> QED  BY <3>2, <3>3, <3>4
  <2> QED  BY <2>1 DEF SlotsAgree
<1>8. Sound => FoundOwn' /\ fate' \notin {"stale", "abort"}  BY <1>1 DEF Sound, FoundOwn
<1> QED  BY <1>4, <1>7, <1>8 DEF SoundInv, Sound

\* A failed creator takes its context out of the slot.
LEMMA SoundCreatorUnlinks ==
    ASSUME TypeInv, CloseInv, SoundInv, NEW c \in Ctxs, CreatorUnlinks(c)
    PROVE  SoundInv'
<1> USE DEF books
<1>1. /\ creator[c] = "unlink" /\ creator' = [creator EXCEPT ![c] = "free"] /\ Unlink(c)
      /\ CtxAlive(c) /\ UNCHANGED <<ctx, worker, race, fate>> /\ Shape
  BY DEF CreatorUnlinks, TypeInv
<1>2. creator'[c] = "free" /\ \A d \in Ctxs \ {c} : creator'[d] = creator[d]
  BY <1>1 DEF Shape
<1>3. Unplaced(c)  BY <1>1 DEF CloseInv, Kept, Order, NewOrder, Created
<1>4. Slotted(c)
  <2>1. \A w \in Workers : worker[w].ctx = c => ~At(w, "free")  BY <1>3, NoneReleases
  <2> QED  BY <1>1, <2>1 DEF Slotted
<1>5. ~Slotted(c)' /\ \A d \in Ctxs \ {c} : Slotted(d)' <=> Slotted(d)
  BY <1>1, <1>2 DEF Slotted, CtxAlive, At
<1>6. c \in Made  BY <1>1 DEF TypeInv, QueuesMade
<1>7. Sound => SlotsAgree'  BY <1>1, <1>4, <1>5, <1>6, TakenOut
<1>8. Sound => FoundOwn' /\ fate' \notin {"stale", "abort"}  BY <1>1 DEF Sound, FoundOwn
<1>9. Sound => Sound'  BY <1>7, <1>8 DEF Sound
<1> QED  BY <1>1, <1>9, CalmKeeps

\* A worker takes a drained context out of its slot.
LEMMA SoundWorkerUnlinks ==
    ASSUME TypeInv, CloseInv, SoundInv, NEW w \in Workers, WorkerUnlinks(w)
    PROVE  SoundInv'
<1> USE DEF books
<1> PICK r : r = worker[w]  OBVIOUS
<1> PICK c : c = r.q  OBVIOUS
<1> PICK new : new = [r EXCEPT !.pc = "free"]  OBVIOUS
<1>1. /\ r.pc = "unlink" /\ worker' = [worker EXCEPT ![w] = new] /\ Unlink(r.ctx)
      /\ UNCHANGED <<ctx, creator, race, fate>> /\ Shape
  BY DEF WorkerUnlinks, At, Goto, TypeInv, Shape
<1>2. c \in Ctxs /\ Holds(w, c) /\ r.ctx = c  BY <1>1, HolderFacts
<1>3. new.pc = "free" /\ new.q = c /\ new.ctx = c  BY <1>1, <1>2 DEF Shape, WorkerRecs
<1>4. worker'[w] = new /\ \A v \in Workers \ {w} : worker'[v] = worker[v]  BY <1>1 DEF Shape
<1>5. ~Slotted(c)' /\ \A d \in Ctxs \ {c} : Slotted(d)' <=> Slotted(d)
  <2>1. ~Slotted(c)'  BY <1>3, <1>4 DEF Slotted, At
  <2>2. ASSUME NEW d \in Ctxs \ {c} PROVE Slotted(d)' <=> Slotted(d)
    <3>1. \A v \in Workers : worker'[v].ctx = d <=> worker[v].ctx = d  BY <1>2, <1>3, <1>4
    <3>2. \A v \in Workers : worker[v].ctx = d => worker'[v] = worker[v]  BY <1>2, <1>4
    <3> QED  BY <1>1, <3>1, <3>2 DEF Slotted, CtxAlive, At
  <2> QED  BY <2>1, <2>2
<1>6. c \in Made  BY <1>1, InHandFacts
<1>7. ASSUME ~Disturbed, Sound PROVE SlotsAgree'
  <2>1. Slotted(c)  BY <1>1, <1>2, <1>7, HeldSlotted
  <2> QED  BY <1>1, <1>2, <1>5, <1>6, <1>7, <2>1, TakenOut
<1>8. Sound => FoundOwn'  BY <1>2, <1>3, <1>4 DEF Sound, FoundOwn
<1>9. ~Disturbed /\ Sound => Sound'  BY <1>1, <1>7, <1>8 DEF Sound
<1> QED  BY <1>1, <1>9, CalmKeeps

\* A context is freed that is out of its slot.
LEMMA SoundFrees ==
    ASSUME TypeInv, CloseInv, SoundInv,
           \/ \E c \in Ctxs : CreatorFrees(c)
           \/ \E w \in Workers : WorkerFrees(w)
    PROVE  SoundInv'
<1> USE DEF books
<1>0. Shape  BY DEF TypeInv
<1>1. PICK c \in Ctxs :
         /\ FreeCtx(c) /\ ~Slotted(c) /\ UNCHANGED <<slot, race, fate>>
         /\ \A d \in Ctxs \ {c} : creator'[d] = creator[d]
         /\ \A v \in Workers :
               worker'[v] = worker[v] \/ (worker'[v] = AtRest /\ worker[v].ctx = c)
  <2>1. ASSUME NEW c \in Ctxs, CreatorFrees(c)
        PROVE  /\ FreeCtx(c) /\ ~Slotted(c) /\ UNCHANGED <<slot, race, fate>>
               /\ \A d \in Ctxs \ {c} : creator'[d] = creator[d]
               /\ worker' = worker
    BY <1>0, <2>1 DEF CreatorFrees, Slotted, Shape
  <2>2. ASSUME NEW w \in Workers, WorkerFrees(w)
        PROVE  /\ worker[w].ctx \in Ctxs
               /\ FreeCtx(worker[w].ctx) /\ ~Slotted(worker[w].ctx)
               /\ UNCHANGED <<slot, race, fate, creator>>
               /\ \A v \in Workers :
                     worker'[v] = worker[v] \/ (worker'[v] = AtRest /\ worker[v].ctx = worker[w].ctx)
    <3>1. worker[w].pc = "free" /\ worker' = [worker EXCEPT ![w] = AtRest]
      BY <2>2 DEF WorkerFrees, Return, At
    <3>2. worker[w].ctx \in Ctxs  BY <3>1, InHandFacts DEF Made
    <3>3. \A v \in Workers \ {w} : worker'[v] = worker[v]  BY <1>0, <3>1 DEF Shape
    <3>4. worker'[w] = AtRest  BY <1>0, <3>1 DEF Shape
    <3>5. ~Slotted(worker[w].ctx)  BY <3>1 DEF Slotted, At
    <3> QED  BY <2>2, <3>2, <3>3, <3>4, <3>5 DEF WorkerFrees
  <2> QED  BY <2>1, <2>2
<1>2. /\ \A d \in Ctxs \ {c} : ctx'[d] = ctx[d]
      /\ ctx'[c].life = "freed" /\ ctx'[c].handle = ctx[c].handle
  BY <1>0, <1>1, FreeFacts
<1>3. ~Slotted(c)'  BY <1>2 DEF Slotted, CtxAlive
<1>4. ASSUME NEW d \in Ctxs \ {c} PROVE Slotted(d)' <=> Slotted(d)
  <2>1. \A v \in Workers : worker'[v].ctx = d => worker'[v] = worker[v]
    BY <1>1, CtxAssumption DEF AtRest
  <2>2. \A v \in Workers : worker[v].ctx = d => worker'[v] = worker[v]  BY <1>1
  <2>3. creator'[d] = creator[d] /\ ctx'[d] = ctx[d]  BY <1>1, <1>2
  <2> QED  BY <2>1, <2>2, <2>3 DEF Slotted, CtxAlive, At
<1>5. Sound => SlotsAgree'  BY <1>1, <1>2, <1>3, <1>4 DEF Sound, SlotsAgree
<1>6. Sound => FoundOwn'  BY <1>1 DEF Sound, FoundOwn, AtRest
<1>7. Sound => Sound'  BY <1>1, <1>5, <1>6 DEF Sound
<1>8. Gently(c)  BY <1>1 DEF Gently, FreeCtx
<1> QED  BY <1>0, <1>7, <1>8, GentleKeeps

\* While nothing went wrong, no worker comes upon anything freed and the assertion holds.
LEMMA NoTrip ==
    ASSUME TypeInv, CloseInv, SoundInv, NEW w \in Workers, WorkerTrips(w) \/ CheckAborts(w)
    PROVE  Disturbed
<1> SUFFICES ASSUME ~Disturbed PROVE FALSE  OBVIOUS
<1>1. Sound  BY DEF SoundInv
<1>2. \A c \in Ctxs : ~Unplaced(c) => CtxAlive(c) /\ QueueAlive(c)  BY PlacedAlive
<1>3. CASE At(w, "idle") /\ global # <<>> /\ ~QueueAlive(Head(global))
  <2>1. global \in Seq(Ctxs)  BY DEF TypeInv, Shape
  <2>2. Head(global) \in Ctxs /\ In(Head(global), global)  BY <1>3, <2>1, TailFacts
  <2> QED  BY <1>2, <1>3, <2>2 DEF Unplaced
<1>4. ASSUME worker[w].pc # "idle" PROVE worker[w].q \in Ctxs /\ ~Unplaced(worker[w].q)
  BY <1>4, HolderFacts
<1>5. CASE At(w, "find") /\ ~QueueAlive(worker[w].q)
  BY <1>2, <1>4, <1>5 DEF At
<1>6. ASSUME worker[w].pc \notin {"idle", "find"}
      PROVE  /\ worker[w].ctx = worker[w].q
             /\ CtxAlive(worker[w].ctx) /\ QueueAlive(worker[w].ctx)
  <2>1. worker[w].ctx = worker[w].q  BY <1>1, <1>6, OwnContext
  <2> QED  BY <1>2, <1>4, <1>6, <2>1
<1>7. CASE ~At(w, "idle") /\ ~At(w, "find") /\ ~CtxAlive(worker[w].ctx)
  BY <1>6, <1>7 DEF At
<1>8. CASE worker[w].pc \in {"drain", "one", "requeue", "free"} /\ ~QueueAlive(worker[w].ctx)
  BY <1>6, <1>8
<1>9. CASE CheckAborts(w)  BY <1>6, <1>9 DEF CheckAborts, At
<1> QED  BY <1>3, <1>5, <1>7, <1>8, <1>9 DEF WorkerTrips

\* A step that goes wrong finds that something had gone wrong before.
LEMMA SoundTrips ==
    ASSUME TypeInv, CloseInv, SoundInv, NEW w \in Workers, WorkerTrips(w) \/ CheckAborts(w)
    PROVE  SoundInv'
<1>1. UNCHANGED <<ctx, race>>  BY DEF WorkerTrips, CheckAborts, heap, books
<1>2. Disturbed  BY NoTrip
<1> QED  BY <1>1, <1>2, CalmKeeps

\* Every step keeps it.
LEMMA SoundNext == TypeInv /\ CloseInv /\ SoundInv /\ [Next]_vars => SoundInv'
<1> SUFFICES ASSUME TypeInv, CloseInv, SoundInv, [Next]_vars PROVE SoundInv'  OBVIOUS
<1>1. ASSUME NEW c \in Ctxs, NEW h \in Handles, CreateBegin(c, h) PROVE SoundInv'
  BY <1>1, SoundCreateBegin
<1>2. ASSUME NEW c \in Ctxs, CreateSends(c) PROVE SoundInv'  BY <1>2, SoundMarks
<1>3. ASSUME NEW c \in Ctxs, CreatorEnds(c) PROVE SoundInv'
  BY <1>3, SoundCreator, SoundCreatorUnlinks, SoundFrees, SoundOthers DEF CreatorEnds
<1>4. ASSUME NEW w \in Workers, WorkerStep(w) PROVE SoundInv'
  BY <1>4, SoundWorker, SoundPopEmpty, SoundFindCtx, SoundWorkerUnlinks, SoundFrees, SoundTrips
  DEF WorkerStep
<1>5. ASSUME NEW w \in Workers, CallbackSends(w) \/ CallbackCloses(w) PROVE SoundInv'
  BY <1>5, SoundMarks
<1>6. ASSUME NEW t \in Senders, SenderTests(t) \/ SenderPushes(t) \/ SenderTrips(t)
      PROVE  SoundInv'
  BY <1>6, SoundMarks, SoundOthers
<1>7. ASSUME NEW k \in Closers, CloserStep(k) PROVE SoundInv'
  BY <1>7, SoundMarks, SoundOthers DEF CloserStep
<1>8. ASSUME NEW t \in Senders, NEW h \in Handles, SenderFinds(t, h) PROVE SoundInv'
  BY <1>8, SoundOthers
<1>9. ASSUME NEW k \in Closers, NEW h \in Handles, CloserFinds(k, h) PROVE SoundInv'
  BY <1>9, SoundOthers
<1>10. CASE UNCHANGED vars  BY <1>10, SoundOthers
<1> QED  BY <1>1, <1>2, <1>3, <1>4, <1>5, <1>6, <1>7, <1>8, <1>9, <1>10 DEF Next

\* At first every slot is free.
LEMMA FirstSound == Init => SoundInv
<1> SUFFICES ASSUME Init PROVE Sound  BY DEF SoundInv
<1>1. SlotsAgree  BY CtxAssumption DEF Init, SlotsAgree, Slotted, CtxAlive
<1>2. FoundOwn  BY DEF Init, FoundOwn, AtRest
<1> QED  BY <1>1, <1>2 DEF Sound, Init

\* Unless a concurrent service was closed, or closing a service lost a race, no worker uses a
\* context or a queue that was freed and the assertion of skynet_server.c:18 holds, whoever
\* else sends to a service or closes it, and whatever its creator reads after the push.
THEOREM NoUseAfterReleaseAlways == Spec => []NoUseAfterRelease
<1> DEFINE I == TypeInv /\ CloseInv /\ SoundInv
<1>1. Init => I  BY FirstTyped, FirstKept, FirstSound
<1>2. I /\ [Next]_vars => I'  BY TypeNext, CloseNext, SoundNext
<1>3. I => NoUseAfterRelease  BY DEF SoundInv, Sound, NoUseAfterRelease
<1> QED  BY <1>1, <1>2, <1>3, PTL DEF Spec
=============================================================================
