--------------------------- MODULE DispatchProofs ---------------------------
(***************************************************************************)
(* The scheduler keeps the queue of a plain service in one place for any    *)
(* number of services, workers and messages: DispatchInv is inductive.      *)
(***************************************************************************)
EXTENDS Dispatch, SequenceTheorems, TLAPS

-----------------------------------------------------------------------------
(* Lists without repetition *)

\* Appending adds one member at the end.
LEMMA InAppend ==
    ASSUME NEW S, NEW seq \in Seq(S), NEW e \in S
    PROVE  /\ Append(seq, e) \in Seq(S)
           /\ \A s : In(s, Append(seq, e)) <=> In(s, seq) \/ s = e
<1> DEFINE new == Append(seq, e)
<1>1. new \in Seq(S) /\ Len(new) = Len(seq) + 1
      /\ (\A i \in 1 .. Len(seq) : new[i] = seq[i]) /\ new[Len(seq) + 1] = e
  BY AppendProperties
<1>2. Len(seq) \in Nat  BY LenProperties
<1> HIDE DEF new
<1>3. ASSUME NEW s, In(s, new) PROVE In(s, seq) \/ s = e
  <2>1. PICK i \in 1 .. Len(seq) + 1 : new[i] = s  BY <1>1, <1>3 DEF In
  <2>2. CASE i = Len(seq) + 1  BY <1>1, <2>1, <2>2
  <2>3. CASE i # Len(seq) + 1
    <3>1. i \in 1 .. Len(seq)  BY <1>2, <2>3
    <3> QED  BY <1>1, <2>1, <3>1 DEF In
  <2> QED  BY <2>2, <2>3
<1>4. ASSUME NEW s, In(s, seq) PROVE In(s, new)
  <2>1. PICK i \in 1 .. Len(seq) : seq[i] = s  BY <1>4 DEF In
  <2>2. i \in 1 .. Len(new) /\ new[i] = s  BY <1>1, <1>2, <2>1
  <2> QED  BY <2>2 DEF In
<1>5. In(e, new)
  <2>1. Len(seq) + 1 \in 1 .. Len(new)  BY <1>1, <1>2
  <2> QED  BY <1>1, <2>1 DEF In
<1>6. \A s : In(s, new) <=> In(s, seq) \/ s = e  BY <1>3, <1>4, <1>5
<1> QED  BY <1>1, <1>6 DEF new

\* Appending a newcomer repeats nothing.
LEMMA NoRepeatAppend ==
    ASSUME NEW S, NEW seq \in Seq(S), NEW e \in S, NoRepeat(seq), ~In(e, seq)
    PROVE  NoRepeat(Append(seq, e))
<1> DEFINE new == Append(seq, e)
<1>1. new \in Seq(S) /\ Len(new) = Len(seq) + 1
      /\ (\A i \in 1 .. Len(seq) : new[i] = seq[i]) /\ new[Len(seq) + 1] = e
  BY AppendProperties
<1>2. Len(seq) \in Nat  BY LenProperties
<1> HIDE DEF new
<1>3. \A i \in 1 .. Len(new) : i \in 1 .. Len(seq) \/ i = Len(seq) + 1
  BY <1>1, <1>2
<1>4. \A i \in 1 .. Len(seq) : seq[i] # e  BY DEF In
<1>5. ASSUME NEW i \in 1 .. Len(new), NEW j \in 1 .. Len(new), new[i] = new[j]
      PROVE  i = j
  BY <1>1, <1>3, <1>4, <1>5 DEF NoRepeat
<1> QED  BY <1>5 DEF NoRepeat, new

\* Taking the head off a list without repetition takes it out of the list.
LEMMA TailFacts ==
    ASSUME NEW S, NEW seq \in Seq(S), seq # <<>>, NoRepeat(seq)
    PROVE  /\ Head(seq) \in S
           /\ In(Head(seq), seq)
           /\ Tail(seq) \in Seq(S)
           /\ NoRepeat(Tail(seq))
           /\ \A s : In(s, Tail(seq)) <=> In(s, seq) /\ s # Head(seq)
<1> DEFINE rest == Tail(seq)
<1>1. /\ Head(seq) \in S /\ rest \in Seq(S) /\ Len(rest) = Len(seq) - 1
      /\ \A i \in 1 .. Len(rest) : rest[i] = seq[i + 1]
  BY HeadTailProperties
<1>2. Len(seq) \in Nat \ {0} /\ Head(seq) = seq[1]  BY EmptySeq
<1> HIDE DEF rest
<1>3. In(Head(seq), seq)  BY <1>2 DEF In
<1>4. ASSUME NEW i \in 1 .. Len(rest), NEW j \in 1 .. Len(rest), rest[i] = rest[j]
      PROVE  i = j
  <2>1. i + 1 \in 1 .. Len(seq) /\ j + 1 \in 1 .. Len(seq)  BY <1>1, <1>2
  <2>2. seq[i + 1] = seq[j + 1]  BY <1>1, <1>4
  <2>3. i + 1 = j + 1  BY <2>1, <2>2 DEF NoRepeat
  <2> QED  BY <2>3
<1>5. ASSUME NEW s, In(s, rest) PROVE In(s, seq) /\ s # Head(seq)
  <2>1. PICK i \in 1 .. Len(rest) : rest[i] = s  BY <1>5 DEF In
  <2>2. i + 1 \in 1 .. Len(seq) /\ i + 1 # 1 /\ 1 \in 1 .. Len(seq)  BY <1>1, <1>2
  <2>3. seq[i + 1] = s  BY <1>1, <2>1
  <2>4. seq[i + 1] # seq[1]  BY <2>2 DEF NoRepeat
  <2> QED  BY <1>2, <2>2, <2>3, <2>4 DEF In
<1>6. ASSUME NEW s, In(s, seq), s # Head(seq) PROVE In(s, rest)
  <2>1. PICK i \in 1 .. Len(seq) : seq[i] = s  BY <1>6 DEF In
  <2>2. i # 1  BY <1>2, <1>6, <2>1
  <2>3. i - 1 \in 1 .. Len(rest) /\ (i - 1) + 1 = i  BY <1>1, <1>2, <2>2
  <2>4. rest[i - 1] = s  BY <1>1, <2>1, <2>3
  <2> QED  BY <2>3, <2>4 DEF In
<1>7. \A s : In(s, rest) <=> In(s, seq) /\ s # Head(seq)  BY <1>5, <1>6
<1> QED  BY <1>1, <1>3, <1>4, <1>7 DEF rest, NoRepeat

\* The head moved to the end: the same members, none twice.
LEMMA RotateFacts ==
    ASSUME NEW S, NEW seq \in Seq(S), seq # <<>>, NoRepeat(seq)
    PROVE  LET new == Append(Tail(seq), Head(seq))
           IN  /\ new \in Seq(S)
               /\ NoRepeat(new)
               /\ \A s : In(s, new) <=> In(s, seq)
<1>1. /\ Head(seq) \in S /\ Tail(seq) \in Seq(S) /\ NoRepeat(Tail(seq))
      /\ In(Head(seq), seq)
      /\ \A s : In(s, Tail(seq)) <=> In(s, seq) /\ s # Head(seq)
  BY TailFacts
<1>2. ~In(Head(seq), Tail(seq))  BY <1>1
<1>3. NoRepeat(Append(Tail(seq), Head(seq)))  BY <1>1, <1>2, NoRepeatAppend
<1>4. /\ Append(Tail(seq), Head(seq)) \in Seq(S)
      /\ \A s : In(s, Append(Tail(seq), Head(seq))) <=> In(s, Tail(seq)) \/ s = Head(seq)
  BY <1>1, InAppend
<1> QED  BY <1>1, <1>3, <1>4

-----------------------------------------------------------------------------
(* The invariant, action by action *)

\* At first nothing is queued and every worker is idle.
LEMMA DispatchInit == Init => DispatchInv
<1> SUFFICES ASSUME Init PROVE DispatchInv  OBVIOUS
<1>1. Len(global) = 0 /\ global \in Seq(Services)
  BY EmptySeq DEF Init
<1>2. TypeOK  BY <1>1, EmptySeq, MaxSentAssumption DEF Init, TypeOK
<1>3. \A s : ~InQueue(s)  BY <1>1 DEF InQueue, In
<1>4. QueuedOnce  BY <1>1 DEF QueuedOnce, NoRepeat
<1> QED
  BY <1>2, <1>3, <1>4 DEF Init, DispatchInv, WorkersOK, InGlobalExact, OnePlace,
     MarkedIfFull, Holds

\* _create and skynet_mq_create
LEMMA InvCreateBegin ==
    ASSUME DispatchInv, NEW s \in Services, CreateBegin(s)
    PROVE  DispatchInv'
<1> USE DEF DispatchInv, CreateBegin, workers
<1>1. TypeOK'  BY EmptySeq DEF TypeOK
<1>2. WorkersOK' /\ QueuedOnce'  BY DEF WorkersOK, QueuedOnce
<1>3. InGlobalExact'  BY DEF InGlobalExact, TypeOK, InQueue, Holds
<1>4. OnePlace'  BY DEF OnePlace, InQueue, Holds, Plain
<1>5. MarkedIfFull'  BY DEF MarkedIfFull, TypeOK
<1> QED  BY <1>1, <1>2, <1>3, <1>4, <1>5

\* skynet_globalmq_push at the end of skynet_service_create
LEMMA InvCreateEnd ==
    ASSUME DispatchInv, NEW s \in Services, CreateEnd(s)
    PROVE  DispatchInv'
<1> USE DEF DispatchInv, CreateEnd, workers
<1>1. ~InQueue(s) /\ inGlobal[s] /\ \A w \in Workers : ~Holds(w, s)
  BY DEF InGlobalExact
<1>2. global' \in Seq(Services) /\ QueuedOnce'
  BY <1>1, InAppend, NoRepeatAppend DEF TypeOK, QueuedOnce, InQueue
<1>3. \A u : InQueue(u)' <=> InQueue(u) \/ u = s
  BY InAppend DEF TypeOK, InQueue
<1>4. TypeOK'  BY <1>2 DEF TypeOK
<1>5. WorkersOK'  BY DEF WorkersOK
<1>6. InGlobalExact'  BY <1>1, <1>3 DEF InGlobalExact, TypeOK, Holds, Plain
<1>7. OnePlace'  BY <1>1, <1>3 DEF OnePlace, Holds, Plain
<1>8. MarkedIfFull'  BY DEF MarkedIfFull
<1> QED  BY <1>2, <1>4, <1>5, <1>6, <1>7, <1>8

\* skynet_mq_push, whoever sends
LEMMA InvSend ==
    ASSUME DispatchInv, NEW p \in Sources, NEW s \in Services, SendFrom(p, s)
    PROVE  DispatchInv'
<1> USE DEF DispatchInv, SendFrom, Push, Created, workers
<1> DEFINE m == <<p, sent[p] + 1>>
<1>1. m \in Msgs /\ sent' \in [Sources -> 0 .. MaxSent]
  BY MaxSentAssumption DEF TypeOK, Msgs
<1>2. mq' \in [Services -> Seq(Msgs)]  BY <1>1, AppendProperties DEF TypeOK
<1>3. CASE inGlobal[s]
  <2>1. inGlobal' = inGlobal /\ global' = global  BY <1>3 DEF TypeOK
  <2>2. TypeOK'  BY <1>1, <1>2, <2>1 DEF TypeOK
  <2>3. WorkersOK' /\ QueuedOnce'  BY <2>1 DEF WorkersOK, QueuedOnce
  <2>4. InGlobalExact'  BY <2>1 DEF InGlobalExact, TypeOK, InQueue, Holds
  <2>5. OnePlace'  BY <2>1 DEF OnePlace, InQueue, Holds
  <2>6. MarkedIfFull'  BY <1>3, <2>1 DEF MarkedIfFull, TypeOK
  <2> QED  BY <2>2, <2>3, <2>4, <2>5, <2>6
<1>4. CASE ~inGlobal[s]
  <2>1. /\ phase[s] = "running" /\ Plain(s)
        /\ ~InQueue(s) /\ \A w \in Workers : ~Holds(w, s)
    BY <1>4 DEF InGlobalExact, TypeOK
  <2>2. global' \in Seq(Services) /\ QueuedOnce'
    BY <1>4, <2>1, InAppend, NoRepeatAppend DEF TypeOK, QueuedOnce, InQueue
  <2>3. \A u : InQueue(u)' <=> InQueue(u) \/ u = s
    BY <1>4, InAppend DEF TypeOK, InQueue
  <2>4. TypeOK'  BY <1>1, <1>2, <2>2 DEF TypeOK
  <2>5. WorkersOK'  BY DEF WorkersOK
  <2>6. InGlobalExact'  BY <2>1, <2>3 DEF InGlobalExact, TypeOK, Holds
  <2>7. OnePlace'  BY <2>1, <2>3 DEF OnePlace, Holds
  <2>8. MarkedIfFull'  BY DEF MarkedIfFull, TypeOK
  <2> QED  BY <2>2, <2>4, <2>5, <2>6, <2>7, <2>8
<1> QED  BY <1>3, <1>4

\* skynet_globalmq_pop
LEMMA InvPopGlobal ==
    ASSUME DispatchInv, NEW w \in Workers, PopGlobal(w)
    PROVE  DispatchInv'
<1> USE DEF DispatchInv, PopGlobal
<1>0. PICK s : s = Head(global)  OBVIOUS
<1>1. /\ s \in Services /\ InQueue(s)
      /\ Tail(global) \in Seq(Services) /\ NoRepeat(Tail(global))
      /\ \A u : In(u, Tail(global)) <=> InQueue(u) /\ u # s
  BY <1>0, TailFacts DEF TypeOK, QueuedOnce, InQueue
<1>2. /\ Append(Tail(global), s) \in Seq(Services)
      /\ NoRepeat(Append(Tail(global), s))
      /\ \A u : In(u, Append(Tail(global), s)) <=> InQueue(u)
  BY <1>0, RotateFacts DEF TypeOK, QueuedOnce, InQueue
<1>3. cur' = [cur EXCEPT ![w] = s] /\ pc' = [pc EXCEPT ![w] = "popped"]
  BY <1>0
<1>4. global' \in Seq(Services) /\ QueuedOnce'
  BY <1>0, <1>1, <1>2 DEF QueuedOnce
<1>5. \A u : InQueue(u)' <=> InQueue(u) /\ (u = s => ~Plain(s))
  BY <1>0, <1>1, <1>2 DEF InQueue
<1>6. phase[s] = "running"  BY <1>1 DEF InGlobalExact, TypeOK
<1>7. Plain(s) => \A v \in Workers : ~Holds(v, s)
  BY <1>1 DEF OnePlace
<1>8. \A u : \A v \in Workers : Holds(v, u)' <=> (IF v = w THEN u = s ELSE Holds(v, u))
  BY <1>3 DEF TypeOK, Holds
<1>9. TypeOK'  BY <1>1, <1>3, <1>4 DEF TypeOK
<1>10. WorkersOK'  BY <1>1, <1>3 DEF WorkersOK, TypeOK
<1>11. ~ \E u : Holds(w, u)  BY DEF Holds
<1>12. InGlobalExact'
  BY <1>1, <1>5, <1>6, <1>8, <1>11 DEF InGlobalExact, Plain
<1>13. OnePlace'  BY <1>1, <1>5, <1>7, <1>8 DEF OnePlace, Plain
<1>14. MarkedIfFull'  BY DEF MarkedIfFull
<1> QED  BY <1>4, <1>9, <1>10, <1>12, <1>13, <1>14

\* The steps of a worker that leave the global queue and the marks alone.
LEMMA InvInHand ==
    ASSUME DispatchInv, NEW w \in Workers, PopMessage(w) \/ CallbackEnd(w)
    PROVE  DispatchInv'
<1> USE DEF DispatchInv
<1>1. cur[w] \in Services
  BY DEF PopMessage, CallbackEnd, WorkersOK
<1>2. CASE PopMessage(w)
  <2>1. /\ Head(mq[cur[w]]) \in Msgs
        /\ mq' \in [Services -> Seq(Msgs)]
        /\ \A u \in Services : mq[u] = <<>> => mq'[u] = <<>>
    BY <1>1, <1>2, HeadTailProperties DEF PopMessage, TypeOK
  <2>2. TypeOK'  BY <1>2, <2>1 DEF PopMessage, TypeOK
  <2>3. WorkersOK'
    BY <1>1, <1>2, <2>1, NoMsgAssumption DEF PopMessage, TypeOK, WorkersOK
  <2>4. \A u : \A v \in Workers : Holds(v, u)' <=> Holds(v, u)
    BY <1>2 DEF PopMessage, TypeOK, Holds
  <2>5. QueuedOnce' /\ \A u : InQueue(u)' <=> InQueue(u)
    BY <1>2 DEF PopMessage, QueuedOnce, InQueue
  <2>6. InGlobalExact' /\ OnePlace' /\ MarkedIfFull'
    BY <1>2, <2>1, <2>4, <2>5
    DEF PopMessage, InGlobalExact, OnePlace, MarkedIfFull
  <2> QED  BY <2>2, <2>3, <2>5, <2>6
<1>3. CASE CallbackEnd(w)
  <2> USE DEF CallbackEnd, queues
  <2>1. msg[w] \in Msgs  BY <1>3 DEF TypeOK, WorkersOK
  <2>2. done' \in [Services -> Seq(Msgs)]
    BY <1>1, <1>3, <2>1, AppendProperties DEF TypeOK
  <2>3. TypeOK'  BY <1>3, <2>2 DEF TypeOK
  <2>4. WorkersOK'  BY <1>1, <1>3 DEF TypeOK, WorkersOK
  <2>5. \A u : \A v \in Workers : Holds(v, u)' <=> Holds(v, u)
    BY <1>3 DEF TypeOK, Holds
  <2>6. QueuedOnce' /\ \A u : InQueue(u)' <=> InQueue(u)
    BY <1>3 DEF QueuedOnce, InQueue
  <2>7. InGlobalExact' /\ OnePlace' /\ MarkedIfFull'
    BY <1>3, <2>5, <2>6 DEF InGlobalExact, OnePlace, MarkedIfFull
  <2> QED  BY <2>3, <2>4, <2>6, <2>7
<1> QED  BY <1>2, <1>3

\* skynet_mq_pop on an empty queue
LEMMA InvPopEmpty ==
    ASSUME DispatchInv, NEW w \in Workers, PopEmpty(w)
    PROVE  DispatchInv'
<1> USE DEF DispatchInv, PopEmpty
<1>0. PICK s \in Services : s = cur[w]  BY DEF WorkersOK
<1>1. Holds(w, s) /\ mq[s] = <<>>
  BY <1>0 DEF Holds
<1>2. phase[s] = "running"  BY <1>1 DEF InGlobalExact, TypeOK
<1>3. Plain(s) => ~InQueue(s) /\ \A v \in Workers : Holds(v, s) => v = w
  BY <1>1 DEF OnePlace
<1>4. TypeOK'  BY <1>0 DEF TypeOK
<1>5. WorkersOK'  BY DEF TypeOK, WorkersOK
<1>6. \A u : \A v \in Workers : Holds(v, u)' <=> Holds(v, u) /\ v # w
  BY DEF TypeOK, Holds
<1>7. QueuedOnce' /\ \A u : InQueue(u)' <=> InQueue(u)
  BY DEF QueuedOnce, InQueue
<1>8. \A u \in Services : inGlobal'[u] = IF u = s /\ Plain(s) THEN FALSE ELSE inGlobal[u]
  BY <1>0 DEF TypeOK
<1>9. \A u : Holds(w, u) => u = s  BY <1>0 DEF Holds
<1>10. InGlobalExact'
  <2>1. phase' = phase /\ mq' = mq  OBVIOUS
  <2>2. ASSUME Plain(s)
        PROVE  ~inGlobal'[s] /\ ~InQueue(s)' /\ \A v \in Workers : ~Holds(v, s)'
    <3>1. ~inGlobal'[s]  BY <1>1, <1>8, <2>2
    <3>2. ~InQueue(s)'  BY <1>3, <1>7, <2>2
    <3>3. \A v \in Workers : ~Holds(v, s)'  BY <1>3, <1>6, <2>2
    <3> QED  BY <3>1, <3>2, <3>3
  <2>3. ~Plain(s) => inGlobal'[s] = inGlobal[s]
    BY <1>1, <1>8
  <2>4. \A u \in Services : u # s =>
          /\ inGlobal'[u] = inGlobal[u]
          /\ \A v \in Workers : Holds(v, u)' <=> Holds(v, u)
    BY <1>6, <1>8, <1>9
  <2>5. InGlobalExact /\ phase[s] = "running"  BY <1>2
  <2> HIDE DEF PopEmpty, DispatchInv
  <2> QED
    BY <1>6, <1>7, <2>1, <2>2, <2>3, <2>4, <2>5 DEF InGlobalExact, Plain
<1>11. OnePlace'  BY <1>6, <1>7 DEF OnePlace, Plain
<1>12. MarkedIfFull'  BY <1>1, <1>8 DEF MarkedIfFull
<1> QED  BY <1>4, <1>5, <1>7, <1>10, <1>11, <1>12

\* skynet_globalmq_push after a message
LEMMA InvRequeue ==
    ASSUME DispatchInv, NEW w \in Workers, Requeue(w)
    PROVE  DispatchInv'
<1> USE DEF DispatchInv, Requeue
<1>0. PICK s \in Services : s = cur[w]  BY DEF WorkersOK
<1>1. Holds(w, s)
  BY <1>0 DEF Holds
<1>2. phase[s] = "running"  BY <1>1 DEF InGlobalExact, TypeOK
<1>3. Plain(s) => ~InQueue(s) /\ \A v \in Workers : Holds(v, s) => v = w
  BY <1>1 DEF OnePlace
<1>4. \A u : \A v \in Workers : Holds(v, u)' <=> Holds(v, u) /\ v # w
  BY DEF TypeOK, Holds
<1>5. \A u : Holds(w, u) => u = s  BY <1>0 DEF Holds
<1>6. WorkersOK'  BY DEF TypeOK, WorkersOK
<1>7. global' \in Seq(Services) /\ QueuedOnce'
      /\ \A u : InQueue(u)' <=> InQueue(u) \/ (u = s /\ Plain(s))
  <2>1. CASE Plain(s)
    BY <1>0, <1>3, <2>1, InAppend, NoRepeatAppend DEF TypeOK, QueuedOnce, InQueue
  <2>2. CASE ~Plain(s)
    BY <1>0, <2>2 DEF TypeOK, QueuedOnce, InQueue
  <2> QED  BY <2>1, <2>2
<1>8. TypeOK'  BY <1>7 DEF TypeOK
<1>9. InGlobalExact'
  BY <1>1, <1>2, <1>3, <1>4, <1>5, <1>7 DEF InGlobalExact, Plain
<1>10. OnePlace'  BY <1>3, <1>4, <1>7 DEF OnePlace, Plain
<1>11. MarkedIfFull'  BY DEF MarkedIfFull
<1> QED  BY <1>6, <1>7, <1>8, <1>9, <1>10, <1>11

\* Every step of a sender, a creator or a worker keeps the invariant.
LEMMA DispatchNext ==
    ASSUME DispatchInv, [Next]_vars
    PROVE  DispatchInv'
<1>1. CASE UNCHANGED vars
  BY <1>1 DEF vars, queues, workers, DispatchInv, TypeOK, WorkersOK, QueuedOnce,
              InGlobalExact, OnePlace, MarkedIfFull, InQueue, Holds
<1>2. ASSUME NEW s \in Services, CreateBegin(s) \/ CreateEnd(s) PROVE DispatchInv'
  BY <1>2, InvCreateBegin, InvCreateEnd
<1>3. ASSUME NEW t \in Threads, NEW s \in Services, ThreadSend(t, s)
      PROVE  DispatchInv'
  BY <1>3, InvSend DEF ThreadSend, Sources
<1>4. ASSUME NEW w \in Workers, NEW s \in Services, CallbackSend(w, s)
      PROVE  DispatchInv'
  <2>1. cur[w] \in Sources
    BY <1>4 DEF CallbackSend, DispatchInv, WorkersOK, Sources
  <2> QED  BY <1>4, <2>1, InvSend DEF CallbackSend
<1>5. ASSUME NEW w \in Workers, WorkerStep(w) PROVE DispatchInv'
  BY <1>5, InvPopGlobal, InvInHand, InvPopEmpty, InvRequeue DEF WorkerStep
<1> QED  BY <1>1, <1>2, <1>3, <1>4, <1>5 DEF Next

-----------------------------------------------------------------------------
\* The scheduler's invariant holds in every state: types, the mark in_global
\* exactly as skynet_mq.c:8-9 describes it, no queue twice in the global queue.
THEOREM DispatchInvAlways == Spec => []DispatchInv
BY DispatchInit, DispatchNext, PTL DEF Spec

\* No two workers run callbacks of one plain service at the same time.
THEOREM OneCallbackAtATime == Spec => []Exclusive
<1>1. DispatchInv => Exclusive
  BY DEF DispatchInv, Exclusive, OnePlace, WorkersOK, Holds
<1> QED  BY DispatchInvAlways, <1>1, PTL

\* A running service with a message waiting is in the global queue or in the
\* hands of a worker.
THEOREM NoMessageStranded == Spec => []NotStranded
<1>1. DispatchInv => NotStranded
  BY DEF DispatchInv, NotStranded, InGlobalExact, MarkedIfFull
<1> QED  BY DispatchInvAlways, <1>1, PTL

-----------------------------------------------------------------------------
(* The order of messages *)

\* What a plain service was sent, is handling and has handled: in the order of each
\* source, which counts its messages as it sends them.
Ordered(seq) ==
    \A i, j \in 1 .. Len(seq) : i < j /\ seq[i][1] = seq[j][1] => seq[i][2] < seq[j][2]
Counted(seq, count) == \A i \in 1 .. Len(seq) : seq[i][2] <= count[seq[i][1]]
OrderInv == \A s \in Services : Plain(s) => Ordered(Stream(s)) /\ Counted(Stream(s), sent)

\* A plain service has at most one message in hand: that of the worker in its callback.
HandOf(s) ==
    /\ InHand(s) \in Seq(Msgs)
    /\ (\A w \in Workers : ~(pc[w] = "callback" /\ cur[w] = s)) => InHand(s) = <<>>
    /\ \A w \in Workers : pc[w] = "callback" /\ cur[w] = s => InHand(s) = <<msg[w]>>
HandsOK == \A s \in Services : Plain(s) => HandOf(s)
\* Of a plain service only the message of the worker that runs it is in hand, as one place
\* allows no other.
LEMMA InHandOf == DispatchInv => HandsOK
<1> SUFFICES ASSUME DispatchInv, NEW s \in Services, Plain(s) PROVE HandOf(s)
  BY DEF HandsOK
<1> DEFINE running == {w \in Workers : pc[w] = "callback" /\ cur[w] = s}
<1>1. CASE running = {}
  <2>1. InHand(s) = <<>>  BY <1>1 DEF InHand
  <2> QED  BY <1>1, <2>1 DEF HandOf
<1>2. ASSUME NEW w \in running PROVE InHand(s) = <<msg[w]>> /\ msg[w] \in Msgs
  <2>1. running = {w}  BY <1>2 DEF DispatchInv, OnePlace, Holds
  <2>2. (CHOOSE v \in running : TRUE) = w  BY <2>1
  <2>3. InHand(s) = <<msg[w]>>  BY <2>1, <2>2 DEF InHand
  <2>4. msg[w] \in Msgs  BY <1>2 DEF DispatchInv, TypeOK, WorkersOK
  <2> QED  BY <2>3, <2>4
<1>3. CASE running # {}
  <2>1. PICK w \in running : TRUE  BY <1>3
  <2>2. InHand(s) \in Seq(Msgs)
    <3>1. PICK m \in Msgs : m = msg[w]  BY <1>2, <2>1
    <3>2. InHand(s) = <<m>>  BY <1>2, <2>1, <3>1
    <3> QED  BY <3>2
  <2>3. pc[w] = "callback" /\ cur[w] = s /\ w \in Workers  BY <2>1
  <2> QED  BY <1>2, <2>2, <2>3 DEF HandOf
<1> QED  BY <1>1, <1>3

\* A message moves from the queue to the hand, and from there to those done, and the stream
\* is the same; a message sent comes at its end.
LEMMA TakingUp ==
    ASSUME NEW S, NEW before \in Seq(S), NEW after \in Seq(S), after # <<>>
    PROVE  before \o <<Head(after)>> \o Tail(after) = before \o <<>> \o after
<1>1. before \o <<>> = before  BY ConcatEmptySeq
<1>2. PICK m \in S, rest \in Seq(S) : m = Head(after) /\ rest = Tail(after)
  BY HeadTailProperties
<1>3. <<m>> \o rest = after  BY <1>2
<1>4. (before \o <<m>>) \o rest = before \o (<<m>> \o rest)
  <2>1. <<m>> \in Seq(S)  OBVIOUS
  <2> QED  BY <2>1, ConcatAssociative
<1> QED  BY <1>1, <1>2, <1>3, <1>4

\* A message that goes from in hand to done leaves the stream of a service as it was.
LEMMA Finishing ==
    ASSUME NEW S, NEW before \in Seq(S), NEW after \in Seq(S), NEW m \in S
    PROVE  Append(before, m) \o <<>> \o after = before \o <<m>> \o after
<1>1. Append(before, m) \o <<>> = Append(before, m)  BY ConcatEmptySeq, AppendProperties
<1>2. Append(before, m) = before \o <<m>>  BY AppendIsConcat
<1> QED  BY <1>1, <1>2

\* A message that is pushed is put at the end of the stream of its service.
LEMMA Arriving ==
    ASSUME NEW S, NEW before \in Seq(S), NEW hand \in Seq(S), NEW after \in Seq(S), NEW m \in S
    PROVE  before \o hand \o Append(after, m) = Append(before \o hand \o after, m)
<1>1. before \o hand \in Seq(S)  BY ConcatProperties
<1>2. (before \o hand) \o after \in Seq(S)  BY <1>1, ConcatProperties
<1>3. Append(after, m) = after \o <<m>> /\ <<m>> \in Seq(S)  BY AppendIsConcat
<1>4. Append((before \o hand) \o after, m) = ((before \o hand) \o after) \o <<m>>
  BY <1>2, AppendIsConcat
<1>5. ((before \o hand) \o after) \o <<m>> = (before \o hand) \o (after \o <<m>>)
  BY <1>1, <1>3, ConcatAssociative
<1> QED  BY <1>3, <1>4, <1>5

\* The newest message of its source keeps the order.
LEMMA NewestLast ==
    ASSUME NEW seq \in Seq(Msgs), NEW count \in [Sources -> 0 .. MaxSent], NEW p \in Sources,
           count[p] < MaxSent, Ordered(seq), Counted(seq, count)
    PROVE  /\ Ordered(Append(seq, <<p, count[p] + 1>>))
           /\ Counted(Append(seq, <<p, count[p] + 1>>), [count EXCEPT ![p] = @ + 1])
<1> DEFINE m == <<p, count[p] + 1>>
           new == Append(seq, m)
           then == [count EXCEPT ![p] = @ + 1]
<1>1. m \in Msgs  BY MaxSentAssumption DEF Msgs
<1>2. /\ Len(seq) \in Nat /\ Len(new) = Len(seq) + 1 /\ new[Len(seq) + 1] = m
      /\ \A i \in 1 .. Len(seq) : new[i] = seq[i] /\ seq[i] \in Msgs
  BY <1>1, AppendProperties, LenProperties, ElementOfSeq
<1>3. m[1] = p /\ m[2] = count[p] + 1  OBVIOUS
<1>4. \A i \in 1 .. Len(seq) : seq[i][1] \in Sources /\ seq[i][2] \in 1 .. MaxSent
  BY <1>2 DEF Msgs
<1>5. \A q \in Sources : then[q] = IF q = p THEN count[p] + 1 ELSE count[q]  OBVIOUS
<1> HIDE DEF m, new, then
<1>6. Ordered(new)
  <2> SUFFICES ASSUME NEW i \in 1 .. Len(new), NEW j \in 1 .. Len(new), i < j, new[i][1] = new[j][1]
               PROVE  new[i][2] < new[j][2]
    BY DEF Ordered
  <2>1. i \in 1 .. Len(seq)  BY <1>2
  <2>2. CASE j \in 1 .. Len(seq)  BY <1>2, <2>1, <2>2 DEF Ordered
  <2>3. CASE j = Len(seq) + 1
    <3>1. seq[i][1] = p /\ seq[i][2] <= count[p]  BY <1>2, <1>3, <2>1, <2>3 DEF Counted
    <3> QED  BY <1>2, <1>3, <1>4, <2>1, <2>3, <3>1
  <2> QED  BY <1>2, <2>2, <2>3
<1>7. Counted(new, then)
  <2> SUFFICES ASSUME NEW i \in 1 .. Len(new) PROVE new[i][2] <= then[new[i][1]]
    BY DEF Counted
  <2>1. CASE i \in 1 .. Len(seq)
    <3>1. seq[i][2] <= count[seq[i][1]]  BY <2>1 DEF Counted
    <3>2. PICK q, n : q = seq[i][1] /\ n = seq[i][2]  OBVIOUS
    <3>3. q \in Sources /\ n \in Int /\ n <= count[q]  BY <1>4, <2>1, <3>1, <3>2
    <3>4. count[q] \in Int /\ count[p] \in Int  BY <3>3, MaxSentAssumption
    <3>5. n <= then[q]  BY <1>5, <3>3, <3>4
    <3> QED  BY <1>2, <2>1, <3>2, <3>5
  <2>2. CASE i = Len(seq) + 1
    <3>1. count[p] \in Int  BY MaxSentAssumption
    <3> QED  BY <1>2, <1>3, <1>5, <2>2, <3>1
  <2> QED  BY <1>2, <2>1, <2>2
<1> QED  BY <1>6, <1>7 DEF m, new, then

\* A stream kept, by a step that sends nothing
Same(s) == Stream(s)' = Stream(s)

\* No step but a push changes what is done, in hand and queued of a plain service, or the
\* order of it.
LEMMA StreamsKept ==
    ASSUME DispatchInv, DispatchInv', HandsOK, HandsOK',
           \/ UNCHANGED vars
           \/ \E s \in Services : CreateBegin(s) \/ CreateEnd(s)
           \/ \E w \in Workers : WorkerStep(w)
    PROVE  sent' = sent /\ \A s \in Services : Plain(s) => Same(s)
<1>1. ASSUME mq' = mq, done' = done,
             \A w \in Workers, s \in Services :
                 (pc[w] = "callback" /\ cur[w] = s) <=> (pc'[w] = "callback" /\ cur'[w] = s),
             msg' = msg
      PROVE  \A s \in Services : Plain(s) => Same(s)
  <2>1. ASSUME NEW s \in Services, Plain(s) PROVE InHand(s)' = InHand(s)
    <3>1. CASE \A w \in Workers : ~(pc[w] = "callback" /\ cur[w] = s)
      BY <1>1, <2>1, <3>1 DEF HandsOK, HandOf, Plain
    <3>2. CASE \E w \in Workers : pc[w] = "callback" /\ cur[w] = s
      <4>1. PICK w \in Workers : pc[w] = "callback" /\ cur[w] = s  BY <3>2
      <4>2. InHand(s) = <<msg[w]>>  BY <2>1, <4>1 DEF HandsOK, HandOf
      <4>3. InHand(s)' = <<msg'[w]>>  BY <1>1, <2>1, <4>1 DEF HandsOK, HandOf, Plain
      <4> QED  BY <1>1, <4>2, <4>3
    <3> QED  BY <3>1, <3>2
  <2> QED  BY <1>1, <2>1 DEF Same, Stream
<1>2. CASE UNCHANGED vars
  <2>1. mq' = mq /\ done' = done /\ msg' = msg /\ pc' = pc /\ cur' = cur /\ sent' = sent
    BY <1>2 DEF vars, queues, workers
  <2> QED  BY <1>1, <2>1
<1>3. ASSUME NEW s \in Services, CreateBegin(s) \/ CreateEnd(s)
      PROVE  sent' = sent /\ \A u \in Services : Plain(u) => Same(u)
  <2>1. mq' = mq
    BY <1>3 DEF CreateBegin, CreateEnd, DispatchInv, InGlobalExact, TypeOK
  <2>2. done' = done /\ msg' = msg /\ pc' = pc /\ cur' = cur /\ sent' = sent
    BY <1>3 DEF CreateBegin, CreateEnd, workers
  <2> QED  BY <1>1, <2>1, <2>2
<1>4. ASSUME NEW w \in Workers, PopGlobal(w) \/ PopEmpty(w) \/ Requeue(w)
      PROVE  sent' = sent /\ \A u \in Services : Plain(u) => Same(u)
  <2>1. mq' = mq /\ done' = done /\ msg' = msg /\ sent' = sent
    BY <1>4 DEF PopGlobal, PopEmpty, Requeue
  <2>2. \A v \in Workers, s \in Services :
            (pc[v] = "callback" /\ cur[v] = s) <=> (pc'[v] = "callback" /\ cur'[v] = s)
    BY SMTT(60), <1>4 DEF PopGlobal, PopEmpty, Requeue, DispatchInv, TypeOK
  <2> QED  BY <1>1, <2>1, <2>2
<1>5. ASSUME NEW w \in Workers, NEW s \in Services, Plain(s), s # cur[w],
             PopMessage(w) \/ CallbackEnd(w)
      PROVE  Same(s)
  <2>1. mq'[s] = mq[s] /\ done'[s] = done[s]
    BY <1>5 DEF PopMessage, CallbackEnd, DispatchInv, TypeOK, queues
  <2>2. \A v \in Workers :
            /\ (pc[v] = "callback" /\ cur[v] = s) <=> (pc'[v] = "callback" /\ cur'[v] = s)
            /\ cur[v] = s => msg'[v] = msg[v]
    BY <1>5 DEF PopMessage, CallbackEnd, DispatchInv, TypeOK
  <2>3. InHand(s)' = InHand(s)
    <3>1. CASE \A v \in Workers : ~(pc[v] = "callback" /\ cur[v] = s)
      BY <1>5, <2>2, <3>1 DEF HandsOK, HandOf, Plain
    <3>2. CASE \E v \in Workers : pc[v] = "callback" /\ cur[v] = s
      <4>1. PICK v \in Workers : pc[v] = "callback" /\ cur[v] = s  BY <3>2
      <4>2. InHand(s) = <<msg[v]>>  BY <1>5, <4>1 DEF HandsOK, HandOf
      <4>3. InHand(s)' = <<msg'[v]>>  BY <1>5, <2>2, <4>1 DEF HandsOK, HandOf, Plain
      <4> QED  BY <2>2, <4>1, <4>2, <4>3
    <3> QED  BY <3>1, <3>2
  <2> QED  BY <2>1, <2>3 DEF Same, Stream
<1>6. ASSUME NEW w \in Workers, PopMessage(w), Plain(cur[w])
      PROVE  Same(cur[w])
  <2>1. PICK s \in Services : s = cur[w]  BY <1>6 DEF PopMessage, DispatchInv, WorkersOK
  <2>2. \A v \in Workers : ~(pc[v] = "callback" /\ cur[v] = s)
    <3>1. Holds(w, s)  BY <1>6, <2>1 DEF PopMessage, Holds
    <3> QED  BY <1>6, <2>1, <3>1 DEF PopMessage, DispatchInv, OnePlace, Holds
  <2>3. InHand(s) = <<>>  BY <1>6, <2>1, <2>2 DEF HandsOK, HandOf
  <2>4. /\ pc'[w] = "callback" /\ cur'[w] = s /\ msg'[w] = Head(mq[s])
        /\ mq'[s] = Tail(mq[s]) /\ mq[s] # <<>> /\ done'[s] = done[s]
    BY <1>6, <2>1 DEF PopMessage, DispatchInv, TypeOK
  <2>5. InHand(s)' = <<Head(mq[s])>>
    BY <1>6, <2>1, <2>4 DEF HandsOK, HandOf, Plain
  <2>6. done[s] \in Seq(Msgs) /\ mq[s] \in Seq(Msgs)  BY DEF DispatchInv, TypeOK
  <2>7. Head(mq[s]) \in Msgs  BY <2>4, <2>6, HeadTailProperties
  <2>8. done[s] \o <<Head(mq[s])>> \o Tail(mq[s]) = done[s] \o <<>> \o mq[s]
    BY <2>4, <2>6, TakingUp
  <2>9. Stream(s)' = done[s] \o <<Head(mq[s])>> \o Tail(mq[s])
    BY <2>4, <2>5 DEF Stream
  <2>10. Stream(s) = done[s] \o <<>> \o mq[s]  BY <2>3 DEF Stream
  <2>11. Same(s)  BY <2>8, <2>9, <2>10 DEF Same
  <2> QED  BY <2>1, <2>11
<1>7. ASSUME NEW w \in Workers, CallbackEnd(w), Plain(cur[w])
      PROVE  Same(cur[w])
  <2>1. PICK s \in Services : s = cur[w]  BY <1>7 DEF CallbackEnd, DispatchInv, WorkersOK
  <2>2. InHand(s) = <<msg[w]>> /\ msg[w] \in Msgs
    BY <1>7, <2>1 DEF CallbackEnd, HandsOK, HandOf, DispatchInv, TypeOK, WorkersOK
  <2>3. /\ cur' = cur /\ pc' = [pc EXCEPT ![w] = "requeue"]
        /\ mq' = mq /\ done'[s] = Append(done[s], msg[w])
    BY <1>7, <2>1 DEF CallbackEnd, DispatchInv, TypeOK, queues
  <2>4. \A v \in Workers : ~(pc'[v] = "callback" /\ cur'[v] = s)
    <3>1. Holds(w, s)  BY <1>7, <2>1 DEF CallbackEnd, Holds
    <3> QED  BY <1>7, <2>1, <2>3, <3>1 DEF DispatchInv, TypeOK, OnePlace, Holds
  <2>5. InHand(s)' = <<>>  BY <1>7, <2>1, <2>4 DEF HandsOK, HandOf, Plain
  <2>6. done[s] \in Seq(Msgs) /\ mq[s] \in Seq(Msgs)  BY DEF DispatchInv, TypeOK
  <2>7. Append(done[s], msg[w]) \o <<>> \o mq[s] = done[s] \o <<msg[w]>> \o mq[s]
    <3>1. PICK m \in Msgs : m = msg[w]  BY <2>2
    <3>2. Append(done[s], m) \o <<>> \o mq[s] = done[s] \o <<m>> \o mq[s]
      BY <2>6, Finishing
    <3> QED  BY <3>1, <3>2
  <2>8. Same(s)  BY <2>2, <2>3, <2>5, <2>7 DEF Same, Stream
  <2> QED  BY <2>1, <2>8
<1>8. ASSUME NEW w \in Workers, WorkerStep(w)
      PROVE  sent' = sent /\ \A s \in Services : Plain(s) => Same(s)
  <2>1. CASE PopMessage(w) \/ CallbackEnd(w)
    <3>1. sent' = sent  BY <2>1 DEF PopMessage, CallbackEnd
    <3> QED  BY <2>1, <3>1, <1>5, <1>6, <1>7
  <2> QED  BY <1>4, <1>8, <2>1 DEF WorkerStep
<1> QED  BY <1>2, <1>3, <1>8

\* Only a message sent changes a stream, and it comes last.
LEMMA OrderSend ==
    ASSUME DispatchInv, OrderInv, HandsOK, HandsOK',
           NEW p \in Sources, NEW to \in Services, SendFrom(p, to)
    PROVE  OrderInv'
<1> DEFINE m == <<p, sent[p] + 1>>
<1>1. /\ done' = done /\ pc' = pc /\ cur' = cur /\ msg' = msg
      /\ mq' = [mq EXCEPT ![to] = Append(@, m)] /\ sent' = [sent EXCEPT ![p] = @ + 1]
      /\ sent[p] < MaxSent
  BY DEF SendFrom, Push, workers
<1>2. sent \in [Sources -> 0 .. MaxSent] /\ m \in Msgs
  BY <1>1, MaxSentAssumption DEF DispatchInv, TypeOK, Msgs
<1>3. ASSUME NEW s \in Services, Plain(s)
      PROVE  Ordered(Stream(s))' /\ Counted(Stream(s), sent)'
  <2>1. InHand(s)' = InHand(s) /\ InHand(s) \in Seq(Msgs)
    BY <1>1, <1>3 DEF InHand, HandsOK, HandOf
  <2>2. done[s] \in Seq(Msgs) /\ mq[s] \in Seq(Msgs) /\ mq \in [Services -> Seq(Msgs)]
    BY DEF DispatchInv, TypeOK
  <2>3. Stream(s) \in Seq(Msgs)  BY <2>1, <2>2 DEF Stream
  <2>4. Ordered(Stream(s)) /\ Counted(Stream(s), sent)  BY <1>3 DEF OrderInv
  <2> HIDE DEF m
  <2>5. /\ Ordered(Append(Stream(s), m))
        /\ Counted(Append(Stream(s), m), [sent EXCEPT ![p] = @ + 1])
    BY <1>1, <1>2, <2>3, <2>4, NewestLast DEF m
  <2>6. CASE s = to
    <3>1. mq'[s] = Append(mq[s], m) /\ done'[s] = done[s]  BY <1>1, <2>2, <2>6
    <3>2. done[s] \o InHand(s) \o Append(mq[s], m) = Append(done[s] \o InHand(s) \o mq[s], m)
      <4>1. PICK d \in Seq(Msgs), h \in Seq(Msgs), q \in Seq(Msgs), n \in Msgs :
                d = done[s] /\ h = InHand(s) /\ q = mq[s] /\ n = m
        BY <1>2, <2>1, <2>2
      <4>2. d \o h \o Append(q, n) = Append(d \o h \o q, n)  BY Arriving
      <4> QED  BY <4>1, <4>2
    <3>3. Stream(s)' = done[s] \o InHand(s) \o Append(mq[s], m)  BY <2>1, <3>1 DEF Stream
    <3>4. Stream(s)' = Append(Stream(s), m)  BY <3>2, <3>3 DEF Stream
    <3> QED  BY <1>1, <2>5, <3>4 DEF Ordered, Counted
  <2>7. CASE s # to
    <3>1. Stream(s)' = Stream(s)  BY <1>1, <2>1, <2>2, <2>7 DEF Stream
    <3>2. \A q \in Sources : sent[q] <= sent'[q] /\ sent[q] \in Int /\ sent'[q] \in Int
      BY <1>1, <1>2, MaxSentAssumption
    <3>3. \A i \in 1 .. Len(Stream(s)) : Stream(s)[i] \in Msgs  BY <2>3, ElementOfSeq
    <3>4. ASSUME NEW i \in 1 .. Len(Stream(s))
          PROVE  Stream(s)[i][2] <= sent'[Stream(s)[i][1]]
      <4>1. PICK q \in Sources, n \in 1 .. MaxSent : Stream(s)[i] = <<q, n>>
        BY <3>3 DEF Msgs
      <4>2. n <= sent[q]  BY <2>4, <4>1 DEF Counted
      <4>3. n <= sent'[q]  BY <3>2, <4>2
      <4> QED  BY <4>1, <4>3
    <3> QED  BY <2>4, <3>1, <3>4 DEF Ordered, Counted
  <2> QED  BY <2>6, <2>7
<1> QED  BY <1>3 DEF OrderInv, Plain

\* Messages of one source to one plain service are begun, and their callbacks return, in the
\* order they were sent.
THEOREM SourceOrderAlways == Spec => []SourceOrder
<1>1. Init => OrderInv
  <2> SUFFICES ASSUME Init PROVE OrderInv  OBVIOUS
  <2>1. ASSUME NEW s \in Services PROVE Stream(s) = <<>>
    BY <2>1 DEF Init, Stream, InHand
  <2> QED  BY <2>1 DEF OrderInv, Ordered, Counted
<1>2. DispatchInv /\ HandsOK /\ DispatchInv' /\ HandsOK' /\ OrderInv /\ [Next]_vars => OrderInv'
  <2> SUFFICES ASSUME DispatchInv, HandsOK, DispatchInv', HandsOK', OrderInv, [Next]_vars
               PROVE  OrderInv'
    OBVIOUS
  <2>1. CASE \/ UNCHANGED vars
             \/ \E s \in Services : CreateBegin(s) \/ CreateEnd(s)
             \/ \E w \in Workers : WorkerStep(w)
    <3>1. sent' = sent /\ \A s \in Services : Plain(s) => Same(s)  BY <2>1, StreamsKept
    <3> QED  BY <3>1 DEF OrderInv, Same, Plain, Ordered, Counted
  <2>2. ASSUME NEW t \in Threads, NEW s \in Services, ThreadSend(t, s) PROVE OrderInv'
    BY <2>2, OrderSend DEF ThreadSend, Sources
  <2>3. ASSUME NEW w \in Workers, NEW s \in Services, CallbackSend(w, s) PROVE OrderInv'
    <3>1. cur[w] \in Sources  BY <2>3 DEF CallbackSend, DispatchInv, WorkersOK, Sources
    <3> QED  BY <2>3, <3>1, OrderSend DEF CallbackSend
  <2> QED  BY <2>1, <2>2, <2>3 DEF Next
<1>3. OrderInv => SourceOrder  BY DEF OrderInv, SourceOrder, Ordered
<1> QED  BY <1>1, <1>2, <1>3, InHandOf, DispatchInvAlways, PTL DEF Spec

-----------------------------------------------------------------------------
(* The refinement of Actors *)

\* The abstract job of a worker is there exactly while its callback runs.
LEMMA JobOfWorker ==
    ASSUME DispatchInv, NEW w \in Workers
    PROVE  /\ (Job(w) # NoMsg) <=> pc[w] = "callback"
           /\ pc[w] = "callback" => /\ Job(w)[1] = cur[w] /\ Job(w)[2] = msg[w]
                                    /\ cur[w] \in Services
<1>1. CASE pc[w] = "callback"
  <2>1. cur[w] \in Services /\ msg[w] \in Msgs
    BY <1>1 DEF DispatchInv, TypeOK, WorkersOK
  <2>2. <<cur[w], msg[w]>> \in Services \X Msgs  BY <2>1
  <2> QED  BY <1>1, <2>1, <2>2, NoMsgAssumption DEF Job
<1>2. CASE pc[w] # "callback"  BY <1>2 DEF Job
<1> QED  BY <1>1, <1>2

\* Each step of the scheduler is a step of Actors, or changes nothing there.
LEMMA ActorsStep ==
    ASSUME DispatchInv, [Next]_vars
    PROVE  [Abstract!Next]_(Abstract!vars)
<1> USE DEF Abstract!vars
<1>u. CASE UNCHANGED vars
  BY <1>u DEF vars, queues, workers, Job
<1>1. ASSUME NEW s \in Services, CreateBegin(s) PROVE UNCHANGED Abstract!vars
  <2>1. mq' = mq
    BY <1>1 DEF CreateBegin, DispatchInv, TypeOK, InGlobalExact
  <2>2. \A u \in Services : phase'[u] = "running" <=> phase[u] = "running"
    BY <1>1 DEF CreateBegin, DispatchInv, TypeOK
  <2> QED  BY <1>1, <2>1, <2>2 DEF CreateBegin, workers, Job
<1>2. ASSUME NEW s \in Services, CreateEnd(s) PROVE Abstract!Start(s)
  <2>1. \A u \in Services : phase'[u] = "running" <=> phase[u] = "running" \/ u = s
    BY <1>2 DEF CreateEnd, DispatchInv, TypeOK
  <2> QED  BY <1>2, <2>1 DEF CreateEnd, workers, Job, Abstract!Start
<1>3. ASSUME NEW p \in Sources, NEW s \in Services, SendFrom(p, s)
      PROVE  \E m \in Msgs : Abstract!Send(s, m)
  <2>1. <<p, sent[p] + 1>> \in Msgs
    BY <1>3, MaxSentAssumption DEF SendFrom, DispatchInv, TypeOK, Msgs
  <2>2. Abstract!Send(s, <<p, sent[p] + 1>>)
    BY <1>3 DEF SendFrom, Push, workers, Job, Abstract!Send
  <2> QED  BY <2>1, <2>2
<1>4. ASSUME NEW w \in Workers, PopGlobal(w) \/ PopEmpty(w) \/ Requeue(w)
      PROVE  UNCHANGED Abstract!vars
  <2>1. \A v \in Workers : Job(v)' = Job(v)
    BY <1>4 DEF PopGlobal, PopEmpty, Requeue, DispatchInv, TypeOK, Job
  <2>2. mq' = mq /\ phase' = phase /\ done' = done
    BY <1>4 DEF PopGlobal, PopEmpty, Requeue
  <2> QED  BY <2>1, <2>2
<1>5. ASSUME NEW w \in Workers, PopMessage(w)
      PROVE  \E s \in Services : Abstract!Begin(w, s)
  <2>1. PICK s \in Services : s = cur[w]
    BY <1>5 DEF PopMessage, DispatchInv, WorkersOK
  <2>2. Holds(w, s) /\ phase[s] = "running"
    BY <1>5, <2>1 DEF PopMessage, Holds, DispatchInv, InGlobalExact, TypeOK
  <2>3. Job(w) = NoMsg  BY <1>5 DEF PopMessage, Job
  <2>4. Plain(s) => \A v \in Workers : ~(pc[v] = "callback" /\ cur[v] = s)
    BY <1>5, <2>2 DEF PopMessage, DispatchInv, OnePlace, Holds
  <2>5. \A v \in Workers : Job(v) # NoMsg /\ Job(v)[1] = s =>
            pc[v] = "callback" /\ cur[v] = s
    BY JobOfWorker
  <2>6. Plain(s) => Abstract!Running(s) = {}
    BY <2>4, <2>5 DEF Abstract!Running
  <2>7. [v \in Workers |-> Job(v)]' =
            [[v \in Workers |-> Job(v)] EXCEPT ![w] = <<s, Head(mq[s])>>]
    BY <1>5, <2>1 DEF PopMessage, DispatchInv, TypeOK, Job
  <2>8. Abstract!Begin(w, s)
    BY <1>5, <2>1, <2>2, <2>3, <2>6, <2>7 DEF PopMessage, Plain, Abstract!Begin
  <2> QED  BY <2>8
<1>6. ASSUME NEW w \in Workers, CallbackEnd(w) PROVE Abstract!Finish(w)
  <2>1. Job(w) # NoMsg /\ Job(w)[1] = cur[w] /\ Job(w)[2] = msg[w]
    BY <1>6, JobOfWorker DEF CallbackEnd
  <2>2. [v \in Workers |-> Job(v)]' = [[v \in Workers |-> Job(v)] EXCEPT ![w] = NoMsg]
    BY <1>6 DEF CallbackEnd, DispatchInv, TypeOK, Job
  <2> QED  BY <1>6, <2>1, <2>2 DEF CallbackEnd, queues, Abstract!Finish
<1>7. CASE Next
  <2>1. ASSUME NEW t \in Threads, NEW s \in Services, ThreadSend(t, s)
        PROVE  \E m \in Msgs : Abstract!Send(s, m)
    BY <2>1, <1>3 DEF ThreadSend, Sources
  <2>2. ASSUME NEW w \in Workers, NEW s \in Services, CallbackSend(w, s)
        PROVE  \E m \in Msgs : Abstract!Send(s, m)
    <3>1. cur[w] \in Sources
      BY <2>2 DEF CallbackSend, DispatchInv, WorkersOK, Sources
    <3> QED  BY <2>2, <3>1, <1>3 DEF CallbackSend
  <2> QED
    BY <1>7, <1>1, <1>2, <2>1, <2>2, <1>4, <1>5, <1>6
    DEF Next, WorkerStep, Abstract!Next
<1> QED  BY <1>u, <1>7

\* The scheduler implements Actors for any number of services, workers and
\* messages.
THEOREM SchedulerImplementsActors == Spec => ImplementsActors
<1>1. Init => Abstract!Init
  BY DEF Init, Abstract!Init, Job
<1> QED
  BY <1>1, ActorsStep, DispatchInvAlways, PTL
  DEF Spec, ImplementsActors, Abstract!Spec
=============================================================================
