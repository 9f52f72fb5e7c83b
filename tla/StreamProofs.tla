----------------------------- MODULE StreamProofs -----------------------------
(***************************************************************************)
(* What the peer of a socket is sent, for any number of slots, ids, senders *)
(* and requests and for messages of any size: whole messages, end to end,   *)
(* those of one sender in the order it sent them.                           *)
(*                                                                          *)
(* Whole messages follow from WholeInv: what waits in a slot goes on where  *)
(* its wire stops.  Their order follows from OrderInv: the messages in the  *)
(* pipe, in the slots and on the wires are numbered by the sends their      *)
(* sender has left, and the numbers fall along each of these lists.         *)
(***************************************************************************)
EXTENDS SocketServerProofs

-----------------------------------------------------------------------------
(* What is on the wire and what waits to be written to it *)

WireBytes == [msg : Msgs, byte : 1 .. MsgSize]

\* Of lists of things with a message: write buffers, or bytes
MsgsOf(list) == {list[p].msg : p \in 1 .. Len(list)}
Waits(s) == MsgsOf(s.dw) \cup MsgsOf(s.high) \cup MsgsOf(s.low)
CarriedAt == {n \in 1 .. Len(pipe) : pipe[n].op \in Carried}
Piped == {pipe[n].msg : n \in CarriedAt}

\* Of the wires: each has the bytes of messages for its socket, which has or had a descriptor
WireOK ==
    /\ wire \in [Ids -> Seq(WireBytes)]
    /\ \A i \in Ids : \A m \in MsgsOf(wire[i]) : m.to = i
    /\ \A i \in Ids : wire[i] # <<>> => seen[i] \in Sendable

\* What waits, or is in the pipe, is for the socket with which it waits.
Addressed ==
    /\ \A k \in Slots : \A m \in Waits(slot[k]) : m.to = slot[k].id
    /\ \A n \in CarriedAt : pipe[n].msg.to = pipe[n].id

\* A wire ends with a whole message, or in the middle of one that a list goes on with.
WholeTo(w) == w = <<>> \/ w[Len(w)].byte = MsgSize
Fresh(list) == \A p \in 1 .. Len(list) : list[p].ptr = 0
FreshTail(list) == \A p \in 2 .. Len(list) : list[p].ptr = 0
GoesOn(w, list) ==
    /\ FreshTail(list)
    /\ IF WholeTo(w) THEN Fresh(list)
       ELSE /\ list # <<>>
            /\ list[1].msg = w[Len(w)].msg /\ list[1].ptr = w[Len(w)].byte

\* On a wire a byte follows the one before it in its message, or begins another.
Follows(a, b) == IF a.byte = MsgSize THEN b.byte = 1 ELSE b.msg = a.msg /\ b.byte = a.byte + 1
Chained(w) ==
    /\ w # <<>> => w[1].byte = 1
    /\ \A x \in 2 .. Len(w) : Follows(w[x - 1], w[x])

\* Of a slot and its socket's wire, while the socket is not on its way to be closed
GoesOnFrom(s, w) ==
    /\ Chained(w)
    /\ IF s.dw = <<>> THEN GoesOn(w, s.high) ELSE GoesOn(w, s.dw) /\ Len(s.dw) = 1 /\ Fresh(s.high)
Live(k) == slot[k].type \notin Unused /\ poll.forcing.k # k
LiveWhole == \A k \in Slots : Live(k) => GoesOnFrom(slot[k], wire[slot[k].id])

\* Who is about to write begins a message.
WritersBegin ==
    \A t \in Senders : sender[t].pc = "write" /\ Live(K(t)) =>
        slot[K(t)].dw = <<>> /\ WholeTo(wire[sender[t].msg.to])

WholeInv == WireOK /\ Addressed /\ LiveWhole /\ WritersBegin

\* The sums go up with every buffer.
LEMMA SumsRise ==
    ASSUME NEW list \in Seq(Buffers)
    PROVE  \A i, j \in 0 .. Len(list) : i < j => TheSums(list)[i] < TheSums(list)[j]
<1> PICK up : up = TheSums(list)  OBVIOUS
<1>1. /\ up \in [0 .. Len(list) -> Nat] /\ Len(list) \in Nat
      /\ \A j \in 1 .. Len(list) :
            up[j] = up[j - 1] + Left(list[j]) /\ Left(list[j]) \in Nat \ {0}
  BY SumsExist
<1> SUFFICES ASSUME NEW i \in 0 .. Len(list), {j \in Nat : i < j /\ j <= Len(list) /\ ~(up[i] < up[j])} # {}
             PROVE  FALSE
  OBVIOUS
<1> DEFINE Odd == {j \in Nat : i < j /\ j <= Len(list) /\ ~(up[i] < up[j])}
<1>2. PICK m \in Odd : \A j \in Odd : m <= j
  <2>1. Odd \in SUBSET Nat /\ Odd # {}  OBVIOUS
  <2> HIDE DEF Odd
  <2> QED  BY <2>1, LeastElement
<1>3. /\ m \in 1 .. Len(list) /\ m - 1 \in Nat /\ i <= m - 1 /\ ~(m <= m - 1) /\ ~(up[i] < up[m])
      /\ m - 1 <= Len(list) /\ m - 1 \in 0 .. Len(list)
  BY <1>1
<1>4. up[i] < up[m - 1] \/ i = m - 1  BY <1>1, <1>2, <1>3
<1>5. up[m] = up[m - 1] + Left(list[m]) /\ Left(list[m]) \in Nat \ {0} /\ up[m - 1] \in Nat /\ up[i] \in Nat
  BY <1>1, <1>3
<1> QED  BY <1>3, <1>4, <1>5, SMTT(30)

\* n bytes: the x-th is of the buffer f[x], and d buffers are written whole.
SentParts(list, up, r, n, d, f) ==
    /\ n \in Nat /\ d \in 0 .. Len(list) /\ f \in [1 .. n -> 1 .. Len(list)]
    /\ Len(r.bytes) = n /\ r.bytes \in Seq(WireBytes)
    /\ \A x \in 1 .. n :
          /\ up[f[x] - 1] < x /\ x <= up[f[x]]
          /\ r.bytes[x] = [msg |-> list[f[x]].msg, byte |-> list[f[x]].ptr + x - up[f[x] - 1]]
    /\ up[d] <= n /\ (d < Len(list) => n < up[d + 1])
    /\ r.rest \in Seq(Buffers) /\ Len(r.rest) = Len(list) - d
    /\ \A j \in 1 .. Len(list) - d :
          r.rest[j] = IF j = 1 THEN [msg |-> list[d + 1].msg, ptr |-> list[d + 1].ptr + n - up[d]]
                      ELSE list[d + j]

\* What send_list_tcp writes and leaves, by buffers
LEMMA SendListParts ==
    ASSUME NEW list \in Seq(Buffers), NEW room \in Nat, list # <<>>
    PROVE  \E n, d, f : n <= room /\ SentParts(list, TheSums(list), SendList(list, room), n, d, f)
<1> PICK up : up = TheSums(list)  OBVIOUS
<1> DEFINE n == Min(room, up[Len(list)])
           Of(x) == CHOOSE j \in 1 .. Len(list) : up[j - 1] < x /\ x <= up[j]
           bytes == [x \in 1 .. n |-> [msg |-> list[Of(x)].msg,
                                       byte |-> list[Of(x)].ptr + x - up[Of(x) - 1]]]
           Done(j) == up[j] <= n /\ (j < Len(list) => n < up[j + 1])
           done == CHOOSE j \in 0 .. Len(list) : Done(j)
           rest == [j \in 1 .. Len(list) - done |->
                       IF j = 1 THEN [list[done + 1] EXCEPT !.ptr = @ + n - up[done]]
                       ELSE list[done + j]]
           f == [x \in 1 .. n |-> Of(x)]
<1>1. SendList(list, room) = [bytes |-> bytes, rest |-> rest]
  BY DEF SendList, TheSums, Sums
<1>2. /\ up \in [0 .. Len(list) -> Nat] /\ up[0] = 0 /\ Len(list) \in Nat \ {0}
      /\ \A j \in 1 .. Len(list) :
            /\ list[j] \in Buffers
            /\ up[j] = up[j - 1] + Left(list[j])
  <2>1. Len(list) \in Nat \ {0}  BY EmptySeq
  <2> QED  BY <2>1, SumsExist
<1>3. n \in Nat /\ n <= room /\ n <= up[Len(list)]  BY <1>2 DEF Min
<1> HIDE DEF n
\* the least of the buffers up to which there are more than y bytes
<1>4. ASSUME NEW y \in Nat, y < up[Len(list)]
      PROVE  \E j \in 1 .. Len(list) : up[j - 1] <= y /\ y < up[j]
  <2> DEFINE Above == {j \in Nat : j \in 1 .. Len(list) /\ y < up[j]}
  <2>1. PICK m \in Above : \A j \in Above : m <= j
    <3>1. Above \in SUBSET Nat /\ Len(list) \in Above  BY <1>2, <1>4
    <3> HIDE DEF Above
    <3> QED  BY <3>1, LeastElement
  <2>2. m \in 1 .. Len(list) /\ y < up[m] /\ m - 1 \in 0 .. Len(list) /\ ~(m <= m - 1) /\ m - 1 \in Nat
    BY <1>2
  <2>3. m - 1 \notin Above  BY <2>1, <2>2
  <2>4. up[m - 1] <= y
    <3>1. CASE m - 1 = 0  BY <1>2, <3>1
    <3>2. CASE m - 1 # 0
      <4>1. m - 1 \in 1 .. Len(list)  BY <1>2, <2>2, <3>2
      <4>2. ~(y < up[m - 1]) /\ up[m - 1] \in Nat  BY <1>2, <2>2, <2>3, <4>1
      <4> QED  BY <4>2
    <3> QED  BY <3>1, <3>2
  <2> HIDE DEF Above
  <2> QED  BY <2>2, <2>4
<1>5. ASSUME NEW x \in 1 .. n
      PROVE  Of(x) \in 1 .. Len(list) /\ up[Of(x) - 1] < x /\ x <= up[Of(x)]
  <2>1. x - 1 \in Nat /\ x - 1 < up[Len(list)] /\ x \in Nat  BY <1>2, <1>3
  <2>2. PICK j \in 1 .. Len(list) : up[j - 1] <= x - 1 /\ x - 1 < up[j]  BY <1>4, <2>1
  <2>3. up[j - 1] \in Nat /\ up[j] \in Nat  BY <1>2
  <2>4. up[j - 1] < x /\ x <= up[j]  BY <2>1, <2>2, <2>3
  <2> QED  BY <2>4
<1>6. done \in 0 .. Len(list) /\ Done(done)
  <2>1. \E j \in 0 .. Len(list) : Done(j)
    <3>1. CASE n < up[Len(list)]
      <4>1. PICK j \in 1 .. Len(list) : up[j - 1] <= n /\ n < up[j]  BY <1>3, <1>4, <3>1
      <4>2. j - 1 \in 0 .. Len(list) /\ (j - 1) + 1 = j  BY <1>2
      <4>3. Done(j - 1)  BY <4>1, <4>2
      <4> QED  BY <4>2, <4>3
    <3>2. CASE ~(n < up[Len(list)])
      <4>1. up[Len(list)] \in Nat  BY <1>2
      <4>2. Done(Len(list)) /\ Len(list) \in 0 .. Len(list)  BY <1>2, <1>3, <3>2, <4>1
      <4> HIDE DEF Done
      <4> QED  BY <4>2
    <3> QED  BY <3>1, <3>2
  <2> HIDE DEF Done
  <2> QED  BY <2>1
<1> HIDE DEF done
<1>7. ASSUME NEW x \in 1 .. n
      PROVE  bytes[x] \in WireBytes /\ f[x] \in 1 .. Len(list) /\ f[x] = Of(x)
  <2> PICK j : j = Of(x)  OBVIOUS
  <2> PICK b : b = list[j]  OBVIOUS
  <2>1. j \in 1 .. Len(list) /\ up[j - 1] < x /\ x <= up[j] /\ f[x] = j  BY <1>5
  <2>2. b \in Buffers /\ up[j] = up[j - 1] + Left(b) /\ up[j - 1] \in Nat /\ x \in Nat
    BY <1>2, <1>3, <2>1
  <2>3. b.msg \in Msgs /\ b.ptr \in 0 .. MsgSize - 1 /\ MsgSize \in Nat
    BY <2>2, SocketAssumption DEF Buffers
  <2>4. b.ptr + x - up[j - 1] \in 1 .. MsgSize  BY <2>1, <2>2, <2>3, SMTT(30) DEF Left
  <2>5. bytes[x] = [msg |-> b.msg, byte |-> b.ptr + x - up[j - 1]]  OBVIOUS
  <2> QED  BY <2>1, <2>3, <2>4, <2>5 DEF WireBytes
<1>8. bytes \in Seq(WireBytes) /\ Len(bytes) = n /\ f \in [1 .. n -> 1 .. Len(list)]
  <2>1. bytes = [x \in 1 .. n |-> bytes[x]]  OBVIOUS
  <2> HIDE DEF bytes
  <2>2. f = [x \in 1 .. n |-> f[x]]  OBVIOUS
  <2> HIDE DEF f
  <2> QED  BY SMTT(60), <1>3, <1>7, <2>1, <2>2
<1>9. \A j \in 1 .. Len(list) - done : done + j \in 1 .. Len(list)
  BY <1>2, <1>6
<1>10. ASSUME NEW j \in 1 .. Len(list) - done
       PROVE  /\ rest[j] \in Buffers
              /\ rest[j] = IF j = 1 THEN [msg |-> list[done + 1].msg, ptr |-> list[done + 1].ptr + n - up[done]]
                           ELSE list[done + j]
  <2>1. CASE j = 1
    <3>1. done + 1 \in 1 .. Len(list) /\ done < Len(list) /\ done \in 0 .. Len(list)
          /\ (done + 1) - 1 = done
      BY <1>2, <1>6, <1>9, <2>1
    <3> PICK b : b = list[done + 1]  OBVIOUS
    <3>2. b \in Buffers /\ up[done + 1] = up[done] + Left(b)  BY <1>2, <3>1
    <3>3. up[done] <= n /\ n < up[done] + Left(b) /\ up[done] \in Nat
      BY <1>2, <1>6, <3>1, <3>2
    <3>4. /\ b = [msg |-> b.msg, ptr |-> b.ptr] /\ b.msg \in Msgs /\ b.ptr \in 0 .. MsgSize - 1
          /\ MsgSize \in Nat
      BY <3>2, SocketAssumption DEF Buffers
    <3>5. b.ptr + n - up[done] \in 0 .. MsgSize - 1  BY <1>3, <3>3, <3>4, SMTT(30) DEF Left
    <3> PICK ptr : ptr = b.ptr + n - up[done]  OBVIOUS
    <3>6. rest[j] = [msg |-> b.msg, ptr |-> ptr]  BY <2>1, <3>4
    <3>7. rest[j] \in Buffers  BY ONLY <3>4, <3>5, <3>6, ptr = b.ptr + n - up[done] DEF Buffers
    <3> QED  BY <2>1, <3>6, <3>7
  <2>2. CASE j # 1
    <3>1. rest[j] = list[done + j]  BY <2>2
    <3> QED  BY <1>2, <1>9, <2>2, <3>1
  <2> QED  BY <2>1, <2>2
<1>11. rest \in Seq(Buffers) /\ Len(rest) = Len(list) - done
  <2>1. Len(list) - done \in Nat  BY <1>2, <1>6
  <2>2. rest = [j \in 1 .. Len(list) - done |-> rest[j]]  OBVIOUS
  <2> HIDE DEF rest
  <2> QED  BY <1>10, <2>1, <2>2
<1>12. \A x \in 1 .. n :
          /\ up[f[x] - 1] < x /\ x <= up[f[x]]
          /\ bytes[x] = [msg |-> list[f[x]].msg, byte |-> list[f[x]].ptr + x - up[f[x] - 1]]
  BY <1>5, <1>7
<1>13. SentParts(list, up, SendList(list, room), n, done, f)
  <2> HIDE DEF bytes, rest, f, Of
  <2>1. SendList(list, room).bytes = bytes /\ SendList(list, room).rest = rest  BY <1>1
  <2> QED  BY <1>3, <1>6, <1>8, <1>10, <1>11, <1>12, <2>1 DEF SentParts
<1> HIDE DEF f
<1> QED  BY <1>3, <1>13

-----------------------------------------------------------------------------
(* A wire goes on with what is written of a list *)

\* One list after another, index by index
LEMMA JoinFacts ==
    ASSUME NEW Elems, NEW a \in Seq(Elems), NEW b \in Seq(Elems)
    PROVE  /\ a \o b \in Seq(Elems) /\ Len(a \o b) = Len(a) + Len(b)
           /\ Len(a) \in Nat /\ Len(b) \in Nat
           /\ \A x \in 1 .. Len(a) : (a \o b)[x] = a[x]
           /\ \A x \in 1 .. Len(b) : (a \o b)[Len(a) + x] = b[x]
  OBVIOUS

\* It has the messages of both.
LEMMA MsgsOfJoin ==
    ASSUME NEW Elems, NEW a \in Seq(Elems), NEW b \in Seq(Elems)
    PROVE  MsgsOf(a \o b) = MsgsOf(a) \cup MsgsOf(b)
<1> PICK c : c = a \o b  OBVIOUS
<1>1. /\ Len(c) = Len(a) + Len(b) /\ Len(a) \in Nat /\ Len(b) \in Nat
      /\ \A x \in 1 .. Len(a) : c[x] = a[x]
      /\ \A x \in 1 .. Len(b) : c[Len(a) + x] = b[x]
  BY JoinFacts
<1>2. ASSUME NEW m \in MsgsOf(c) PROVE m \in MsgsOf(a) \cup MsgsOf(b)
  <2>1. PICK x \in 1 .. Len(c) : m = c[x].msg  BY DEF MsgsOf
  <2>2. CASE x <= Len(a)
    <3>1. x \in 1 .. Len(a)  BY <1>1, <2>2
    <3> QED  BY <1>1, <2>1, <3>1 DEF MsgsOf
  <2>3. CASE ~(x <= Len(a))
    <3>1. x - Len(a) \in 1 .. Len(b) /\ Len(a) + (x - Len(a)) = x  BY <1>1, <2>3
    <3>2. c[x] = b[x - Len(a)]  BY <1>1, <3>1
    <3> QED  BY <2>1, <3>1, <3>2 DEF MsgsOf
  <2> QED  BY <2>2, <2>3
<1>3. ASSUME NEW m \in MsgsOf(a) PROVE m \in MsgsOf(c)
  <2>1. PICK x \in 1 .. Len(a) : m = a[x].msg  BY DEF MsgsOf
  <2>2. x \in 1 .. Len(c) /\ c[x] = a[x]  BY <1>1
  <2> QED  BY <2>1, <2>2 DEF MsgsOf
<1>4. ASSUME NEW m \in MsgsOf(b) PROVE m \in MsgsOf(c)
  <2>1. PICK x \in 1 .. Len(b) : m = b[x].msg  BY DEF MsgsOf
  <2>2. Len(a) + x \in 1 .. Len(c) /\ c[Len(a) + x] = b[x]  BY <1>1
  <2> QED  BY <2>1, <2>2 DEF MsgsOf
<1> QED  BY <1>2, <1>3, <1>4

\* Bytes after a wire
LEMMA ChainedJoin ==
    ASSUME NEW w \in Seq(WireBytes), NEW b \in Seq(WireBytes), Chained(w),
           b # <<>> => IF WholeTo(w) THEN b[1].byte = 1 ELSE Follows(w[Len(w)], b[1]),
           \A x \in 2 .. Len(b) : Follows(b[x - 1], b[x])
    PROVE  Chained(w \o b)
<1> PICK c : c = w \o b  OBVIOUS
<1>1. /\ Len(c) = Len(w) + Len(b) /\ Len(w) \in Nat /\ Len(b) \in Nat
      /\ \A x \in 1 .. Len(w) : c[x] = w[x]
      /\ \A x \in 1 .. Len(b) : c[Len(w) + x] = b[x]
      /\ c \in Seq(WireBytes)
  BY JoinFacts
<1>2. ASSUME c # <<>> PROVE c[1].byte = 1
  <2>1. CASE w = <<>>
    <3>1. Len(w) = 0 /\ b # <<>> /\ Len(b) > 0  BY <1>1, <1>2, <2>1
    <3>2. c[0 + 1] = b[1]  BY <1>1, <3>1
    <3> QED  BY <2>1, <3>1, <3>2 DEF WholeTo
  <2>2. CASE w # <<>>
    <3>1. Len(w) > 0  BY <2>2
    <3>2. c[1] = w[1]  BY <1>1, <3>1
    <3> QED  BY <2>2, <3>2 DEF Chained
  <2> QED  BY <2>1, <2>2
<1>3. ASSUME NEW x \in 2 .. Len(c) PROVE Follows(c[x - 1], c[x])
  <2>1. CASE x <= Len(w)
    <3>1. c[x] = w[x] /\ c[x - 1] = w[x - 1] /\ x \in 2 .. Len(w)  BY <1>1, <2>1
    <3> QED  BY <3>1 DEF Chained
  <2>2. CASE x = Len(w) + 1
    <3>1. 1 \in 1 .. Len(b) /\ b # <<>>  BY <1>1, <2>2
    <3>2. c[x] = b[1]  BY <1>1, <2>2, <3>1
    <3>3. x - 1 = Len(w) /\ x - 1 \in 1 .. Len(w) /\ w # <<>>  BY <1>1, <2>2
    <3>4. c[x - 1] = w[Len(w)]  BY <1>1, <3>3
    <3> QED  BY <3>1, <3>2, <3>3, <3>4 DEF WholeTo, Follows
  <2>3. CASE x > Len(w) + 1
    <3>1. /\ x - Len(w) \in 2 .. Len(b) /\ Len(w) + (x - Len(w)) = x
          /\ (x - Len(w)) - 1 \in 1 .. Len(b) /\ Len(w) + ((x - Len(w)) - 1) = x - 1
      BY <1>1, <2>3
    <3>2. c[x] = b[x - Len(w)] /\ c[x - 1] = b[(x - Len(w)) - 1]  BY <1>1, <3>1
    <3> QED  BY <3>1, <3>2
  <2> QED  BY <1>1, <2>1, <2>2, <2>3
<1> QED  BY <1>2, <1>3 DEF Chained

\* Where it ends then
LEMMA WholeToJoin ==
    ASSUME NEW w \in Seq(WireBytes), NEW b \in Seq(WireBytes)
    PROVE  /\ b = <<>> => w \o b = w
           /\ b # <<>> => /\ (w \o b)[Len(w \o b)] = b[Len(b)] /\ Len(b) \in 1 .. Len(b)
                          /\ (WholeTo(w \o b) <=> b[Len(b)].byte = MsgSize)
<1>1. ASSUME b # <<>>
      PROVE  /\ (w \o b)[Len(w \o b)] = b[Len(b)] /\ Len(b) \in 1 .. Len(b) /\ w \o b # <<>>
  <2>1. Len(b) \in 1 .. Len(b)  BY <1>1
  <2>2. Len(w \o b) = Len(w) + Len(b) /\ (w \o b)[Len(w) + Len(b)] = b[Len(b)]
    BY <2>1, JoinFacts
  <2>3. w \o b # <<>>  BY <1>1
  <2> QED  BY <2>1, <2>2, <2>3
<1> QED  BY <1>1 DEF WholeTo

-----------------------------------------------------------------------------
(* The buffers of the bytes written *)

\* Where the sums say a buffer ends, the next begins.
EndToEnd(list, up, n, d, f) ==
    /\ Len(list) \in Nat /\ n \in Nat /\ d \in 0 .. Len(list)
    /\ up \in [0 .. Len(list) -> Nat] /\ up[0] = 0
    /\ \A i, j \in 0 .. Len(list) : (i < j <=> up[i] < up[j])
    /\ \A j \in 1 .. Len(list) :
          up[j] = up[j - 1] + MsgSize - list[j].ptr /\ list[j].ptr \in 0 .. MsgSize - 1
    /\ \A x \in 1 .. n : f[x] \in 1 .. Len(list) /\ up[f[x] - 1] < x /\ x <= up[f[x]]
    /\ MsgSize \in Nat \ {0}

\* So it is of the buffers sent.
LEMMA PartsUp ==
    ASSUME NEW list \in Seq(Buffers), NEW r, NEW n, NEW d, NEW f, NEW up, up = TheSums(list),
           SentParts(list, up, r, n, d, f)
    PROVE  EndToEnd(list, up, n, d, f)
<1>1. Len(list) \in Nat /\ n \in Nat /\ d \in 0 .. Len(list) /\ MsgSize \in Nat \ {0}
  BY SocketAssumption DEF SentParts
<1>2. /\ up \in [0 .. Len(list) -> Nat] /\ up[0] = 0
      /\ \A j \in 1 .. Len(list) : list[j] \in Buffers /\ up[j] = up[j - 1] + Left(list[j])
  BY SumsExist
<1>3. \A i, j \in 0 .. Len(list) : i < j => up[i] < up[j]
  BY SumsRise
<1>4. \A i, j \in 0 .. Len(list) : up[i] < up[j] => i < j
  <2> SUFFICES ASSUME NEW i \in 0 .. Len(list), NEW j \in 0 .. Len(list), up[i] < up[j], ~(i < j)
               PROVE  FALSE
    OBVIOUS
  <2>1. i = j \/ j < i  BY <1>1
  <2>2. up[i] \in Nat /\ up[j] \in Nat  BY <1>2
  <2>3. i = j \/ up[j] < up[i]  BY <1>3, <2>1
  <2> QED  BY <2>2, <2>3
<1>5. ASSUME NEW j \in 1 .. Len(list)
      PROVE  up[j] = up[j - 1] + MsgSize - list[j].ptr /\ list[j].ptr \in 0 .. MsgSize - 1
  <2>1. list[j].ptr \in 0 .. MsgSize - 1  BY <1>2 DEF Buffers
  <2>2. up[j] = up[j - 1] + (MsgSize - list[j].ptr) /\ up[j - 1] \in Nat  BY <1>1, <1>2 DEF Left
  <2> QED  BY <1>1, <2>1, <2>2
<1>6. \A x \in 1 .. n : f[x] \in 1 .. Len(list) /\ up[f[x] - 1] < x /\ x <= up[f[x]]
  BY DEF SentParts
<1> QED  BY <1>1, <1>2, <1>3, <1>4, <1>5, <1>6 DEF EndToEnd

\* The buffers come one after the other, the last being the last one written or the one begun.
OneAfterAnother(list, up, n, d, f) ==
    /\ \A x, y \in 1 .. n : x < y => f[x] <= f[y]
    /\ \A x \in 1 .. n : f[x] <= d + 1
    /\ n # 0 => f[1] = 1
    /\ \A x \in 2 .. n : f[x - 1] # f[x] => f[x - 1] = f[x] - 1 /\ up[f[x] - 1] = x - 1
    /\ n # 0 => IF up[d] = n THEN f[n] = d /\ d # 0 ELSE f[n] = d + 1 /\ d < Len(list)
    /\ n = 0 => d = 0

\* So do those sent.
LEMMA PartsRise ==
    ASSUME NEW list \in Seq(Buffers), NEW r, NEW n, NEW d, NEW f, NEW up, up = TheSums(list),
           SentParts(list, up, r, n, d, f)
    PROVE  OneAfterAnother(list, up, n, d, f)
<1>0. /\ Len(list) \in Nat /\ n \in Nat /\ d \in 0 .. Len(list)
      /\ up \in [0 .. Len(list) -> Nat] /\ up[0] = 0
      /\ \A i, j \in 0 .. Len(list) : (i < j <=> up[i] < up[j])
      /\ \A x \in 1 .. n : f[x] \in 1 .. Len(list) /\ up[f[x] - 1] < x /\ x <= up[f[x]]
  <2>1. EndToEnd(list, up, n, d, f)  BY PartsUp
  <2> QED  BY <2>1 DEF EndToEnd
<1> USE <1>0
<1>1. ASSUME NEW x \in 1 .. n, NEW y \in 1 .. n, x < y PROVE f[x] <= f[y]
  <2>1. f[x] - 1 \in 0 .. Len(list) /\ f[y] \in 0 .. Len(list)  OBVIOUS
  <2>2. up[f[x] - 1] < up[f[y]]
    <3>1. up[f[x] - 1] \in Nat /\ up[f[y]] \in Nat  BY <2>1
    <3>2. up[f[x] - 1] < x /\ y <= up[f[y]]  OBVIOUS
    <3> QED  BY <1>1, <3>1, <3>2
  <2>3. f[x] - 1 < f[y]  BY <2>1, <2>2
  <2> QED  BY <2>1, <2>3, SMTT(30)
<1>2. ASSUME NEW x \in 1 .. n PROVE f[x] <= d + 1
  <2>1. CASE d = Len(list)  BY <2>1
  <2>2. CASE d # Len(list)
    <3>1. f[x] - 1 \in 0 .. Len(list) /\ d + 1 \in 0 .. Len(list) /\ d < Len(list)  BY <2>2
    <3>2. n < up[d + 1]  BY <3>1 DEF SentParts
    <3>3. up[f[x] - 1] < up[d + 1]
      <4>1. up[f[x] - 1] \in Nat /\ up[d + 1] \in Nat /\ up[f[x] - 1] < x  BY <3>1
      <4> QED  BY <3>2, <4>1
    <3>4. f[x] - 1 < d + 1  BY <3>1, <3>3
    <3> QED  BY <3>1, <3>4
  <2> QED  BY <2>1, <2>2
<1>3. ASSUME n # 0 PROVE f[1] = 1
  <2>1. 1 \in 1 .. n  BY <1>3
  <2>2. f[1] - 1 \in 0 .. Len(list) /\ 0 \in 0 .. Len(list) /\ up[f[1] - 1] < 1  BY <2>1
  <2>3. ~(0 < f[1] - 1)
    <3>1. up[f[1] - 1] \in Nat /\ ~(up[0] < up[f[1] - 1])  BY <2>2
    <3> QED  BY <2>2, <3>1
  <2> QED  BY <2>1, <2>2, <2>3
<1>4. ASSUME NEW x \in 2 .. n, f[x - 1] # f[x] PROVE f[x - 1] = f[x] - 1 /\ up[f[x] - 1] = x - 1
  <2>1. x \in 1 .. n /\ x - 1 \in 1 .. n /\ x - 1 < x  OBVIOUS
  <2>2. f[x - 1] < f[x]
    <3>1. f[x - 1] <= f[x] /\ f[x - 1] \in 1 .. Len(list) /\ f[x] \in 1 .. Len(list)  BY <1>1, <2>1
    <3> QED  BY <1>4, <3>1
  <2>3. f[x - 1] \in 0 .. Len(list) /\ f[x] - 1 \in 0 .. Len(list)  BY <2>1
  <2>4. up[f[x] - 1] < x /\ x - 1 <= up[f[x - 1]] /\ up[f[x - 1]] \in Nat /\ up[f[x] - 1] \in Nat
    BY <2>1, <2>3
  <2>5. ~(up[f[x] - 1] < up[f[x - 1]])
    <3>1. ~(f[x] - 1 < f[x - 1])  BY <2>2, <2>3
    <3> QED  BY <2>3, <3>1
  <2>6. ~(up[f[x - 1]] < up[f[x] - 1])  BY <2>4, SMTT(30)
  <2>7. up[f[x] - 1] = x - 1 /\ up[f[x - 1]] = up[f[x] - 1]  BY SMTT(60), <2>1, <2>4, <2>5, <2>6
  <2>8. ~(f[x - 1] < f[x] - 1)  BY <2>3, <2>6
  <2> QED  BY <2>2, <2>3, <2>7, <2>8
<1>5. up[d] <= n /\ up[d] \in Nat /\ (d < Len(list) => n < up[d + 1])
  BY DEF SentParts
<1>6. ASSUME n # 0 PROVE IF up[d] = n THEN f[n] = d /\ d # 0 ELSE f[n] = d + 1 /\ d < Len(list)
  <2>1. n \in 1 .. n /\ f[n] \in 0 .. Len(list) /\ f[n] - 1 \in 0 .. Len(list)  BY <1>6
  <2>2. up[f[n] - 1] < n /\ n <= up[f[n]] /\ up[f[n]] \in Nat /\ up[f[n] - 1] \in Nat  BY <2>1
  <2>3. CASE up[d] = n
    <3>1. f[n] - 1 < d  BY <2>1, <2>2, <2>3
    <3>2. ~(f[n] < d)
      <4>1. ~(up[f[n]] < up[d])  BY <1>5, <2>2, <2>3, SMTT(30)
      <4> QED  BY <2>1, <4>1
    <3> QED  BY <2>1, <2>3, <3>1, <3>2
  <2>4. CASE up[d] # n
    <3>1. up[d] < up[f[n]]  BY <1>5, <2>2, <2>4
    <3>2. d < f[n]  BY <2>1, <3>1
    <3>3. f[n] <= d + 1  BY <1>2, <2>1
    <3> QED  BY <2>1, <2>4, <3>2, <3>3
  <2> QED  BY <2>3, <2>4
<1>7. ASSUME n = 0 PROVE d = 0
  <2>1. 0 \in 0 .. Len(list) /\ ~(up[0] < up[d])  BY <1>5, <1>7
  <2>2. ~(0 < d)  BY <2>1
  <2> QED  BY <2>2
<1> QED  BY <1>1, <1>2, <1>3, <1>4, <1>6, <1>7 DEF OneAfterAnother

\* What is written of a list that a wire goes on with goes on with the wire, and the rest of
\* the list with that.
LEMMA PartsGoOn ==
    ASSUME NEW list \in Seq(Buffers), NEW r, NEW n, NEW d, NEW f, NEW up, up = TheSums(list),
           SentParts(list, up, r, n, d, f), list # <<>>,
           NEW w \in Seq(WireBytes), Chained(w), GoesOn(w, list)
    PROVE  Chained(w \o r.bytes) /\ GoesOn(w \o r.bytes, r.rest)
<1>0. /\ Len(list) \in Nat /\ n \in Nat /\ d \in 0 .. Len(list) /\ MsgSize \in Nat \ {0}
      /\ up \in [0 .. Len(list) -> Nat] /\ up[0] = 0
      /\ \A i, j \in 0 .. Len(list) : (i < j <=> up[i] < up[j])
      /\ \A j \in 1 .. Len(list) :
            up[j] = up[j - 1] + MsgSize - list[j].ptr /\ list[j].ptr \in 0 .. MsgSize - 1
      /\ \A x \in 1 .. n : f[x] \in 1 .. Len(list) /\ up[f[x] - 1] < x /\ x <= up[f[x]]
  <2>1. EndToEnd(list, up, n, d, f)  BY PartsUp
  <2> QED  BY <2>1 DEF EndToEnd
<1>1. /\ \A x \in 1 .. n : f[x] <= d + 1
      /\ n # 0 => f[1] = 1
      /\ \A x \in 2 .. n : f[x - 1] # f[x] => f[x - 1] = f[x] - 1 /\ up[f[x] - 1] = x - 1
      /\ n # 0 => IF up[d] = n THEN f[n] = d /\ d # 0 ELSE f[n] = d + 1 /\ d < Len(list)
      /\ n = 0 => d = 0
  <2>1. OneAfterAnother(list, up, n, d, f)  BY PartsRise
  <2> QED  BY <2>1 DEF OneAfterAnother
<1> PICK b : b = r.bytes  OBVIOUS
<1> PICK rest : rest = r.rest  OBVIOUS
<1>2. /\ Len(b) = n /\ b \in Seq(WireBytes)
      /\ \A x \in 1 .. n :
            b[x] = [msg |-> list[f[x]].msg, byte |-> list[f[x]].ptr + x - up[f[x] - 1]]
      /\ rest \in Seq(Buffers) /\ Len(rest) = Len(list) - d
      /\ \A j \in 1 .. Len(list) - d :
            rest[j] = IF j = 1 THEN [msg |-> list[d + 1].msg, ptr |-> list[d + 1].ptr + n - up[d]]
                      ELSE list[d + j]
      /\ up[d] <= n
  BY DEF SentParts
<1>3. ASSUME NEW x \in 1 .. n PROVE b[x].byte \in 1 .. MsgSize
  <2>1. b[x] \in WireBytes  BY <1>2
  <2> QED  BY <2>1 DEF WireBytes
<1>4. \A x \in 1 .. n : /\ b[x].msg = list[f[x]].msg
                        /\ b[x].byte = list[f[x]].ptr + x - up[f[x] - 1]
                        /\ f[x] \in 1 .. Len(list) /\ up[f[x] - 1] \in Nat
                        /\ list[f[x]].ptr \in Nat
                        /\ up[f[x]] = up[f[x] - 1] + MsgSize - list[f[x]].ptr
                        /\ up[f[x]] \in Nat /\ x \in Nat
  <2> SUFFICES ASSUME NEW x \in 1 .. n, NEW j, j = f[x]
               PROVE  /\ b[x].msg = list[j].msg /\ b[x].byte = list[j].ptr + x - up[j - 1]
                      /\ j \in 1 .. Len(list) /\ up[j - 1] \in Nat
                      /\ list[j].ptr \in Nat
                      /\ up[j] = up[j - 1] + MsgSize - list[j].ptr
                      /\ up[j] \in Nat /\ x \in Nat
    OBVIOUS
  <2>1. j \in 1 .. Len(list) /\ j - 1 \in 0 .. Len(list) /\ j \in 0 .. Len(list)  BY SMTT(60), <1>0
  <2>2. b[x] = [msg |-> list[j].msg, byte |-> list[j].ptr + x - up[j - 1]]  BY <1>2
  <2> QED  BY SMTT(60), <1>0, <2>1, <2>2
<1>5. \A p \in 2 .. Len(list) : list[p].ptr = 0  BY DEF GoesOn, FreshTail
<1>6. ASSUME b # <<>> PROVE IF WholeTo(w) THEN b[1].byte = 1 ELSE Follows(w[Len(w)], b[1])
  <2>1. n # 0 /\ 1 \in 1 .. n  BY <1>0, <1>2, <1>6
  <2>2. f[1] = 1 /\ up[f[1] - 1] = 0  BY <1>0, <1>1, <2>1
  <2>3. b[1].byte = list[1].ptr + 1 /\ b[1].msg = list[1].msg
    <3>1. b[1].byte = list[1].ptr + 1 - 0 /\ list[1].ptr \in Nat /\ b[1].msg = list[1].msg
      <4> PICK y : y = 1  OBVIOUS
      <4>1. /\ b[y].msg = list[f[y]].msg /\ b[y].byte = list[f[y]].ptr + y - up[f[y] - 1]
            /\ list[f[y]].ptr \in Nat
        BY <1>4, <2>1
      <4> QED  BY <2>2, <4>1
    <3> QED  BY <3>1
  <2>4. CASE WholeTo(w)
    <3>1. list[1].ptr = 0  BY <1>4, <2>1, <2>2, <2>4 DEF GoesOn, Fresh
    <3> QED  BY <2>3, <2>4, <3>1
  <2>5. CASE ~WholeTo(w)
    <3>1. list[1].msg = w[Len(w)].msg /\ list[1].ptr = w[Len(w)].byte /\ w[Len(w)].byte # MsgSize
      BY <2>5 DEF GoesOn, WholeTo
    <3> QED  BY <2>3, <2>5, <3>1 DEF Follows
  <2> QED  BY <2>4, <2>5
<1>7. ASSUME NEW x \in 2 .. Len(b) PROVE Follows(b[x - 1], b[x])
  <2>1. x \in 2 .. n /\ x \in 1 .. n /\ x - 1 \in 1 .. n  BY <1>2
  <2>2. CASE f[x - 1] = f[x]
    <3> PICK j : j = f[x]  OBVIOUS
    <3>0. /\ b[x].byte = list[j].ptr + x - up[j - 1] /\ b[x].msg = list[j].msg
          /\ b[x - 1].byte = list[j].ptr + (x - 1) - up[j - 1] /\ b[x - 1].msg = list[j].msg
          /\ list[j].ptr \in Nat /\ up[j - 1] \in Nat /\ x \in Nat
      <4> PICK y : y = x - 1  OBVIOUS
      <4>1. /\ b[x].msg = list[j].msg /\ b[x].byte = list[j].ptr + x - up[j - 1]
            /\ list[j].ptr \in Nat /\ up[j - 1] \in Nat /\ x \in Nat
        BY <1>4, <2>1
      <4>2. b[y].msg = list[f[y]].msg /\ b[y].byte = list[f[y]].ptr + y - up[f[y] - 1]
        BY <1>4, <2>1
      <4>3. f[y] = j  BY <2>2
      <4> QED  BY <4>1, <4>2, <4>3
    <3>1. b[x].byte = b[x - 1].byte + 1 /\ b[x].msg = b[x - 1].msg
      <4> PICK ptr, start : ptr = list[j].ptr /\ start = up[j - 1]  OBVIOUS
      <4>1. /\ b[x].byte = ptr + x - start /\ b[x - 1].byte = ptr + (x - 1) - start
            /\ ptr \in Nat /\ start \in Nat /\ x \in Nat
        BY <3>0
      <4>2. ptr + x - start = (ptr + (x - 1) - start) + 1  BY ONLY <4>1
      <4> QED  BY <3>0, <4>1, <4>2
    <3>2. b[x - 1].byte # MsgSize  BY SMTT(60), <1>0, <1>3, <2>1, <3>1
    <3> QED  BY <3>1, <3>2 DEF Follows
  <2>3. CASE f[x - 1] # f[x]
    <3>1. f[x - 1] = f[x] - 1 /\ up[f[x] - 1] = x - 1  BY <1>1, <2>1, <2>3
    <3>2. up[f[x - 1]] = x - 1  BY <3>1
    <3>3. b[x - 1].byte = MsgSize
      <4> PICK y : y = x - 1  OBVIOUS
      <4> PICK j : j = f[y]  OBVIOUS
      <4>1. /\ b[y].byte = list[j].ptr + y - up[j - 1]
            /\ up[j] = up[j - 1] + MsgSize - list[j].ptr
            /\ list[j].ptr \in Nat /\ up[j - 1] \in Nat /\ y \in Nat
        BY <1>4, <2>1
      <4>2. up[j] = y  BY <3>2
      <4> PICK ptr, start : ptr = list[j].ptr /\ start = up[j - 1]  OBVIOUS
      <4>3. /\ b[y].byte = ptr + y - start /\ y = start + MsgSize - ptr
            /\ ptr \in Nat /\ start \in Nat /\ y \in Nat /\ MsgSize \in Nat
        BY <1>0, <4>1, <4>2
      <4>4. ptr + y - start = MsgSize  BY ONLY <4>3
      <4> QED  BY <4>3, <4>4
    <3>4. f[x] \in 2 .. Len(list)  BY <1>4, <2>1, <3>1
    <3>5. list[f[x]].ptr = 0  BY <1>5, <3>4
    <3>6. b[x].byte = 0 + x - (x - 1)  BY <1>4, <2>1, <3>1, <3>5
    <3> QED  BY <2>1, <3>3, <3>6 DEF Follows
  <2> QED  BY <2>2, <2>3
<1>8. Chained(w \o b)  BY <1>2, <1>6, <1>7, ChainedJoin
<1>9. FreshTail(rest)
  <2> SUFFICES ASSUME NEW j \in 2 .. Len(rest) PROVE rest[j].ptr = 0  BY DEF FreshTail
  <2>1. j \in 1 .. Len(list) - d /\ j # 1 /\ d + j \in 2 .. Len(list)  BY <1>0, <1>2
  <2> QED  BY <1>2, <1>5, <2>1
<1>10. CASE n = 0
  <2>1. b = <<>> /\ d = 0 /\ up[d] = 0  BY <1>0, <1>1, <1>2, <1>10
  <2>2. w \o b = w  BY <1>2, <2>1, WholeToJoin
  <2>3. Len(list) > 0 /\ 1 \in 1 .. Len(list) /\ list[1] \in Buffers  BY <1>0
  <2>4. \A p \in 1 .. Len(list) : rest[p].ptr = list[p].ptr /\ rest[p].msg = list[p].msg
    BY <1>0, <1>2, <1>10, <2>1
  <2>5. Len(rest) = Len(list) /\ rest # <<>>  BY <1>0, <1>2, <2>1, <2>3
  <2> QED  BY <1>8, <1>9, <2>2, <2>3, <2>4, <2>5 DEF GoesOn, Fresh
<1>11. CASE n # 0
  <2>1. b # <<>> /\ n \in 1 .. n  BY <1>0, <1>2, <1>11
  <2>2. (w \o b)[Len(w \o b)] = b[n] /\ (WholeTo(w \o b) <=> b[n].byte = MsgSize)
    BY <1>2, <2>1, WholeToJoin
  <2>3. CASE up[d] = n
    <3>1. f[n] = d /\ d # 0  BY <1>1, <1>11, <2>3
    <3>2. b[n].byte = MsgSize
      <4>1. /\ b[n].byte = list[d].ptr + n - up[d - 1] /\ up[d] = up[d - 1] + MsgSize - list[d].ptr
            /\ list[d].ptr \in Nat /\ up[d - 1] \in Nat
        <5>1. /\ b[n].byte = list[f[n]].ptr + n - up[f[n] - 1]
              /\ up[f[n]] = up[f[n] - 1] + MsgSize - list[f[n]].ptr
              /\ list[f[n]].ptr \in Nat /\ up[f[n] - 1] \in Nat
          BY <1>4, <2>1
        <5> QED  BY <3>1, <5>1
      <4> QED  BY <1>0, <2>3, <4>1
    <3>3. ASSUME NEW j \in 1 .. Len(rest) PROVE rest[j].ptr = 0
      <4>1. j \in 1 .. Len(list) - d /\ d + j \in 2 .. Len(list)  BY <1>0, <1>2, <3>1
      <4>2. CASE j = 1
        <5>1. d + 1 \in 2 .. Len(list) /\ list[d + 1].ptr = 0  BY <1>5, <4>1, <4>2
        <5> QED  BY SMTT(60), <1>0, <1>2, <2>3, <4>1, <4>2, <5>1
      <4>3. CASE j # 1  BY <1>2, <1>5, <4>1, <4>3
      <4> QED  BY <4>2, <4>3
    <3> QED  BY <1>8, <1>9, <2>2, <3>2, <3>3 DEF GoesOn, Fresh
  <2>4. CASE up[d] # n
    <3>1. f[n] = d + 1 /\ d < Len(list)  BY <1>1, <1>11, <2>4
    <3>2. 1 \in 1 .. Len(list) - d /\ d + 1 \in 1 .. Len(list) /\ (d + 1) - 1 = d
      BY <1>0, <3>1
    <3>3. rest[1].msg = list[d + 1].msg /\ rest[1].ptr = list[d + 1].ptr + n - up[d]
      <4>1. rest[1] = [msg |-> list[d + 1].msg, ptr |-> list[d + 1].ptr + n - up[d]]
        BY <1>2, <3>2
      <4> QED  BY <4>1
    <3>4. b[n].msg = rest[1].msg /\ b[n].byte = rest[1].ptr
      BY <1>4, <2>1, <3>1, <3>2, <3>3
    <3>5. rest # <<>> /\ rest[1] \in Buffers
      <4>1. Len(rest) > 0 /\ 1 \in 1 .. Len(rest)  BY <1>0, <1>2, <3>1, <3>2
      <4> QED  BY <1>2, <4>1
    <3>6. b[n].byte # MsgSize
      <4>1. rest[1].ptr \in 0 .. MsgSize - 1  BY <3>5 DEF Buffers
      <4> QED  BY <1>0, <3>4, <4>1
    <3> QED  BY <1>8, <1>9, <2>2, <3>4, <3>5, <3>6 DEF GoesOn
  <2> QED  BY <2>3, <2>4
<1> QED  BY <1>0, <1>10, <1>11

\* The same of send_list_tcp.
LEMMA SendListGoesOn ==
    ASSUME NEW list \in Seq(Buffers), NEW room \in Nat,
           NEW w \in Seq(WireBytes), Chained(w), GoesOn(w, list)
    PROVE  LET r == SendList(list, room)
           IN  /\ r.bytes \in Seq(WireBytes) /\ r.rest \in Seq(Buffers)
               /\ w \o r.bytes \in Seq(WireBytes)
               /\ Chained(w \o r.bytes) /\ GoesOn(w \o r.bytes, r.rest)
<1> PICK r : r = SendList(list, room)  OBVIOUS
<1>1. CASE list = <<>>
  <2>1. r = [bytes |-> <<>>, rest |-> <<>>]  BY <1>1 DEF SendList
  <2>2. r.bytes = <<>> /\ r.rest = list  BY <1>1, <2>1
  <2>3. w \o r.bytes = w  BY <2>2
  <2>4. <<>> \in Seq(WireBytes)  OBVIOUS
  <2> QED  BY <2>2, <2>3, <2>4
<1>2. CASE list # <<>>
  <2>1. PICK n, d, f : SentParts(list, TheSums(list), r, n, d, f)  BY <1>2, SendListParts
  <2>2. r.bytes \in Seq(WireBytes) /\ r.rest \in Seq(Buffers)  BY <2>1 DEF SentParts
  <2>3. Chained(w \o r.bytes) /\ GoesOn(w \o r.bytes, r.rest)  BY <1>2, <2>1, PartsGoOn
  <2>4. w \o r.bytes \in Seq(WireBytes)  BY <2>2, JoinFacts
  <2> QED  BY <2>2, <2>3, <2>4
<1> QED  BY <1>1, <1>2

-----------------------------------------------------------------------------
(* What most steps do to what waits: nothing, or they give it up with its socket *)

\* The lists are as they were, and the socket is not closed less than it was.
SameLists(k) ==
    /\ slot'[k].id = slot[k].id
    /\ slot'[k].dw = slot[k].dw /\ slot'[k].high = slot[k].high /\ slot'[k].low = slot[k].low
    /\ slot'[k].type \notin Unused => slot[k].type \notin Unused
    /\ Live(k)' => Live(k)
\* The socket is closed or on its way to be.
GivenUp(k) ==
    /\ slot'[k].id = slot[k].id
    /\ slot'[k].dw \in {slot[k].dw, <<>>} /\ slot'[k].high = <<>> /\ slot'[k].low = <<>>
    /\ slot'[k].type \notin Unused => slot[k].type \notin Unused
    /\ ~Live(k)'
\* The slot is for a socket to which nothing was written yet.
Unwritten(k) ==
    /\ slot'[k].dw = <<>> /\ slot'[k].high = <<>> /\ slot'[k].low = <<>>
    /\ slot'[k].type \notin Unused => wire[slot'[k].id] = <<>>
Rests(k) == SameLists(k) \/ GivenUp(k) \/ Unwritten(k)

\* A slot that is not touched
LEMMA UntouchedRests ==
    ASSUME NEW k \in Slots, slot'[k] = slot[k],
           Polling \/ poll'.forcing = poll.forcing \/ poll.forcing.k # k
    PROVE  SameLists(k)
<1>1. Polling => poll.forcing.k # k  BY HashInSlots DEF Polling, NotForcing
<1> QED  BY <1>1 DEF SameLists, Live

\* No slot is touched.
LEMMA AllRest ==
    ASSUME UNCHANGED slot, Polling \/ poll'.forcing = poll.forcing
    PROVE  \A k \in Slots : Rests(k)
BY UntouchedRests DEF Rests

\* One that is
LEMMA OneRests ==
    ASSUME LifeInv, NEW j \in Slots, NEW s, slot' = [slot EXCEPT ![j] = s],
           Polling \/ poll'.forcing = poll.forcing \/ poll.forcing.k = j,
           \/ /\ s.id = slot[j].id /\ s.dw = slot[j].dw /\ s.high = slot[j].high /\ s.low = slot[j].low
              /\ s.type \notin Unused => slot[j].type \notin Unused
              /\ Polling \/ poll'.forcing = poll.forcing
           \/ /\ s.id = slot[j].id /\ s.dw \in {slot[j].dw, <<>>} /\ s.high = <<>> /\ s.low = <<>>
              /\ s.type \in Unused \/ (slot[j].type \notin Unused /\ poll'.forcing.k = j)
           \/ /\ s.dw = <<>> /\ s.high = <<>> /\ s.low = <<>>
              /\ s.type \notin Unused => wire[s.id] = <<>>
    PROVE  \A k \in Slots : Rests(k)
<1>1. slot'[j] = s /\ \A k \in Slots : k # j => slot'[k] = slot[k]  BY DEF LifeInv, SlotShape
<1>2. ASSUME NEW k \in Slots, k # j PROVE Rests(k)
  BY <1>1, <1>2, UntouchedRests DEF Rests
<1>3. Rests(j)
  <2>1. Polling => poll.forcing.k # j  BY HashInSlots DEF Polling, NotForcing
  <2>2. CASE /\ s.id = slot[j].id /\ s.dw = slot[j].dw /\ s.high = slot[j].high /\ s.low = slot[j].low
             /\ s.type \notin Unused => slot[j].type \notin Unused
             /\ Polling \/ poll'.forcing = poll.forcing
    <3>1. SameLists(j)  BY <1>1, <2>1, <2>2 DEF SameLists, Live
    <3> QED  BY <3>1 DEF Rests
  <2>3. CASE /\ s.id = slot[j].id /\ s.dw \in {slot[j].dw, <<>>} /\ s.high = <<>> /\ s.low = <<>>
             /\ s.type \in Unused \/ (slot[j].type \notin Unused /\ poll'.forcing.k = j)
    <3>1. GivenUp(j)  BY <1>1, <2>3 DEF GivenUp, Live
    <3> QED  BY <3>1 DEF Rests
  <2>4. CASE /\ s.dw = <<>> /\ s.high = <<>> /\ s.low = <<>>
             /\ s.type \notin Unused => wire[s.id] = <<>>
    <3>1. Unwritten(j)  BY <1>1, <2>4 DEF Unwritten
    <3> QED  BY <3>1 DEF Rests
  <2> QED  BY <2>2, <2>3, <2>4
<1> QED  BY <1>2, <1>3

\* Nothing was written yet to a socket that has had no descriptor.
LEMMA NothingWritten ==
    ASSUME WireOK, NEW i \in Ids, seen[i] \notin Sendable
    PROVE  wire[i] = <<>>
BY DEF WireOK

\* Connect, Listen, OpenSocket, ListenSocket and ReportAccept: a slot is given to a socket.
LEMMA GivenRests ==
    ASSUME LifeInv, SendInv, WireOK, NEW id \in Ids,
           Polling \/ poll'.forcing = poll.forcing,
           NEW s, s.id = id, seen[id] \notin Sendable,
           slot[HASH_ID(id)].type \in Unused,
           s.high = slot[HASH_ID(id)].high, s.low = slot[HASH_ID(id)].low, s.dw \in {slot[HASH_ID(id)].dw, <<>>},
           slot' = [slot EXCEPT ![HASH_ID(id)] = s]
    PROVE  \A k \in Slots : Rests(k)
<1> PICK j : j = HASH_ID(id)  OBVIOUS
<1>1. j \in Slots  BY HashInSlots
<1>2. slot[j].high = <<>> /\ slot[j].low = <<>> /\ slot[j].dw = <<>>
  BY <1>1 DEF LifeInv, SlotsOK, SlotOK, SendInv, SlotsTyped, SlotTyped, Unused
<1>3. wire[s.id] = <<>>  BY NothingWritten
<1> QED  BY <1>1, <1>2, <1>3, OneRests

\* A slot is reserved.
LEMMA AskersRest ==
    ASSUME LifeInv, SendInv, WireOK, NEW id \in Ids, Connect(id) \/ Listen(id)
    PROVE  \A k \in Slots : Rests(k)
<1>1. /\ id \in FreeIds /\ seen[id] = "unborn" /\ UNCHANGED poll
      /\ slot' = [slot EXCEPT ![HASH_ID(id)] = Reserved(id)]
  BY DEF Connect, Listen, Reserve, Socket!Announce
<1> PICK s : s = Reserved(id)  OBVIOUS
<1>2. HASH_ID(id) \in Slots /\ slot[HASH_ID(id)].type \in Unused /\ DOMAIN slot[HASH_ID(id)] = Fields
  BY <1>1, HashInSlots DEF FreeIds, Unused, LifeInv, SlotShape
<1>3. /\ s.id = id /\ s.high = slot[HASH_ID(id)].high /\ s.low = slot[HASH_ID(id)].low
      /\ s.dw = slot[HASH_ID(id)].dw
  BY <1>2 DEF Reserved, Fields
<1>4. seen[id] \notin Sendable  BY <1>1 DEF Sendable
<1> QED  BY <1>1, <1>2, <1>3, <1>4, GivenRests

\* open_socket and listen_socket: the socket gets its slot, or fails.
LEMMA OpenersRest ==
    ASSUME LifeInv, SendInv, WireOK, OpenSocket \/ ListenSocket
    PROVE  \A k \in Slots : Rests(k)
<1> PICK id : id = Asked  OBVIOUS
<1> PICK j : j = HASH_ID(id)  OBVIOUS
<1>1. pipe # <<>> /\ Polling /\ Head(pipe).op \in Opening /\ AskedSlot = j
  BY DEF OpenSocket, ListenSocket, Command, Opening, AskedSlot
<1>2. id \in Ids /\ j \in Slots /\ RequestOK(Head(pipe)) /\ DOMAIN slot[j] = Fields
  BY <1>1, AskedFacts
<1>3. slot[j].id = id /\ slot[j].type = "RESERVE" /\ seen[id] \in {"connecting", "listening"}
  BY <1>1, <1>2 DEF RequestOK, Asked
<1>4. seen[id] \notin Sendable /\ slot[j].type \in Unused  BY <1>3 DEF Sendable, Unused
<1>5. ASSUME NEW s, DOMAIN s = Fields, s.id = id, s.high = slot[j].high, s.low = slot[j].low,
             s.dw \in {slot[j].dw, <<>>}, slot' = [slot EXCEPT ![j] = s]
      PROVE  \A k \in Slots : Rests(k)
  BY <1>1, <1>2, <1>4, <1>5, GivenRests
<1>6. \E s : /\ DOMAIN s = Fields /\ s.id = id /\ s.high = slot[j].high /\ s.low = slot[j].low
             /\ s.dw \in {slot[j].dw, <<>>} /\ slot' = [slot EXCEPT ![j] = s]
  <2>1. ASSUME NEW type, NEW reading
        PROVE  LET s == NewFd(id, type, reading)
               IN  /\ DOMAIN s = Fields /\ s.id = id /\ s.high = slot[j].high /\ s.low = slot[j].low
                   /\ s.dw = <<>>
    BY Zenon, <1>2 DEF NewFd, Fields
  <2>2. \/ slot' = [slot EXCEPT ![j].type = "INVALID"]
        \/ slot' = [slot EXCEPT ![j] = NewFd(id, "CONNECTED", TRUE)]
        \/ slot' = [slot EXCEPT ![j] = [NewFd(id, "CONNECTING", TRUE) EXCEPT !.writing = TRUE]]
        \/ slot' = [slot EXCEPT ![j] = NewFd(id, "PLISTEN", FALSE)]
    BY <1>1 DEF OpenSocket, ListenSocket
  <2>3. CASE slot' = [slot EXCEPT ![j].type = "INVALID"]
    <3> PICK s : s = [slot[j] EXCEPT !.type = "INVALID"]  OBVIOUS
    <3>1. DOMAIN s = Fields /\ s.id = id /\ s.high = slot[j].high /\ s.low = slot[j].low /\ s.dw = slot[j].dw
      BY <1>2, <1>3 DEF Fields
    <3>2. slot' = [slot EXCEPT ![j] = s]  BY <2>3
    <3> QED  BY <3>1, <3>2
  <2>4. CASE slot' = [slot EXCEPT ![j] = NewFd(id, "CONNECTED", TRUE)]  BY <2>1, <2>4
  <2>5. CASE slot' = [slot EXCEPT ![j] = [NewFd(id, "CONNECTING", TRUE) EXCEPT !.writing = TRUE]]
    <3> PICK n : n = NewFd(id, "CONNECTING", TRUE)  BY Zenon
    <3> PICK s : s = [n EXCEPT !.writing = TRUE]  OBVIOUS
    <3>1. DOMAIN n = Fields /\ n.id = id /\ n.high = slot[j].high /\ n.low = slot[j].low /\ n.dw = <<>>
      BY <2>1
    <3>2. DOMAIN s = Fields /\ s.id = id /\ s.high = slot[j].high /\ s.low = slot[j].low /\ s.dw = <<>>
      BY <3>1 DEF Fields
    <3>3. slot' = [slot EXCEPT ![j] = s]  BY <2>5
    <3> QED  BY <3>2, <3>3
  <2>6. CASE slot' = [slot EXCEPT ![j] = NewFd(id, "PLISTEN", FALSE)]  BY <2>1, <2>6
  <2> QED  BY <2>2, <2>3, <2>4, <2>5, <2>6
<1> QED  BY <1>5, <1>6

\* report_accept gives a slot to the client, if there is one.
LEMMA AcceptRests ==
    ASSUME LifeInv, SendInv, WireOK, ReportAccept
    PROVE  \A k \in Slots : Rests(k)
<1>1. Polling /\ E0.k # -1  BY DEF ReportAccept, Turn, EventNext
<1>2. CASE slot' = slot  BY <1>1, <1>2, AllRest
<1>3. ASSUME NEW id \in Ids, Reserve(id), slot' = [slot EXCEPT ![HASH_ID(id)] = NewFd(id, "PACCEPT", FALSE)],
             Socket!Announce(id, "accepted")
      PROVE  \A k \in Slots : Rests(k)
  <2> PICK s : s = NewFd(id, "PACCEPT", FALSE)  OBVIOUS
  <2>1. HASH_ID(id) \in Slots /\ slot[HASH_ID(id)].type \in Unused /\ DOMAIN slot[HASH_ID(id)] = Fields
    BY <1>3, HashInSlots DEF Reserve, FreeIds, Unused, LifeInv, SlotShape
  <2>2. /\ s.id = id /\ s.high = slot[HASH_ID(id)].high /\ s.low = slot[HASH_ID(id)].low
        /\ s.dw = <<>>
    BY <2>1 DEF NewFd, Fields
  <2>3. seen[id] \notin Sendable  BY <1>3 DEF Socket!Announce, Sendable
  <2> QED  BY <1>1, <1>3, <2>1, <2>2, <2>3, GivenRests
<1> QED  BY <1>2, <1>3 DEF ReportAccept

\* The flags and the type of a slot in use are written.
LEMMA FlagsRest ==
    ASSUME LifeInv, Polling, NEW k \in Slots, slot[k].type \notin Unused, NEW s,
           s.id = slot[k].id, s.dw = slot[k].dw, s.high = slot[k].high, s.low = slot[k].low,
           slot' = [slot EXCEPT ![k] = s]
    PROVE  \A j \in Slots : Rests(j)
BY OneRests

\* The socket is on its way to be closed.
LEMMA ForcedRests ==
    ASSUME LifeInv, Polling, NEW k \in Slots, slot[k].type \notin Unused,
           slot' = [slot EXCEPT ![k] = Emptied(slot[k])], poll'.forcing.k = k
    PROVE  \A j \in Slots : Rests(j)
<1> PICK s : s = Emptied(slot[k])  OBVIOUS
<1>1. s.id = slot[k].id /\ s.dw = slot[k].dw /\ s.high = <<>> /\ s.low = <<>>
  BY DEF Emptied, LifeInv, SlotShape, Fields
<1> QED  BY <1>1, OneRests

\* force_close ends.
LEMMA ForceCloseRests ==
    ASSUME LifeInv, ForceCloseEnds
    PROVE  \A j \in Slots : Rests(j)
<1> PICK k : k = poll.forcing.k  OBVIOUS
<1> PICK s : s = Closed(slot[k])  OBVIOUS
<1>1. k \in Slots /\ slot' = [slot EXCEPT ![k] = s]
  BY DEF ForceCloseEnds, Polling, LifeInv, PollShape, Forcings
<1>2. s.id = slot[k].id /\ s.dw = <<>> /\ s.high = <<>> /\ s.low = <<>> /\ s.type \in Unused
  BY <1>1 DEF Closed, LifeInv, SlotShape, Fields, Unused
<1> QED  BY <1>1, <1>2, OneRests

\* The requests that neither open nor send
LEMMA RequestsRest ==
    ASSUME LifeInv, SendInv, ResumeSocket \/ PauseSocket \/ CloseSocket \/ TriggerWrite
    PROVE  \A j \in Slots : Rests(j)
<1> PICK k : k = AskedSlot  OBVIOUS
<1>1. /\ Polling /\ pipe # <<>> /\ Head(pipe).op \in {"R", "S", "K", "K!", "W"}
  BY DEF ResumeSocket, PauseSocket, CloseSocket, TriggerWrite, Command
<1>2. Head(pipe).op \notin Opening \cup Carried  BY <1>1 DEF Opening, Carried
<1>3. /\ k \in Slots /\ DOMAIN slot[k] = Fields
      /\ ~socket_invalid(Asked) => slot[k].type \notin Unused
  BY <1>1, <1>2, AskedTyped
<1>4. CASE slot' = slot  BY <1>1, <1>4, AllRest
<1>5. ASSUME ~socket_invalid(Asked), NEW s, s.id = slot[k].id, s.dw = slot[k].dw,
             s.high = slot[k].high, s.low = slot[k].low, slot' = [slot EXCEPT ![k] = s]
      PROVE  \A j \in Slots : Rests(j)
  BY <1>1, <1>3, <1>5, FlagsRest
<1>6. ASSUME ~socket_invalid(Asked),
             \/ \E type : slot' = [slot EXCEPT ![k].reading = TRUE, ![k].type = type]
             \/ \E b : slot' = [slot EXCEPT ![k].reading = b]
             \/ slot' = [slot EXCEPT ![k].writing = TRUE] \/ slot' = [slot EXCEPT ![k].closing = TRUE]
             \/ slot' = [slot EXCEPT ![k].closing = TRUE, ![k].reading = FALSE, ![k].type = "HALFCLOSE_READ"]
      PROVE  \A j \in Slots : Rests(j)
  <2> PICK s : s = slot'[k]  OBVIOUS
  <2>1. slot' = [slot EXCEPT ![k] = s]  BY Zenon, <1>3, <1>6 DEF LifeInv, SlotShape
  <2>2. s.id = slot[k].id /\ s.dw = slot[k].dw /\ s.high = slot[k].high /\ s.low = slot[k].low
    <3>1. slot = [j \in Slots |-> slot[j]] /\ DOMAIN slot[k] = Fields
      BY <1>3 DEF LifeInv, SlotShape
    <3>2. ASSUME NEW type, slot' = [slot EXCEPT ![k].reading = TRUE, ![k].type = type]
          PROVE  s.id = slot[k].id /\ s.dw = slot[k].dw /\ s.high = slot[k].high /\ s.low = slot[k].low
      BY <1>3, <3>1, <3>2 DEF Fields
    <3>3. ASSUME NEW b, slot' = [slot EXCEPT ![k].reading = b]
          PROVE  s.id = slot[k].id /\ s.dw = slot[k].dw /\ s.high = slot[k].high /\ s.low = slot[k].low
      BY <1>3, <3>1, <3>3 DEF Fields
    <3>4. CASE slot' = [slot EXCEPT ![k].writing = TRUE]
      BY <1>3, <3>1, <3>4 DEF Fields
    <3>5. CASE slot' = [slot EXCEPT ![k].closing = TRUE]
      BY <1>3, <3>1, <3>5 DEF Fields
    <3>6. CASE slot' = [slot EXCEPT ![k].closing = TRUE, ![k].reading = FALSE, ![k].type = "HALFCLOSE_READ"]
      BY <1>3, <3>1, <3>6 DEF Fields
    <3> QED  BY <1>6, <3>2, <3>3, <3>4, <3>5, <3>6
  <2> QED  BY <1>5, <1>6, <2>1, <2>2
<1>7. CASE ResumeSocket
  <2>1. CASE ~(socket_invalid(Asked) \/ halfclose_read(slot[k]))
    <3> PICK type : type = CASE slot[k].type = "PACCEPT" -> "CONNECTED"
                             [] slot[k].type = "PLISTEN" -> "LISTEN"
                             [] OTHER -> slot[k].type
      OBVIOUS
    <3>1. slot' = [slot EXCEPT ![k].reading = TRUE, ![k].type = type]
      BY <1>3, <1>7, <2>1 DEF ResumeSocket, LifeInv, SlotShape, Fields
    <3> QED  BY <1>6, <2>1, <3>1
  <2> QED  BY <1>4, <1>7, <2>1 DEF ResumeSocket
<1>8. CASE PauseSocket \/ TriggerWrite  BY <1>4, <1>6, <1>8 DEF PauseSocket, TriggerWrite
<1>9. CASE CloseSocket
  <2>1. CASE ~socket_invalid(Asked) /\ slot' = [slot EXCEPT ![k] = Emptied(slot[k])]
                                    /\ poll'.forcing.k = k
    BY <1>1, <1>3, <2>1, ForcedRests
  <2>2. \/ slot' = slot
        \/ /\ ~socket_invalid(Asked)
           /\ \/ slot' = [slot EXCEPT ![k] = Emptied(slot[k])] /\ poll'.forcing.k = k
              \/ slot' = [slot EXCEPT ![k].closing = TRUE]
              \/ slot' = [slot EXCEPT ![k].closing = TRUE, ![k].reading = FALSE, ![k].type = "HALFCLOSE_READ"]
    BY <1>9 DEF CloseSocket, ForceClose, LifeInv, PollShape
  <2> QED  BY <1>4, <1>6, <2>1, <2>2
<1> QED  BY <1>7, <1>8, <1>9

\* The events that do not write
LEMMA EventsRest ==
    ASSUME LifeInv, SendInv,
           ReportConnect \/ ReadFails \/ ReadData \/ ReadEnd \/ WriteLater \/ EventError \/ EventEof
    PROVE  \A j \in Slots : Rests(j)
<1> PICK k : k = E0.k  OBVIOUS
<1>1. Polling /\ k \in Slots /\ Polled = slot[k] /\ DOMAIN slot[k] = Fields /\ slot[k].type \notin Unused
  <2>1. Turn({"CONNECTING"}) \/ Turn(Streams)
    BY DEF ReportConnect, ReadFails, ReadData, ReadEnd, WriteLater, EventError, EventEof,
       Reading, Writing
  <2>2. "INVALID" \notin {"CONNECTING"} /\ "INVALID" \notin Streams  BY DEF Streams
  <2>3. CASE Turn({"CONNECTING"})  BY <2>2, <2>3, TurnFacts DEF Unused
  <2>4. CASE Turn(Streams)  BY <2>2, <2>4, TurnFacts DEF Unused
  <2> QED  BY <2>1, <2>3, <2>4
<1>2. CASE slot' = slot  BY <1>1, <1>2, AllRest
<1>3. CASE slot' = [slot EXCEPT ![k] = Emptied(slot[k])] /\ poll'.forcing.k = k
  BY <1>1, <1>3, ForcedRests
<1>4. ASSUME \/ \E b : slot' = [slot EXCEPT ![k].type = "CONNECTED", ![k].writing = b]
             \/ slot' = [slot EXCEPT ![k].type = "HALFCLOSE_READ", ![k].reading = FALSE]
      PROVE  \A j \in Slots : Rests(j)
  <2> PICK s : s = slot'[k]  OBVIOUS
  <2>1. slot' = [slot EXCEPT ![k] = s]  BY <1>1, <1>4 DEF LifeInv, SlotShape
  <2>2. s.id = slot[k].id /\ s.dw = slot[k].dw /\ s.high = slot[k].high /\ s.low = slot[k].low
    <3>1. slot = [j \in Slots |-> slot[j]] /\ DOMAIN slot[k] = Fields
      BY <1>1 DEF LifeInv, SlotShape
    <3>2. ASSUME NEW b, slot' = [slot EXCEPT ![k].type = "CONNECTED", ![k].writing = b]
          PROVE  s.id = slot[k].id /\ s.dw = slot[k].dw /\ s.high = slot[k].high /\ s.low = slot[k].low
      BY <1>1, <3>1, <3>2 DEF Fields
    <3>3. CASE slot' = [slot EXCEPT ![k].type = "HALFCLOSE_READ", ![k].reading = FALSE]
      BY <1>1, <3>1, <3>3 DEF Fields
    <3> QED  BY <1>4, <3>2, <3>3
  <2> QED  BY <1>1, <2>1, <2>2, FlagsRest
<1>5. poll = [phase |-> poll.phase, batch |-> poll.batch, forcing |-> poll.forcing]
  BY DEF LifeInv, PollShape
<1>7. ASSUME NEW event, NEW command,
             \/ poll' = [ReadOn EXCEPT !.forcing = ForceClose(E0.k, event, command)]
             \/ poll' = [Handled EXCEPT !.forcing = ForceClose(E0.k, event, command)]
      PROVE  poll'.forcing.k = k
  <2> PICK f : f = ForceClose(E0.k, event, command)  OBVIOUS
  <2>1. poll'.forcing = f  BY <1>5, <1>7 DEF ReadOn, Again, Handled
  <2> QED  BY <2>1 DEF ForceClose
<1>6. \/ slot' = slot \/ (slot' = [slot EXCEPT ![k] = Emptied(slot[k])] /\ poll'.forcing.k = k)
      \/ \E b : slot' = [slot EXCEPT ![k].type = "CONNECTED", ![k].writing = b]
      \/ slot' = [slot EXCEPT ![k].type = "HALFCLOSE_READ", ![k].reading = FALSE]
  <2>1. CASE ReportConnect
    <3>1. CASE net[Polled.id].peer \in Hung
      <4>1. poll' = [Handled EXCEPT !.forcing = ForceClose(E0.k, "ERR", FALSE)]
        BY <2>1, <3>1 DEF ReportConnect
      <4> QED  BY <1>1, <1>7, <2>1, <3>1, <4>1 DEF ReportConnect
    <3>2. CASE net[Polled.id].peer \notin Hung
      <4> PICK b : b = (slot[k].writing /\ ~nomore_sending_data(Polled))  OBVIOUS
      <4>1. slot' = [slot EXCEPT ![k].type = "CONNECTED", ![k].writing = @ /\ ~nomore_sending_data(Polled)]
        BY <2>1, <3>2 DEF ReportConnect
      <4>2. slot' = [slot EXCEPT ![k].type = "CONNECTED", ![k].writing = b]
        BY <1>1, <4>1 DEF LifeInv, SlotShape, Fields
      <4> QED  BY <4>2
    <3> QED  BY <3>1, <3>2
  <2>2. CASE ReadFails \/ ReadData \/ WriteLater \/ EventError
    BY <2>2 DEF ReadFails, ReadData, WriteLater, EventError
  <2>3. CASE ReadEnd
    <3>1. \/ slot' = slot
          \/ /\ slot' = [slot EXCEPT ![k] = Emptied(slot[k])]
             /\ \/ poll' = [ReadOn EXCEPT !.forcing = ForceClose(E0.k, "none", FALSE)]
                \/ poll' = [Handled EXCEPT !.forcing = ForceClose(E0.k, "CLOSE", FALSE)]
          \/ slot' = [slot EXCEPT ![k].type = "HALFCLOSE_READ", ![k].reading = FALSE]
      BY <1>1, <2>3 DEF ReadEnd
    <3>2. CASE poll' = [ReadOn EXCEPT !.forcing = ForceClose(E0.k, "none", FALSE)]
      <4>1. poll'.forcing.k = k  BY <1>7, <3>2
      <4> QED  BY <3>1, <4>1
    <3>3. CASE poll' = [Handled EXCEPT !.forcing = ForceClose(E0.k, "CLOSE", FALSE)]
      <4>1. poll'.forcing.k = k  BY <1>7, <3>3
      <4> QED  BY <3>1, <4>1
    <3> QED  BY <3>1, <3>2, <3>3
  <2>4. CASE EventEof
    <3> PICK event : event = IF halfclose_read(Polled) THEN "none" ELSE "CLOSE"  OBVIOUS
    <3>1. \/ slot' = slot
          \/ /\ slot' = [slot EXCEPT ![k] = Emptied(slot[k])]
             /\ poll' = [Handled EXCEPT !.forcing = ForceClose(E0.k, event, FALSE)]
      BY <1>1, <2>4 DEF EventEof
    <3>2. CASE poll' = [Handled EXCEPT !.forcing = ForceClose(E0.k, event, FALSE)]
      <4>1. poll'.forcing.k = k  BY <1>7, <3>2
      <4> QED  BY <3>1, <4>1
    <3> QED  BY <3>1, <3>2
  <2> QED  BY <2>1, <2>2, <2>3, <2>4
<1> QED  BY <1>2, <1>3, <1>4, <1>6

\* A sender that goes by the pipe is counted.
LEMMA CountRests ==
    ASSUME LifeInv, SendInv, NEW t \in Senders, CountRequest(t)
    PROVE  \A j \in Slots : Rests(j)
<1> PICK k : k = K(t)  OBVIOUS
<1>1. k \in Slots /\ UNCHANGED poll  BY SenderFacts DEF CountRequest, At
<1>2. CASE slot' = slot  BY <1>1, <1>2, AllRest
<1>3. CASE slot' = [slot EXCEPT ![k].sending = @ + 1]
  <2> PICK s : s = slot'[k]  OBVIOUS
  <2>1. slot' = [slot EXCEPT ![k] = s]  BY <1>1, <1>3 DEF LifeInv, SlotShape
  <2>2. /\ s.id = slot[k].id /\ s.dw = slot[k].dw /\ s.high = slot[k].high /\ s.low = slot[k].low
        /\ s.type = slot[k].type
    BY <1>1, <1>3 DEF LifeInv, SlotShape, Fields
  <2> QED  BY <1>1, <2>1, <2>2, OneRests
<1> QED  BY <1>2, <1>3 DEF CountRequest

\* Of all steps three do something else: send_buffer, send_socket and the write by the sender.
Writes == SendBuffer \/ SendSocket \/ \E t \in Senders : DirectWrite(t)

\* All steps but those three leave the wires alone, and what waits or give it up.
LEMMA OtherStepsRest ==
    ASSUME LifeInv, SendInv, WireOK, [Next]_vars, ~Writes
    PROVE  UNCHANGED wire /\ \A j \in Slots : Rests(j)
<1>1. CASE UNCHANGED vars
  <2>1. UNCHANGED <<slot, poll, wire>>  BY <1>1 DEF vars
  <2> QED  BY <2>1, AllRest
<1>2. ASSUME NEW id \in Ids, Connect(id) \/ Listen(id) PROVE UNCHANGED wire /\ \A j \in Slots : Rests(j)
  BY <1>2, AskersRest DEF Connect, Listen
<1>3. ASSUME NEW id \in Ids, NEW op \in {"R", "S", "K", "K!"}, Ask(op, id)
      PROVE  UNCHANGED wire /\ \A j \in Slots : Rests(j)
  BY <1>3, AllRest DEF Ask
<1>4. ASSUME NEW t \in Senders, SenderStep(t) PROVE UNCHANGED wire /\ \A j \in Slots : Rests(j)
  <2>1. CASE CountRequest(t)  BY <2>1, CountRests DEF CountRequest
  <2>2. CASE FirstLook(t) \/ TryLock(t) \/ LookAgain(t) \/ WriteInstead(t) \/ Trigger(t) \/ PushRequest(t)
    <3>1. UNCHANGED <<slot, poll, wire>>
      BY <2>2 DEF FirstLook, TryLock, LookAgain, WriteInstead, Trigger, PushRequest
    <3> QED  BY <3>1, AllRest
  <2> QED  BY <1>4, <2>1, <2>2 DEF SenderStep, Writes
<1>5. ASSUME NEW t \in Senders, NEW id \in Ids, NEW low \in BOOLEAN, SendEnter(t, id, low)
      PROVE  UNCHANGED wire /\ \A j \in Slots : Rests(j)
  BY <1>5, AllRest DEF SendEnter
<1>6. CASE SocketThread
  <2>1. CASE ForceCloseEnds  BY <2>1, ForceCloseRests DEF ForceCloseEnds
  <2>2. CASE NoCommand \/ Wait \/ EventOnInvalid \/ ReadBlocks \/ SendAborts
    <3>1. UNCHANGED <<slot, wire>> /\ Polling
      BY Zenon, <2>2 DEF NoCommand, Wait, EventOnInvalid, ReadBlocks, Reading, Turn, EventNext, SendAborts
    <3> QED  BY <3>1, AllRest
  <2>3. CASE OpenSocket \/ ListenSocket  BY <2>3, OpenersRest DEF OpenSocket, ListenSocket
  <2>4. CASE ResumeSocket \/ PauseSocket \/ CloseSocket \/ TriggerWrite
    BY <2>4, RequestsRest DEF ResumeSocket, PauseSocket, CloseSocket, TriggerWrite
  <2>5. CASE ReportAccept  BY <2>5, AcceptRests DEF ReportAccept
  <2>6. CASE ReportConnect \/ ReadFails \/ ReadData \/ ReadEnd \/ WriteLater \/ EventError \/ EventEof
    <3>1. UNCHANGED wire
      BY <2>6 DEF ReportConnect, ReadFails, ReadData, ReadEnd, WriteLater, EventError, EventEof, Reading
    <3> QED  BY <2>6, <3>1, EventsRest
  <2> QED  BY <1>6, <2>1, <2>2, <2>3, <2>4, <2>5, <2>6 DEF SocketThread, Writes
<1>7. ASSUME NEW i \in Ids,
             PeerAccepts(i) \/ PeerRefuses(i) \/ PeerConnects(i) \/ PeerSends(i)
             \/ PeerEnds(i) \/ PeerResets(i) \/ PeerReads(i)
      PROVE  UNCHANGED wire /\ \A j \in Slots : Rests(j)
  <2>1. UNCHANGED <<slot, poll, wire>>
    BY <1>7 DEF PeerAccepts, PeerRefuses, PeerConnects, PeerSends, PeerEnds, PeerResets, PeerReads, Peer
  <2> QED  BY <2>1, AllRest
<1> QED  BY <1>1, <1>2, <1>3, <1>4, <1>5, <1>6, <1>7 DEF Next

\* The requests with a message that are in the pipe were in it, in this order.
PipeKeeps ==
    \E shift \in {0, 1} : \A n \in CarriedAt' : n + shift \in CarriedAt /\ pipe'[n] = pipe[n + shift]

\* The pipe as it was, without its head, or with a request that has no message at its end
LEMMA CarriedStays ==
    ASSUME LifeInv, QuietPipe \/ (pipe # <<>> /\ pipe' = Tail(pipe))
    PROVE  PipeKeeps
<1>1. PICK Elems : pipe \in Seq(Elems)  BY DEF LifeInv, PipeShape
<1>2. CASE pipe' = pipe
  <2>1. \A n \in CarriedAt' : n + 0 \in CarriedAt /\ pipe'[n] = pipe[n + 0]
    BY <1>1, <1>2 DEF CarriedAt
  <2> QED  BY <2>1 DEF PipeKeeps
<1>3. CASE pipe # <<>> /\ pipe' = Tail(pipe)
  <2>1. /\ Len(pipe') = Len(pipe) - 1 /\ Len(pipe) \in Nat
        /\ \A n \in 1 .. Len(pipe) - 1 : pipe'[n] = pipe[n + 1]
    BY <1>1, <1>3, Taking
  <2>2. \A n \in CarriedAt' : n + 1 \in CarriedAt /\ pipe'[n] = pipe[n + 1]
    BY <2>1 DEF CarriedAt
  <2> QED  BY <2>2 DEF PipeKeeps
<1>4. ASSUME NEW r, r.op \notin Carried, pipe' = Append(pipe, r) PROVE PipeKeeps
  <2>1. /\ Len(pipe') = Len(pipe) + 1 /\ Len(pipe) \in Nat
        /\ \A n \in 1 .. Len(pipe) : pipe'[n] = pipe[n]
        /\ pipe'[Len(pipe) + 1] = r
    BY <1>1, <1>4, Appending
  <2>2. ASSUME NEW n \in CarriedAt' PROVE n + 0 \in CarriedAt /\ pipe'[n] = pipe[n + 0]
    <3>1. n \in 1 .. Len(pipe') /\ pipe'[n].op \in Carried  BY DEF CarriedAt
    <3>2. n # Len(pipe) + 1  BY <1>4, <2>1, <3>1
    <3>3. n \in 1 .. Len(pipe)  BY <2>1, <3>1, <3>2
    <3> QED  BY <2>1, <3>1, <3>3 DEF CarriedAt
  <2> QED  BY <2>2 DEF PipeKeeps
<1> QED  BY <1>2, <1>3, <1>4 DEF QuietPipe

\* Only the push of a sender puts one into it.
LEMMA OtherStepsKeepPipe ==
    ASSUME LifeInv, [Next]_vars, \A t \in Senders : ~PushRequest(t)
    PROVE  PipeKeeps
<1>1. CASE pipe' = pipe \/ (pipe # <<>> /\ pipe' = Tail(pipe))
  BY <1>1, CarriedStays DEF QuietPipe
<1>2. ASSUME NEW op, op \notin Carried, NEW id, Request(op, id) PROVE PipeKeeps
  <2> PICK r : r = [op |-> op, id |-> id]  OBVIOUS
  <2>1. r.op \notin Carried /\ pipe' = Append(pipe, r)  BY <1>2 DEF Request
  <2> QED  BY <2>1, CarriedStays DEF QuietPipe
<1>3. CASE UNCHANGED vars  BY <1>1, <1>3 DEF vars
<1>4. ASSUME NEW id \in Ids, Connect(id) \/ Listen(id) PROVE PipeKeeps
  <2>1. \E op \in {"O", "L"} : Request(op, id)  BY <1>4 DEF Connect, Listen
  <2> QED  BY <1>2, <2>1 DEF Carried
<1>5. ASSUME NEW id \in Ids, NEW op \in {"R", "S", "K", "K!"}, Ask(op, id) PROVE PipeKeeps
  BY <1>2, <1>5 DEF Ask, Carried
<1>6. ASSUME NEW t \in Senders, SenderStep(t) PROVE PipeKeeps
  <2>1. CASE Trigger(t)
    <3>1. "W" \notin Carried  BY DEF Carried
    <3> QED  BY <1>2, <2>1, <3>1 DEF Trigger
  <2>2. CASE FirstLook(t) \/ TryLock(t) \/ LookAgain(t) \/ WriteInstead(t) \/ DirectWrite(t) \/ CountRequest(t)
    BY Zenon, <1>1, <2>2 DEF FirstLook, TryLock, LookAgain, WriteInstead, DirectWrite, CountRequest
  <2> QED  BY <1>6, <2>1, <2>2 DEF SenderStep
<1>7. ASSUME NEW t \in Senders, NEW id \in Ids, NEW low \in BOOLEAN, SendEnter(t, id, low) PROVE PipeKeeps
  BY <1>1, <1>7 DEF SendEnter
<1>8. CASE SocketThread
  <2>1. CASE \/ ForceCloseEnds \/ NoCommand \/ Wait \/ EventOnInvalid \/ ReadBlocks
             \/ ReportAccept \/ SendAborts
    BY Zenon, <1>1, <2>1 DEF ForceCloseEnds, NoCommand, Wait, EventOnInvalid, ReadBlocks,
       Reading, ReportAccept, SendAborts
  <2>2. CASE OpenSocket \/ ListenSocket \/ ResumeSocket \/ PauseSocket \/ CloseSocket \/ TriggerWrite \/ SendSocket
    BY Zenon, <1>1, <2>2 DEF OpenSocket, ListenSocket, ResumeSocket, PauseSocket,
       CloseSocket, TriggerWrite, SendSocket, Command
  <2>3. CASE ReportConnect \/ ReadFails \/ ReadData \/ ReadEnd \/ WriteLater \/ SendBuffer \/ EventError \/ EventEof
    BY Zenon, <1>1, <2>3 DEF ReportConnect, ReadFails, ReadData, ReadEnd, WriteLater,
       SendBuffer, EventError, EventEof,
                      Reading, Writing
  <2> QED  BY <1>8, <2>1, <2>2, <2>3 DEF SocketThread
<1>9. ASSUME NEW i \in Ids,
             PeerAccepts(i) \/ PeerRefuses(i) \/ PeerConnects(i) \/ PeerSends(i)
             \/ PeerEnds(i) \/ PeerResets(i) \/ PeerReads(i)
      PROVE  PipeKeeps
  BY <1>1, <1>9 DEF PeerAccepts, PeerRefuses, PeerConnects, PeerSends, PeerEnds,
     PeerResets, PeerReads, Peer
<1> QED  BY <1>3, <1>4, <1>5, <1>6, <1>7, <1>8, <1>9 DEF Next

\* What waits where a slot rests waited there before, for the same socket.
LEMMA RestingWaits ==
    ASSUME NEW k \in Slots, Rests(k)
    PROVE  /\ Waits(slot'[k]) \subseteq Waits(slot[k])
           /\ Waits(slot'[k]) # {} => slot'[k].id = slot[k].id
<1>1. MsgsOf(<<>>) = {}  BY DEF MsgsOf
<1>2. CASE SameLists(k)  BY <1>2 DEF SameLists, Waits
<1>3. CASE GivenUp(k)  BY <1>1, <1>3 DEF GivenUp, Waits
<1>4. CASE Unwritten(k)  BY <1>1, <1>4 DEF Unwritten, Waits
<1> QED  BY <1>2, <1>3, <1>4 DEF Rests

-----------------------------------------------------------------------------
(* Whole messages: the steps that leave the wires and the lists alone *)

\* The wires as they were have what they may have.
LEMMA WireStays ==
    ASSUME WireOK, SeenStays, UNCHANGED wire
    PROVE  WireOK'
BY DEF WireOK, SeenStays

\* The messages in the pipe are for the sockets of the requests.
PipeAddressed == \A n \in CarriedAt : pipe[n].msg.to = pipe[n].id

\* What the pipe keeps is addressed as it was.
LEMMA AddressesStay ==
    ASSUME LifeInv, Addressed, PipeKeeps
    PROVE  PipeAddressed'
BY DEF Addressed, PipeKeeps, PipeAddressed

\* Nothing goes on from an empty wire, and from one that ends with a whole message.
LEMMA EmptyGoesOn ==
    /\ Chained(<<>>) /\ GoesOn(<<>>, <<>>) /\ Fresh(<<>>)
    /\ \A w : GoesOn(w, <<>>) <=> WholeTo(w)
<1>1. Len(<<>>) = 0  OBVIOUS
<1>2. Chained(<<>>) /\ Fresh(<<>>) /\ FreshTail(<<>>) /\ WholeTo(<<>>)
  BY <1>1 DEF Chained, Fresh, FreshTail, WholeTo
<1>3. \A w : GoesOn(w, <<>>) <=> WholeTo(w)  BY <1>2 DEF GoesOn
<1> QED  BY <1>2, <1>3

\* Each slot rests and so does its socket's wire, or they go on together.
GoesOnWell(k) ==
    /\ \A m \in Waits(slot'[k]) : m.to = slot'[k].id
    /\ Live(k)' =>
           /\ GoesOnFrom(slot'[k], wire'[slot'[k].id])
           /\ \A t \in Senders : sender'[t].pc = "write" /\ sender'[t].msg.to = slot'[k].id =>
                  slot'[k].dw = <<>> /\ WholeTo(wire'[slot'[k].id])
RestsWhole(k) == Rests(k) /\ (slot'[k].type \notin Unused => wire'[slot'[k].id] = wire[slot'[k].id])

\* It is enough that each slot rests or goes on from its wire after the step, and that who
\* comes to write begins a message.
LEMMA WholeStep ==
    ASSUME LifeInv, SendInv, SendInv', WholeInv, WireOK', PipeAddressed',
           \A k \in Slots : RestsWhole(k) \/ GoesOnWell(k),
           NEW Begun, Begun = {t \in Senders : sender'[t] # sender[t] /\ sender'[t].pc = "write"},
           \A t \in Begun :
               /\ slot'[HASH_ID(sender'[t].msg.to)].type \notin Unused
               /\ poll'.forcing.k # HASH_ID(sender'[t].msg.to)
               => slot'[HASH_ID(sender'[t].msg.to)].dw = <<>> /\ WholeTo(wire'[sender'[t].msg.to])
    PROVE  WholeInv'
<1>2. Addressed'
  <2>1. ASSUME NEW k \in Slots, NEW m \in Waits(slot'[k]) PROVE m.to = slot'[k].id
    BY RestingWaits DEF WholeInv, Addressed, RestsWhole, GoesOnWell
  <2> QED  BY <2>1 DEF Addressed, PipeAddressed
<1>3. LiveWhole'
  <2> SUFFICES ASSUME NEW k \in Slots, Live(k)' PROVE GoesOnFrom(slot'[k], wire'[slot'[k].id])
    BY DEF LiveWhole
  <2>0. CASE GoesOnWell(k)  BY <2>0 DEF GoesOnWell
  <2>1. CASE RestsWhole(k) /\ SameLists(k)
    <3>1. GoesOnFrom(slot[k], wire[slot[k].id])  BY <2>1 DEF SameLists, WholeInv, LiveWhole
    <3>2. wire'[slot'[k].id] = wire[slot[k].id]  BY <2>1 DEF RestsWhole, SameLists, Live
    <3> QED  BY <2>1, <3>1, <3>2 DEF SameLists, GoesOnFrom
  <2>2. CASE RestsWhole(k) /\ Unwritten(k)
    <3>1. wire'[slot'[k].id] = <<>>  BY <2>2 DEF Unwritten, Live, RestsWhole
    <3> QED  BY <2>2, <3>1, EmptyGoesOn DEF Unwritten, GoesOnFrom
  <2> QED  BY <2>0, <2>1, <2>2 DEF Rests, GivenUp, RestsWhole
<1>4. WritersBegin'
  <2> SUFFICES ASSUME NEW t \in Senders, sender'[t].pc = "write",
                      slot'[HASH_ID(sender'[t].msg.to)].type \notin Unused,
                      poll'.forcing.k # HASH_ID(sender'[t].msg.to)
               PROVE  slot'[HASH_ID(sender'[t].msg.to)].dw = <<>> /\ WholeTo(wire'[sender'[t].msg.to])
    BY DEF WritersBegin, K, Live
  <2>1. CASE sender'[t] = sender[t]
    <3> PICK k : k = HASH_ID(sender[t].msg.to)  OBVIOUS
    <3>1. k \in Slots /\ K(t) = k  BY <2>1, SenderFacts DEF K
    <3>2. slot[k].id = sender[t].msg.to  BY <2>1, <3>1 DEF SendInv, LockOK
    <3>3. slot'[k].id = sender[t].msg.to  BY <2>1 DEF SendInv, LockOK, K
    <3>4. slot'[k].type \notin Unused /\ poll'.forcing.k # k  BY <2>1 DEF Live
    <3>5. CASE RestsWhole(k) /\ SameLists(k)
      <4>1. Live(K(t))  BY <3>1, <3>4, <3>5 DEF SameLists, Live
      <4>2. slot[k].dw = <<>> /\ WholeTo(wire[sender[t].msg.to])
        BY <2>1, <3>1, <4>1 DEF WholeInv, WritersBegin
      <4>3. wire'[sender[t].msg.to] = wire[sender[t].msg.to]  BY <3>3, <3>4, <3>5 DEF RestsWhole
      <4> QED  BY <2>1, <3>5, <4>2, <4>3 DEF SameLists
    <3>6. CASE RestsWhole(k) /\ Unwritten(k)
      BY <2>1, <3>3, <3>4, <3>6 DEF Unwritten, WholeTo, RestsWhole
    <3>7. ~GivenUp(k)  BY <3>4 DEF GivenUp, Live
    <3>8. CASE GoesOnWell(k)
      <4>1. Live(k)'  BY <3>4 DEF Live
      <4> QED  BY <2>1, <3>3, <3>8, <4>1 DEF GoesOnWell
    <3> QED  BY <3>1, <3>5, <3>6, <3>7, <3>8 DEF Rests, RestsWhole
  <2> QED  BY <2>1
<1> QED  BY <1>2, <1>3, <1>4 DEF WholeInv

\* The steps that leave the wires and the lists alone
LEMMA WholeRests ==
    ASSUME LifeInv, SendInv, SendInv', WholeInv, SeenStays, UNCHANGED wire,
           \A k \in Slots : Rests(k), PipeAddressed',
           \A t \in Senders : sender'[t].pc = "write" => sender'[t] = sender[t]
    PROVE  WholeInv'
<1>1. WireOK'  BY WireStays DEF WholeInv
<1>2. \A k \in Slots : RestsWhole(k)  BY DEF RestsWhole
<1>3. {t \in Senders : sender'[t] # sender[t] /\ sender'[t].pc = "write"} = {}  OBVIOUS
<1> QED  BY <1>1, <1>2, <1>3, WholeStep

\* A sender puts its request into the pipe.
LEMMA PushAddressed ==
    ASSUME LifeInv, Addressed, NEW t \in Senders, PushRequest(t)
    PROVE  PipeAddressed'
<1> PICK r : r = [op |-> IF sender[t].msg.low THEN "P" ELSE "D", id |-> sender[t].msg.to, msg |-> sender[t].msg]
  OBVIOUS
<1>1. pipe' = Append(pipe, r) /\ r.msg.to = r.id  BY DEF PushRequest
<1>2. PICK Elems : pipe \in Seq(Elems)  BY DEF LifeInv, PipeShape
<1>3. /\ Len(pipe') = Len(pipe) + 1 /\ Len(pipe) \in Nat
      /\ \A n \in 1 .. Len(pipe) : pipe'[n] = pipe[n]
      /\ pipe'[Len(pipe) + 1] = r
  BY <1>1, <1>2, Appending
<1> SUFFICES ASSUME NEW n \in CarriedAt' PROVE pipe'[n].msg.to = pipe'[n].id  BY DEF PipeAddressed
<1>4. CASE n = Len(pipe) + 1  BY <1>1, <1>3, <1>4
<1>5. CASE n # Len(pipe) + 1
  <2>1. n \in 1 .. Len(pipe)  BY <1>3, <1>5 DEF CarriedAt
  <2> QED  BY <1>3, <2>1 DEF CarriedAt, Addressed
<1> QED  BY <1>4, <1>5

\* Every step leaves the requests with those they are for.
LEMMA PipeStaysAddressed ==
    ASSUME LifeInv, Addressed, [Next]_vars
    PROVE  PipeAddressed'
BY OtherStepsKeepPipe, AddressesStay, PushAddressed

\* Only the second look of a sender lets it write.
LEMMA WritersStay ==
    ASSUME LifeInv, SendInv, [Next]_vars, \A u \in Senders : ~LookAgain(u)
    PROVE  \A t \in Senders : sender'[t].pc = "write" => sender'[t] = sender[t]
<1>1. CASE UNCHANGED sender  BY <1>1
<1>2. ASSUME NEW u \in Senders, sender[u].pc # "idle", NEW pc, pc # "write",
             GoTo(u, pc) \/ sender' = [sender EXCEPT ![u] = Idle]
      PROVE  \A t \in Senders : sender'[t].pc = "write" => sender'[t] = sender[t]
  <2>1. [sender[u] EXCEPT !.pc = pc].pc = pc  BY <1>2, SenderFacts
  <2>2. Idle.pc = "idle"  BY DEF Idle
  <2>3. sender'[u].pc # "write" /\ \A t \in Senders : t # u => sender'[t] = sender[t]
    BY <1>2, <2>1, <2>2 DEF GoTo, LifeInv, SendersOK
  <2> QED  BY <2>3
<1>3. CASE UNCHANGED vars  BY <1>1, <1>3 DEF vars
<1>4. ASSUME NEW id \in Ids, Connect(id) \/ Listen(id) PROVE UNCHANGED sender
  BY <1>4 DEF Connect, Listen
<1>5. ASSUME NEW id \in Ids, NEW op \in {"R", "S", "K", "K!"}, Ask(op, id) PROVE UNCHANGED sender
  BY <1>5 DEF Ask
<1>6. ASSUME NEW u \in Senders, SenderStep(u)
      PROVE  \A t \in Senders : sender'[t].pc = "write" => sender'[t] = sender[t]
  <2>1. sender[u].pc # "idle"
    BY <1>6 DEF SenderStep, FirstLook, TryLock, LookAgain, WriteInstead, DirectWrite, Trigger,
                CountRequest, PushRequest, At
  <2>2. sender' = [sender EXCEPT ![u] = Idle]
        \/ \E pc \in {"lock", "count", "look", "trigger", "push"} : GoTo(u, pc)
    BY <1>6 DEF SenderStep, FirstLook, TryLock, WriteInstead, DirectWrite, Trigger,
       CountRequest, PushRequest
  <2>3. CASE sender' = [sender EXCEPT ![u] = Idle]  BY <1>2, <2>1, <2>3
  <2> QED  BY <1>2, <2>1, <2>2, <2>3
<1>7. ASSUME NEW u \in Senders, NEW id \in Ids, NEW low \in BOOLEAN, SendEnter(u, id, low)
      PROVE  \A t \in Senders : sender'[t].pc = "write" => sender'[t] = sender[t]
  <2> PICK called : called = [pc |-> IF low THEN "count" ELSE "try",
                              msg |-> [from |-> u, left |-> left.sends[u], low |-> low, to |-> id]]
    OBVIOUS
  <2>1. sender' = [sender EXCEPT ![u] =
            IF socket_invalid(id) \/ (~low /\ slot[HASH_ID(id)].closing) THEN Idle ELSE called]
    BY <1>7 DEF SendEnter
  <2>2. called.pc \in {"count", "try"}  OBVIOUS
  <2>3. Idle.pc = "idle"  BY DEF Idle
  <2>4. sender'[u] \in {Idle, called} /\ \A t \in Senders : t # u => sender'[t] = sender[t]
    BY <2>1 DEF LifeInv, SendersOK
  <2> QED  BY <2>2, <2>3, <2>4
<1>8. CASE SocketThread
  BY Zenon, <1>1, <1>8 DEF SocketThread, ForceCloseEnds, NoCommand, Wait, EventOnInvalid,
     ReadBlocks, Reading,
     ReportAccept, OpenSocket, ListenSocket, ResumeSocket, PauseSocket, CloseSocket, TriggerWrite,
     SendSocket, SendAborts, ReportConnect, ReadFails, ReadData, ReadEnd, WriteLater, SendBuffer,
     EventError, EventEof, Writing
<1>9. ASSUME NEW i \in Ids,
             PeerAccepts(i) \/ PeerRefuses(i) \/ PeerConnects(i) \/ PeerSends(i)
             \/ PeerEnds(i) \/ PeerResets(i) \/ PeerReads(i)
      PROVE  UNCHANGED sender
  BY <1>9 DEF PeerAccepts, PeerRefuses, PeerConnects, PeerSends, PeerEnds, PeerResets, PeerReads, Peer
<1> QED  BY <1>1, <1>3, <1>4, <1>5, <1>6, <1>7, <1>8, <1>9 DEF Next

\* It finds nothing waiting, so that what was written ends with a whole message.
LEMMA LookAgainWhole ==
    ASSUME LifeInv, SendInv, SendInv', WholeInv, SeenStays, NEW t \in Senders, LookAgain(t),
           UNCHANGED wire, \A k \in Slots : Rests(k), PipeAddressed'
    PROVE  WholeInv'
<1> PICK k : k = K(t)  OBVIOUS
<1>1. sender[t].pc = "look" /\ UNCHANGED <<slot, poll>>  BY DEF LookAgain, At
<1>2. k \in Slots /\ k = HASH_ID(sender[t].msg.to)
      /\ \A pc : [sender[t] EXCEPT !.pc = pc] = [pc |-> pc, msg |-> sender[t].msg]
  BY <1>1, SenderFacts
<1>3. \A u \in Senders : u # t => sender'[u] = sender[u]
  BY DEF LookAgain, GoTo, LifeInv, SendersOK
<1>4. ASSUME sender'[t].pc = "write" PROVE ListsEmpty(t) /\ sender'[t].msg = sender[t].msg
  <2>1. CASE ~ListsEmpty(t)
    <3>1. GoTo(t, "count")  BY <2>1 DEF LookAgain
    <3>2. sender'[t].pc = "count"  BY <1>2, <3>1 DEF GoTo, LifeInv, SendersOK
    <3> QED  BY <1>4, <3>2
  <2>2. CASE ListsEmpty(t)
    <3>1. GoTo(t, "write")  BY <2>2 DEF LookAgain
    <3>2. sender'[t].msg = sender[t].msg  BY <1>2, <3>1 DEF GoTo, LifeInv, SendersOK
    <3> QED  BY <2>2, <3>2
  <2> QED  BY <2>1, <2>2
<1>5. WireOK'  BY WireStays DEF WholeInv
<1>6. \A j \in Slots : RestsWhole(j)  BY DEF RestsWhole
<1> PICK Begun : Begun = {u \in Senders : sender'[u] # sender[u] /\ sender'[u].pc = "write"}  OBVIOUS
<1>7. ASSUME NEW u \in Begun, slot'[HASH_ID(sender'[u].msg.to)].type \notin Unused,
             poll'.forcing.k # HASH_ID(sender'[u].msg.to)
      PROVE  slot'[HASH_ID(sender'[u].msg.to)].dw = <<>> /\ WholeTo(wire'[sender'[u].msg.to])
  <2>1. u = t /\ sender'[t].pc = "write"  BY <1>3
  <2>2. ListsEmpty(t) /\ sender'[t].msg = sender[t].msg  BY <1>4, <2>1
  <2>3. slot[k].id = sender[t].msg.to /\ slot[k].high = <<>> /\ slot[k].dw = <<>>
    BY <1>2, <2>2 DEF ListsEmpty, S, send_buffer_empty
  <2>4. Live(k)  BY <1>1, <1>2, <1>7, <2>1, <2>2 DEF Live
  <2>5. GoesOn(wire[slot[k].id], <<>>)
    BY <1>2, <2>3, <2>4 DEF WholeInv, LiveWhole, GoesOnFrom
  <2>6. WholeTo(wire[sender[t].msg.to])  BY <2>3, <2>5, EmptyGoesOn
  <2> QED  BY <1>1, <1>2, <2>1, <2>2, <2>3, <2>6
<1> QED  BY <1>5, <1>6, <1>7, WholeStep

-----------------------------------------------------------------------------
(* The order of the messages *)

\* Of two messages: the first may go first; it was sent first, if by the same sender to the
\* same socket
MayPrecede(a, b) == a.from = b.from /\ a.left < b.left => b.low /\ ~a.low
Precedes(a, b) == a.from = b.from /\ a.to = b.to => a.left > b.left

Before(these, those) == \A a \in these, b \in those : MayPrecede(a, b)
InOrderList(list) == \A p, q \in 1 .. Len(list) : p < q => MayPrecede(list[p].msg, list[q].msg)

Written == UNION {MsgsOf(wire[i]) : i \in Ids}
Waiting == UNION {Waits(slot[k]) : k \in Slots}

\* What a sender will send has less left than what it has sent.
Unsent == {"idle", "trigger"}
SendsLeft(t) == left.sends[t] + (IF sender[t].pc \in Unsent THEN 0 ELSE 1)
SentBefore == \A m \in Written \cup Waiting \cup Piped : m.left > SendsLeft(m.from)
SendersSend ==
    \A t \in Senders : sender[t].pc \notin Unsent =>
        sender[t].msg.from = t /\ sender[t].msg.left = SendsLeft(t)

\* What is in the pipe is in the order it was sent, and was sent after what is out of it,
\* unless for a socket to which something was sent before new_fd.
PipeInOrder ==
    /\ \A m \in Written \cup Waiting, n \in Piped : m.to \notin early => Precedes(m, n)
    /\ \A n, m \in CarriedAt : n < m => Precedes(pipe[n].msg, pipe[m].msg)

\* Who tries to write itself has nothing on its way to that socket.
Trying == {"lock", "look", "write"}
NothingOnTheWay ==
    \A t \in Senders : sender[t].pc \in Trying /\ sender[t].msg.to \notin early =>
        \A m \in Waiting \cup Piped : ~(m.from = t /\ m.to = sender[t].msg.to)

\* Of a slot and the messages on its socket's wire: the low list has only messages of low
\* priority, and all is in order.
ListsFor(s, written) ==
    /\ \A m \in MsgsOf(s.low) : m.low
    /\ InOrderList(s.dw) /\ InOrderList(s.high) /\ InOrderList(s.low)
    /\ Before(MsgsOf(s.dw), MsgsOf(s.high)) /\ Before(MsgsOf(s.dw), MsgsOf(s.low))
    /\ Before(MsgsOf(s.high), MsgsOf(s.low))
    /\ Before(written, MsgsOf(s.dw)) /\ Before(written, MsgsOf(s.high)) /\ Before(written, MsgsOf(s.low))
SlotsInOrder ==
    \A k \in Slots : slot[k].type \notin Unused /\ slot[k].id \notin early =>
        ListsFor(slot[k], MsgsOf(wire[slot[k].id]))
WiresInOrder == \A i \in Ids : i \notin early => InOrderList(wire[i])

OrderInv ==
    /\ SentBefore /\ SendersSend /\ PipeInOrder /\ NothingOnTheWay
    /\ SlotsInOrder /\ WiresInOrder

-----------------------------------------------------------------------------
(* A slot goes on from its wire: send_socket *)

\* The messages of a list of one, and of none
LEMMA MsgsOfOne == \A b : MsgsOf(<<b>>) = {b.msg} /\ MsgsOf(<<>>) = {}
<1> SUFFICES ASSUME NEW b PROVE MsgsOf(<<b>>) = {b.msg} /\ MsgsOf(<<>>) = {}  OBVIOUS
<1>1. Len(<<b>>) = 1 /\ <<b>>[1] = b /\ Len(<<>>) = 0  OBVIOUS
<1>2. 1 .. 1 = {1} /\ 1 .. 0 = {}  OBVIOUS
<1> QED  BY <1>1, <1>2 DEF MsgsOf

\* A message not begun is put at the end of a list.
LEMMA FreshAppend ==
    ASSUME NEW list \in Seq(Buffers), NEW buf \in Buffers, buf.ptr = 0
    PROVE  /\ Append(list, buf) \in Seq(Buffers) /\ MsgsOf(Append(list, buf)) = MsgsOf(list) \cup {buf.msg}
           /\ Fresh(list) => Fresh(Append(list, buf))
           /\ \A w : GoesOn(w, list) => GoesOn(w, Append(list, buf))
<1> PICK new : new = Append(list, buf)  OBVIOUS
<1>1. /\ new \in Seq(Buffers) /\ Len(new) = Len(list) + 1 /\ Len(list) \in Nat
      /\ \A p \in 1 .. Len(list) : new[p] = list[p]
      /\ new[Len(list) + 1] = buf
  OBVIOUS
<1>2. MsgsOf(new) = MsgsOf(list) \cup {buf.msg}
  <2>1. 1 .. Len(new) = 1 .. Len(list) \cup {Len(list) + 1}  BY <1>1
  <2> QED  BY <1>1, <2>1 DEF MsgsOf
<1>3. Fresh(list) => Fresh(new)
  <2> SUFFICES ASSUME Fresh(list), NEW p \in 1 .. Len(new) PROVE new[p].ptr = 0  BY DEF Fresh
  <2>1. p \in 1 .. Len(list) \/ p = Len(list) + 1  BY <1>1
  <2> QED  BY <1>1, <2>1 DEF Fresh
<1>4. ASSUME NEW w, GoesOn(w, list) PROVE GoesOn(w, new)
  <2>1. FreshTail(new)
    <3> SUFFICES ASSUME NEW p \in 2 .. Len(new) PROVE new[p].ptr = 0  BY DEF FreshTail
    <3>1. p \in 2 .. Len(list) \/ p = Len(list) + 1  BY <1>1
    <3> QED  BY <1>1, <1>4, <3>1 DEF GoesOn, FreshTail
  <2>2. list # <<>> => new # <<>> /\ new[1] = list[1]  BY <1>1
  <2> QED  BY <1>3, <1>4, <2>1, <2>2 DEF GoesOn
<1> QED  BY <1>1, <1>2, <1>3, <1>4

\* append_sendbuffer puts the message at the end of one of the lists.
LEMMA AppendedForms ==
    ASSUME NEW s, DOMAIN s = Fields, SlotTyped(s), NEW msg \in Msgs, NEW new, new = Appended(s, msg),
           NEW buf, buf = [msg |-> msg, ptr |-> 0]
    PROVE  /\ buf \in Buffers /\ buf.ptr = 0 /\ buf.msg = msg
           /\ s.high \in Seq(Buffers) /\ s.low \in Seq(Buffers)
           /\ new.dw = s.dw /\ new.id = s.id /\ new.type = s.type
           /\ \/ s.high = <<>> /\ s.low = <<>> /\ new.high = Append(s.high, buf) /\ new.low = s.low
              \/ new.high = s.high /\ msg.low /\ new.low = Append(s.low, buf)
              \/ new.high = Append(s.high, buf) /\ ~msg.low /\ new.low = s.low
<1>1. buf \in Buffers /\ buf.ptr = 0 /\ buf.msg = msg
  <2>1. 0 \in 0 .. MsgSize - 1  BY SocketAssumption
  <2> QED  BY <2>1 DEF Buffers
<1>2. s.high \in Seq(Buffers) /\ s.low \in Seq(Buffers)  BY DEF SlotTyped
<1>3. CASE send_buffer_empty(s)
  <2>1. new = [s EXCEPT !.high = <<buf>>, !.writing = TRUE]  BY <1>3 DEF Appended
  <2>2. Append(<<>>, buf) = <<buf>>  OBVIOUS
  <2> QED  BY <1>1, <1>2, <1>3, <2>1, <2>2 DEF send_buffer_empty, Fields
<1>4. CASE ~send_buffer_empty(s) /\ msg.low
  <2>1. new = [s EXCEPT !.low = Append(@, buf)]  BY <1>4 DEF Appended
  <2> QED  BY <1>1, <1>2, <1>4, <2>1 DEF Fields
<1>5. CASE ~send_buffer_empty(s) /\ ~msg.low
  <2>1. new = [s EXCEPT !.high = Append(@, buf)]  BY <1>5 DEF Appended
  <2> QED  BY <1>1, <1>2, <1>5, <2>1 DEF Fields
<1> QED  BY <1>3, <1>4, <1>5

\* The slot goes on from every wire it went on from.
LEMMA AppendedGoesOn ==
    ASSUME NEW s, DOMAIN s = Fields, SlotTyped(s), NEW msg \in Msgs, NEW new, new = Appended(s, msg)
    PROVE  /\ new.dw = s.dw /\ new.id = s.id /\ new.type = s.type
           /\ Waits(new) = Waits(s) \cup {msg}
           /\ \A w : GoesOnFrom(s, w) => GoesOnFrom(new, w)
<1> PICK buf : buf = [msg |-> msg, ptr |-> 0]  OBVIOUS
<1>1. /\ buf \in Buffers /\ buf.ptr = 0 /\ buf.msg = msg
      /\ s.high \in Seq(Buffers) /\ s.low \in Seq(Buffers)
      /\ new.dw = s.dw /\ new.id = s.id /\ new.type = s.type
      /\ \/ new.high = Append(s.high, buf) /\ new.low = s.low
         \/ new.high = s.high /\ new.low = Append(s.low, buf)
  BY AppendedForms
<1>2. CASE new.high = Append(s.high, buf) /\ new.low = s.low
  <2>1. MsgsOf(new.high) = MsgsOf(s.high) \cup {msg}  BY <1>1, <1>2, FreshAppend
  <2>2. ASSUME NEW w, GoesOnFrom(s, w) PROVE GoesOnFrom(new, w)
    BY <1>1, <1>2, <2>2, FreshAppend DEF GoesOnFrom
  <2> QED  BY <1>1, <1>2, <2>1, <2>2 DEF Waits
<1>3. CASE new.high = s.high /\ new.low = Append(s.low, buf)
  <2>1. MsgsOf(new.low) = MsgsOf(s.low) \cup {msg}  BY <1>1, <1>3, FreshAppend
  <2> QED  BY <1>1, <1>3, <2>1 DEF Waits, GoesOnFrom
<1> QED  BY <1>1, <1>2, <1>3

\* Of a request's slot: it rests, or the request's message is appended.
LEMMA SendSocketSlot ==
    ASSUME LifeInv, SendInv, SendSocket, NEW k, k = AskedSlot, NEW id, id = Asked
    PROVE  /\ Polling /\ k \in Slots /\ k = HASH_ID(id) /\ 1 \in CarriedAt /\ pipe[1] = Head(pipe)
           /\ Head(pipe).msg \in Msgs /\ Head(pipe).id = id
           /\ \A j \in Slots : j # k => slot'[j] = slot[j]
           /\ UNCHANGED <<sender, poll, left, wire, seen>> /\ pipe # <<>> /\ pipe' = Tail(pipe)
           /\ DOMAIN slot[k] = Fields /\ SlotTyped(slot[k])
           /\ slot'[k].id = slot[k].id /\ slot'[k].type = slot[k].type /\ slot'[k].dw = slot[k].dw
           /\ \/ slot'[k].high = slot[k].high /\ slot'[k].low = slot[k].low
              \/ LET new == Appended(slot[k], Head(pipe).msg)
                 IN  /\ slot[k].id = id /\ slot[k].type \notin Unused
                     /\ slot'[k].high = new.high /\ slot'[k].low = new.low
<1> PICK msg : msg = Head(pipe).msg  OBVIOUS
<1> PICK old : old = slot[k]  OBVIOUS
<1>a. PICK dropped : dropped = (socket_invalid(id) \/ old.closing
            \/ old.type \in {"HALFCLOSE_WRITE", "PACCEPT", "PLISTEN", "LISTEN"})
  OBVIOUS
<1>b. PICK with : with = IF dropped THEN old ELSE Appended(old, msg)  OBVIOUS
<1>c. PICK new : new = Counted(with, id)  OBVIOUS
<1>1. /\ pipe # <<>> /\ Head(pipe).op \in Carried /\ pipe' = Tail(pipe) /\ Polling
      /\ UNCHANGED <<dw_lock, sender, poll, left, net, wire, seen>>
  BY DEF SendSocket, Command, Carried
<1>2. slot' = [slot EXCEPT ![k] = new]
  <2>1. slot' = [slot EXCEPT ![AskedSlot] =
            Counted(IF socket_invalid(Asked) \/ slot[AskedSlot].closing
                       \/ slot[AskedSlot].type \in {"HALFCLOSE_WRITE", "PACCEPT", "PLISTEN", "LISTEN"}
                    THEN slot[AskedSlot] ELSE Appended(slot[AskedSlot], Head(pipe).msg), Asked)]
    BY DEF SendSocket
  <2> QED  BY <1>a, <1>b, <1>c, <2>1
<1>3. /\ k \in Slots /\ DOMAIN old = Fields /\ SlotTyped(old) /\ k = HASH_ID(id)
      /\ \A j \in Slots : j # k => slot'[j] = slot[j]
      /\ slot'[k] = new
  BY <1>1, <1>2, AskedFacts DEF SendInv, SlotsTyped, LifeInv, SlotShape, AskedSlot
<1> PICK Elems : pipe \in Seq(Elems)  BY DEF LifeInv, PipeShape
<1>4. /\ Len(pipe) \in Nat /\ Len(pipe) > 0 /\ Head(pipe) = pipe[1]
  BY <1>1, Taking
<1>5. msg \in Msgs /\ Head(pipe).id = id /\ 1 \in CarriedAt
  <2>1. RequestTyped(pipe[1]) /\ Head(pipe) = pipe[1]  BY <1>4 DEF SendInv, RequestsTyped
  <2>2. 1 \in 1 .. Len(pipe)  BY <1>4
  <2> QED  BY <1>1, <2>1, <2>2 DEF RequestTyped, Asked, CarriedAt
<1>6. DOMAIN with = Fields /\ with.type = old.type /\ with.id = old.id /\ with.dw = old.dw
  <2>1. CASE dropped  BY <1>3, <1>b, <2>1
  <2>2. CASE ~dropped
    <3>1. with = Appended(old, msg)  BY <1>b, <2>2
    <3>2. DOMAIN with = Fields  BY <1>3, <1>5, <3>1, AppendedTyped
    <3>3. with.type = old.type /\ with.id = old.id /\ with.dw = old.dw
      BY ONLY <1>3, <1>5, <3>1, AppendedGoesOn
    <3> QED  BY <3>2, <3>3
  <2> QED  BY <2>1, <2>2
<1>7. /\ new.id = old.id /\ new.type = old.type /\ new.dw = old.dw
      /\ new.high = with.high /\ new.low = with.low
  BY <1>6, <1>c DEF Counted, Fields
<1>8. ~dropped => slot[k].id = id /\ slot[k].type \notin Unused
  <2>1. Head(pipe).op \notin Opening  BY <1>1 DEF Carried, Opening
  <2>2. ~dropped => ~socket_invalid(Asked)  BY <1>a
  <2> QED  BY <1>1, <2>1, <2>2, AskedFacts DEF Unused
<1> QED  BY <1>1, <1>3, <1>4, <1>5, <1>7, <1>8, <1>b

\* A message goes from the pipe to its socket's slot.
LEMMA SendSocketWhole ==
    ASSUME LifeInv, SendInv, SendInv', WholeInv, SeenStays, SendSocket, PipeAddressed'
    PROVE  WholeInv'
<1> PICK k : k = AskedSlot  OBVIOUS
<1> PICK id : id = Asked  OBVIOUS
<1> PICK msg : msg = Head(pipe).msg  OBVIOUS
<1> PICK new : new = Appended(slot[k], msg)  OBVIOUS
<1>1. /\ Polling /\ k \in Slots /\ k = HASH_ID(id) /\ 1 \in CarriedAt /\ pipe[1] = Head(pipe)
      /\ msg \in Msgs /\ Head(pipe).id = id
      /\ \A j \in Slots : j # k => slot'[j] = slot[j]
      /\ UNCHANGED <<sender, poll, left, wire, seen>>
      /\ DOMAIN slot[k] = Fields /\ SlotTyped(slot[k])
      /\ slot'[k].id = slot[k].id /\ slot'[k].type = slot[k].type /\ slot'[k].dw = slot[k].dw
      /\ \/ slot'[k].high = slot[k].high /\ slot'[k].low = slot[k].low
         \/ /\ slot[k].id = id /\ slot[k].type \notin Unused
            /\ slot'[k].high = new.high /\ slot'[k].low = new.low
  BY SendSocketSlot
<1>2. WireOK'  BY <1>1, WireStays DEF WholeInv
<1>3. {t \in Senders : sender'[t] # sender[t] /\ sender'[t].pc = "write"} = {}  BY <1>1
<1>4. \A j \in Slots : j # k => RestsWhole(j)  BY <1>1, UntouchedRests DEF RestsWhole, Rests
<1>5. RestsWhole(k) \/ GoesOnWell(k)
  <2>1. CASE slot'[k].high = slot[k].high /\ slot'[k].low = slot[k].low
    BY <1>1, <2>1 DEF RestsWhole, Rests, SameLists, Live
  <2>2. CASE slot[k].id = id /\ slot'[k].high = new.high /\ slot'[k].low = new.low
    <3>1. /\ new.dw = slot[k].dw /\ new.id = slot[k].id
          /\ Waits(new) = Waits(slot[k]) \cup {msg}
          /\ \A w : GoesOnFrom(slot[k], w) => GoesOnFrom(new, w)
      BY ONLY <1>1, new = Appended(slot[k], msg), AppendedGoesOn
    <3>2. Waits(slot'[k]) = Waits(new)  BY <1>1, <2>2, <3>1 DEF Waits
    <3>3. \A w : GoesOnFrom(new, w) => GoesOnFrom(slot'[k], w)  BY <1>1, <2>2, <3>1 DEF GoesOnFrom
    <3>4. msg.to = id  BY <1>1 DEF WholeInv, Addressed
    <3>5. \A m \in Waits(slot'[k]) : m.to = slot'[k].id
      BY <1>1, <2>2, <3>1, <3>2, <3>4 DEF WholeInv, Addressed
    <3>6. ASSUME Live(k)'
          PROVE  /\ GoesOnFrom(slot'[k], wire'[slot'[k].id])
                 /\ \A t \in Senders : sender'[t].pc = "write" /\ sender'[t].msg.to = slot'[k].id =>
                        slot'[k].dw = <<>> /\ WholeTo(wire'[slot'[k].id])
      <4>1. Live(k)  BY <1>1, <3>6 DEF Live
      <4>2. GoesOnFrom(slot[k], wire[id])  BY <1>1, <2>2, <4>1 DEF WholeInv, LiveWhole
      <4>3. GoesOnFrom(slot'[k], wire[id])  BY <3>1, <3>3, <4>2
      <4>4. ASSUME NEW t \in Senders, sender[t].pc = "write", sender[t].msg.to = id
            PROVE  slot[k].dw = <<>> /\ WholeTo(wire[id])
        <5>1. K(t) = k  BY <1>1, <4>4 DEF K
        <5> QED  BY <4>1, <4>4, <5>1 DEF WholeInv, WritersBegin
      <4> QED  BY <1>1, <2>2, <4>3, <4>4
    <3> QED  BY <3>5, <3>6 DEF GoesOnWell
  <2> QED  BY <1>1, <2>1, <2>2
<1> QED  BY <1>2, <1>3, <1>4, <1>5, WholeStep

-----------------------------------------------------------------------------
(* A sender writes *)

\* The first n bytes of a message
LEMMA BytesFacts ==
    ASSUME NEW msg \in Msgs, NEW n \in 0 .. MsgSize, NEW b, b = Bytes([msg |-> msg, ptr |-> 0], n)
    PROVE  /\ b \in Seq(WireBytes) /\ Len(b) = n /\ n \in Nat
           /\ \A x \in 1 .. n : b[x].msg = msg /\ b[x].byte = x
           /\ MsgsOf(b) \subseteq {msg} /\ InOrderList(b)
<1>1. n \in Nat /\ MsgSize \in Nat  BY SocketAssumption
<1>2. b = [j \in 1 .. n |-> [msg |-> msg, byte |-> 0 + j]]  BY DEF Bytes
<1>3. \A x \in 1 .. n : b[x].msg = msg /\ b[x].byte = x  BY <1>1, <1>2
<1>4. \A x \in 1 .. n : b[x] \in WireBytes
  <2> SUFFICES ASSUME NEW x \in 1 .. n PROVE b[x] \in WireBytes  OBVIOUS
  <2>1. b[x] = [msg |-> msg, byte |-> x] /\ x \in 1 .. MsgSize  BY <1>1, <1>2
  <2> QED  BY <2>1 DEF WireBytes
<1>5. b \in Seq(WireBytes) /\ Len(b) = n
  <2>1. b = [j \in 1 .. n |-> b[j]]  BY <1>2
  <2> QED  BY ONLY <1>1, <1>4, <2>1
<1>6. MsgsOf(b) \subseteq {msg}  BY <1>3, <1>5 DEF MsgsOf
<1>7. InOrderList(b)
  <2>1. msg.left \in Nat  BY DEF Msgs
  <2>2. MayPrecede(msg, msg)  BY <2>1 DEF MayPrecede
  <2> QED  BY <1>3, <1>5, <2>2 DEF InOrderList
<1> QED  BY <1>1, <1>3, <1>5, <1>6, <1>7

\* They are written after whole messages; the rest goes on from there.
LEMMA WriteBegins ==
    ASSUME NEW w \in Seq(WireBytes), Chained(w), WholeTo(w),
           NEW msg \in Msgs, NEW n \in 0 .. MsgSize, NEW b, b = Bytes([msg |-> msg, ptr |-> 0], n)
    PROVE  /\ Chained(w \o b)
           /\ n = MsgSize => WholeTo(w \o b)
           /\ n # MsgSize => GoesOn(w \o b, <<[msg |-> msg, ptr |-> n]>>)
<1>1. /\ b \in Seq(WireBytes) /\ Len(b) = n /\ n \in Nat
      /\ \A x \in 1 .. n : b[x].msg = msg /\ b[x].byte = x
      /\ MsgSize \in Nat \ {0}
  BY BytesFacts, SocketAssumption
<1>2. Chained(w \o b)
  <2>1. b # <<>> => b[1].byte = 1
    <3>1. b # <<>> => 1 \in 1 .. n  BY <1>1
    <3> QED  BY <1>1, <3>1
  <2>2. ASSUME NEW x \in 2 .. Len(b) PROVE Follows(b[x - 1], b[x])
    <3>1. x - 1 \in 1 .. n /\ x \in 1 .. n /\ x - 1 # MsgSize  BY <1>1
    <3> QED  BY <1>1, <3>1 DEF Follows
  <2> QED  BY <1>1, <2>1, <2>2, ChainedJoin
<1> PICK c : c = w \o b  OBVIOUS
<1>3. CASE n = 0
  <2>1. b = <<>>  BY <1>1, <1>3
  <2>2. c = w  BY <1>1, <2>1, WholeToJoin
  <2> PICK buf : buf = [msg |-> msg, ptr |-> n]  OBVIOUS
  <2>3. Len(<<buf>>) = 1 /\ <<buf>>[1] = buf /\ buf.ptr = 0  BY <1>3
  <2>4. Fresh(<<buf>>) /\ FreshTail(<<buf>>)  BY <2>3 DEF Fresh, FreshTail
  <2>5. GoesOn(c, <<buf>>)  BY <2>2, <2>4 DEF GoesOn
  <2> QED  BY <1>1, <1>2, <1>3, <2>5
<1>4. CASE n # 0
  <2>1. b # <<>> /\ n \in 1 .. n  BY <1>1, <1>4
  <2>2. c[Len(c)] = b[n] /\ (WholeTo(c) <=> b[n].byte = MsgSize)
    BY <1>1, <2>1, WholeToJoin
  <2>3. b[n].msg = msg /\ b[n].byte = n  BY <1>1, <2>1
  <2> PICK buf : buf = [msg |-> msg, ptr |-> n]  OBVIOUS
  <2>4. Len(<<buf>>) = 1 /\ <<buf>>[1] = buf /\ buf.ptr = n /\ buf.msg = msg /\ <<buf>> # <<>>  OBVIOUS
  <2>5. FreshTail(<<buf>>)  BY <2>4 DEF FreshTail
  <2>6. n # MsgSize => GoesOn(c, <<buf>>)  BY Zenon, <2>2, <2>3, <2>4, <2>5 DEF GoesOn
  <2> QED  BY <1>2, <2>2, <2>3, <2>6
<1> QED  BY <1>3, <1>4

\* The first n bytes go to the wire, the rest to dw_buffer.
WrittenFrom(k, msg) ==
    \E n \in 0 .. MsgSize :
        /\ wire' = [wire EXCEPT ![msg.to] = wire[msg.to] \o Bytes([msg |-> msg, ptr |-> 0], n)]
        /\ slot'[k].dw = IF n = MsgSize THEN slot[k].dw ELSE <<[msg |-> msg, ptr |-> n]>>

\* Of the step: what it changes, and of whom
LEMMA DirectWriteSlot ==
    ASSUME LifeInv, SendInv, NEW t \in Senders, DirectWrite(t),
           NEW k, k = K(t), NEW msg, msg = sender[t].msg
    PROVE  /\ sender[t].pc = "write" /\ k \in Slots /\ k = HASH_ID(msg.to)
           /\ msg \in Msgs /\ msg.to \in Ids /\ seen[msg.to] \in Sendable
           /\ slot[k].id = msg.to /\ slot[k].type = "CONNECTED" /\ dw_lock[k] = t
           /\ UNCHANGED <<pipe, poll, left, seen>>
           /\ \A j \in Slots : j # k => slot'[j] = slot[j] /\ (slot[j].type \notin Unused => slot[j].id # msg.to)
           /\ slot'[k].id = slot[k].id /\ slot'[k].type = slot[k].type
           /\ slot'[k].high = slot[k].high /\ slot'[k].low = slot[k].low
           /\ sender'[t] = Idle \/ (sender'[t].pc = "trigger" /\ sender'[t].msg = msg)
           /\ \A u \in Senders : u # t => sender'[u] = sender[u]
           /\ WrittenFrom(k, msg)
<1> PICK fd : fd = S(t).id  OBVIOUS
<1> PICK n : n = IF net[fd].peer = "up" THEN Min(net[fd].room, MsgSize) ELSE 0  OBVIOUS
<1>1. /\ sender[t].pc = "write" /\ UNCHANGED <<pipe, poll, left, seen>> /\ NotSending(t)
      /\ wire' = [wire EXCEPT ![fd] = @ \o Bytes([msg |-> msg, ptr |-> 0], n)]
      /\ IF n = MsgSize
         THEN sender' = [sender EXCEPT ![t] = Idle] /\ slot' = slot
         ELSE GoTo(t, "trigger") /\ slot' = [slot EXCEPT ![k].dw = <<[msg |-> msg, ptr |-> n]>>]
  BY DEF DirectWrite, At
<1>2. /\ msg \in Msgs /\ k \in Slots /\ k = HASH_ID(msg.to) /\ fd = msg.to /\ fd \in Ids /\ slot[k].id = msg.to
      /\ seen[msg.to] \in Sendable /\ dw_lock[k] = t /\ slot[k].type = "CONNECTED"
  <2>1. /\ msg \in Msgs /\ k \in Slots /\ k = HASH_ID(msg.to) /\ fd = msg.to /\ fd \in Ids /\ slot[k].id = msg.to
        /\ dw_lock[k] = t /\ slot[k].type = "CONNECTED"
    BY Zenon, <1>1, SenderFacts DEF SendInv, LockOK, S, K, NotSending
  <2>2. seen[slot[k].id] \in KnownAs("CONNECTED")  BY <2>1 DEF LifeInv, SlotsOK, SlotOK
  <2>3. KnownAs("CONNECTED") \subseteq Sendable  BY DEF KnownAs, Sendable
  <2> QED  BY <2>1, <2>2, <2>3
<1>3. net[fd].room \in Nat  BY <1>2 DEF SendInv, NetOK
<1>4. n \in 0 .. MsgSize  BY <1>3, SocketAssumption DEF Min
<1>5. /\ \A j \in Slots : j # k => slot'[j] = slot[j]
      /\ slot'[k].id = slot[k].id /\ slot'[k].type = slot[k].type
      /\ slot'[k].high = slot[k].high /\ slot'[k].low = slot[k].low
      /\ slot'[k].dw = IF n = MsgSize THEN slot[k].dw ELSE <<[msg |-> msg, ptr |-> n]>>
  <2>1. CASE slot' = slot /\ n = MsgSize  BY <2>1
  <2>2. CASE n # MsgSize
    <3> PICK list : list = <<[msg |-> msg, ptr |-> n]>>  OBVIOUS
    <3> PICK new : new = [slot[k] EXCEPT !.dw = list]  OBVIOUS
    <3>1. slot' = [slot EXCEPT ![k] = new]  BY <1>1, <2>2
    <3>2. slot'[k] = new /\ \A j \in Slots : j # k => slot'[j] = slot[j]
      BY <1>2, <3>1 DEF LifeInv, SlotShape
    <3>3. new.dw = list /\ new.id = slot[k].id /\ new.type = slot[k].type /\ new.high = slot[k].high
          /\ new.low = slot[k].low
      BY <1>2 DEF LifeInv, SlotShape, Fields
    <3> QED  BY <2>2, <3>2, <3>3
  <2> QED  BY <1>1, <2>1, <2>2
<1>6. \A j \in Slots : j # k => (slot[j].type \notin Unused => slot[j].id # msg.to)
  BY <1>2 DEF LifeInv, SlotsOK, SlotOK, Unused
<1>7. /\ sender'[t] = Idle \/ (sender'[t].pc = "trigger" /\ sender'[t].msg = msg)
      /\ \A u \in Senders : u # t => sender'[u] = sender[u]
  <2>1. [sender[t] EXCEPT !.pc = "trigger"] = [pc |-> "trigger", msg |-> msg]  BY <1>1, SenderFacts
  <2> QED  BY <1>1, <2>1 DEF GoTo, LifeInv, SendersOK
<1>8. wire' = [wire EXCEPT ![msg.to] = wire[msg.to] \o Bytes([msg |-> msg, ptr |-> 0], n)]
  BY <1>1, <1>2
<1>9. WrittenFrom(k, msg)  BY <1>4, <1>5, <1>8 DEF WrittenFrom
<1> QED  BY Zenon, <1>1, <1>2, <1>5, <1>6, <1>7, <1>9

\* The write of a sender keeps the messages whole.
LEMMA DirectWriteWhole ==
    ASSUME LifeInv, SendInv, SendInv', WholeInv, NEW t \in Senders, DirectWrite(t), PipeAddressed'
    PROVE  WholeInv'
<1> PICK k : k = K(t)  OBVIOUS
<1> PICK msg : msg = sender[t].msg  OBVIOUS
<1>0. /\ sender[t].pc = "write" /\ k \in Slots /\ k = HASH_ID(msg.to)
      /\ msg \in Msgs /\ msg.to \in Ids /\ seen[msg.to] \in Sendable
      /\ slot[k].id = msg.to /\ slot[k].type = "CONNECTED" /\ dw_lock[k] = t
      /\ UNCHANGED <<pipe, poll, left, seen>>
      /\ \A j \in Slots : j # k => slot'[j] = slot[j] /\ (slot[j].type \notin Unused => slot[j].id # msg.to)
      /\ slot'[k].id = slot[k].id /\ slot'[k].type = slot[k].type
      /\ slot'[k].high = slot[k].high /\ slot'[k].low = slot[k].low
      /\ sender'[t] = Idle \/ (sender'[t].pc = "trigger" /\ sender'[t].msg = msg)
      /\ \A u \in Senders : u # t => sender'[u] = sender[u]
      /\ WrittenFrom(k, msg)
  BY ONLY LifeInv, SendInv, t \in Senders, DirectWrite(t), k = K(t), msg = sender[t].msg, DirectWriteSlot
<1> PICK fd : fd = msg.to  OBVIOUS
<1>1. /\ sender[t].pc = "write" /\ k \in Slots /\ k = HASH_ID(fd)
      /\ msg \in Msgs /\ fd \in Ids /\ seen[fd] \in Sendable
      /\ slot[k].id = fd /\ slot[k].type = "CONNECTED" /\ dw_lock[k] = t
      /\ UNCHANGED <<pipe, poll, left, seen>>
      /\ \A j \in Slots : j # k => slot'[j] = slot[j] /\ (slot[j].type \notin Unused => slot[j].id # fd)
      /\ slot'[k].id = slot[k].id /\ slot'[k].type = slot[k].type
      /\ slot'[k].high = slot[k].high /\ slot'[k].low = slot[k].low
      /\ sender'[t] = Idle \/ sender'[t].pc = "trigger"
      /\ \A u \in Senders : u # t => sender'[u] = sender[u]
  BY <1>0
<1>b. sender'[t].pc = "idle" \/ sender'[t].pc = "trigger"  BY ONLY <1>1 DEF Idle
<1>2. PICK n \in 0 .. MsgSize :
          /\ wire' = [wire EXCEPT ![fd] = wire[fd] \o Bytes([msg |-> msg, ptr |-> 0], n)]
          /\ slot'[k].dw = IF n = MsgSize THEN slot[k].dw ELSE <<[msg |-> msg, ptr |-> n]>>
  BY Zenon, <1>0 DEF WrittenFrom
<1> PICK w : w = wire[fd]  OBVIOUS
<1> PICK b : b = Bytes([msg |-> msg, ptr |-> 0], n)  OBVIOUS
<1> PICK c : c = w \o b  OBVIOUS
<1>3. w \in Seq(WireBytes) /\ wire \in [Ids -> Seq(WireBytes)]  BY <1>1 DEF WholeInv, WireOK
<1>4. b \in Seq(WireBytes) /\ MsgsOf(b) \subseteq {msg}  BY <1>1, BytesFacts
<1>5. c \in Seq(WireBytes) /\ MsgsOf(c) = MsgsOf(w) \cup MsgsOf(b)  BY <1>3, <1>4, JoinFacts, MsgsOfJoin
<1>6. wire' = [wire EXCEPT ![fd] = c]  BY <1>2
<1>7. wire'[fd] = c /\ \A i \in Ids : i # fd => wire'[i] = wire[i]  BY Zenon, <1>1, <1>3, <1>6
<1>8. WireOK'
  <2>1. wire' \in [Ids -> Seq(WireBytes)]  BY <1>3, <1>5, <1>6
  <2>2. \A i \in Ids : \A m \in MsgsOf(wire'[i]) : m.to = i
    BY Zenon, <1>4, <1>5, <1>7 DEF WholeInv, WireOK
  <2>3. \A i \in Ids : wire'[i] # <<>> => seen'[i] \in Sendable
    BY Zenon, <1>1, <1>7 DEF WholeInv, WireOK
  <2> QED  BY <2>1, <2>2, <2>3 DEF WireOK
<1>9. {u \in Senders : sender'[u] # sender[u] /\ sender'[u].pc = "write"} = {}  BY ONLY <1>1, <1>b
<1>10. ASSUME NEW j \in Slots, j # k PROVE RestsWhole(j)
  <2>1. Rests(j)  BY <1>1, <1>10, UntouchedRests DEF Rests
  <2>2. slot'[j].type \notin Unused => wire'[slot'[j].id] = wire[slot'[j].id]
    <3>1. slot[j].type \notin Unused => slot[j].id \in Ids /\ slot[j].id # fd
      BY <1>1, <1>10 DEF LifeInv, SlotsOK, SlotOK, Unused
    <3> QED  BY Zenon, <1>1, <1>7, <1>10, <3>1
  <2> QED  BY <2>1, <2>2 DEF RestsWhole
<1>11. \A m \in Waits(slot'[k]) : m.to = slot'[k].id
  <2>1. MsgsOf(slot'[k].dw) \subseteq MsgsOf(slot[k].dw) \cup {msg}
    <3>1. CASE n = MsgSize  BY <1>2, <3>1
    <3>2. CASE n # MsgSize
      <4> PICK buf : buf = [msg |-> msg, ptr |-> n]  OBVIOUS
      <4>1. slot'[k].dw = <<buf>> /\ buf.msg = msg  BY <1>2, <3>2
      <4> QED  BY <4>1, MsgsOfOne
    <3> QED  BY <3>1, <3>2
  <2>2. Waits(slot'[k]) \subseteq Waits(slot[k]) \cup {msg}  BY Zenon, <1>1, <2>1 DEF Waits
  <2> QED  BY <1>1, <2>2 DEF WholeInv, Addressed
<1>a. \A u \in Senders : ~(sender'[u].pc = "write" /\ sender'[u].msg.to = fd)
  <2> SUFFICES ASSUME NEW u \in Senders, sender'[u].pc = "write", sender'[u].msg.to = fd PROVE FALSE  OBVIOUS
  <2>1. u # t /\ sender[u].pc = "write" /\ sender[u].msg.to = fd  BY ONLY <1>1, <1>b, u \in Senders,
          sender'[u].pc = "write", sender'[u].msg.to = fd
  <2>2. K(u) = k  BY <1>1, <2>1 DEF K
  <2>3. dw_lock[K(u)] = u  BY <2>1 DEF SendInv, LockOK
  <2> QED  BY <1>1, <2>1, <2>2, <2>3
<1>12. ASSUME Live(k)'
       PROVE  GoesOnFrom(slot'[k], c)
  <2>1. Live(k)  BY <1>1, <1>12 DEF Live
  <2>2. slot[k].dw = <<>> /\ WholeTo(w)  BY Zenon, <1>1, <2>1 DEF WholeInv, WritersBegin
  <2>3. Chained(w) /\ Fresh(slot[k].high) /\ FreshTail(slot[k].high)
    BY Zenon, <1>1, <2>1, <2>2 DEF WholeInv, LiveWhole, GoesOnFrom, GoesOn
  <2>4. /\ Chained(c)
        /\ n = MsgSize => WholeTo(c)
        /\ n # MsgSize => GoesOn(c, <<[msg |-> msg, ptr |-> n]>>)
    BY Zenon, <1>1, <1>3, <2>2, <2>3, WriteBegins
  <2>5. CASE n = MsgSize
    <3>1. GoesOn(c, slot[k].high)  BY <2>3, <2>4, <2>5 DEF GoesOn
    <3> QED  BY Zenon, <1>1, <1>2, <2>2, <2>4, <2>5, <3>1 DEF GoesOnFrom
  <2>6. CASE n # MsgSize
    <3> PICK list : list = <<[msg |-> msg, ptr |-> n]>>  OBVIOUS
    <3>1. Len(list) = 1 /\ list # <<>> /\ slot'[k].dw = list /\ GoesOn(c, list)  BY <1>2, <2>4, <2>6
    <3>2. GoesOnFrom(slot'[k], c)  BY Zenon, <1>1, <2>3, <2>4, <3>1 DEF GoesOnFrom
    <3> QED  BY <3>2
  <2> QED  BY <2>5, <2>6
<1>13. GoesOnWell(k)  BY Zenon, <1>1, <1>7, <1>11, <1>12, <1>a DEF GoesOnWell
<1>14. \A j \in Slots : RestsWhole(j) \/ GoesOnWell(j)  BY <1>10, <1>13
<1> QED  BY <1>8, <1>9, <1>14, WholeStep

-----------------------------------------------------------------------------
(* Lists in order *)

\* The bytes of one message are in order.
LEMMA PrecedeItself == \A m \in Msgs : MayPrecede(m, m)
<1> SUFFICES ASSUME NEW m \in Msgs PROVE MayPrecede(m, m)  OBVIOUS
<1>1. m.left \in Nat  BY DEF Msgs
<1> QED  BY <1>1 DEF MayPrecede

\* What is written of a list is of its messages and goes before what is left of it.
LEMMA SentInOrder ==
    ASSUME NEW list \in Seq(Buffers), NEW room \in Nat, NEW r, r = SendList(list, room)
    PROVE  /\ r.bytes \in Seq(WireBytes) /\ r.rest \in Seq(Buffers)
           /\ MsgsOf(r.bytes) \subseteq MsgsOf(list) /\ MsgsOf(r.rest) \subseteq MsgsOf(list)
           /\ InOrderList(list) => /\ InOrderList(r.bytes) /\ InOrderList(r.rest)
                                   /\ Before(MsgsOf(r.bytes), MsgsOf(r.rest))
<1>1. CASE list = <<>>
  <2>1. r = [bytes |-> <<>>, rest |-> <<>>]  BY <1>1 DEF SendList
  <2>2. r.bytes = <<>> /\ r.rest = <<>> /\ <<>> \in Seq(WireBytes) /\ <<>> \in Seq(Buffers)  BY <2>1
  <2>3. MsgsOf(<<>>) = {} /\ Len(<<>>) = 0  BY MsgsOfOne
  <2> QED  BY <2>2, <2>3 DEF InOrderList, Before
<1>2. CASE list # <<>>
  <2> PICK up : up = TheSums(list)  OBVIOUS
  <2>1. PICK n, d, f : SentParts(list, up, r, n, d, f)  BY <1>2, SendListParts
  <2>2. /\ n \in Nat /\ d \in 0 .. Len(list) /\ Len(list) \in Nat
        /\ r.bytes \in Seq(WireBytes) /\ r.rest \in Seq(Buffers)
        /\ Len(r.bytes) = n /\ Len(r.rest) = Len(list) - d
        /\ \A x \in 1 .. n : f[x] \in 1 .. Len(list) /\ r.bytes[x].msg = list[f[x]].msg
    <3>1. /\ n \in Nat /\ d \in 0 .. Len(list) /\ Len(list) \in Nat
          /\ r.bytes \in Seq(WireBytes) /\ r.rest \in Seq(Buffers)
          /\ Len(r.bytes) = n /\ Len(r.rest) = Len(list) - d
          /\ f \in [1 .. n -> 1 .. Len(list)]
      BY <2>1 DEF SentParts
    <3>2. \A x \in 1 .. n :
              r.bytes[x] = [msg |-> list[f[x]].msg, byte |-> list[f[x]].ptr + x - up[f[x] - 1]]
      BY <2>1 DEF SentParts
    <3>3. ASSUME NEW x \in 1 .. n PROVE r.bytes[x].msg = list[f[x]].msg
      <4> PICK byte : byte = list[f[x]].ptr + x - up[f[x] - 1]  OBVIOUS
      <4>1. r.bytes[x] = [msg |-> list[f[x]].msg, byte |-> byte]  BY <3>2
      <4> QED  BY ONLY <4>1
    <3> QED  BY <3>1, <3>3
  <2>3. \A j \in 1 .. Len(list) - d : d + j \in 1 .. Len(list) /\ r.rest[j].msg = list[d + j].msg
    BY <2>1, <2>2 DEF SentParts
  <2>4. (\A x, y \in 1 .. n : x < y => f[x] <= f[y]) /\ (\A x \in 1 .. n : f[x] <= d + 1)
    <3>1. OneAfterAnother(list, up, n, d, f)  BY <2>1, PartsRise
    <3> QED  BY <3>1 DEF OneAfterAnother
  <2>5. MsgsOf(r.bytes) \subseteq MsgsOf(list) /\ MsgsOf(r.rest) \subseteq MsgsOf(list)
    <3>1. ASSUME NEW m \in MsgsOf(r.bytes) PROVE m \in MsgsOf(list)
      <4>1. PICK x \in 1 .. n : m = r.bytes[x].msg  BY <2>2 DEF MsgsOf
      <4> QED  BY <2>2, <4>1 DEF MsgsOf
    <3>2. ASSUME NEW m \in MsgsOf(r.rest) PROVE m \in MsgsOf(list)
      <4>1. PICK j \in 1 .. Len(list) - d : m = r.rest[j].msg  BY <2>2 DEF MsgsOf
      <4> QED  BY <2>3, <4>1 DEF MsgsOf
    <3> QED  BY <3>1, <3>2
  <2>6. ASSUME InOrderList(list)
        PROVE  \A p, q \in 1 .. Len(list) : p <= q => MayPrecede(list[p].msg, list[q].msg)
    <3> SUFFICES ASSUME NEW p \in 1 .. Len(list), NEW q \in 1 .. Len(list), p <= q
                 PROVE  MayPrecede(list[p].msg, list[q].msg)
      OBVIOUS
    <3>1. list[p] \in Buffers  OBVIOUS
    <3>2. list[p].msg \in Msgs  BY <3>1 DEF Buffers
    <3>3. p < q \/ p = q  BY <2>2
    <3> QED  BY <2>6, <3>2, <3>3, PrecedeItself DEF InOrderList
  <2>7. ASSUME InOrderList(list) PROVE InOrderList(r.bytes)
    <3> SUFFICES ASSUME NEW x \in 1 .. n, NEW y \in 1 .. n, x < y
                 PROVE  MayPrecede(r.bytes[x].msg, r.bytes[y].msg)
      BY <2>2 DEF InOrderList
    <3> QED  BY <2>2, <2>4, <2>6, <2>7
  <2>8. ASSUME InOrderList(list) PROVE InOrderList(r.rest)
    <3> SUFFICES ASSUME NEW x \in 1 .. Len(list) - d, NEW y \in 1 .. Len(list) - d, x < y
                 PROVE  MayPrecede(r.rest[x].msg, r.rest[y].msg)
      BY <2>2 DEF InOrderList
    <3>1. d + x <= d + y  BY <2>2
    <3> QED  BY <2>3, <2>6, <2>8, <3>1
  <2>9. ASSUME InOrderList(list) PROVE Before(MsgsOf(r.bytes), MsgsOf(r.rest))
    <3> SUFFICES ASSUME NEW x \in 1 .. n, NEW y \in 1 .. Len(list) - d
                 PROVE  MayPrecede(r.bytes[x].msg, r.rest[y].msg)
      BY <2>2 DEF Before, MsgsOf
    <3>1. f[x] <= d + y  BY <2>2, <2>4
    <3> QED  BY <2>2, <2>3, <2>6, <2>9, <3>1
  <2> QED  BY <2>2, <2>5, <2>7, <2>8, <2>9
<1> QED  BY <1>1, <1>2

-----------------------------------------------------------------------------
(* send_buffer *)

\* Of a slot and its wire, before and after: the lists are given up with the socket, or nothing
\* of them is written, or some of it is, the low list after the high one.
Sending(old, w, new, c) ==
    LET H == old.dw \o old.high
    IN  \/ new.type \in Unused /\ new.high = <<>> /\ new.low = <<>> /\ c = w
        \/ new.high = H /\ new.low = old.low /\ c = w
        \/ \E h, l : \E room, more \in Nat :
              /\ h = SendList(H, room)
              /\ l = IF h.rest = <<>> THEN SendList(old.low, more) ELSE [bytes |-> <<>>, rest |-> old.low]
              /\ c = (w \o h.bytes) \o l.bytes
              /\ IF h.rest = <<>> /\ l.rest # <<>> /\ Head(l.rest).ptr > 0
                 THEN new.high = <<Head(l.rest)>> /\ new.low = Tail(l.rest)
                 ELSE new.high = h.rest /\ new.low = l.rest

\* Of the step: what it changes, and of whom
LEMMA SendBufferSlot ==
    ASSUME LifeInv, SendInv, wire \in [Ids -> Seq(WireBytes)], SendBuffer,
           NEW k, k = E0.k, NEW old, old = slot[k], NEW id, id = old.id
    PROVE  /\ k \in Slots /\ DOMAIN old = Fields /\ SlotTyped(old) /\ old.type \notin Unused
           /\ id \in Ids /\ HASH_ID(id) = k /\ Polling
           /\ dw_lock[k] = Free /\ UNCHANGED <<pipe, sender, left, dw_lock>>
           /\ poll'.forcing = poll.forcing
           /\ \A j \in Slots : j # k => slot'[j] = slot[j]
           /\ slot'[k].id = id /\ slot'[k].dw = <<>>
           /\ \E c : wire' = [wire EXCEPT ![id] = c] /\ Sending(old, wire[id], slot'[k], c)
<1> DEFINE s == [Polled EXCEPT !.high = Polled.dw \o @, !.dw = <<>>]
           i == s.id
           high == SendList(s.high, net[i].room)
           low == IF high.rest = <<>> THEN SendList(s.low, net[i].room - Len(high.bytes))
                  ELSE [bytes |-> <<>>, rest |-> s.low]
           sent == RaiseUncomplete([s EXCEPT !.high = high.rest, !.low = low.rest])
           after == IF ~send_buffer_empty(s) /\ net[i].peer # "up" THEN CloseWrite(s) ELSE Flushed(sent)
<1>1. /\ Writing /\ dw_lock[k] = Free /\ slot' = [slot EXCEPT ![k] = after]
      /\ IF net[i].peer = "up"
         THEN wire' = [wire EXCEPT ![i] = @ \o high.bytes \o low.bytes] ELSE wire' = wire
  <2>1. slot' = [slot EXCEPT ![k] = after]
    <3>1. slot' = [slot EXCEPT ![E0.k] = after]  BY Zenon DEF SendBuffer
    <3> HIDE DEF after
    <3> QED  BY <3>1
  <2>2. Writing /\ dw_lock[k] = Free  BY Zenon DEF SendBuffer
  <2>3. IF net[i].peer = "up"
        THEN wire' = [wire EXCEPT ![i] = @ \o high.bytes \o low.bytes] ELSE wire' = wire
    BY Zenon DEF SendBuffer
  <2> HIDE DEF after, sent, low, high, i, s
  <2> QED  BY Zenon, <2>1, <2>2, <2>3
<1>2. /\ k \in Slots /\ Polled = old /\ id \in Ids /\ HASH_ID(id) = k
      /\ DOMAIN old = Fields /\ SlotTyped(old) /\ old.type \notin Unused /\ Polling
  <2>1. Turn(Streams) /\ "INVALID" \notin Streams  BY <1>1 DEF Writing, Streams
  <2>2. /\ k \in Slots /\ Polled = old /\ id \in Ids
        /\ DOMAIN old = Fields /\ SlotTyped(old) /\ old.type \notin Unused
    BY <2>1, PolledTyped
  <2>3. HASH_ID(id) = k  BY <2>2 DEF LifeInv, SlotsOK, SlotOK, Unused
  <2> QED  BY <2>1, <2>2, <2>3 DEF Turn, EventNext
<1> PICK H : H = old.dw \o old.high  OBVIOUS
<1> PICK t : t = [old EXCEPT !.high = H, !.dw = <<>>]  OBVIOUS
<1>3. s = t  BY <1>2
<1>4. /\ DOMAIN t = Fields /\ t.high = H /\ t.low = old.low /\ t.dw = <<>> /\ t.type = old.type
      /\ t.id = id
  BY <1>2 DEF Fields
<1>5. i = id  BY <1>3, <1>4
<1> PICK room : room = net[id].room  OBVIOUS
<1> PICK h : h = SendList(H, room)  OBVIOUS
<1> PICK more : more = room - Len(h.bytes)  OBVIOUS
<1> PICK l : l = IF h.rest = <<>> THEN SendList(old.low, more) ELSE [bytes |-> <<>>, rest |-> old.low]
  BY Zenon
<1> PICK g : g = [t EXCEPT !.high = h.rest, !.low = l.rest]  BY Zenon
<1> PICK u : u = RaiseUncomplete(g)  BY Zenon
<1>6. high = h
  <2> HIDE DEF s
  <2> QED  BY Zenon, <1>3, <1>4
<1>7. low = l
  <2>1. low = IF high.rest = <<>> THEN SendList(s.low, net[i].room - Len(high.bytes))
              ELSE [bytes |-> <<>>, rest |-> s.low]
    BY Zenon
  <2>2. s.low = old.low  BY Zenon, <1>3, <1>4
  <2>3. net[i].room = room  BY Zenon, <1>5
  <2> HIDE DEF low, high, s, i
  <2>4. low = IF h.rest = <<>> THEN SendList(old.low, room - Len(h.bytes))
              ELSE [bytes |-> <<>>, rest |-> old.low]
    BY ONLY <1>6, <2>1, <2>2, <2>3
  <2> QED  BY ONLY <2>4, more = room - Len(h.bytes),
              l = IF h.rest = <<>> THEN SendList(old.low, more) ELSE [bytes |-> <<>>, rest |-> old.low]
<1>8. sent = u
  <2> HIDE DEF high, low, s
  <2> QED  BY Zenon, <1>3, <1>6, <1>7
<1>9. after = IF ~send_buffer_empty(t) /\ net[id].peer # "up" THEN CloseWrite(t) ELSE Flushed(u)
  <2> HIDE DEF sent, s, i
  <2> QED  BY Zenon, <1>3, <1>5, <1>8
<1> PICK new : new = after
  <2> HIDE DEF after
  <2> QED  BY Zenon
<1>10. slot' = [slot EXCEPT ![k] = new]
  <2> HIDE DEF after
  <2> QED  BY Zenon, <1>1
<1>11. IF net[id].peer = "up" THEN wire' = [wire EXCEPT ![id] = (wire[id] \o h.bytes) \o l.bytes] ELSE wire' = wire
  <2> HIDE DEF high, low, i
  <2> QED  BY Zenon, <1>1, <1>5, <1>6, <1>7
<1>12. new = IF ~send_buffer_empty(t) /\ net[id].peer # "up" THEN CloseWrite(t) ELSE Flushed(u)
  <2> HIDE DEF after
  <2> QED  BY Zenon, <1>9
<1>13. /\ UNCHANGED <<pipe, sender, left, dw_lock>> /\ poll'.forcing = poll.forcing
       /\ dw_lock[k] = Free
  BY Zenon, <1>1, <1>2 DEF Writing, Handled, LifeInv, PollShape
<1> HIDE DEF after, sent, low, high, i, s
<1>14. slot'[k] = new /\ \A j \in Slots : j # k => slot'[j] = slot[j]
  BY Zenon, <1>2, <1>10 DEF LifeInv, SlotShape
<1>15. /\ H \in Seq(Buffers) /\ old.low \in Seq(Buffers)
  <2>1. old.dw \in Seq(Buffers) /\ old.high \in Seq(Buffers) /\ old.low \in Seq(Buffers)
    BY Zenon, <1>2 DEF SlotTyped
  <2> QED  BY ONLY <2>1, H = old.dw \o old.high
<1>16. room \in Nat  BY Zenon, <1>2 DEF SendInv, NetOK
<1>17. /\ h.rest \in Seq(Buffers) /\ Len(h.bytes) \in 0 .. room /\ more \in Nat
       /\ l.rest \in Seq(Buffers)
  <2>1. h.rest \in Seq(Buffers) /\ Len(h.bytes) \in 0 .. room  BY ZenonT(60), <1>15, <1>16, SendListFacts
  <2>2. more \in Nat  BY ONLY <1>16, <2>1, more = room - Len(h.bytes)
  <2>3. l.rest \in Seq(Buffers)  BY ZenonT(60), <1>15, <2>2, SendListFacts
  <2> QED  BY Zenon, <2>1, <2>2, <2>3
<1>18. /\ DOMAIN g = Fields /\ g.high = h.rest /\ g.low = l.rest /\ g.dw = <<>> /\ g.id = id
  BY Zenon, <1>4 DEF Fields
<1>19. /\ DOMAIN u = Fields /\ u.dw = <<>> /\ u.id = id
       /\ IF h.rest = <<>> /\ l.rest # <<>> /\ Head(l.rest).ptr > 0
          THEN u.high = <<Head(l.rest)>> /\ u.low = Tail(l.rest)
          ELSE u.high = h.rest /\ u.low = l.rest
  <2>1. CASE h.rest = <<>> /\ l.rest # <<>> /\ Head(l.rest).ptr > 0
    <3>1. u = [g EXCEPT !.high = <<Head(g.low)>>, !.low = Tail(g.low)]  BY ZenonT(60), <1>18,
         <2>1 DEF RaiseUncomplete
    <3> QED  BY ZenonT(60), <1>18, <2>1, <3>1 DEF Fields
  <2>2. CASE ~(h.rest = <<>> /\ l.rest # <<>> /\ Head(l.rest).ptr > 0)
    <3>1. u = g  BY Zenon, <1>18, <2>2 DEF RaiseUncomplete
    <3> QED  BY Zenon, <1>18, <2>2, <3>1
  <2> QED  BY Zenon, <2>1, <2>2
<1>20. ASSUME new = Flushed(u)
       PROVE  new.high = u.high /\ new.low = u.low /\ new.id = id /\ new.dw = <<>>
  <2>1. CASE new = u  BY ZenonT(60), <1>19, <2>1
  <2>2. CASE new = [u EXCEPT !.writing = FALSE]  BY ZenonT(60), <1>19, <2>2 DEF Fields
  <2>3. CASE send_buffer_empty(u) /\ new = Closed(u)
    <3>1. u.high = <<>> /\ u.low = <<>>  BY Zenon, <2>3 DEF send_buffer_empty
    <3>2. new.high = <<>> /\ new.low = <<>> /\ new.id = u.id /\ new.dw = <<>>
      BY ZenonT(60), <1>19, <2>3 DEF Closed, Fields
    <3> QED  BY Zenon, <1>19, <3>1, <3>2
  <2> QED  BY Zenon, <1>20, <2>1, <2>2, <2>3 DEF Flushed
<1>21. CASE net[id].peer = "up"
  <2>1. new = Flushed(u)  BY Zenon, <1>12, <1>21
  <2> PICK c : c = (wire[id] \o h.bytes) \o l.bytes  BY Zenon
  <2>2. new.high = u.high /\ new.low = u.low /\ new.id = id /\ new.dw = <<>>  BY Zenon, <1>20, <2>1
  <2>3. Sending(old, wire[id], new, c)
    <3>1. IF h.rest = <<>> /\ l.rest # <<>> /\ Head(l.rest).ptr > 0
          THEN new.high = <<Head(l.rest)>> /\ new.low = Tail(l.rest)
          ELSE new.high = h.rest /\ new.low = l.rest
      BY ONLY <1>19, <2>2
    <3>2. h = SendList(old.dw \o old.high, room)  BY Zenon
    <3> QED  BY ONLY Zenon, <1>16, <1>17, <3>1, <3>2, c = (wire[id] \o h.bytes) \o l.bytes,
                l = IF h.rest = <<>> THEN SendList(old.low, more) ELSE [bytes |-> <<>>, rest |-> old.low]
                DEF Sending
  <2>4. wire' = [wire EXCEPT ![id] = c]  BY Zenon, <1>11, <1>21
  <2> QED  BY Zenon, <1>2, <1>13, <1>14, <2>2, <2>3, <2>4
<1>22. CASE net[id].peer # "up"
  <2>1. new.id = id /\ new.dw = <<>> /\ Sending(old, wire[id], new, wire[id])
    <3>1. CASE send_buffer_empty(t)
      <4>1. H = <<>> /\ old.low = <<>>  BY Zenon, <1>4, <3>1 DEF send_buffer_empty
      <4>2. h.rest = <<>> /\ l.rest = <<>>  BY Zenon, <4>1 DEF SendList
      <4>3. new = Flushed(u)  BY Zenon, <1>12, <3>1
      <4>4. new.high = <<>> /\ new.low = <<>> /\ new.id = id /\ new.dw = <<>>
        <5>1. u.high = <<>> /\ u.low = <<>>  BY ONLY <1>19, <4>2
        <5> QED  BY ONLY <1>20, <4>3, <5>1
      <4>5. old.dw \o old.high = <<>>  BY Zenon, <4>1
      <4> QED  BY ONLY <4>1, <4>4, <4>5 DEF Sending
    <3>2. CASE ~send_buffer_empty(t)
      <4>1. new = CloseWrite(t)  BY Zenon, <1>12, <1>22, <3>2
      <4>2. CASE new = Closed(t)
        <5>1. /\ new.id = id /\ new.dw = <<>> /\ new.high = <<>> /\ new.low = <<>> /\ new.type = "INVALID"
          BY Zenon, <1>4, <4>2 DEF Closed, Fields
        <5> QED  BY Zenon, <5>1 DEF Sending, Unused
      <4>3. CASE new = t \/ new = [t EXCEPT !.type = "HALFCLOSE_WRITE", !.writing = FALSE]
        <5>1. new.id = id /\ new.dw = <<>> /\ new.high = H /\ new.low = old.low
          BY Zenon, <1>4, <4>3 DEF Fields
        <5> QED  BY Zenon, <5>1 DEF Sending
      <4> QED  BY Zenon, <4>1, <4>2, <4>3 DEF CloseWrite
    <3> QED  BY Zenon, <3>1, <3>2
  <2>2. wire' = [wire EXCEPT ![id] = wire[id]]  BY Zenon, <1>2, <1>11, <1>22
  <2> QED  BY Zenon, <1>2, <1>13, <1>14, <2>1, <2>2
<1> QED  BY Zenon, <1>21, <1>22

\* What send_buffer leaves, of the messages that waited
LEMMA SendingMsgs ==
    ASSUME NEW old, SlotTyped(old), NEW w \in Seq(WireBytes), NEW new, new.dw = <<>>, NEW c,
           Sending(old, w, new, c)
    PROVE  /\ c \in Seq(WireBytes) /\ MsgsOf(c) \subseteq MsgsOf(w) \cup Waits(old)
           /\ Waits(new) \subseteq Waits(old)
<1> PICK H : H = old.dw \o old.high  OBVIOUS
<1>1. H \in Seq(Buffers) /\ old.low \in Seq(Buffers) /\ MsgsOf(H) = MsgsOf(old.dw) \cup MsgsOf(old.high)
  <2>1. old.dw \in Seq(Buffers) /\ old.high \in Seq(Buffers) /\ old.low \in Seq(Buffers)  BY DEF SlotTyped
  <2> QED  BY <2>1, MsgsOfJoin, JoinFacts
<1>2. MsgsOf(<<>>) = {}  BY MsgsOfOne
<1>3. CASE new.high = <<>> /\ new.low = <<>> /\ c = w  BY <1>2, <1>3 DEF Waits
<1>4. CASE new.high = H /\ new.low = old.low /\ c = w  BY <1>1, <1>2, <1>4 DEF Waits
<1>5. ASSUME NEW h, NEW l, NEW room \in Nat, NEW more \in Nat,
             h = SendList(H, room),
             l = IF h.rest = <<>> THEN SendList(old.low, more) ELSE [bytes |-> <<>>, rest |-> old.low],
             c = (w \o h.bytes) \o l.bytes,
             IF h.rest = <<>> /\ l.rest # <<>> /\ Head(l.rest).ptr > 0
             THEN new.high = <<Head(l.rest)>> /\ new.low = Tail(l.rest)
             ELSE new.high = h.rest /\ new.low = l.rest
      PROVE  /\ c \in Seq(WireBytes) /\ MsgsOf(c) \subseteq MsgsOf(w) \cup Waits(old)
             /\ Waits(new) \subseteq Waits(old)
  <2>1. /\ h.bytes \in Seq(WireBytes) /\ h.rest \in Seq(Buffers)
        /\ MsgsOf(h.bytes) \subseteq MsgsOf(H) /\ MsgsOf(h.rest) \subseteq MsgsOf(H)
    BY <1>1, <1>5, SentInOrder
  <2>2. /\ l.bytes \in Seq(WireBytes) /\ l.rest \in Seq(Buffers)
        /\ MsgsOf(l.bytes) \subseteq MsgsOf(old.low) /\ MsgsOf(l.rest) \subseteq MsgsOf(old.low)
    <3>1. CASE h.rest = <<>>  BY <1>1, <1>5, <3>1, SentInOrder
    <3>2. CASE h.rest # <<>>
      <4>1. l.bytes = <<>> /\ l.rest = old.low  BY <1>5, <3>2
      <4>2. <<>> \in Seq(WireBytes)  OBVIOUS
      <4> QED  BY <1>1, <1>2, <4>1, <4>2
    <3> QED  BY <3>1, <3>2
  <2>3. /\ c \in Seq(WireBytes)
        /\ MsgsOf(c) = (MsgsOf(w) \cup MsgsOf(h.bytes)) \cup MsgsOf(l.bytes)
    <3> PICK v : v = w \o h.bytes  OBVIOUS
    <3>1. v \in Seq(WireBytes) /\ MsgsOf(v) = MsgsOf(w) \cup MsgsOf(h.bytes)
      BY <2>1, MsgsOfJoin, JoinFacts
    <3>2. c = v \o l.bytes  BY <1>5
    <3>3. c \in Seq(WireBytes) /\ MsgsOf(c) = MsgsOf(v) \cup MsgsOf(l.bytes)
      BY ONLY <2>2, <3>1, <3>2, MsgsOfJoin, JoinFacts
    <3> QED  BY <3>1, <3>3
  <2>4. MsgsOf(new.high) \cup MsgsOf(new.low) \subseteq MsgsOf(H) \cup MsgsOf(old.low)
    <3>1. CASE h.rest = <<>> /\ l.rest # <<>> /\ Head(l.rest).ptr > 0
      <4>1. new.high = <<Head(l.rest)>> /\ new.low = Tail(l.rest)  BY <1>5, <3>1
      <4> PICK one : one = <<Head(l.rest)>>  OBVIOUS
      <4> PICK rest : rest = Tail(l.rest)  OBVIOUS
      <4>2. l.rest = one \o rest /\ rest \in Seq(Buffers) /\ one \in Seq(Buffers)
        BY <2>2, <3>1
      <4>3. MsgsOf(l.rest) = MsgsOf(new.high) \cup MsgsOf(new.low)
        <5>1. MsgsOf(one \o rest) = MsgsOf(one) \cup MsgsOf(rest)  BY ZenonT(60), <4>2, MsgsOfJoin
        <5> QED  BY <4>1, <4>2, <5>1
      <4> QED  BY <2>2, <4>3
    <3>2. CASE ~(h.rest = <<>> /\ l.rest # <<>> /\ Head(l.rest).ptr > 0)
      <4>1. new.high = h.rest /\ new.low = l.rest  BY <1>5, <3>2
      <4> QED  BY <2>1, <2>2, <4>1
    <3> QED  BY <3>1, <3>2
  <2> QED  BY <1>1, <1>2, <2>1, <2>2, <2>3, <2>4 DEF Waits
<1> QED  BY <1>3, <1>4, <1>5 DEF Sending

\* It goes on from its wire, or is closed.
LEMMA SendingGoesOn ==
    ASSUME NEW old, SlotTyped(old), NEW w \in Seq(WireBytes), NEW new, new.dw = <<>>, NEW c,
           Sending(old, w, new, c), GoesOnFrom(old, w), new.type \notin Unused
    PROVE  GoesOnFrom(new, c)
<1> PICK H : H = old.dw \o old.high  OBVIOUS
<1>0. old.dw \in Seq(Buffers) /\ old.high \in Seq(Buffers) /\ old.low \in Seq(Buffers)  BY DEF SlotTyped
<1>1. H \in Seq(Buffers) /\ Fresh(old.low) /\ FreshTail(old.low)
  <2>1. H \in Seq(Buffers)  BY <1>0
  <2>2. \A j \in 1 .. Len(old.low) : old.low[j].ptr = 0  BY DEF SlotTyped
  <2> QED  BY <2>1, <2>2 DEF Fresh, FreshTail
<1>2. Chained(w) /\ GoesOn(w, H)
  <2>1. CASE old.dw = <<>>
    <3>1. H = old.high  BY <1>0, <2>1
    <3> QED  BY <2>1, <3>1 DEF GoesOnFrom
  <2>2. CASE old.dw # <<>>
    <3>1. GoesOn(w, old.dw) /\ Len(old.dw) = 1 /\ Fresh(old.high) /\ Chained(w)  BY <2>2 DEF GoesOnFrom
    <3> PICK dw : dw = old.dw  OBVIOUS
    <3> PICK tail : tail = old.high  OBVIOUS
    <3>a. dw \in Seq(Buffers) /\ tail \in Seq(Buffers) /\ Len(dw) = 1 /\ H = dw \o tail
      BY <1>0, <3>1
    <3>2. /\ Len(H) = 1 + Len(tail) /\ H[1] = dw[1] /\ Len(tail) \in Nat
          /\ \A x \in 1 .. Len(tail) : H[1 + x] = tail[x]
      <4>1. /\ Len(dw \o tail) = Len(dw) + Len(tail) /\ Len(tail) \in Nat
            /\ \A x \in 1 .. Len(dw) : (dw \o tail)[x] = dw[x]
            /\ \A x \in 1 .. Len(tail) : (dw \o tail)[Len(dw) + x] = tail[x]
        <5>1. dw \in Seq(Buffers) /\ tail \in Seq(Buffers)  BY ONLY <3>a
        <5> QED  BY ONLY <5>1, JoinFacts
      <4>2. 1 \in 1 .. Len(dw)  BY <3>a
      <4> QED  BY ONLY <3>a, <4>1, <4>2
    <3>b. H # <<>>
      <4>1. Len(H) # 0  BY ONLY <3>2
      <4> QED  BY ONLY <4>1
    <3>3. \A p \in 2 .. Len(H) : p - 1 \in 1 .. Len(tail) /\ 1 + (p - 1) = p  BY ONLY <3>2
    <3>c. Fresh(tail)  BY <3>1
    <3>4. ASSUME NEW p \in 2 .. Len(H) PROVE H[p].ptr = 0
      <4>1. H[p] = tail[p - 1] /\ p - 1 \in 1 .. Len(tail)  BY ONLY <3>2, <3>3, p \in 2 .. Len(H)
      <4> QED  BY ONLY <3>c, <4>1 DEF Fresh
    <3>5. Fresh(dw) => Fresh(H)
      <4>1. ASSUME Fresh(dw), NEW p \in 1 .. Len(H) PROVE H[p].ptr = 0
        <5>1. p = 1 \/ p \in 2 .. Len(H)  BY ONLY <3>2, p \in 1 .. Len(H)
        <5>2. dw[1].ptr = 0
          <6>1. 1 \in 1 .. Len(dw)  BY ONLY <3>a
          <6> QED  BY ONLY <4>1, <6>1 DEF Fresh
        <5> QED  BY ONLY <3>2, <3>4, <5>1, <5>2
      <4> QED  BY ONLY <4>1 DEF Fresh
    <3>6. FreshTail(H)  BY ONLY <3>4 DEF FreshTail
    <3> QED  BY <3>1, <3>2, <3>5, <3>6, <3>b DEF GoesOn
  <2> QED  BY <2>1, <2>2
<1>3. CASE new.high = H /\ c = w  BY <1>2, <1>3 DEF GoesOnFrom
<1>4. ASSUME NEW h, NEW l, NEW room \in Nat, NEW more \in Nat,
             h = SendList(H, room),
             l = IF h.rest = <<>> THEN SendList(old.low, more) ELSE [bytes |-> <<>>, rest |-> old.low],
             c = (w \o h.bytes) \o l.bytes,
             IF h.rest = <<>> /\ l.rest # <<>> /\ Head(l.rest).ptr > 0
             THEN new.high = <<Head(l.rest)>> /\ new.low = Tail(l.rest)
             ELSE new.high = h.rest /\ new.low = l.rest
      PROVE  GoesOnFrom(new, c)
  <2> PICK v : v = w \o h.bytes  OBVIOUS
  <2>1. /\ h.bytes \in Seq(WireBytes) /\ h.rest \in Seq(Buffers)
        /\ v \in Seq(WireBytes) /\ Chained(v) /\ GoesOn(v, h.rest)
    BY <1>1, <1>2, <1>4, SendListGoesOn
  <2>2. CASE h.rest # <<>>
    <3>1. l.bytes = <<>> /\ l.rest = old.low  BY <1>4, <2>2
    <3>2. c = v
      <4>1. c = v \o l.bytes  BY <1>4
      <4>2. <<>> \in Seq(WireBytes)  OBVIOUS
      <4> QED  BY ONLY <2>1, <3>1, <4>1, <4>2, WholeToJoin
    <3>3. new.high = h.rest  BY <1>4, <2>2
    <3> QED  BY <2>1, <3>2, <3>3 DEF GoesOnFrom
  <2>3. CASE h.rest = <<>>
    <3>1. WholeTo(v)  BY <2>1, <2>3, EmptyGoesOn
    <3>2. GoesOn(v, old.low)  BY <1>1, <3>1 DEF GoesOn
    <3>3. l = SendList(old.low, more) /\ c = v \o l.bytes  BY <1>4, <2>3
    <3>4. l.rest \in Seq(Buffers) /\ c \in Seq(WireBytes) /\ Chained(c) /\ GoesOn(c, l.rest)
      BY <1>0, <2>1, <3>2, <3>3, SendListGoesOn
    <3>5. CASE l.rest # <<>> /\ Head(l.rest).ptr > 0
      <4> PICK b : b = Head(l.rest)  OBVIOUS
      <4>1. new.high = <<b>> /\ b = l.rest[1] /\ 1 \in 1 .. Len(l.rest) /\ b.ptr # 0
        BY <1>4, <2>3, <3>4, <3>5
      <4>2. ~WholeTo(c)  BY <3>4, <4>1 DEF GoesOn, Fresh
      <4>3. Len(<<b>>) = 1 /\ <<b>>[1] = b /\ <<b>> # <<>>  OBVIOUS
      <4>4. FreshTail(<<b>>)  BY <4>3 DEF FreshTail
      <4>5. GoesOn(c, <<b>>)  BY <3>4, <4>1, <4>2, <4>3, <4>4 DEF GoesOn
      <4> QED  BY <3>4, <4>1, <4>5 DEF GoesOnFrom
    <3>6. CASE ~(l.rest # <<>> /\ Head(l.rest).ptr > 0)
      <4>1. new.high = <<>>  BY <1>4, <2>3, <3>6
      <4>2. WholeTo(c)
        <5>1. CASE l.rest = <<>>  BY <3>4, <5>1, EmptyGoesOn
        <5>2. CASE l.rest # <<>>
          <6>1. SUFFICES ASSUME ~WholeTo(c) PROVE FALSE  OBVIOUS
          <6>2. c # <<>> /\ l.rest[1].ptr = c[Len(c)].byte  BY <3>4, <6>1 DEF GoesOn, WholeTo
          <6>3. c[Len(c)] \in WireBytes
            <7>1. Len(c) \in 1 .. Len(c)  BY <3>4, <6>2
            <7> QED  BY <3>4, <7>1
          <6>4. c[Len(c)].byte \in 1 .. MsgSize  BY <6>3 DEF WireBytes
          <6>5. Head(l.rest) = l.rest[1]  BY <3>4, <5>2
          <6> QED  BY <3>6, <5>2, <6>2, <6>4, <6>5, SocketAssumption
        <5> QED  BY <5>1, <5>2
      <4> QED  BY <3>4, <4>1, <4>2, EmptyGoesOn DEF GoesOnFrom
    <3> QED  BY <3>5, <3>6
  <2> QED  BY <2>2, <2>3
<1> QED  BY <1>3, <1>4 DEF Sending

\* send_buffer keeps the messages whole.
LEMMA SendBufferWhole ==
    ASSUME LifeInv, SendInv, SendInv', WholeInv, SeenStays, SendBuffer, PipeAddressed'
    PROVE  WholeInv'
<1> PICK k : k = E0.k  OBVIOUS
<1> PICK old : old = slot[k]  OBVIOUS
<1> PICK id : id = old.id  OBVIOUS
<1> PICK w : w = wire[id]  OBVIOUS
<1>0. wire \in [Ids -> Seq(WireBytes)]  BY DEF WholeInv, WireOK
<1>1. /\ k \in Slots /\ SlotTyped(old) /\ old.type \notin Unused
      /\ id \in Ids /\ HASH_ID(id) = k /\ Polling
      /\ dw_lock[k] = Free /\ UNCHANGED <<pipe, sender, left, dw_lock>>
      /\ poll'.forcing = poll.forcing
      /\ \A j \in Slots : j # k => slot'[j] = slot[j]
      /\ slot'[k].id = id /\ slot'[k].dw = <<>>
      /\ \E c : wire' = [wire EXCEPT ![id] = c] /\ Sending(old, w, slot'[k], c)
  BY <1>0, SendBufferSlot
<1>2. PICK c : wire' = [wire EXCEPT ![id] = c] /\ Sending(old, w, slot'[k], c)  BY <1>1
<1> PICK new : new = slot'[k]  OBVIOUS
<1>3. w \in Seq(WireBytes)  BY <1>0, <1>1
<1>4. /\ c \in Seq(WireBytes) /\ MsgsOf(c) \subseteq MsgsOf(w) \cup Waits(old)
      /\ Waits(new) \subseteq Waits(old)
  BY <1>1, <1>2, <1>3, SendingMsgs
<1>5. wire'[id] = c /\ \A i \in Ids : i # id => wire'[i] = wire[i]  BY <1>0, <1>1, <1>2
<1>6. WireOK'
  <2>1. wire' \in [Ids -> Seq(WireBytes)]  BY <1>0, <1>2, <1>4
  <2>2. \A i \in Ids : \A m \in MsgsOf(wire'[i]) : m.to = i
    BY <1>1, <1>4, <1>5 DEF WholeInv, WireOK, Addressed
  <2>3. \A i \in Ids : wire'[i] # <<>> => seen'[i] \in Sendable
    <3>1. seen[id] \in Sendable \/ c = <<>>
      <4> SUFFICES ASSUME seen[id] \notin Sendable PROVE c = <<>>  OBVIOUS
      <4>1. old.type \in Streams
        BY Zenon DEF SendBuffer, Writing, Turn, Polled
      <4>2. SlotOK(k) /\ seen[id] \in KnownAs(old.type)  BY <1>1 DEF LifeInv, SlotsOK, SlotOK, Unused
      <4>3. old.type = "PLISTEN"
        <5>1. old.type # "PLISTEN" => KnownAs(old.type) \subseteq Sendable
          BY <4>1 DEF Streams, KnownAs, Sendable
        <5> QED  BY <4>2, <5>1
      <4>4. w = <<>> /\ old.dw = <<>> /\ old.high = <<>> /\ old.low = <<>>
        BY <1>1, <4>2, <4>3 DEF WholeInv, WireOK, SlotOK, Paused
      <4>5. MsgsOf(c) = {}  BY <1>4, <4>4, MsgsOfOne DEF Waits
      <4>6. c[1].msg \notin MsgsOf(c)  BY <4>5
      <4>7. 1 \notin 1 .. Len(c)  BY <4>6 DEF MsgsOf
      <4> QED  BY ONLY <1>4, <4>7
    <3> QED  BY <1>5, <3>1 DEF WholeInv, WireOK, SeenStays
  <2> QED  BY <2>1, <2>2, <2>3 DEF WireOK
<1>7. {u \in Senders : sender'[u] # sender[u] /\ sender'[u].pc = "write"} = {}  BY <1>1
<1>8. ASSUME NEW j \in Slots, j # k PROVE RestsWhole(j)
  <2>1. Rests(j)  BY <1>1, <1>8, UntouchedRests DEF Rests
  <2>2. slot'[j].type \notin Unused => wire'[slot'[j].id] = wire[slot'[j].id]
    <3>1. slot[j].type \notin Unused => slot[j].id \in Ids /\ slot[j].id # id
      BY <1>1, <1>8 DEF LifeInv, SlotsOK, SlotOK, Unused
    <3> QED  BY <1>1, <1>5, <1>8, <3>1
  <2> QED  BY <2>1, <2>2 DEF RestsWhole
<1>9. \A m \in Waits(new) : m.to = id  BY <1>1, <1>4 DEF WholeInv, Addressed
<1>10. \A u \in Senders : ~(sender'[u].pc = "write" /\ sender'[u].msg.to = id)
  <2> SUFFICES ASSUME NEW u \in Senders, sender[u].pc = "write", sender[u].msg.to = id PROVE FALSE
    BY <1>1
  <2>1. K(u) = k  BY <1>1 DEF K
  <2>2. dw_lock[K(u)] = u  BY DEF SendInv, LockOK
  <2> QED  BY <1>1, <2>1, <2>2, SocketAssumption
<1>11. ASSUME Live(k)' PROVE GoesOnFrom(new, c)
  <2>1. Live(k) /\ new.type \notin Unused  BY <1>1, <1>11 DEF Live
  <2>2. GoesOnFrom(old, w)  BY <1>1, <2>1 DEF WholeInv, LiveWhole
  <2> QED  BY ONLY <1>1, <1>2, <1>3, <2>1, <2>2, new = slot'[k], SendingGoesOn
<1>12. GoesOnWell(k)  BY <1>1, <1>5, <1>9, <1>10, <1>11 DEF GoesOnWell
<1>13. \A j \in Slots : RestsWhole(j) \/ GoesOnWell(j)  BY <1>8, <1>12
<1> QED  BY <1>6, <1>7, <1>13, WholeStep

-----------------------------------------------------------------------------
(* Whole messages, in every state *)

\* Every step keeps the invariant.
LEMMA WholeInvStep ==
    ASSUME LifeInv, SendInv, SendInv', SeenStays, WholeInv, [Next]_vars
    PROVE  WholeInv'
<1>1. PipeAddressed'  BY PipeStaysAddressed DEF WholeInv
<1>2. CASE SendBuffer  BY <1>1, <1>2, SendBufferWhole
<1>3. CASE SendSocket  BY <1>1, <1>3, SendSocketWhole
<1>4. ASSUME NEW t \in Senders, DirectWrite(t) PROVE WholeInv'  BY <1>1, <1>4, DirectWriteWhole
<1>5. CASE ~Writes
  <2>1. WireOK  BY DEF WholeInv
  <2>2. UNCHANGED wire /\ \A j \in Slots : Rests(j)  BY <1>5, <2>1, OtherStepsRest
  <2>3. ASSUME NEW t \in Senders, LookAgain(t) PROVE WholeInv'  BY <1>1, <2>2, <2>3, LookAgainWhole
  <2>4. CASE \A u \in Senders : ~LookAgain(u)
    <3>1. \A t \in Senders : sender'[t].pc = "write" => sender'[t] = sender[t]  BY <2>4, WritersStay
    <3> QED  BY <1>1, <2>2, <3>1, WholeRests
  <2> QED  BY <2>3, <2>4
<1> QED  BY <1>2, <1>3, <1>4, <1>5 DEF Writes

\* At first nothing is written and nothing waits.
LEMMA FirstWhole == Init => WholeInv
<1> SUFFICES ASSUME Init PROVE WholeInv  OBVIOUS
<1>1. /\ slot = [k \in Slots |-> FreeSlot] /\ pipe = <<>>
      /\ sender = [t \in Senders |-> Idle] /\ wire = [i \in Ids |-> <<>>]
  BY DEF Init
<1>2. FreeSlot.type \in Unused /\ FreeSlot.high = <<>> /\ FreeSlot.low = <<>> /\ FreeSlot.dw = <<>>
  BY DEF FreeSlot, Unused
<1>3. MsgsOf(<<>>) = {} /\ <<>> \in Seq(WireBytes) /\ Len(pipe) = 0
  BY <1>1, MsgsOfOne
<1>4. WireOK  BY <1>1, <1>3 DEF WireOK
<1>5. CarriedAt = {}  BY <1>3 DEF CarriedAt
<1>6. Addressed  BY <1>1, <1>2, <1>3, <1>5 DEF Addressed, Waits
<1>7. LiveWhole  BY <1>1, <1>2 DEF LiveWhole, Live
<1>8. WritersBegin  BY <1>1 DEF WritersBegin, Idle
<1> QED  BY <1>4, <1>6, <1>7, <1>8 DEF WholeInv

\* The wires of live slots are chained, which is what Whole asks for.
LEMMA WholeFollows == LifeInv /\ SendInv /\ WholeInv => Whole
<1> SUFFICES ASSUME LifeInv, SendInv, WholeInv, NEW i \in DOMAIN wire, NEW x \in DOMAIN wire[i]
             PROVE  /\ wire[i][x].msg.to = i
                    /\ InUse(i) =>
                           IF x = 1 \/ wire[i][x - 1].byte = MsgSize THEN wire[i][x].byte = 1
                           ELSE wire[i][x] = [wire[i][x - 1] EXCEPT !.byte = @ + 1]
  BY DEF Whole
<1> PICK w : w = wire[i]  OBVIOUS
<1>1. i \in Ids /\ w \in Seq(WireBytes) /\ x \in 1 .. Len(w) /\ Len(w) \in Nat
  BY DEF WholeInv, WireOK
<1>2. w[x].msg.to = i
  <2>1. w[x].msg \in MsgsOf(w)  BY <1>1 DEF MsgsOf
  <2> QED  BY <1>1, <2>1 DEF WholeInv, WireOK
<1>3. ASSUME InUse(i)
      PROVE  IF x = 1 \/ w[x - 1].byte = MsgSize THEN w[x].byte = 1
             ELSE w[x] = [w[x - 1] EXCEPT !.byte = @ + 1]
  <2>1. PICK k \in Slots : slot[k].id = i /\ slot[k].type # "INVALID" /\ (Polling \/ poll.forcing.k # k)
    BY <1>3 DEF InUse, LifeInv, SlotShape
  <2>2. slot[k].type # "RESERVE"
    <3>1. w # <<>>  BY <1>1
    <3>2. seen[i] \in Sendable  BY <1>1, <3>1 DEF WholeInv, WireOK
    <3>3. seen[i] \in KnownAs(slot[k].type)  BY <2>1 DEF LifeInv, SlotsOK, SlotOK
    <3> QED  BY <3>2, <3>3 DEF KnownAs, Sendable
  <2>3. poll.forcing.k # k  BY <2>1, HashInSlots DEF Polling, NotForcing
  <2>4. Live(k)  BY <2>1, <2>2, <2>3 DEF Live, Unused
  <2>5. Chained(w)  BY <2>1, <2>4 DEF WholeInv, LiveWhole, GoesOnFrom
  <2>6. CASE x = 1
    <3>1. w # <<>>  BY <1>1, <2>6
    <3> QED  BY <2>5, <2>6, <3>1 DEF Chained
  <2>7. CASE x # 1
    <3>1. x \in 2 .. Len(w) /\ x - 1 \in 1 .. Len(w)  BY <1>1, <2>7
    <3>2. Follows(w[x - 1], w[x])  BY <2>5, <3>1 DEF Chained
    <3> PICK a : a = w[x - 1]  OBVIOUS
    <3> PICK b : b = w[x]  OBVIOUS
    <3>3. a \in WireBytes /\ b \in WireBytes  BY <1>1, <3>1
    <3>4. a.byte # MsgSize => b = [a EXCEPT !.byte = @ + 1]
      <4>1. a = [msg |-> a.msg, byte |-> a.byte] /\ b = [msg |-> b.msg, byte |-> b.byte]
        BY <3>3 DEF WireBytes
      <4>2. a.byte # MsgSize => b.msg = a.msg /\ b.byte = a.byte + 1  BY <3>2 DEF Follows
      <4>3. [a EXCEPT !.byte = @ + 1] = [msg |-> a.msg, byte |-> a.byte + 1]  BY <4>1
      <4> QED  BY <4>1, <4>2, <4>3
    <3>5. a.byte = MsgSize => b.byte = 1  BY <3>2 DEF Follows
    <3> QED  BY <2>7, <3>4, <3>5
  <2> QED  BY <2>6, <2>7
<1> QED  BY <1>2, <1>3

-----------------------------------------------------------------------------
(* Slots and wires in order *)

\* One list after another is in order when the first goes before the second.
LEMMA JoinInOrder ==
    ASSUME NEW Elems, NEW a \in Seq(Elems), NEW b \in Seq(Elems),
           InOrderList(a), InOrderList(b), Before(MsgsOf(a), MsgsOf(b))
    PROVE  InOrderList(a \o b)
<1> PICK c : c = a \o b  OBVIOUS
<1>1. /\ Len(c) = Len(a) + Len(b) /\ Len(a) \in Nat /\ Len(b) \in Nat
      /\ \A x \in 1 .. Len(a) : c[x] = a[x]
      /\ \A x \in 1 .. Len(b) : c[Len(a) + x] = b[x]
  BY JoinFacts
<1> SUFFICES ASSUME NEW p \in 1 .. Len(c), NEW q \in 1 .. Len(c), p < q
             PROVE  MayPrecede(c[p].msg, c[q].msg)
  BY DEF InOrderList
<1>2. CASE q <= Len(a)
  <2>1. p \in 1 .. Len(a) /\ q \in 1 .. Len(a)  BY <1>1, <1>2
  <2> QED  BY <1>1, <2>1 DEF InOrderList
<1>3. CASE p > Len(a)
  <2>1. p - Len(a) \in 1 .. Len(b) /\ q - Len(a) \in 1 .. Len(b) /\ p - Len(a) < q - Len(a)
        /\ Len(a) + (p - Len(a)) = p /\ Len(a) + (q - Len(a)) = q
    BY <1>1, <1>3
  <2>2. c[p] = b[p - Len(a)] /\ c[q] = b[q - Len(a)]  BY <1>1, <2>1
  <2> QED  BY <2>1, <2>2 DEF InOrderList
<1>4. CASE p <= Len(a) /\ q > Len(a)
  <2>1. p \in 1 .. Len(a) /\ q - Len(a) \in 1 .. Len(b) /\ Len(a) + (q - Len(a)) = q
    BY <1>1, <1>4
  <2>2. c[p] = a[p] /\ c[q] = b[q - Len(a)]  BY <1>1, <2>1
  <2>3. a[p].msg \in MsgsOf(a) /\ b[q - Len(a)].msg \in MsgsOf(b)  BY <2>1 DEF MsgsOf
  <2> QED  BY <2>2, <2>3 DEF Before
<1> QED  BY <1>1, <1>2, <1>3, <1>4

\* A list of one is in order.
LEMMA OneInOrder == \A b : InOrderList(<<b>>) /\ InOrderList(<<>>)
<1> SUFFICES ASSUME NEW b PROVE InOrderList(<<b>>) /\ InOrderList(<<>>)  BY Zenon
<1>1. Len(<<b>>) = 1 /\ Len(<<>>) = 0  OBVIOUS
<1>2. InOrderList(<<b>>)
  <2>1. \A p, q \in 1 .. 1 : ~(p < q)  OBVIOUS
  <2> QED  BY <1>1, <2>1 DEF InOrderList
<1> QED  BY <1>1, <1>2 DEF InOrderList

\* Nothing waits: nothing is out of order.
LEMMA EmptyInOrder ==
    ASSUME NEW s, s.dw = <<>>, s.high = <<>>, s.low = <<>>
    PROVE  \A written : ListsFor(s, written)
BY MsgsOfOne, OneInOrder DEF ListsFor, Before

\* A message that was sent after all that waits and was written is appended.
LEMMA AppendedInOrder ==
    ASSUME NEW s, DOMAIN s = Fields, SlotTyped(s), NEW msg \in Msgs, NEW new, new = Appended(s, msg),
           NEW written, ListsFor(s, written),
           \A m \in written \cup Waits(s) : MayPrecede(m, msg)
    PROVE  ListsFor(new, written)
<1> PICK buf : buf = [msg |-> msg, ptr |-> 0]  OBVIOUS
<1>1. /\ buf \in Buffers /\ buf.ptr = 0 /\ buf.msg = msg
      /\ s.high \in Seq(Buffers) /\ s.low \in Seq(Buffers)
      /\ new.dw = s.dw /\ new.id = s.id /\ new.type = s.type
      /\ \/ s.high = <<>> /\ s.low = <<>> /\ new.high = Append(s.high, buf) /\ new.low = s.low
         \/ new.high = s.high /\ msg.low /\ new.low = Append(s.low, buf)
         \/ new.high = Append(s.high, buf) /\ ~msg.low /\ new.low = s.low
  BY AppendedForms
<1>2. MsgsOf(<<>>) = {} /\ MsgsOf(<<buf>>) = {msg}  BY <1>1, MsgsOfOne
<1>3. <<buf>> \in Seq(Buffers) /\ InOrderList(<<buf>>)  BY <1>1, OneInOrder
<1>4. ASSUME NEW list \in Seq(Buffers), InOrderList(list), MsgsOf(list) \subseteq Waits(s)
      PROVE  InOrderList(Append(list, buf)) /\ MsgsOf(Append(list, buf)) = MsgsOf(list) \cup {msg}
  <2>1. Append(list, buf) = list \o <<buf>>  BY <1>1
  <2>2. Before(MsgsOf(list), MsgsOf(<<buf>>))  BY <1>2, <1>4 DEF Before
  <2>3. InOrderList(list \o <<buf>>)  BY <1>3, <1>4, <2>2, JoinInOrder
  <2> QED  BY <1>1, <2>1, <2>3, FreshAppend
<1>5. CASE new.high = Append(s.high, buf) /\ new.low = s.low /\ (s.low = <<>> \/ ~msg.low)
  <2>1. InOrderList(new.high) /\ MsgsOf(new.high) = MsgsOf(s.high) \cup {msg}
    BY <1>1, <1>4, <1>5 DEF ListsFor, Waits
  <2>2. \A m \in MsgsOf(s.low) : MayPrecede(msg, m)
    BY <1>2, <1>5 DEF ListsFor, MayPrecede
  <2> QED  BY <1>1, <1>5, <2>1, <2>2 DEF ListsFor, Before, Waits
<1>6. CASE new.high = s.high /\ msg.low /\ new.low = Append(s.low, buf)
  <2>1. InOrderList(new.low) /\ MsgsOf(new.low) = MsgsOf(s.low) \cup {msg}
    BY <1>1, <1>4, <1>6 DEF ListsFor, Waits
  <2> QED  BY <1>1, <1>6, <2>1 DEF ListsFor, Before, Waits
<1> QED  BY <1>1, <1>5, <1>6

\* A message is written in part or all, before any of its sender that waits.
LEMMA DirectInOrder ==
    ASSUME NEW s, NEW new, NEW msg \in Msgs, NEW written, NEW after, ListsFor(s, written),
           after \subseteq written \cup {msg},
           new.high = s.high, new.low = s.low,
           new.dw = s.dw \/ \E buf : new.dw = <<buf>> /\ buf.msg = msg,
           \A m \in written : MayPrecede(m, msg), \A m \in Waits(s) : MayPrecede(msg, m)
    PROVE  ListsFor(new, after)
<1>1. MayPrecede(msg, msg)  BY PrecedeItself
<1>2. CASE new.dw = s.dw  BY <1>2 DEF ListsFor, Before, Waits
<1>3. ASSUME NEW buf, new.dw = <<buf>>, buf.msg = msg PROVE ListsFor(new, after)
  <2>1. MsgsOf(new.dw) = {msg} /\ InOrderList(new.dw)  BY <1>3, MsgsOfOne, OneInOrder
  <2> QED  BY <1>1, <2>1 DEF ListsFor, Before, Waits
<1> QED  BY <1>2, <1>3

\* What send_buffer writes after the wire, and what it leaves, is in order.
LEMMA SendingInOrder ==
    ASSUME NEW old, SlotTyped(old), NEW w \in Seq(WireBytes), InOrderList(w), ListsFor(old, MsgsOf(w)),
           NEW new, new.dw = <<>>, NEW c, Sending(old, w, new, c)
    PROVE  InOrderList(c) /\ ListsFor(new, MsgsOf(c))
<1> PICK H : H = old.dw \o old.high  OBVIOUS
<1>0. old.dw \in Seq(Buffers) /\ old.high \in Seq(Buffers) /\ old.low \in Seq(Buffers)  BY DEF SlotTyped
<1>1. H \in Seq(Buffers) /\ MsgsOf(H) = MsgsOf(old.dw) \cup MsgsOf(old.high) /\ InOrderList(H)
  BY <1>0, MsgsOfJoin, JoinFacts, JoinInOrder DEF ListsFor
<1>2. MsgsOf(<<>>) = {} /\ InOrderList(<<>>)  BY MsgsOfOne, OneInOrder
<1>3. CASE new.high = <<>> /\ new.low = <<>> /\ c = w  BY <1>3, EmptyInOrder
<1>4. /\ \A m \in MsgsOf(old.low) : m.low
      /\ InOrderList(old.low) /\ Before(MsgsOf(H), MsgsOf(old.low))
      /\ Before(MsgsOf(w), MsgsOf(H)) /\ Before(MsgsOf(w), MsgsOf(old.low))
  BY <1>1 DEF ListsFor, Before
<1>5. CASE new.high = H /\ new.low = old.low /\ c = w
  BY <1>1, <1>2, <1>4, <1>5 DEF ListsFor, Before
<1>6. ASSUME NEW h, NEW l, NEW room \in Nat, NEW more \in Nat,
             h = SendList(H, room),
             l = IF h.rest = <<>> THEN SendList(old.low, more) ELSE [bytes |-> <<>>, rest |-> old.low],
             c = (w \o h.bytes) \o l.bytes,
             IF h.rest = <<>> /\ l.rest # <<>> /\ Head(l.rest).ptr > 0
             THEN new.high = <<Head(l.rest)>> /\ new.low = Tail(l.rest)
             ELSE new.high = h.rest /\ new.low = l.rest
      PROVE  InOrderList(c) /\ ListsFor(new, MsgsOf(c))
  <2>1. /\ h.bytes \in Seq(WireBytes) /\ h.rest \in Seq(Buffers)
        /\ MsgsOf(h.bytes) \subseteq MsgsOf(H) /\ MsgsOf(h.rest) \subseteq MsgsOf(H)
        /\ InOrderList(h.bytes) /\ InOrderList(h.rest) /\ Before(MsgsOf(h.bytes), MsgsOf(h.rest))
    BY <1>1, <1>6, SentInOrder
  <2>2. /\ l.bytes \in Seq(WireBytes) /\ l.rest \in Seq(Buffers)
        /\ MsgsOf(l.bytes) \subseteq MsgsOf(old.low) /\ MsgsOf(l.rest) \subseteq MsgsOf(old.low)
        /\ InOrderList(l.bytes) /\ InOrderList(l.rest) /\ Before(MsgsOf(l.bytes), MsgsOf(l.rest))
        /\ h.rest # <<>> => MsgsOf(l.bytes) = {}
    <3>1. CASE h.rest = <<>>  BY <1>0, <1>4, <1>6, <3>1, SentInOrder
    <3>2. CASE h.rest # <<>>
      <4>1. l.bytes = <<>> /\ l.rest = old.low  BY <1>6, <3>2
      <4>2. <<>> \in Seq(WireBytes)  OBVIOUS
      <4> QED  BY <1>0, <1>2, <1>4, <4>1, <4>2 DEF Before
    <3> QED  BY <3>1, <3>2
  <2> PICK v : v = w \o h.bytes  OBVIOUS
  <2>3. v \in Seq(WireBytes) /\ MsgsOf(v) = MsgsOf(w) \cup MsgsOf(h.bytes) /\ InOrderList(v)
    <3>1. Before(MsgsOf(w), MsgsOf(h.bytes))  BY <1>4, <2>1 DEF Before
    <3> QED  BY <2>1, <3>1, MsgsOfJoin, JoinFacts, JoinInOrder
  <2>4. MsgsOf(c) = MsgsOf(v) \cup MsgsOf(l.bytes) /\ InOrderList(c)
    <3>1. c = v \o l.bytes  BY <1>6
    <3>2. Before(MsgsOf(v), MsgsOf(l.bytes))  BY <1>4, <2>1, <2>2, <2>3 DEF Before
    <3>3. MsgsOf(v \o l.bytes) = MsgsOf(v) \cup MsgsOf(l.bytes) /\ InOrderList(v \o l.bytes)
      <4> PICK lb : lb = l.bytes  OBVIOUS
      <4>1. v \in Seq(WireBytes) /\ lb \in Seq(WireBytes) /\ InOrderList(v) /\ InOrderList(lb)
            /\ Before(MsgsOf(v), MsgsOf(lb))
        BY <2>2, <2>3, <3>2
      <4>2. MsgsOf(v \o lb) = MsgsOf(v) \cup MsgsOf(lb)  BY ONLY <4>1, MsgsOfJoin
      <4>3. InOrderList(v \o lb)  BY ONLY <4>1, JoinInOrder
      <4> QED  BY <4>2, <4>3
    <3> QED  BY <3>1, <3>3
  <2>5. Before(MsgsOf(c), MsgsOf(h.rest)) /\ Before(MsgsOf(c), MsgsOf(l.rest))
    <3>1. Before(MsgsOf(l.bytes), MsgsOf(h.rest))
      <4>1. h.rest = <<>> => MsgsOf(h.rest) = {}  BY <1>2
      <4> QED  BY <2>2, <4>1 DEF Before
    <3> QED  BY <1>4, <2>1, <2>2, <2>3, <2>4, <3>1 DEF Before
  <2>6. CASE h.rest = <<>> /\ l.rest # <<>> /\ Head(l.rest).ptr > 0
    <3> PICK b : b = Head(l.rest)  OBVIOUS
    <3> PICK one : one = <<b>>  OBVIOUS
    <3> PICK rest : rest = Tail(l.rest)  OBVIOUS
    <3>1. new.high = one /\ new.low = rest  BY <1>6, <2>6
    <3>2. one \in Seq(Buffers) /\ rest \in Seq(Buffers) /\ one \o rest = l.rest /\ Len(l.rest) \in Nat
          /\ Len(rest) = Len(l.rest) - 1 /\ l.rest[1] = b
          /\ \A j \in 1 .. Len(rest) : rest[j] = l.rest[j + 1]
      BY <2>2, <2>6
    <3>3. MsgsOf(l.rest) = MsgsOf(one) \cup MsgsOf(rest) /\ MsgsOf(one) = {b.msg}
      <4>0. one \in Seq(Buffers) /\ rest \in Seq(Buffers)  BY <3>2
      <4>1. MsgsOf(one \o rest) = MsgsOf(one) \cup MsgsOf(rest)  BY ONLY <4>0, MsgsOfJoin
      <4> QED  BY <3>2, <4>1, MsgsOfOne
    <3>4. InOrderList(one) /\ InOrderList(rest)
      <4>1. InOrderList(one)  BY OneInOrder
      <4>2. ASSUME NEW p \in 1 .. Len(rest), NEW q \in 1 .. Len(rest), p < q
            PROVE  MayPrecede(rest[p].msg, rest[q].msg)
        <5>1. p + 1 \in 1 .. Len(l.rest) /\ q + 1 \in 1 .. Len(l.rest) /\ p + 1 < q + 1
          BY <3>2, <4>2
        <5> QED  BY <2>2, <3>2, <5>1 DEF InOrderList
      <4> QED  BY <4>1, <4>2 DEF InOrderList
    <3>5. Before(MsgsOf(one), MsgsOf(rest))
      <4> SUFFICES ASSUME NEW q \in 1 .. Len(rest) PROVE MayPrecede(b.msg, rest[q].msg)
        BY <3>3 DEF Before, MsgsOf
      <4>1. 1 \in 1 .. Len(l.rest) /\ q + 1 \in 1 .. Len(l.rest) /\ 1 < q + 1  BY <3>2
      <4> QED  BY <2>2, <3>2, <4>1 DEF InOrderList
    <3> QED  BY <1>2, <1>4, <2>2, <2>4, <2>5, <3>1, <3>3, <3>4, <3>5 DEF ListsFor, Before
  <2>7. CASE ~(h.rest = <<>> /\ l.rest # <<>> /\ Head(l.rest).ptr > 0)
    <3>1. new.high = h.rest /\ new.low = l.rest  BY <1>6, <2>7
    <3>2. Before(MsgsOf(h.rest), MsgsOf(l.rest))  BY <1>4, <2>1, <2>2 DEF Before
    <3> QED  BY <1>2, <1>4, <2>1, <2>2, <2>4, <2>5, <3>1, <3>2 DEF ListsFor, Before
  <2> QED  BY <2>6, <2>7
<1> QED  BY <1>3, <1>5, <1>6 DEF Sending

-----------------------------------------------------------------------------
(* The order in which the senders send *)

\* All that is written, waits or is in the pipe are messages.
LEMMA AllMessages ==
    ASSUME LifeInv, SendInv, WireOK
    PROVE  Written \cup Waiting \cup Piped \subseteq Msgs
<1>1. ASSUME NEW list, list \in Seq(Buffers) \/ list \in Seq(WireBytes)
      PROVE  MsgsOf(list) \subseteq Msgs
  <2> SUFFICES ASSUME NEW p \in 1 .. Len(list) PROVE list[p].msg \in Msgs  BY DEF MsgsOf
  <2>1. list[p] \in Buffers \/ list[p] \in WireBytes  BY <1>1
  <2> QED  BY <2>1 DEF Buffers, WireBytes
<1>2. Written \subseteq Msgs
  <2>1. \A i \in Ids : wire[i] \in Seq(WireBytes)  BY DEF WireOK
  <2>2. \A i \in Ids : MsgsOf(wire[i]) \subseteq Msgs  BY <1>1, <2>1
  <2> QED  BY <2>2 DEF Written
<1>3. Waiting \subseteq Msgs
  <2>1. \A k \in Slots : Waits(slot[k]) \subseteq Msgs
    BY <1>1 DEF SendInv, SlotsTyped, SlotTyped, Waits
  <2> QED  BY <2>1 DEF Waiting
<1>4. Piped \subseteq Msgs
  BY DEF Piped, CarriedAt, SendInv, RequestsTyped, RequestTyped
<1> QED  BY <1>2, <1>3, <1>4

\* Nothing is on its way to a socket that a sender finds with nothing waiting and
\* `sending' at zero, if nothing was sent to it before new_fd.
LEMMA NothingFound ==
    ASSUME LifeInv, SendInv, Addressed, NEW t \in Senders, sender[t].pc = "try",
           ListsEmpty(t), NotSending(t), sender[t].msg.to \notin early
    PROVE  \A m \in Waiting \cup Piped : m.to # sender[t].msg.to
<1> PICK k : k = K(t)  OBVIOUS
<1> PICK id : id = sender[t].msg.to  OBVIOUS
<1>1. k \in Slots /\ k = HASH_ID(id) /\ id \in Ids  BY SenderFacts
<1>2. /\ slot[k].id = id /\ slot[k].high = <<>> /\ slot[k].low = <<>> /\ slot[k].dw = <<>>
      /\ slot[k].sending = 0 /\ slot[k].type = "CONNECTED"
  BY DEF ListsEmpty, NotSending, S, K, send_buffer_empty
<1>3. ASSUME NEW m \in Waiting PROVE m.to # id
  <2>1. PICK j \in Slots : m \in Waits(slot[j])  BY DEF Waiting
  <2>2. m.to = slot[j].id  BY <2>1 DEF Addressed
  <2>3. j # k  BY <1>2, <2>1, MsgsOfOne DEF Waits
  <2>4. slot[j].type \notin Unused
    <3> SUFFICES ASSUME slot[j].type \in Unused PROVE FALSE  OBVIOUS
    <3>1. slot[j].high = <<>> /\ slot[j].low = <<>>  BY DEF LifeInv, SlotsOK, SlotOK, Unused
    <3>2. slot[j].dw = <<>>  BY DEF SendInv, SlotsTyped, SlotTyped
    <3> QED  BY <2>1, <3>1, <3>2, MsgsOfOne DEF Waits
  <2>5. HASH_ID(slot[j].id) = j  BY <2>4 DEF LifeInv, SlotsOK, SlotOK, Unused
  <2> QED  BY <1>1, <2>2, <2>3, <2>5
<1>4. ASSUME NEW m \in Piped PROVE m.to # id
  <2>1. PICK n \in CarriedAt : m = pipe[n].msg  BY DEF Piped
  <2>2. Underway(id) = 0
    <3>1. SlotTyped(slot[k])  BY <1>1 DEF SendInv, SlotsTyped
    <3>2. slot[k].tcp = TRUE  BY <1>2, <3>1 DEF SlotTyped, Unused
    <3> QED  BY <1>1, <1>2, <3>2 DEF SendInv, CountOK, Tally
  <2>3. PICK Elems : pipe \in Seq(Elems)  BY DEF LifeInv, PipeShape
  <2>4. /\ IsFiniteSet(InPipe(id)) /\ Cardinality(InPipe(id)) \in Nat
        /\ Cardinality(AtPush(id)) \in Nat
    BY <2>3, UnderwayFinite
  <2>5. Cardinality(InPipe(id)) = 0  BY <2>2, <2>4 DEF Underway
  <2>6. InPipe(id) = {}  BY <2>4, <2>5, FS_EmptySet
  <2>7. pipe[n].id # id  BY <2>6 DEF InPipe, CarriedAt
  <2> QED  BY <2>1, <2>7 DEF Addressed
<1> QED  BY <1>3, <1>4

\* A sender goes on: it will not send more than before, numbers its messages by what it has
\* left, and begins to try only with nothing on its way.
GoesOnSending(t) ==
    /\ SendsLeft(t)' \in Nat /\ SendsLeft(t) \in Nat /\ SendsLeft(t)' <= SendsLeft(t)
    /\ sender'[t].pc \notin Unsent => sender'[t].msg.from = t /\ sender'[t].msg.left = SendsLeft(t)'
    /\ sender'[t].pc \in Trying =>
           \/ sender[t].pc \in Trying /\ sender'[t].msg = sender[t].msg
           \/ sender'[t].msg.to \in early
           \/ \A m \in Waiting \cup Piped : m.to # sender'[t].msg.to

\* One that does nothing goes on.
LEMMA StillSending ==
    ASSUME SendInv, SendersSend, NEW t \in Senders, sender'[t] = sender[t], left'.sends[t] = left.sends[t]
    PROVE  GoesOnSending(t)
<1>1. left.sends[t] \in Nat  BY DEF SendInv, Budget
<1> QED  BY <1>1 DEF GoesOnSending, SendsLeft, SendersSend

\* So does one that moves to another place of its call.
LEMMA MovedSending ==
    ASSUME SendInv, SendersSend, NEW t \in Senders, left'.sends[t] = left.sends[t],
           sender[t].pc \notin Unsent,
           \/ sender'[t].pc \in Unsent
           \/ /\ sender'[t].msg = sender[t].msg
              /\ sender'[t].pc \in Trying =>
                     \/ sender[t].pc \in Trying \/ sender[t].msg.to \in early
                     \/ \A m \in Waiting \cup Piped : m.to # sender[t].msg.to
    PROVE  GoesOnSending(t)
<1>1. left.sends[t] \in Nat  BY DEF SendInv, Budget
<1>2. CASE sender'[t].pc \in Unsent
  BY <1>1, <1>2 DEF GoesOnSending, SendsLeft, Unsent, Trying
<1>3. CASE sender'[t].pc \notin Unsent
  BY <1>1, <1>3 DEF GoesOnSending, SendsLeft, SendersSend
<1> QED  BY <1>2, <1>3

\* A sender in a call
LEMMA SenderStepGoesOn ==
    ASSUME LifeInv, SendInv, SendersSend, Addressed, NEW u \in Senders, SenderStep(u), NEW t \in Senders
    PROVE  GoesOnSending(t)
<1>1. left' = left
  BY DEF SenderStep, FirstLook, TryLock, LookAgain, WriteInstead, DirectWrite, Trigger,
         CountRequest, PushRequest
<1>2. ASSUME t # u PROVE GoesOnSending(t)
  <2>1. sender' = [sender EXCEPT ![u] = Idle] \/ \E pc : GoTo(u, pc)
    BY DEF SenderStep, FirstLook, TryLock, LookAgain, WriteInstead, DirectWrite, Trigger,
       CountRequest, PushRequest
  <2>2. sender'[t] = sender[t]  BY <1>2, <2>1 DEF GoTo, LifeInv, SendersOK
  <2> QED  BY <1>1, <2>2, StillSending
<1>3. sender[u].pc \in Calls /\ sender[u].pc # "idle"
  BY DEF SenderStep, FirstLook, TryLock, LookAgain, WriteInstead, DirectWrite, Trigger,
     CountRequest, PushRequest,
         At, Calls
<1>4. ASSUME NEW pc, GoTo(u, pc) PROVE sender'[u].pc = pc /\ sender'[u].msg = sender[u].msg
  <2> PICK new : new = [sender[u] EXCEPT !.pc = pc]  OBVIOUS
  <2>1. new = [pc |-> pc, msg |-> sender[u].msg]  BY <1>3, SenderFacts
  <2>2. sender' = [sender EXCEPT ![u] = new]  BY <1>4 DEF GoTo
  <2>3. sender'[u] = new  BY <2>2 DEF LifeInv, SendersOK
  <2> QED  BY <2>1, <2>3
<1>5. ASSUME sender' = [sender EXCEPT ![u] = Idle] PROVE sender'[u].pc = "idle"
  BY <1>5 DEF LifeInv, SendersOK, Idle
<1>6. left'.sends[u] = left.sends[u]  BY <1>1
<1>7. CASE FirstLook(u)
  <2>1. sender[u].pc = "try"  BY <1>7 DEF FirstLook, At
  <2>2. CASE ListsEmpty(u) /\ NotSending(u)
    <3>1. GoTo(u, "lock")  BY <1>7, <2>2 DEF FirstLook
    <3>2. sender[u].msg.to \in early \/ \A m \in Waiting \cup Piped : m.to # sender[u].msg.to
      BY <2>1, <2>2, NothingFound
    <3>3. sender'[u].msg = sender[u].msg  BY <1>4, <3>1
    <3>4. sender[u].pc \notin Unsent  BY <2>1 DEF Unsent
    <3>5. GoesOnSending(u)  BY <1>6, <3>2, <3>3, <3>4, MovedSending
    <3> QED  BY <1>2, <3>5
  <2>3. CASE ~(ListsEmpty(u) /\ NotSending(u))
    <3>1. GoTo(u, "count")  BY <1>7, <2>3 DEF FirstLook
    <3>2. sender'[u].msg = sender[u].msg /\ sender'[u].pc = "count"  BY <1>4, <3>1
    <3>3. sender[u].pc \notin Unsent /\ "count" \notin Trying  BY <2>1 DEF Unsent, Trying
    <3>4. GoesOnSending(u)  BY <1>6, <3>2, <3>3, MovedSending
    <3> QED  BY <1>2, <3>4
  <2> QED  BY <2>2, <2>3
<1>8. CASE TryLock(u) \/ LookAgain(u) \/ WriteInstead(u)
  <2>1. sender[u].pc \in Trying /\ sender[u].pc \notin Unsent
    BY <1>8 DEF TryLock, LookAgain, WriteInstead, At, Trying, Unsent
  <2>2. \E pc : GoTo(u, pc)  BY <1>8 DEF TryLock, LookAgain, WriteInstead
  <2>3. sender'[u].msg = sender[u].msg  BY <1>4, <2>2
  <2>4. GoesOnSending(u)  BY <1>6, <2>1, <2>3, MovedSending
  <2> QED  BY <1>2, <2>4
<1>9. CASE DirectWrite(u) \/ PushRequest(u)
  <2>1. sender[u].pc \notin Unsent  BY <1>9 DEF DirectWrite, PushRequest, At, Unsent
  <2>2. sender' = [sender EXCEPT ![u] = Idle] \/ GoTo(u, "trigger")  BY <1>9 DEF DirectWrite, PushRequest
  <2>3. sender'[u].pc \in Unsent  BY <1>4, <1>5, <2>2 DEF Unsent
  <2>4. GoesOnSending(u)  BY <1>6, <2>1, <2>3, MovedSending
  <2> QED  BY <1>2, <2>4
<1>10. CASE Trigger(u)
  <2>1. sender[u].pc \in Unsent /\ sender'[u].pc = "idle"  BY <1>5, <1>10 DEF Trigger, At, Unsent
  <2>2. left.sends[u] \in Nat  BY DEF SendInv, Budget
  <2>3. GoesOnSending(u)  BY <1>6, <2>1, <2>2 DEF GoesOnSending, SendsLeft, Unsent, Trying
  <2> QED  BY <1>2, <2>3
<1>11. CASE CountRequest(u)
  <2>1. sender[u].pc \notin Unsent /\ GoTo(u, "push")  BY <1>11 DEF CountRequest, At, Unsent
  <2>2. sender'[u].msg = sender[u].msg /\ sender'[u].pc = "push"  BY <1>4, <2>1
  <2>3. "push" \notin Trying  BY DEF Trying
  <2>4. GoesOnSending(u)  BY <1>6, <2>1, <2>2, <2>3, MovedSending
  <2> QED  BY <1>2, <2>4
<1> QED  BY <1>7, <1>8, <1>9, <1>10, <1>11 DEF SenderStep

\* One that enters a call
LEMMA SendEnterGoesOn ==
    ASSUME LifeInv, SendInv, SendersSend, NEW u \in Senders, NEW id, NEW low, SendEnter(u, id, low),
           NEW t \in Senders
    PROVE  GoesOnSending(t)
<1> PICK msg : msg = [from |-> u, left |-> left.sends[u], low |-> low, to |-> id]  OBVIOUS
<1> PICK called : called = [pc |-> IF low THEN "count" ELSE "try", msg |-> msg]  OBVIOUS
<1> PICK less : less = left.sends[u] - 1  OBVIOUS
<1>1. left.sends[u] \in Nat /\ left \in Budget /\ left.sends[u] > 0 /\ less \in Nat /\ sender[u].pc = "idle"
      /\ left' = [left EXCEPT !.sends[u] = less]
  <2>1. left \in Budget  BY DEF SendInv
  <2>2. left.sends[u] \in Nat  BY <2>1 DEF Budget
  <2> QED  BY <2>1, <2>2 DEF SendEnter, At
<1>2. sender' = [sender EXCEPT ![u] =
          IF socket_invalid(id) \/ (~low /\ slot[HASH_ID(id)].closing) THEN Idle ELSE called]
  BY DEF SendEnter
<1>3. sender'[u] \in {Idle, called} /\ \A v \in Senders : v # u => sender'[v] = sender[v]
  BY <1>2 DEF LifeInv, SendersOK
<1>4. left'.sends[u] = less /\ \A v \in Senders : v # u => left'.sends[v] = left.sends[v]
  BY <1>1 DEF Budget
<1>5. CASE t # u  BY <1>3, <1>4, <1>5, StillSending
<1>6. CASE t = u
  <2>1. called.pc \in {"count", "try"} /\ called.msg = msg /\ msg.from = u /\ msg.left = left.sends[u]
    OBVIOUS
  <2>2. CASE sender'[u] = Idle
    <3>1. sender'[u].pc = "idle"  BY <2>2 DEF Idle
    <3> QED  BY <1>1, <1>4, <1>6, <3>1 DEF GoesOnSending, SendsLeft, Unsent, Trying
  <2>3. CASE sender'[u] = called
    <3>1. sender'[u].pc \notin Unsent /\ sender'[u].pc \notin Trying  BY <2>1, <2>3 DEF Unsent, Trying
    <3>2. sender[u].pc \in Unsent  BY <1>1 DEF Unsent
    <3>3. SendsLeft(u)' = less + 1 /\ SendsLeft(u) = left.sends[u]
      BY <1>1, <1>4, <3>1, <3>2 DEF SendsLeft
    <3>4. less + 1 = left.sends[u]  BY <1>1
    <3> QED  BY <1>1, <1>6, <2>1, <2>3, <3>1, <3>3, <3>4 DEF GoesOnSending
  <2> QED  BY <1>3, <2>2, <2>3
<1> QED  BY <1>5, <1>6

\* Every step lets the senders go on.
LEMMA SendersGoOn ==
    ASSUME LifeInv, SendInv, SendersSend, Addressed, [Next]_vars
    PROVE  \A t \in Senders : GoesOnSending(t)
<1>0. ASSUME UNCHANGED sender, \A t \in Senders : left'.sends[t] = left.sends[t]
      PROVE  \A t \in Senders : GoesOnSending(t)
  BY <1>0, StillSending
<1>1. CASE UNCHANGED vars
  BY <1>0, <1>1 DEF vars
<1>a. left \in Budget  BY DEF SendInv
<1>b. ASSUME Spontaneous PROVE left'.sends = left.sends
  BY <1>a, <1>b DEF Spontaneous, Budget
<1>2. ASSUME NEW id \in Ids, Connect(id) \/ Listen(id) PROVE \A t \in Senders : GoesOnSending(t)
  <2>1. left' = [left EXCEPT !.opens = @ - 1] /\ UNCHANGED sender  BY <1>2 DEF Connect, Listen
  <2>2. left'.sends = left.sends  BY <1>a, <2>1 DEF Budget
  <2> QED  BY <1>0, <2>1, <2>2
<1>3. ASSUME NEW id \in Ids, NEW op \in {"R", "S", "K", "K!"}, Ask(op, id)
      PROVE  \A t \in Senders : GoesOnSending(t)
  BY <1>0, <1>3, <1>b DEF Ask
<1>4. ASSUME NEW u \in Senders, SenderStep(u) PROVE \A t \in Senders : GoesOnSending(t)
  BY <1>4, SenderStepGoesOn
<1>5. ASSUME NEW u \in Senders, NEW id \in Ids, NEW low \in BOOLEAN, SendEnter(u, id, low)
      PROVE  \A t \in Senders : GoesOnSending(t)
  BY <1>5, SendEnterGoesOn
<1>6. CASE SocketThread
  <2>1. UNCHANGED <<sender, left>>
    BY Zenon, <1>6 DEF SocketThread, ForceCloseEnds, NoCommand, Wait, EventOnInvalid,
       ReadBlocks, Reading,
     ReportAccept, OpenSocket, ListenSocket, ResumeSocket, PauseSocket, CloseSocket, TriggerWrite,
     SendSocket, SendAborts, ReportConnect, ReadFails, ReadData, ReadEnd, WriteLater, SendBuffer,
     EventError, EventEof, Writing
  <2> QED  BY <1>0, <2>1
<1>7. ASSUME NEW i \in Ids,
             PeerAccepts(i) \/ PeerRefuses(i) \/ PeerConnects(i) \/ PeerSends(i)
             \/ PeerEnds(i) \/ PeerResets(i) \/ PeerReads(i)
      PROVE  \A t \in Senders : GoesOnSending(t)
  <2>1. UNCHANGED sender /\ (UNCHANGED left \/ Spontaneous)
    BY <1>7 DEF PeerAccepts, PeerRefuses, PeerConnects, PeerSends, PeerEnds, PeerResets, PeerReads, Peer
  <2> QED  BY <1>0, <1>b, <2>1
<1> QED  BY <1>1, <1>2, <1>3, <1>4, <1>5, <1>6, <1>7 DEF Next

-----------------------------------------------------------------------------
(* The order of the messages: steps *)

\* A message that comes to be written, to wait or into the pipe was in the pipe, or is the
\* last its sender sent, which does not try to write now.
ComesLast(m) == m.left > SendsLeft(m.from)' /\ sender'[m.from].pc \notin Trying

\* What was sent before new_fd stays so.
LEMMA EarlyGrows == [Next]_vars => early \subseteq early'
<1> SUFFICES ASSUME [Next]_vars PROVE early \subseteq early'  OBVIOUS
<1>1. CASE UNCHANGED early  BY <1>1
<1>2. CASE UNCHANGED vars  BY <1>2 DEF vars
<1>3. ASSUME NEW id \in Ids, Connect(id) \/ Listen(id) PROVE UNCHANGED early
  BY <1>3 DEF Connect, Listen
<1>4. ASSUME NEW id \in Ids, NEW op \in {"R", "S", "K", "K!"}, Ask(op, id) PROVE UNCHANGED early
  BY <1>4 DEF Ask
<1>5. ASSUME NEW t \in Senders, SenderStep(t) PROVE early \subseteq early'
  BY <1>5 DEF SenderStep, FirstLook, TryLock, LookAgain, WriteInstead, DirectWrite, Trigger,
     CountRequest, PushRequest
<1>6. ASSUME NEW t \in Senders, NEW id \in Ids, NEW low \in BOOLEAN, SendEnter(t, id, low)
      PROVE  UNCHANGED early
  BY <1>6 DEF SendEnter
<1>7. CASE SocketThread
  BY Zenon, <1>1, <1>7 DEF SocketThread, ForceCloseEnds, NoCommand, Wait, EventOnInvalid,
     ReadBlocks, Reading,
     ReportAccept, OpenSocket, ListenSocket, ResumeSocket, PauseSocket, CloseSocket, TriggerWrite,
     SendSocket, SendAborts, ReportConnect, ReadFails, ReadData, ReadEnd, WriteLater, SendBuffer,
     EventError, EventEof, Writing
<1>8. ASSUME NEW i \in Ids,
             PeerAccepts(i) \/ PeerRefuses(i) \/ PeerConnects(i) \/ PeerSends(i)
             \/ PeerEnds(i) \/ PeerResets(i) \/ PeerReads(i)
      PROVE  UNCHANGED early
  BY <1>8 DEF PeerAccepts, PeerRefuses, PeerConnects, PeerSends, PeerEnds, PeerResets, PeerReads, Peer
<1> QED  BY <1>1, <1>2, <1>3, <1>4, <1>5, <1>6, <1>7, <1>8 DEF Next

\* It is enough that the pipe, the lists of the slots that do not rest, and the wires are
\* in order after the step.
LEMMA OrderStep ==
    ASSUME LifeInv, SendInv, WireOK, Addressed, OrderInv, [Next]_vars,
           NEW more, more \subseteq Msgs, \A m \in more : m \in Piped \/ ComesLast(m),
           Written' \subseteq Written \cup Waiting \cup more,
           Waiting' \subseteq Waiting \cup more, Piped' \subseteq Piped \cup more,
           PipeInOrder', WiresInOrder',
           \A k \in Slots : slot'[k].type \notin Unused /\ slot'[k].id \notin early =>
               RestsWhole(k) \/ ListsFor(slot'[k], MsgsOf(wire'[slot'[k].id]))
    PROVE  OrderInv'
<1>0. early \subseteq early'  BY EarlyGrows
<1>1. \A t \in Senders : GoesOnSending(t)  BY SendersGoOn DEF OrderInv
<1>2. SendersSend'  BY <1>1 DEF SendersSend, GoesOnSending
<1>3. SentBefore'
  <2> SUFFICES ASSUME NEW m \in Written' \cup Waiting' \cup Piped' PROVE m.left > SendsLeft(m.from)'
    BY DEF SentBefore
  <2>1. CASE m \in Written \cup Waiting \cup Piped
    <3>1. m \in Msgs  BY <2>1, AllMessages
    <3>2. m.from \in Senders /\ m.left \in Nat  BY <3>1 DEF Msgs
    <3>3. m.left > SendsLeft(m.from)  BY <2>1 DEF OrderInv, SentBefore
    <3>4. GoesOnSending(m.from)  BY <1>1, <3>2
    <3> PICK before : before = SendsLeft(m.from)  OBVIOUS
    <3> PICK now : now = SendsLeft(m.from)'  OBVIOUS
    <3>5. before \in Nat /\ now \in Nat /\ now <= before  BY <3>4 DEF GoesOnSending
    <3> QED  BY <3>2, <3>3, <3>5
  <2>2. CASE m \notin Written \cup Waiting \cup Piped
    <3>1. ComesLast(m)  BY <2>2
    <3> QED  BY <3>1 DEF ComesLast
  <2> QED  BY <2>1, <2>2
<1>4. NothingOnTheWay'
  <2> SUFFICES ASSUME NEW t \in Senders, sender'[t].pc \in Trying, NEW m \in Waiting' \cup Piped',
                      m.from = t, m.to = sender'[t].msg.to, sender'[t].msg.to \notin early
               PROVE  FALSE
    BY <1>0 DEF NothingOnTheWay
  <2>1. m \in Waiting \cup Piped  BY DEF ComesLast
  <2>2. \/ sender[t].pc \in Trying /\ sender'[t].msg = sender[t].msg
        \/ \A n \in Waiting \cup Piped : n.to # sender'[t].msg.to
    BY <1>1 DEF GoesOnSending
  <2> QED  BY <2>1, <2>2 DEF OrderInv, NothingOnTheWay
<1>5. SlotsInOrder'
  <2> SUFFICES ASSUME NEW k \in Slots, slot'[k].type \notin Unused, slot'[k].id \notin early,
                      RestsWhole(k)
               PROVE  ListsFor(slot'[k], MsgsOf(wire'[slot'[k].id]))
    BY <1>0 DEF SlotsInOrder
  <2>0. MsgsOf(<<>>) = {} /\ InOrderList(<<>>)  BY MsgsOfOne, OneInOrder
  <2>1. wire'[slot'[k].id] = wire[slot'[k].id]  BY DEF RestsWhole
  <2>2. CASE SameLists(k)
    <3>1. ListsFor(slot[k], MsgsOf(wire[slot[k].id]))  BY <2>2 DEF SameLists, OrderInv, SlotsInOrder
    <3> QED  BY <2>1, <2>2, <3>1 DEF SameLists, ListsFor
  <2>3. CASE GivenUp(k)
    <3>1. ListsFor(slot[k], MsgsOf(wire[slot[k].id])) /\ slot'[k].id = slot[k].id
      BY <2>3 DEF GivenUp, OrderInv, SlotsInOrder
    <3> QED  BY <2>0, <2>1, <2>3, <3>1 DEF GivenUp, ListsFor, Before
  <2>4. CASE Unwritten(k)
    <3>1. slot'[k].dw = <<>> /\ slot'[k].high = <<>> /\ slot'[k].low = <<>>  BY <2>4 DEF Unwritten
    <3> QED  BY <3>1, EmptyInOrder
  <2> QED  BY <2>2, <2>3, <2>4 DEF RestsWhole, Rests
<1> QED  BY <1>2, <1>3, <1>4, <1>5 DEF OrderInv

\* What the pipe keeps stays in order, and after what comes to be written or to wait.
LEMMA PipeStaysInOrder ==
    ASSUME LifeInv, PipeInOrder, PipeKeeps, early \subseteq early', NEW more,
           Written' \cup Waiting' \subseteq Written \cup Waiting \cup more,
           \A m \in more, n \in Piped' : m.to \notin early => Precedes(m, n)
    PROVE  PipeInOrder' /\ Piped' \subseteq Piped
<1>1. PICK shift \in {0, 1} : \A n \in CarriedAt' : n + shift \in CarriedAt /\ pipe'[n] = pipe[n + shift]
  BY DEF PipeKeeps
<1>2. Piped' \subseteq Piped  BY <1>1 DEF Piped
<1>3. ASSUME NEW n \in CarriedAt', NEW m \in CarriedAt', n < m PROVE Precedes(pipe'[n].msg, pipe'[m].msg)
  <2>1. n \in Int /\ m \in Int
    <3>1. PICK Elems : pipe \in Seq(Elems)  BY DEF LifeInv, PipeShape
    <3> QED  BY <1>1, <3>1 DEF CarriedAt
  <2>2. n + shift < m + shift  BY <1>3, <2>1
  <2> QED  BY <1>1, <2>2 DEF PipeInOrder
<1>4. \A m \in Written' \cup Waiting', n \in Piped' : m.to \notin early' => Precedes(m, n)
  BY <1>2 DEF PipeInOrder
<1> QED  BY <1>2, <1>3, <1>4 DEF PipeInOrder

\* What rests waited before.
LEMMA WaitingRests ==
    ASSUME \A k \in Slots : Rests(k)
    PROVE  Waiting' \subseteq Waiting
<1> SUFFICES ASSUME NEW k \in Slots PROVE Waits(slot'[k]) \subseteq Waiting  BY DEF Waiting
<1> QED  BY RestingWaits DEF Waiting

\* The steps that leave the wires and the lists alone, but for a push into the pipe
LEMMA OrderRests ==
    ASSUME LifeInv, SendInv, WireOK, Addressed, OrderInv, [Next]_vars,
           UNCHANGED wire, \A k \in Slots : Rests(k), \A t \in Senders : ~PushRequest(t)
    PROVE  OrderInv'
<1>1. Waiting' \subseteq Waiting  BY WaitingRests
<1>2. Written' = Written  BY DEF Written
<1>3. PipeKeeps  BY OtherStepsKeepPipe
<1>4. PipeInOrder' /\ Piped' \subseteq Piped
  <2> PICK more : more = {}  OBVIOUS
  <2>1. Written' \cup Waiting' \subseteq Written \cup Waiting \cup more  BY <1>1, <1>2
  <2>2. PipeInOrder  BY DEF OrderInv
  <2> QED  BY <1>3, <2>1, <2>2, EarlyGrows, PipeStaysInOrder
<1>5. WiresInOrder'  BY EarlyGrows DEF OrderInv, WiresInOrder
<1>6. \A k \in Slots : RestsWhole(k)  BY DEF RestsWhole
<1> PICK more : more = {}  OBVIOUS
<1>7. /\ more \subseteq Msgs /\ \A m \in more : m \in Piped \/ ComesLast(m)
      /\ Written' \subseteq Written \cup Waiting \cup more
      /\ Waiting' \subseteq Waiting \cup more /\ Piped' \subseteq Piped \cup more
  BY <1>1, <1>2, <1>4
<1> QED  BY <1>4, <1>5, <1>6, <1>7, OrderStep

\* A sender puts its message into the pipe: it sent it after all that it sent before.
LEMMA PushInOrder ==
    ASSUME LifeInv, SendInv, WireOK, Addressed, OrderInv, [Next]_vars,
           UNCHANGED wire, \A k \in Slots : Rests(k), NEW t \in Senders, PushRequest(t)
    PROVE  OrderInv'
<1> PICK msg : msg = sender[t].msg  OBVIOUS
<1> PICK r : r = [op |-> IF msg.low THEN "P" ELSE "D", id |-> msg.to, msg |-> msg]  OBVIOUS
<1>1. /\ pipe' = Append(pipe, r) /\ r.msg = msg /\ sender' = [sender EXCEPT ![t] = Idle]
      /\ UNCHANGED left /\ sender[t].pc = "push"
  BY DEF PushRequest, At
<1>2. msg \in Msgs  BY <1>1, SenderFacts
<1>3. PICK Elems : pipe \in Seq(Elems)  BY DEF LifeInv, PipeShape
<1>4. /\ Len(pipe') = Len(pipe) + 1 /\ Len(pipe) \in Nat
      /\ \A n \in 1 .. Len(pipe) : pipe'[n] = pipe[n]
      /\ pipe'[Len(pipe) + 1] = r
  BY <1>1, <1>3, Appending
<1>5. \A n \in CarriedAt' : n \in CarriedAt \/ n = Len(pipe) + 1
  BY <1>4 DEF CarriedAt
<1>6. CarriedAt \subseteq 1 .. Len(pipe)  BY DEF CarriedAt
<1>7. Piped' \subseteq Piped \cup {msg}
  <2> SUFFICES ASSUME NEW n \in CarriedAt' PROVE pipe'[n].msg \in Piped \cup {msg}  BY DEF Piped
  <2>1. CASE n \in CarriedAt
    <3>1. pipe'[n] = pipe[n]  BY <1>4, <1>6, <2>1
    <3> QED  BY <2>1, <3>1 DEF Piped
  <2>2. CASE n = Len(pipe) + 1  BY <1>1, <1>4, <2>2
  <2> QED  BY <1>5, <2>1, <2>2
<1>8. Waiting' \subseteq Waiting /\ Written' = Written  BY WaitingRests DEF Written
<1>9. msg.from = t /\ msg.left = SendsLeft(t) /\ msg.left \in Nat
  <2>1. sender[t].pc \notin Unsent  BY <1>1 DEF Unsent
  <2> QED  BY <1>2, <2>1 DEF OrderInv, SendersSend, Msgs
<1>10. ComesLast(msg)
  <2>1. sender'[t].pc = "idle"  BY <1>1 DEF LifeInv, SendersOK, Idle
  <2>2. left.sends[t] \in Nat  BY DEF SendInv, Budget
  <2>3. SendsLeft(t)' = left.sends[t] /\ SendsLeft(t) = left.sends[t] + 1
    BY <1>1, <2>1, <2>2 DEF SendsLeft, Unsent
  <2>4. msg.left > SendsLeft(t)'  BY <1>9, <2>2, <2>3
  <2> QED  BY <1>9, <2>1, <2>4 DEF ComesLast, Trying
<1>11. \A m \in Written \cup Waiting \cup Piped : Precedes(m, msg)
  <2> SUFFICES ASSUME NEW m \in Written \cup Waiting \cup Piped, m.from = t PROVE m.left > msg.left
    BY <1>9 DEF Precedes
  <2> QED  BY <1>9 DEF OrderInv, SentBefore
<1>12. PipeInOrder'
  <2>1. \A m \in Written' \cup Waiting', n \in Piped' : m.to \notin early' => Precedes(m, n)
    BY <1>7, <1>8, <1>11, EarlyGrows DEF OrderInv, PipeInOrder
  <2>2. ASSUME NEW n \in CarriedAt', NEW m \in CarriedAt', n < m PROVE Precedes(pipe'[n].msg, pipe'[m].msg)
    <3>1. n \in CarriedAt
      <4>1. m \in 1 .. Len(pipe) \/ m = Len(pipe) + 1  BY <1>5, <1>6
      <4>2. n \in 1 .. Len(pipe) \/ n = Len(pipe) + 1  BY <1>5, <1>6
      <4>3. n # Len(pipe) + 1  BY <1>4, <2>2, <4>1, <4>2
      <4> QED  BY <1>5, <4>3
    <3>2. pipe'[n] = pipe[n] /\ pipe[n].msg \in Piped  BY <1>4, <1>6, <3>1 DEF Piped
    <3>3. CASE m \in CarriedAt
      <4>1. pipe'[m] = pipe[m]  BY <1>4, <1>6, <3>3
      <4> QED  BY <2>2, <3>1, <3>2, <3>3, <4>1 DEF OrderInv, PipeInOrder
    <3>4. CASE m = Len(pipe) + 1
      <4>1. pipe'[m].msg = msg  BY <1>1, <1>4, <3>4
      <4> QED  BY <1>11, <3>2, <4>1
    <3> QED  BY <1>5, <3>3, <3>4
  <2> QED  BY <2>1, <2>2 DEF PipeInOrder
<1>13. WiresInOrder'  BY EarlyGrows DEF OrderInv, WiresInOrder
<1>14. \A k \in Slots : RestsWhole(k)  BY DEF RestsWhole
<1> PICK more : more = {msg}  OBVIOUS
<1>15. /\ more \subseteq Msgs /\ \A m \in more : m \in Piped \/ ComesLast(m)
       /\ Written' \subseteq Written \cup Waiting \cup more
       /\ Waiting' \subseteq Waiting \cup more /\ Piped' \subseteq Piped \cup more
  BY <1>2, <1>7, <1>8, <1>10
<1> QED  BY <1>12, <1>13, <1>14, <1>15, OrderStep

-----------------------------------------------------------------------------
(* The order of the messages: the three steps that write or queue *)

\* What waits in the slots when one of them is touched
LEMMA WaitingOfOne ==
    ASSUME NEW k \in Slots, \A j \in Slots : j # k => slot'[j] = slot[j],
           NEW more, Waits(slot'[k]) \subseteq Waits(slot[k]) \cup more
    PROVE  Waiting' \subseteq Waiting \cup more
<1> SUFFICES ASSUME NEW j \in Slots PROVE Waits(slot'[j]) \subseteq Waiting \cup more  BY DEF Waiting
<1>1. CASE j = k  BY <1>1 DEF Waiting
<1>2. CASE j # k  BY <1>2 DEF Waiting
<1> QED  BY <1>1, <1>2

\* The socket thread takes a message from the pipe and appends it to a list, or drops it.
LEMMA SendSocketInOrder ==
    ASSUME LifeInv, SendInv, WireOK, Addressed, OrderInv, [Next]_vars, SendSocket
    PROVE  OrderInv'
<1> PICK k : k = AskedSlot  OBVIOUS
<1> PICK id : id = Asked  OBVIOUS
<1> PICK msg : msg = Head(pipe).msg  OBVIOUS
<1> PICK new : new = Appended(slot[k], msg)  OBVIOUS
<1>1. /\ Polling /\ k \in Slots /\ k = HASH_ID(id) /\ 1 \in CarriedAt /\ pipe[1] = Head(pipe)
      /\ msg \in Msgs /\ Head(pipe).id = id
      /\ \A j \in Slots : j # k => slot'[j] = slot[j]
      /\ UNCHANGED <<sender, poll, left, wire, seen>> /\ pipe # <<>> /\ pipe' = Tail(pipe)
      /\ DOMAIN slot[k] = Fields /\ SlotTyped(slot[k])
      /\ slot'[k].id = slot[k].id /\ slot'[k].type = slot[k].type /\ slot'[k].dw = slot[k].dw
      /\ \/ slot'[k].high = slot[k].high /\ slot'[k].low = slot[k].low
         \/ /\ slot[k].id = id /\ slot[k].type \notin Unused
            /\ slot'[k].high = new.high /\ slot'[k].low = new.low
  BY SendSocketSlot
<1> PICK more : more = {msg}  OBVIOUS
<1>2. msg \in Piped /\ msg.to = id  BY <1>1 DEF Piped, Addressed
<1>3. new.dw = slot[k].dw /\ Waits(new) = Waits(slot[k]) \cup {msg}
  BY ONLY <1>1, new = Appended(slot[k], msg), AppendedGoesOn
<1>4. Waiting' \subseteq Waiting \cup more
  <2>1. Waits(slot'[k]) \subseteq Waits(slot[k]) \cup more
    <3>1. CASE slot'[k].high = slot[k].high /\ slot'[k].low = slot[k].low  BY <1>1, <3>1 DEF Waits
    <3>2. CASE slot'[k].high = new.high /\ slot'[k].low = new.low
      <4>1. Waits(slot'[k]) = Waits(new)  BY <1>1, <1>3, <3>2 DEF Waits
      <4> QED  BY <1>3, <4>1
    <3> QED  BY <1>1, <3>1, <3>2
  <2> QED  BY <1>1, <2>1, WaitingOfOne
<1>5. Written' = Written  BY <1>1 DEF Written
<1>6. PICK Elems : pipe \in Seq(Elems)  BY DEF LifeInv, PipeShape
<1>7. /\ Len(pipe') = Len(pipe) - 1 /\ Len(pipe) \in Nat
      /\ \A n \in 1 .. Len(pipe) - 1 : pipe'[n] = pipe[n + 1]
  BY <1>1, <1>6, Taking
<1>8. ASSUME NEW n \in Piped' PROVE Precedes(msg, n)
  <2>1. PICK x \in CarriedAt' : n = pipe'[x].msg  BY DEF Piped
  <2>2. x + 1 \in CarriedAt /\ pipe'[x] = pipe[x + 1] /\ 1 < x + 1  BY <1>7 DEF CarriedAt
  <2> QED  BY <1>1, <2>1, <2>2 DEF OrderInv, PipeInOrder
<1>9. PipeInOrder' /\ Piped' \subseteq Piped
  <2>1. PipeKeeps  BY <1>1, CarriedStays
  <2>2. Written' \cup Waiting' \subseteq Written \cup Waiting \cup more  BY <1>4, <1>5
  <2>3. \A m \in more, n \in Piped' : Precedes(m, n)  BY <1>8
  <2>4. PipeInOrder  BY DEF OrderInv
  <2> QED  BY <2>1, <2>2, <2>3, <2>4, EarlyGrows, PipeStaysInOrder
<1>10. WiresInOrder'  BY <1>1, EarlyGrows DEF OrderInv, WiresInOrder
<1>11. ASSUME NEW j \in Slots, slot'[j].type \notin Unused, slot'[j].id \notin early
       PROVE  RestsWhole(j) \/ ListsFor(slot'[j], MsgsOf(wire'[slot'[j].id]))
  <2>1. CASE j # k  BY <1>1, <2>1, UntouchedRests DEF RestsWhole, Rests
  <2>2. CASE j = k /\ slot'[k].high = slot[k].high /\ slot'[k].low = slot[k].low
    BY <1>1, <2>2 DEF RestsWhole, Rests, SameLists, Live
  <2>3. CASE j = k /\ slot[k].id = id /\ slot'[k].high = new.high /\ slot'[k].low = new.low
    <3> PICK s : s = slot[k]  OBVIOUS
    <3> PICK written : written = MsgsOf(wire[id])  OBVIOUS
    <3>1. slot[k].type \notin Unused /\ id \notin early  BY <1>1, <1>11, <2>3
    <3>2. ListsFor(s, written)  BY <1>1, <2>3, <3>1 DEF OrderInv, SlotsInOrder
    <3>3. id \in Ids  BY <1>2, <1>1 DEF Msgs
    <3>4. \A m \in written \cup Waits(s) : MayPrecede(m, msg)
      <4> SUFFICES ASSUME NEW m \in written \cup Waits(s), m.from = msg.from PROVE ~(m.left < msg.left)
        BY DEF MayPrecede
      <4>1. m \in Written \cup Waiting  BY <1>1, <3>3 DEF Written, Waiting
      <4>2. m.to = id  BY <1>1, <2>3, <3>3 DEF WireOK, Addressed
      <4>3. m.left > msg.left  BY <1>2, <3>1, <4>1, <4>2 DEF OrderInv, PipeInOrder, Precedes
      <4>4. m \in Msgs  BY <4>1, AllMessages
      <4>5. m.left \in Nat /\ msg.left \in Nat  BY <1>1, <4>4 DEF Msgs
      <4> QED  BY <4>3, <4>5
    <3>5. ListsFor(new, written)
      <4>1. DOMAIN s = Fields /\ SlotTyped(s) /\ new = Appended(s, msg) /\ msg \in Msgs  BY <1>1
      <4> QED  BY ONLY <3>2, <3>4, <4>1, AppendedInOrder
    <3>6. ListsFor(slot'[k], written)  BY <1>1, <1>3, <2>3, <3>5 DEF ListsFor
    <3> QED  BY <1>1, <2>3, <3>6
  <2> QED  BY <1>1, <2>1, <2>2, <2>3
<1>12. /\ more \subseteq Msgs /\ \A m \in more : m \in Piped \/ ComesLast(m)
       /\ Written' \subseteq Written \cup Waiting \cup more
       /\ Waiting' \subseteq Waiting \cup more /\ Piped' \subseteq Piped \cup more
  BY <1>1, <1>2, <1>4, <1>5, <1>9
<1> QED  BY <1>9, <1>10, <1>11, <1>12, OrderStep

\* A sender writes: nothing of it waits for the socket, and all it wrote was sent before.
LEMMA DirectWriteInOrder ==
    ASSUME LifeInv, SendInv, WireOK, Addressed, OrderInv, [Next]_vars, NEW t \in Senders, DirectWrite(t)
    PROVE  OrderInv'
<1> PICK k : k = K(t)  OBVIOUS
<1> PICK msg : msg = sender[t].msg  OBVIOUS
<1>0. /\ sender[t].pc = "write" /\ k \in Slots /\ k = HASH_ID(msg.to)
      /\ msg \in Msgs /\ msg.to \in Ids /\ seen[msg.to] \in Sendable
      /\ slot[k].id = msg.to /\ slot[k].type = "CONNECTED" /\ dw_lock[k] = t
      /\ UNCHANGED <<pipe, poll, left, seen>>
      /\ \A j \in Slots : j # k => slot'[j] = slot[j] /\ (slot[j].type \notin Unused => slot[j].id # msg.to)
      /\ slot'[k].id = slot[k].id /\ slot'[k].type = slot[k].type
      /\ slot'[k].high = slot[k].high /\ slot'[k].low = slot[k].low
      /\ sender'[t] = Idle \/ (sender'[t].pc = "trigger" /\ sender'[t].msg = msg)
      /\ \A u \in Senders : u # t => sender'[u] = sender[u]
      /\ WrittenFrom(k, msg)
  BY ONLY LifeInv, SendInv, t \in Senders, DirectWrite(t), k = K(t), msg = sender[t].msg, DirectWriteSlot
<1> PICK fd : fd = msg.to  OBVIOUS
<1>b. sender'[t].pc \in Unsent /\ sender'[t].pc \notin Trying
  BY ONLY <1>0 DEF Idle, Unsent, Trying
<1>1. PICK n \in 0 .. MsgSize :
          /\ wire' = [wire EXCEPT ![fd] = wire[fd] \o Bytes([msg |-> msg, ptr |-> 0], n)]
          /\ slot'[k].dw = IF n = MsgSize THEN slot[k].dw ELSE <<[msg |-> msg, ptr |-> n]>>
  BY Zenon, <1>0 DEF WrittenFrom
<1> PICK w : w = wire[fd]  OBVIOUS
<1> PICK b : b = Bytes([msg |-> msg, ptr |-> 0], n)  OBVIOUS
<1> PICK c : c = w \o b  OBVIOUS
<1>2. /\ w \in Seq(WireBytes) /\ wire \in [Ids -> Seq(WireBytes)]
      /\ fd \notin early => InOrderList(w)
  BY <1>0 DEF WireOK, OrderInv, WiresInOrder
<1>3. b \in Seq(WireBytes) /\ MsgsOf(b) \subseteq {msg} /\ InOrderList(b)  BY <1>0, BytesFacts
<1>4. wire'[fd] = c /\ \A i \in Ids : i # fd => wire'[i] = wire[i]  BY Zenon, <1>0, <1>1, <1>2
<1> PICK more : more = {msg}  OBVIOUS
<1>5. msg.from = t /\ msg.left = SendsLeft(t) /\ msg.left \in Nat
  <2>1. sender[t].pc \notin Unsent  BY <1>0 DEF Unsent
  <2> QED  BY <1>0, <2>1 DEF OrderInv, SendersSend, Msgs
<1>6. fd \notin early => \A m \in Waiting \cup Piped : ~(m.from = t /\ m.to = fd)
  <2>1. sender[t].pc \in Trying  BY <1>0 DEF Trying
  <2> QED  BY <2>1 DEF OrderInv, NothingOnTheWay
<1>7. ComesLast(msg)
  <2>1. sender'[t].pc \in Unsent /\ sender'[t].pc \notin Trying  BY <1>b
  <2>2. left.sends[t] \in Nat  BY DEF SendInv, Budget
  <2>3. SendsLeft(t)' = left.sends[t] /\ SendsLeft(t) = left.sends[t] + 1
    BY ONLY <1>0, <1>b, <2>2 DEF SendsLeft, Unsent, Trying
  <2>4. msg.left > SendsLeft(t)'  BY <1>5, <2>2, <2>3
  <2> QED  BY <1>5, <2>1, <2>4 DEF ComesLast
<1>8. \A m \in MsgsOf(w) : MayPrecede(m, msg)
  <2> SUFFICES ASSUME NEW m \in MsgsOf(w), m.from = t PROVE ~(m.left < msg.left)
    BY <1>5 DEF MayPrecede
  <2>1. m \in Written  BY <1>0 DEF Written
  <2>2. m.left > msg.left  BY <1>5, <2>1 DEF OrderInv, SentBefore
  <2>3. m \in Msgs  BY <2>1, AllMessages
  <2>4. m.left \in Nat  BY <2>3 DEF Msgs
  <2> QED  BY <1>5, <2>2, <2>4
<1>9. MsgsOf(c) = MsgsOf(w) \cup MsgsOf(b) /\ (fd \notin early => InOrderList(c))
  <2>1. Before(MsgsOf(w), MsgsOf(b))  BY <1>3, <1>8 DEF Before
  <2>2. w \in Seq(WireBytes) /\ b \in Seq(WireBytes) /\ InOrderList(b)  BY <1>2, <1>3
  <2>3. MsgsOf(w \o b) = MsgsOf(w) \cup MsgsOf(b)  BY ONLY <2>2, MsgsOfJoin
  <2>4. ASSUME fd \notin early PROVE InOrderList(w \o b)
    <3>1. InOrderList(w)  BY <1>2, <2>4
    <3> QED  BY ONLY <2>1, <2>2, <3>1, JoinInOrder
  <2> QED  BY <2>3, <2>4
<1>10. slot'[k].dw = slot[k].dw \/ \E buf : slot'[k].dw = <<buf>> /\ buf.msg = msg
  <2>1. CASE n = MsgSize  BY <1>1, <2>1
  <2>2. CASE n # MsgSize
    <3> PICK buf : buf = [msg |-> msg, ptr |-> n]  OBVIOUS
    <3>1. slot'[k].dw = <<buf>> /\ buf.msg = msg  BY <1>1, <2>2
    <3> QED  BY <3>1
  <2> QED  BY <2>1, <2>2
<1>11. Waiting' \subseteq Waiting \cup more
  <2>1. MsgsOf(slot'[k].dw) \subseteq MsgsOf(slot[k].dw) \cup more  BY Zenon, <1>10, MsgsOfOne
  <2>2. Waits(slot'[k]) \subseteq Waits(slot[k]) \cup more  BY Zenon, <1>0, <2>1 DEF Waits
  <2>3. \A j \in Slots : j # k => slot'[j] = slot[j]  BY <1>0
  <2> QED  BY <1>0, <2>2, <2>3, WaitingOfOne
<1>12. Written' \subseteq Written \cup more
  <2> SUFFICES ASSUME NEW i \in Ids PROVE MsgsOf(wire'[i]) \subseteq Written \cup more  BY DEF Written
  <2>1. CASE i = fd
    <3>1. MsgsOf(w) \subseteq Written  BY <1>0 DEF Written
    <3> QED  BY <1>3, <1>4, <1>9, <2>1, <3>1
  <2>2. CASE i # fd  BY <1>4, <2>2 DEF Written
  <2> QED  BY <2>1, <2>2
<1>13. PipeInOrder' /\ Piped' = Piped
  <2>1. PipeKeeps  BY <1>0, CarriedStays DEF QuietPipe
  <2>2. Written' \cup Waiting' \subseteq Written \cup Waiting \cup more  BY <1>11, <1>12
  <2>3. Piped' = Piped  BY <1>0 DEF Piped, CarriedAt
  <2>4. \A m \in more, q \in Piped' : m.to \notin early => Precedes(m, q)
    <3> SUFFICES ASSUME fd \notin early, NEW q \in Piped PROVE Precedes(msg, q)  BY <2>3
    <3> QED  BY <1>5, <1>6 DEF Precedes
  <2>5. PipeInOrder  BY DEF OrderInv
  <2> QED  BY <2>1, <2>2, <2>3, <2>4, <2>5, EarlyGrows, PipeStaysInOrder
<1>14. WiresInOrder'
  <2> SUFFICES ASSUME NEW i \in Ids, i \notin early PROVE InOrderList(wire'[i])
    BY EarlyGrows DEF WiresInOrder
  <2> QED  BY <1>4, <1>9 DEF OrderInv, WiresInOrder
<1>15. ASSUME NEW j \in Slots, slot'[j].type \notin Unused, slot'[j].id \notin early
       PROVE  RestsWhole(j) \/ ListsFor(slot'[j], MsgsOf(wire'[slot'[j].id]))
  <2>1. CASE j # k
    <3>1. slot'[j] = slot[j] /\ slot[j].type \notin Unused /\ slot[j].id # fd  BY <1>0, <1>15, <2>1
    <3>2. Rests(j)  BY <1>0, <3>1, UntouchedRests DEF Rests
    <3>3. slot[j].id \in Ids  BY <3>1 DEF LifeInv, SlotsOK, SlotOK, Unused
    <3> QED  BY <1>4, <3>1, <3>2, <3>3 DEF RestsWhole
  <2>2. CASE j = k
    <3> PICK s : s = slot[k]  OBVIOUS
    <3> PICK new : new = slot'[k]  OBVIOUS
    <3> PICK written : written = MsgsOf(w)  OBVIOUS
    <3> PICK after : after = MsgsOf(c)  OBVIOUS
    <3>1. slot[k].type \notin Unused /\ fd \notin early  BY <1>0, <1>15, <2>2 DEF Unused
    <3>2. ListsFor(s, written)  BY <1>0, <3>1 DEF OrderInv, SlotsInOrder
    <3>3. after \subseteq written \cup {msg}  BY <1>3, <1>9
    <3>4. ASSUME NEW m \in Waits(s) PROVE MayPrecede(msg, m)
      <4>1. m \in Waiting /\ m.to = fd  BY <1>0 DEF Waiting, Addressed
      <4> QED  BY Zenon, <1>5, <1>6, <3>1, <4>1 DEF MayPrecede
    <3>5. /\ new.high = s.high /\ new.low = s.low /\ msg \in Msgs
          /\ new.dw = s.dw \/ \E buf : new.dw = <<buf>> /\ buf.msg = msg
          /\ \A m \in written : MayPrecede(m, msg)
      BY Zenon, <1>0, <1>8, <1>10
    <3>6. ListsFor(new, after)  BY ONLY <3>2, <3>3, <3>4, <3>5, DirectInOrder
    <3> QED  BY Zenon, <1>0, <1>4, <2>2, <3>6
  <2> QED  BY <2>1, <2>2
<1>16. /\ more \subseteq Msgs /\ \A m \in more : m \in Piped \/ ComesLast(m)
       /\ Written' \subseteq Written \cup Waiting \cup more
       /\ Waiting' \subseteq Waiting \cup more /\ Piped' \subseteq Piped \cup more
  BY <1>0, <1>7, <1>11, <1>12, <1>13
<1> QED  BY <1>13, <1>14, <1>15, <1>16, OrderStep

\* The socket thread writes what waits, in its order.
LEMMA SendBufferInOrder ==
    ASSUME LifeInv, SendInv, WireOK, Addressed, OrderInv, [Next]_vars, SendBuffer
    PROVE  OrderInv'
<1> PICK k : k = E0.k  OBVIOUS
<1> PICK old : old = slot[k]  OBVIOUS
<1> PICK id : id = old.id  OBVIOUS
<1> PICK w : w = wire[id]  OBVIOUS
<1>0. wire \in [Ids -> Seq(WireBytes)]  BY DEF WireOK
<1>1. /\ k \in Slots /\ SlotTyped(old) /\ old.type \notin Unused
      /\ id \in Ids /\ HASH_ID(id) = k /\ Polling
      /\ UNCHANGED <<pipe, sender, left>>
      /\ poll'.forcing = poll.forcing
      /\ \A j \in Slots : j # k => slot'[j] = slot[j]
      /\ slot'[k].id = id /\ slot'[k].dw = <<>>
      /\ \E c : wire' = [wire EXCEPT ![id] = c] /\ Sending(old, w, slot'[k], c)
  BY <1>0, SendBufferSlot
<1>2. PICK c : wire' = [wire EXCEPT ![id] = c] /\ Sending(old, w, slot'[k], c)  BY <1>1
<1> PICK new : new = slot'[k]  OBVIOUS
<1>3. w \in Seq(WireBytes) /\ (id \notin early => InOrderList(w))
  BY <1>0, <1>1 DEF OrderInv, WiresInOrder
<1>4. MsgsOf(c) \subseteq MsgsOf(w) \cup Waits(old) /\ Waits(new) \subseteq Waits(old)
  BY <1>1, <1>2, <1>3, SendingMsgs
<1>5. ASSUME id \notin early PROVE InOrderList(c) /\ ListsFor(new, MsgsOf(c))
  <2>1. ListsFor(old, MsgsOf(w)) /\ InOrderList(w)  BY <1>1, <1>3, <1>5 DEF OrderInv, SlotsInOrder
  <2> QED  BY ONLY <1>1, <1>2, <1>3, <2>1, new = slot'[k], SendingInOrder
<1>6. wire'[id] = c /\ \A i \in Ids : i # id => wire'[i] = wire[i]  BY <1>0, <1>1, <1>2
<1> PICK more : more = {}  OBVIOUS
<1>7. Waiting' \subseteq Waiting \cup more
  <2>1. Waits(slot'[k]) \subseteq Waits(slot[k]) \cup more  BY <1>4
  <2> QED  BY <1>1, <2>1, WaitingOfOne
<1>8. Written' \subseteq Written \cup Waiting
  <2> SUFFICES ASSUME NEW i \in Ids PROVE MsgsOf(wire'[i]) \subseteq Written \cup Waiting  BY DEF Written
  <2>1. CASE i = id  BY <1>1, <1>4, <1>6, <2>1 DEF Written, Waiting
  <2>2. CASE i # id  BY <1>6, <2>2 DEF Written
  <2> QED  BY <2>1, <2>2
<1>9. PipeInOrder' /\ Piped' \subseteq Piped
  <2>1. PipeKeeps  BY <1>1, CarriedStays DEF QuietPipe
  <2>2. Written' \cup Waiting' \subseteq Written \cup Waiting \cup more  BY <1>7, <1>8
  <2>3. PipeInOrder  BY DEF OrderInv
  <2> QED  BY <2>1, <2>2, <2>3, EarlyGrows, PipeStaysInOrder
<1>10. WiresInOrder'
  <2> SUFFICES ASSUME NEW i \in Ids, i \notin early PROVE InOrderList(wire'[i])
    BY EarlyGrows DEF WiresInOrder
  <2> QED  BY <1>5, <1>6 DEF OrderInv, WiresInOrder
<1>11. ASSUME NEW j \in Slots, slot'[j].type \notin Unused, slot'[j].id \notin early
       PROVE  RestsWhole(j) \/ ListsFor(slot'[j], MsgsOf(wire'[slot'[j].id]))
  <2>1. CASE j # k
    <3>1. slot'[j] = slot[j] /\ slot[j].type \notin Unused  BY <1>1, <1>11, <2>1
    <3>2. slot[j].id \in Ids /\ HASH_ID(slot[j].id) = j  BY <3>1 DEF LifeInv, SlotsOK, SlotOK, Unused
    <3>3. slot[j].id # id  BY <1>1, <2>1, <3>2
    <3>4. Rests(j)  BY <1>1, <3>1, UntouchedRests DEF Rests
    <3> QED  BY <1>6, <3>1, <3>2, <3>3, <3>4 DEF RestsWhole
  <2>2. CASE j = k  BY <1>1, <1>5, <1>6, <1>11, <2>2
  <2> QED  BY <2>1, <2>2
<1>12. /\ more \subseteq Msgs /\ \A m \in more : m \in Piped \/ ComesLast(m)
       /\ Written' \subseteq Written \cup Waiting \cup more
       /\ Waiting' \subseteq Waiting \cup more /\ Piped' \subseteq Piped \cup more
  BY <1>7, <1>8, <1>9
<1> QED  BY <1>9, <1>10, <1>11, <1>12, OrderStep

-----------------------------------------------------------------------------
(* The stream, in every state *)

\* Every step keeps the messages in order.
LEMMA OrderInvStep ==
    ASSUME LifeInv, SendInv, WholeInv, OrderInv, [Next]_vars
    PROVE  OrderInv'
<1>1. WireOK /\ Addressed  BY DEF WholeInv
<1>2. CASE SendBuffer  BY <1>1, <1>2, SendBufferInOrder
<1>3. CASE SendSocket  BY <1>1, <1>3, SendSocketInOrder
<1>4. ASSUME NEW t \in Senders, DirectWrite(t) PROVE OrderInv'  BY <1>1, <1>4, DirectWriteInOrder
<1>5. CASE ~Writes
  <2>1. UNCHANGED wire /\ \A j \in Slots : Rests(j)  BY <1>1, <1>5, OtherStepsRest
  <2>2. ASSUME NEW t \in Senders, PushRequest(t) PROVE OrderInv'  BY <1>1, <2>1, <2>2, PushInOrder
  <2>3. CASE \A t \in Senders : ~PushRequest(t)  BY <1>1, <2>1, <2>3, OrderRests
  <2> QED  BY <2>2, <2>3
<1> QED  BY <1>2, <1>3, <1>4, <1>5 DEF Writes

\* At first nothing was sent.
LEMMA FirstOrder == Init => OrderInv
<1> SUFFICES ASSUME Init PROVE OrderInv  OBVIOUS
<1>1. /\ slot = [k \in Slots |-> FreeSlot] /\ pipe = <<>>
      /\ sender = [t \in Senders |-> Idle] /\ wire = [i \in Ids |-> <<>>]
  BY DEF Init
<1>2. FreeSlot.type \in Unused /\ FreeSlot.high = <<>> /\ FreeSlot.low = <<>> /\ FreeSlot.dw = <<>>
  BY DEF FreeSlot, Unused
<1>3. MsgsOf(<<>>) = {} /\ InOrderList(<<>>) /\ Len(pipe) = 0  BY <1>1, MsgsOfOne, OneInOrder
<1>4. Written = {}  BY <1>1, <1>3 DEF Written
<1>5. Waiting = {}  BY <1>1, <1>2, <1>3 DEF Waiting, Waits
<1>6. CarriedAt = {}  BY <1>3 DEF CarriedAt
<1>7. Piped = {}  BY <1>6 DEF Piped
<1>8. \A t \in Senders : sender[t].pc = "idle"  BY <1>1 DEF Idle
<1>9. SentBefore /\ PipeInOrder  BY <1>4, <1>5, <1>6, <1>7 DEF SentBefore, PipeInOrder
<1>10. SendersSend /\ NothingOnTheWay  BY <1>8 DEF SendersSend, NothingOnTheWay, Unsent, Trying
<1>11. SlotsInOrder /\ WiresInOrder  BY <1>1, <1>2, <1>3 DEF SlotsInOrder, WiresInOrder
<1> QED  BY <1>9, <1>10, <1>11 DEF OrderInv

\* Wires in order are what InOrder asks for.
LEMMA OrderFollows == WireOK /\ OrderInv => InOrder
<1> SUFFICES ASSUME WireOK, OrderInv, NEW i \in DOMAIN wire, i \notin early,
                    NEW x \in DOMAIN wire[i], NEW y \in DOMAIN wire[i],
                    x < y, wire[i][x].msg.from = wire[i][y].msg.from,
                    wire[i][x].msg.left < wire[i][y].msg.left
             PROVE  wire[i][y].msg.low /\ ~wire[i][x].msg.low
  BY DEF InOrder
<1> PICK w : w = wire[i]  OBVIOUS
<1>1. i \in Ids /\ w \in Seq(WireBytes) /\ InOrderList(w)  BY DEF WireOK, OrderInv, WiresInOrder
<1>2. x \in 1 .. Len(w) /\ y \in 1 .. Len(w)  BY <1>1
<1>3. MayPrecede(w[x].msg, w[y].msg)  BY <1>1, <1>2 DEF InOrderList
<1> QED  BY <1>3 DEF MayPrecede

\* However the writes of senders and of the socket thread share a socket, the bytes of a
\* message follow one another on the descriptor it was sent to, unless the socket is on its way
\* to be closed; and of two messages of a sender the earlier is never written after the later,
\* but for one of low priority that a message of high priority overtakes, or where something
\* was sent to the socket before new_fd.
THEOREM StreamIntactAlways == Spec => []StreamIntact
<1>1. Init => SendInv /\ WholeInv /\ OrderInv  BY FirstSends, FirstWhole, FirstOrder
<1>2. LifeInv /\ LifeInv' /\ SendInv /\ [Next]_vars => SendInv'  BY SendInvStep DEF LifeInv
<1>3. LifeInv /\ LifeInv' /\ SendInv /\ SendInv' /\ WholeInv /\ [Next]_vars => WholeInv'
  <2> SUFFICES ASSUME LifeInv, LifeInv', SendInv, SendInv', WholeInv, [Next]_vars PROVE WholeInv'
    OBVIOUS
  <2>1. SeenStays  BY SendableStays DEF LifeInv
  <2> QED  BY <2>1, WholeInvStep
<1>4. LifeInv /\ SendInv /\ WholeInv /\ OrderInv /\ [Next]_vars => OrderInv'  BY OrderInvStep
<1>5. LifeInv /\ SendInv /\ WholeInv /\ OrderInv => StreamIntact
  BY WholeFollows, OrderFollows DEF StreamIntact, WholeInv
<1> QED  BY <1>1, <1>2, <1>3, <1>4, <1>5, LifeInvAlways, PTL DEF Spec
=============================================================================
