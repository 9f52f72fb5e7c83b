--------------------------------- MODULE Gate ---------------------------------
(***************************************************************************)
(* service_gate.c with hashid.h and databuffer.h: the gate accepts clients, *)
(* keeps each in an entry of its table, cuts what they send into packages   *)
(* and forwards these to another service.  Of the socket server only its    *)
(* promise is used (module Connection); `mail' is the gate's message queue, *)
(* and one message is handled in one step, as the gate is a plain service.  *)
(***************************************************************************)
EXTENDS HashId, Sequences

CONSTANTS
    Ids,            \* ids the socket server gives to clients
    Clients,        \* what clients may do in a behaviour: the sizes of the packages each
                    \* sends, and how many errors are told and kicks asked for
    HeadSize,       \* bytes of a package's size
    BUFFER_MAX,
    MaxMail         \* messages that wait for the gate

ASSUME GateAssumption ==
    /\ Ids \subseteq Nat \ {0} /\ HeadSize \in Nat \ {0} /\ BUFFER_MAX \in Nat \ {0}
    /\ MaxMail \in Nat \ {0}
    /\ Clients \subseteq [packages : [Ids -> Seq(Int)], trouble : Nat]

VARIABLES
    seen,       \* of each id, what the socket server told last
    asked,      \* of each id, the requests the gate made: "start", "close"
    mail,       \* messages to the gate
    sent,       \* of each id, the bytes that have come from the client
    client,     \* what the clients send, and what trouble is left
    table,      \* g->hash
    conn,       \* g->conn
    told,       \* of each id, what the gate told the service it forwards to
    running     \* the service is not released

gateVars == <<seen, asked, mail, sent, client, table, conn, told, running>>

Socket == INSTANCE Connection

Unused == [fd |-> NoId, buffer |-> <<>>]

\* gate_create
GateInit ==
    /\ Socket!Init
    /\ asked = [i \in Ids |-> {}]
    /\ mail = <<>>
    /\ sent = [i \in Ids |-> 0]
    /\ client \in Clients
    /\ table = hashid_init
    /\ conn = [e \in Entries |-> Unused]
    /\ told = [i \in Ids |-> <<>>]
    /\ running = TRUE

-----------------------------------------------------------------------------
(* What comes to the gate *)

Mail(m) == running /\ Len(mail) < MaxMail /\ mail' = Append(mail, m)

\* the bytes of the first packages: each is its size, in HeadSize bytes, and so many bytes more
FirstPackages(sizes) ==
    LET Body(n) == IF sizes[n] > 0 THEN sizes[n] ELSE 0
        Package(n) == [b \in 1 .. HeadSize + Body(n) |-> [package |-> n, size |-> sizes[n]]]
        Upto[n \in 0 .. Len(sizes)] == IF n = 0 THEN <<>> ELSE Upto[n - 1] \o Package(n)
    IN  Upto
\* all that a client sends
Bytes(i) == FirstPackages(client.packages[i])[Len(client.packages[i])]

\* ids are given out in order
ClientAccepted(i) ==
    /\ \A j \in Ids : j < i => seen[j] # "unborn"
    /\ Socket!Announce(i, "accepted")
    /\ Mail([type |-> "ACCEPT", id |-> i])
    /\ UNCHANGED <<asked, sent, client, table, conn, told, running>>

ClientStarted(i) ==
    /\ "start" \in asked[i] /\ seen[i] = "accepted" /\ Socket!Open(i)
    /\ Mail([type |-> "CONNECT", id |-> i])
    /\ UNCHANGED <<asked, sent, client, table, conn, told, running>>

ClientSends(i) ==
    /\ Socket!Data(i)
    /\ \E n \in sent[i] + 1 .. Len(Bytes(i)) :
        /\ Mail([type |-> "DATA", id |-> i, bytes |-> SubSeq(Bytes(i), sent[i] + 1, n)])
        /\ sent' = [sent EXCEPT ![i] = n]
    /\ UNCHANGED <<asked, client, table, conn, told, running>>

\* the client's end, or the answer to a request to close
ClientCloses(i) ==
    /\ Socket!Close(i)
    /\ Mail([type |-> "CLOSE", id |-> i])
    /\ UNCHANGED <<asked, sent, client, table, conn, told, running>>

SocketError(i) ==
    /\ Socket!Error(i)
    /\ Mail([type |-> "ERROR", id |-> i])
    /\ client.trouble > 0 /\ client' = [client EXCEPT !.trouble = @ - 1]
    /\ UNCHANGED <<asked, sent, table, conn, told, running>>

\* by the service the gate forwards to, which knows the ids it was told
KickAsked(i) ==
    /\ told[i] # <<>>
    /\ Mail([type |-> "kick", id |-> i])
    /\ client.trouble > 0 /\ client' = [client EXCEPT !.trouble = @ - 1]
    /\ UNCHANGED <<seen, asked, sent, table, conn, told, running>>

-----------------------------------------------------------------------------
(* gate_callback *)

Handle(type) ==
    /\ mail # <<>> /\ Head(mail).type = type
    /\ mail' = Tail(mail)
    /\ UNCHANGED <<seen, sent, client, running>>
From == Head(mail).id
Entry == hashid_lookup(table, From)

Ask(request) == asked' = [asked EXCEPT ![From] = @ \cup {request}]
Tell(what) == told' = [told EXCEPT ![From] = @ \o what]

OnAccept ==
    /\ Handle("ACCEPT")
    /\ IF hashid_full(table) THEN Ask("close") /\ UNCHANGED <<table, conn, told>>
       ELSE /\ table' = hashid_insert(table, From)
            /\ conn' = [conn EXCEPT ![hashid_lookup(table', From)] = [fd |-> From, buffer |-> <<>>]]
            /\ Tell(<<[command |-> "connect"]>>)
            /\ Ask("start")

\* entry 0 is taken for no entry
OnConnect ==
    /\ Handle("CONNECT")
    /\ IF Entry <= 0 THEN Ask("close") ELSE UNCHANGED asked
    /\ UNCHANGED <<table, conn, told>>

\* databuffer_readpack: the size of the package at the head, or 0 for none; an empty package
\* looks like none
Readpack(buffer) ==
    IF Len(buffer) < HeadSize \/ Head(buffer).size > Len(buffer) - HeadSize THEN 0 ELSE Head(buffer).size

\* gate_message: the packages forwarded, and what is left in the buffer
OnePackage(buffer) ==
    IF Readpack(buffer) <= 0 THEN [packages |-> <<>>, rest |-> buffer]
    ELSE [packages |-> <<[command |-> "forward", package |-> Head(buffer).package]>>,
          rest |-> SubSeq(buffer, HeadSize + Readpack(buffer) + 1, Len(buffer))]
Forwarded(buffer) ==
    LET Upto[n \in 0 .. Len(buffer)] ==
            IF n = 0 THEN [packages |-> <<>>, rest |-> buffer]
            ELSE LET before == Upto[n - 1]
                     one == OnePackage(before.rest)
                 IN  [packages |-> before.packages \o one.packages, rest |-> one.rest]
    IN  Upto[Len(buffer)]

OnData ==
    LET buffer == conn[Entry].buffer \o Head(mail).bytes
        result == Forwarded(buffer)
    IN  /\ Handle("DATA")
        /\ IF Entry < 0 \/ Len(buffer) > BUFFER_MAX THEN Ask("close") /\ UNCHANGED <<conn, told>>
           ELSE /\ Tell(result.packages)
                /\ conn' = [conn EXCEPT ![Entry].buffer = result.rest]
                /\ IF Readpack(result.rest) < 0 THEN Ask("close") ELSE UNCHANGED asked
        /\ UNCHANGED table

\* the entry kept until CLOSE, or CLOSE taken for what follows an error
TwiceClosed ==
    /\ Handle("CLOSE") \/ Handle("ERROR")
    /\ IF Entry < 0 THEN UNCHANGED told ELSE Tell(<<[command |-> "disconnect"]>>)
    /\ UNCHANGED <<asked, table, conn>>
ClosedQuietly ==
    /\ Handle("CLOSE") \/ Handle("ERROR")
    /\ UNCHANGED <<asked, table, conn, told>>
OnCloseOrError ==
    /\ Handle("CLOSE") \/ Handle("ERROR")
    /\ IF Entry < 0 THEN UNCHANGED <<table, conn, told>>
       ELSE /\ table' = hashid_remove(table, From)
            /\ Tell(<<[command |-> "disconnect"]>>)
            /\ conn' = [conn EXCEPT ![Entry] = Unused]
    /\ UNCHANGED asked

\* gate_dispatch_cmd
OnKick ==
    /\ Handle("kick")
    /\ Ask("close")
    /\ UNCHANGED <<table, conn, told>>

\* gate_release: the service was closed and its messages were handled
Release ==
    /\ running /\ mail = <<>>
    /\ running' = FALSE
    /\ asked' = [i \in Ids |-> asked[i] \cup {r \in {"close"} : \E e \in Entries : conn[e].fd = i}]
    /\ conn' = [e \in Entries |-> Unused]
    /\ table' = hashid_init
    /\ UNCHANGED <<seen, mail, sent, client, told>>

Callback == OnAccept \/ OnConnect \/ OnData \/ OnCloseOrError \/ OnKick

GateNext ==
    \/ \E i \in Ids : \/ ClientAccepted(i) \/ ClientStarted(i) \/ ClientSends(i)
                      \/ ClientCloses(i) \/ SocketError(i) \/ KickAsked(i)
    \/ Callback \/ Release

GateSpec == GateInit /\ [][GateNext]_gateVars

\* Messages are handled, which is what takes them from the queue, and a socket that is to be
\* closed is closed
TakesMail == mail # <<>> /\ mail' = Tail(mail)
FairGateSpec ==
    /\ GateSpec
    /\ WF_mail(TakesMail)
    /\ \A i \in Ids : WF_gateVars("close" \in asked[i] /\ ClientCloses(i))

-----------------------------------------------------------------------------
(* What may never be *)

\* Clients the forwarded-to service takes for connected
Served == {i \in Ids : told[i] # <<>> /\ told[i][Len(told[i])].command # "disconnect"}

\* However ids collide in the hash and whatever was removed in between, the table finds the
\* connections told to the other service and no others, and each has its own state.
GateInv ==
    running =>
        /\ Holds(table, Served)
        /\ \A i \in Served : conn[hashid_lookup(table, i)].fd = i
        /\ \A e \in Entries : table.id[e] = NoId => conn[e] = Unused

\* The other service is told of a connection once, of its packages, and of its end once and
\* last: SOCKET_ERR and SOCKET_CLOSE may both come, and data may come after either.
Sessions ==
    \A i \in Ids : \A n \in DOMAIN told[i] :
        /\ told[i][n].command = "connect" <=> n = 1
        /\ told[i][n].command = "disconnect" => n = Len(told[i])

\* What was forwarded and what waits in the buffer is what the client has sent, in whatever
\* pieces it came, and a package is forwarded as soon as it is complete; unless the gate asked
\* to close the connection.  After a push that failed it goes on to parse with a gap in the
\* bytes (line 110), and an empty package is waited for for ever (databuffer.h line 73).
Framed ==
    \A i \in Served : running /\ "close" \notin asked[i] =>
        LET buffer == conn[hashid_lookup(table, i)].buffer
            packages == Tail(told[i])
            come == FirstPackages(client.packages[i])[Len(packages)] \o buffer
        IN  /\ \A n \in DOMAIN packages : packages[n].package = n
            /\ come = SubSeq(Bytes(i), 1, Len(come))
            /\ Len(buffer) >= HeadSize /\ Head(buffer).size # 0 => Head(buffer).size > Len(buffer) - HeadSize

\* A client that the gate wants closed, because it was kicked, sends nonsense or too much, or
\* is in entry 0, is told to the other service as disconnected and leaves the table.
Disconnects ==
    \A i \in Ids : i \in Served /\ "close" \in asked[i] ~> i \notin Served \/ ~running
=============================================================================
