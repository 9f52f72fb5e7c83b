-------------------------------- MODULE Fifo --------------------------------
(***************************************************************************)
(* What skynet_mq.c promises the service a queue belongs to: an unbounded   *)
(* first-in first-out queue.                                                *)
(***************************************************************************)
EXTENDS Sequences

CONSTANTS Msgs, NoMsg

VARIABLES
    contents,   \* the messages in the queue, oldest first
    out         \* what the last skynet_mq_pop returned, NoMsg for "empty"

vars == <<contents, out>>

Init == contents = <<>> /\ out = NoMsg

Put(m) == contents' = Append(contents, m) /\ UNCHANGED out

Take ==
    /\ contents # <<>>
    /\ out' = Head(contents)
    /\ contents' = Tail(contents)

FindEmpty ==
    /\ contents = <<>>
    /\ out' = NoMsg
    /\ UNCHANGED contents

Next == (\E m \in Msgs : Put(m)) \/ Take \/ FindEmpty

Spec == Init /\ [][Next]_vars
=============================================================================
