-------------------------------- MODULE MCGate --------------------------------
(***************************************************************************)
(* A gate of three entries and clients 1, 5 and 9, which share a hash       *)
(* bucket, and 2, whose place in the table is that of 5.                    *)
(***************************************************************************)
EXTENDS Gate, TLC

Silent == [i \in Ids |-> <<>>]

\* two packages and an empty one in whatever pieces, one of a negative size, and an error or
\* a kick for one that sends
MCClients ==
    {[packages |-> 1 :> <<1, 1, 0>> @@ Silent, trouble |-> 0],
     [packages |-> 9 :> <<-1>> @@ Silent, trouble |-> 0],
     [packages |-> 5 :> <<1>> @@ Silent, trouble |-> 1]}
=============================================================================
