---------------------------- MODULE MCSocketServer ----------------------------
(***************************************************************************)
(* Small socket servers in one run.  With one slot: two senders of one      *)
(* connection, one sender of three messages, and two connections one after  *)
(* the other; with two slots: a listener and the client it accepts.         *)
(***************************************************************************)
EXTENDS SocketServer, TLC

CONSTANTS s1, s2

MCBudgets ==
    {[opens |-> 1, asks |-> 1, sends |-> (s1 :> 1 @@ s2 :> 1)],
     [opens |-> 1, asks |-> 0, sends |-> (s1 :> 3 @@ s2 :> 0)],
     [opens |-> 2, asks |-> 2, sends |-> (s1 :> 1 @@ s2 :> 0)]}

Accept == INSTANCE SocketServer WITH
    MAX_SOCKET <- 2, Opens <- {"L"},
    Budgets <- {[opens |-> 1, asks |-> 4, sends |-> (s1 :> 1 @@ s2 :> 0)]}

OneSlot == DOMAIN slot = {0}

MCInit == Init \/ Accept!Init

MCNext == IF OneSlot THEN Next ELSE Accept!Next

MCSocketThread == IF OneSlot THEN SocketThread ELSE Accept!SocketThread

MCSenderStep == Running /\ \E t \in Senders : IF OneSlot THEN SenderStep(t) ELSE Accept!SenderStep(t)

\* Weaker than the fairness of Spec: of the senders, and of the peers, somebody goes on.
MCSpec ==
    /\ MCInit /\ [][MCNext]_vars
    /\ WF_vars(MCSocketThread) /\ WF_vars(MCSenderStep) /\ WF_vars(\E i \in Ids : PeerReads(i))
    /\ WF_vars(\E i \in Ids : PeerAccepts(i) \/ PeerRefuses(i))
=============================================================================
