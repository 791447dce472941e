-------------------------- MODULE MCMissedMessages --------------------------
(***************************************************************************)
(* MissedMessages for TLC: three tabs of the web app, a client with a      *)
(* narrow and one that does not ask for message events.  No action lets    *)
(* one message depend on another, so there is one message.                 *)
(***************************************************************************)
EXTENDS MissedMessages, TLC

CONSTANTS q1, q2, q3, q4, q5, m1

Tabs == {q1, q2, q3}
TabsListening == [q \in Tabs |-> "all"]

Clients == Tabs \cup {q4, q5}
ClientsListening == TabsListening @@ q4 :> "narrow" @@ q5 :> "none"

TabSymmetry == Permutations(Tabs)
=============================================================================
