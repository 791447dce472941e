------------------------------ MODULE MCTornado ------------------------------
(***************************************************************************)
(* Small instances of Tornado: two users of one realm, one of whom may     *)
(* have two queues, one of them following public streams.                  *)
(***************************************************************************)
EXTENDS Tornado, TLC

CONSTANTS q1, q2, q3, u1, u2, r1

MCOwner2 == (q1 :> u1) @@ (q2 :> u1)
MCRealmOf == [u \in Users |-> r1]
=============================================================================
