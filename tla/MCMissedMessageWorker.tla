------------------------ MODULE MCMissedMessageWorker ------------------------
(***************************************************************************)
(* MissedMessageWorker for TLC: three notices, two of them for one user.   *)
(***************************************************************************)
EXTENDS MissedMessageWorker, TLC

CONSTANTS e1, e2, e3

MCEvents == {e1, e2, e3}
MCUsers == {"hamlet", "othello"}
MCRecipient == e1 :> "hamlet" @@ e2 :> "hamlet" @@ e3 :> "othello"

(* Two notices for one user, where more faults are allowed. *)
MCTwoEvents == {e1, e2}
MCTwoRecipient == e1 :> "hamlet" @@ e2 :> "hamlet"
=============================================================================
