-------------------------- MODULE MCTriggerHandoff --------------------------
(***************************************************************************)
(* A small instance of TriggerHandoff: an ordinary code and the code whose *)
(* id the receiver cannot tell from "no id yet". Code 0 is what a spurious *)
(* wakeup finds before anything was published.                             *)
(***************************************************************************)
EXTENDS TriggerHandoff

MCIds == {1, 2}
MCMaxId == 2
MCDeviations == {1, 2}
MCOneDeviation == {1}
=============================================================================
