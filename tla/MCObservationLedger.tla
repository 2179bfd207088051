------------------------ MODULE MCObservationLedger ------------------------
(***************************************************************************)
(* Small instances of ObservationLedger: an ordinary code and code 0, seen *)
(* at a few places on a line.                                              *)
(***************************************************************************)
EXTENDS ObservationLedger

MCZeroAndOne == {0, 1}
MCTwoPoses == 0 .. 1
MCUpToThree == [i \in MCZeroAndOne |-> IF i = 0 THEN 1 ELSE 3]
MCUpToFour == [i \in MCZeroAndOne |-> 4]
=============================================================================
