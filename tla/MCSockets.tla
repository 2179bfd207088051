------------------------------ MODULE MCSockets ------------------------------
(***************************************************************************)
(* A small instance of Sockets: a few descriptors, and two codes. The      *)
(* receiver only compares codes: 0 stands for the ordinary ones, and for   *)
(* what takes the place of an id that was not received; 2 is the id it     *)
(* cannot tell from "no id yet".                                           *)
(***************************************************************************)
EXTENDS Sockets

MCFds == 1 .. 2
MCMoreFds == 1 .. 6   \* two more than the process needs at a time
MCCodes == {0, 2}
=============================================================================
