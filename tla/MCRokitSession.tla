--------------------------- MODULE MCRokitSession ---------------------------
(***************************************************************************)
(* Two accounts, of which neither is special, and up to four sessions:     *)
(* enough for an account that is good, one that is not, and an answer that *)
(* belongs to an older login.                                              *)
(***************************************************************************)
EXTENDS RokitSession, TLC

MCAccountsAlike == Permutations(Accounts)
=============================================================================
