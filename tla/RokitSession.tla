---------------------------- MODULE RokitSession ----------------------------
(***************************************************************************)
(* The account, and the sessions it opens at ROKIT.                        *)
(*                                                                         *)
(* At its start the program takes the account from account.yaml, or asks   *)
(* for one until ROKIT opens a session for it, and then writes it there.   *)
(* From then on every observation or seed is sent under a session of its   *)
(* own: getSessionId logs in, and the call that follows carries what the   *)
(* answer left in the static RpcClientSessLogIn::sessionIdPtr.             *)
(* When a password changes, account.yaml is edited by hand, and what is    *)
(* put there is not verified.                                              *)
(*                                                                         *)
(* libcurl hands over an answer in one or several pieces. Each piece is    *)
(* parsed by itself, so one that comes in several is not understood, and   *)
(* one that does not come is not noticed.                                  *)
(***************************************************************************)
EXTENDS Integers

CONSTANTS
  Accounts,     (* what may be typed in as user name and password          *)
  Nobody,       (* account.yaml names no account                           *)
  Cut,          (* account.yaml has been emptied                           *)
  Crashes,      (* whether the process may die and be started again        *)
  MaxSession    (* bound: how many sessions ROKIT opens                    *)

ASSUME SessionAssumption ==
  /\ Nobody \notin Accounts /\ Cut \notin Accounts /\ Nobody # Cut
  /\ Crashes \in BOOLEAN
  /\ MaxSession \in Nat

Sessions == 1 .. MaxSession
NoSession == 0   (* the empty string                                       *)

VARIABLES
  pc,          (* where main() is                                          *)
  file,        (* account.yaml                                             *)
  byHand,      (* history: what is in it was put there by hand             *)
  account,     (* *accountPtr                                              *)
  answered,    (* RpcClientSessLogIn::sessionIdPtr                         *)
  session,     (* *sessionIdPtr                                            *)
  opened,      (* ROKIT: how many sessions it has opened so far            *)
  accepted,    (* ROKIT: the accounts it opens sessions for at present     *)
  before,      (* history: opened, when this login was begun               *)
  proven       (* history: the accounts ROKIT ever opened a session for    *)

vars == <<pc, file, byHand, account, answered, session, opened, accepted, before, proven>>

Init ==
  /\ pc = "start"
  /\ file = Nobody
  /\ byHand = FALSE
  /\ account = Nobody
  /\ answered = NoSession
  /\ session = NoSession
  /\ opened = 0
  /\ accepted \in SUBSET Accounts
  /\ before = 0
  /\ proven = {}

At(from, to) == pc = from /\ pc' = to

-----------------------------------------------------------------------------
(* getSessionId, for the account that is typed in ("ask") or for a trigger *)
(* ("trigger"). pc names what the login is for, and how far it has got.    *)

(* Mutant of LogIn: the answer to the last login is not forgotten.         *)
LogInRemembering(from, to) ==
  /\ At(from, to)
  /\ session' = NoSession
  /\ before' = opened
  /\ UNCHANGED <<file, byHand, account, answered, opened, accepted, proven>>

LogIn(from, to) ==
  /\ At(from, to)
  /\ session' = NoSession
  /\ answered' = NoSession
  /\ before' = opened
  /\ UNCHANGED <<file, byHand, account, opened, accepted, proven>>

(* ROKIT knows the account and opens a session; its answer comes whole, or *)
(* in pieces, or not at all.                                               *)
Granted(from, to) ==
  /\ At(from, to)
  /\ account \in accepted
  /\ opened < MaxSession
  /\ opened' = opened + 1
  /\ proven' = proven \cup {account}
  /\ answered' \in {opened + 1, answered}
  /\ UNCHANGED <<file, byHand, account, session, accepted, before>>

(* ROKIT refuses the account, or cannot be reached.                        *)
NotGranted(from, to) ==
  /\ At(from, to)
  /\ UNCHANGED <<file, byHand, account, answered, session, opened, accepted, before, proven>>

-----------------------------------------------------------------------------
(* inputAccount.                                                           *)

(* Mutant of LoadAccount: an emptied file is read as if it held one.       *)
LoadAccountUnread ==
  /\ At("start", IF file = Nobody THEN "ask" ELSE "await")
  /\ account' = file
  /\ UNCHANGED <<file, byHand, answered, session, opened, accepted, before, proven>>

(* An account in the file is taken without a login. An emptied file makes  *)
(* the conversion of its user name throw.                                  *)
LoadAccount ==
  /\ file # Cut
  /\ At("start", IF file = Nobody THEN "ask" ELSE "await")
  /\ account' = file
  /\ UNCHANGED <<file, byHand, answered, session, opened, accepted, before, proven>>

TypeIn ==
  /\ At("ask", "typed")
  /\ account' \in Accounts
  /\ UNCHANGED <<file, byHand, answered, session, opened, accepted, before, proven>>

(* Mutant of AccountJudged: whatever ROKIT answers, the account is kept.   *)
AccountJudgedKept ==
  /\ At("judge", "open")
  /\ session' = answered
  /\ UNCHANGED <<file, byHand, account, answered, opened, accepted, before, proven>>

(* Without a session the account is asked for again.                       *)
AccountJudged ==
  /\ At("judge", IF answered = NoSession THEN "ask" ELSE "open")
  /\ session' = answered
  /\ UNCHANGED <<file, byHand, account, answered, opened, accepted, before, proven>>

OpenAccount ==
  /\ At("open", "write")
  /\ file' = Cut
  /\ byHand' = FALSE
  /\ UNCHANGED <<account, answered, session, opened, accepted, before, proven>>

(* An edit since it was opened is written over, or it replaced the file    *)
(* that is open and stays.                                                 *)
WriteAccount ==
  /\ At("write", "await")
  /\ \/ file' = account /\ byHand' = FALSE
     \/ byHand /\ UNCHANGED <<file, byHand>>
  /\ UNCHANGED <<account, answered, session, opened, accepted, before, proven>>

InputAccount ==
  \/ LoadAccount
  \/ TypeIn
  \/ LogIn("typed", "typedSent")
  \/ Granted("typedSent", "judge")
  \/ NotGranted("typedSent", "judge")
  \/ AccountJudged
  \/ OpenAccount
  \/ WriteAccount

-----------------------------------------------------------------------------
(* A trigger of an enabled code.                                           *)

(* The call that follows is made with or without a session.                *)
SessionTaken ==
  /\ At("answered", "call")
  /\ session' = answered
  /\ UNCHANGED <<file, byHand, account, answered, opened, accepted, before, proven>>

(* clientGlobalAlignAddObservation or clientLocalizationSetSeed: whatever  *)
(* comes back is only printed.                                             *)
Call ==
  /\ At("call", "await")
  /\ UNCHANGED <<file, byHand, account, answered, session, opened, accepted, before, proven>>

EnabledTrigger ==
  \/ LogIn("await", "sent")
  \/ Granted("sent", "answered")
  \/ NotGranted("sent", "answered")
  \/ SessionTaken
  \/ Call

-----------------------------------------------------------------------------

(* ROKIT's administrator changes passwords.                                *)
AdministratorDecides ==
  /\ accepted' \in SUBSET Accounts
  /\ UNCHANGED <<pc, file, byHand, account, answered, session, opened, before, proven>>

(* Authorized personnel edit account.yaml, at any time.                    *)
FileEdited ==
  /\ file' \in (Accounts \cup {Nobody}) \ {file}
  /\ byHand' = TRUE
  /\ UNCHANGED <<pc, account, answered, session, opened, accepted, before, proven>>

Crash ==
  /\ Crashes
  /\ pc' = "start"
  /\ account' = Nobody
  /\ answered' = NoSession
  /\ session' = NoSession
  /\ UNCHANGED <<file, byHand, opened, accepted, before, proven>>

Next ==
  \/ InputAccount
  \/ EnabledTrigger
  \/ AdministratorDecides
  \/ FileEdited
  \/ Crash

Spec == Init /\ [][Next]_vars

-----------------------------------------------------------------------------
(* Properties.                                                             *)

(* Every variable keeps its type.                                          *)
TypeOK ==
  /\ pc \in {"start", "ask", "typed", "typedSent", "judge", "open", "write",
             "await", "sent", "answered", "call"}
  /\ file \in Accounts \cup {Nobody, Cut}
  /\ byHand \in BOOLEAN
  /\ account \in Accounts \cup {Nobody}
  /\ {answered, session} \subseteq Sessions \cup {NoSession}
  /\ {opened, before} \subseteq Sessions \cup {0}
  /\ accepted \subseteq Accounts
  /\ proven \subseteq Accounts

(* A call is made under the session of its own login or under none: the    *)
(* session of an earlier trigger, which ROKIT has dropped after thirty     *)
(* seconds, is never sent again, however the answer went astray.           *)
CallUsesOwnSession == pc = "call" => session = NoSession \/ session > before

(* What the program itself leaves in account.yaml has been good for a      *)
(* session once: a name or password mistyped, or never judged because the  *)
(* process died, is not kept, and does not take the place of what was put  *)
(* there by hand, which is not verified. (main_logic.cpp:66-74, 78-82.)    *)
StoredAccountWasGood == file \in Accounts /\ ~byHand => file \in proven

(* The inductive invariant the theorems rest on: a session that is known   *)
(* was opened since the login began, and for the account that logged in.   *)
AnswersAreNew ==
  /\ before <= opened
  /\ pc \in {"typedSent", "judge", "sent", "answered"} =>
       answered = NoSession \/ answered > before
  /\ pc \in {"typedSent", "judge"} /\ answered # NoSession => account \in proven
  /\ pc \in {"typedSent", "sent"} => answered = NoSession
  /\ pc \in {"open", "write"} => account \in proven
  /\ pc \in {"typed", "typedSent", "judge", "open", "write"} => account \in Accounts
  /\ CallUsesOwnSession
  /\ StoredAccountWasGood

=============================================================================
