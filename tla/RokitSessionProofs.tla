------------------------- MODULE RokitSessionProofs -------------------------
(***************************************************************************)
(* For every set of accounts and any number of sessions, with crashes and  *)
(* with answers that are lost: calls use the session of their own login,   *)
(* and no account is stored that was not good once.                        *)
(***************************************************************************)
EXTENDS RokitSession, TLAPS

(* Every variable keeps its type.                                          *)
THEOREM SessionTypeCorrect == Spec => []TypeOK
<1>1. Init => TypeOK
  BY DEF Init, TypeOK, NoSession
<1>2. TypeOK /\ [Next]_vars => TypeOK'
  <2> SUFFICES ASSUME TypeOK, [Next]_vars
               PROVE  TypeOK'
    OBVIOUS
  <2> USE SessionAssumption DEF TypeOK, At, Sessions, NoSession
  <2>1. CASE InputAccount
    <3>1. byHand' \in BOOLEAN
      BY <2>1 DEF InputAccount, LoadAccount, TypeIn, LogIn, Granted, NotGranted, AccountJudged,
         OpenAccount, WriteAccount
    <3>2. CASE LoadAccount \/ TypeIn \/ AccountJudged \/ OpenAccount \/ WriteAccount
      BY <3>1, <3>2 DEF LoadAccount, TypeIn, AccountJudged, OpenAccount, WriteAccount
    <3>3. CASE LogIn("typed", "typedSent")
      BY <3>3 DEF LogIn
    <3>4. CASE Granted("typedSent", "judge") \/ NotGranted("typedSent", "judge")
      BY <3>4 DEF Granted, NotGranted
    <3>5. QED
      BY <2>1, <3>2, <3>3, <3>4 DEF InputAccount
  <2>2. CASE EnabledTrigger
    BY <2>2 DEF EnabledTrigger, LogIn, Granted, NotGranted, SessionTaken, Call
  <2>3. CASE AdministratorDecides \/ FileEdited \/ Crash \/ UNCHANGED vars
    BY <2>3 DEF AdministratorDecides, FileEdited, Crash, vars
  <2>4. QED
    BY <2>1, <2>2, <2>3 DEF Next
<1>3. QED
  BY <1>1, <1>2, PTL DEF Spec

(* The strengthening is inductive: a login forgets the answer to the one   *)
(* before, and ROKIT numbers the sessions it opens.                        *)
THEOREM SessionInvariant == Spec => []AnswersAreNew
<1> USE DEF AnswersAreNew, CallUsesOwnSession, StoredAccountWasGood
<1>1. Init => AnswersAreNew
  BY SessionAssumption DEF Init, NoSession
<1>2. TypeOK /\ AnswersAreNew /\ [Next]_vars => AnswersAreNew'
  <2> SUFFICES ASSUME TypeOK, AnswersAreNew, [Next]_vars
               PROVE  AnswersAreNew'
    OBVIOUS
  <2> USE SessionAssumption DEF TypeOK, At, Sessions, NoSession
  <2>1. CASE LoadAccount \/ TypeIn \/ AccountJudged \/ OpenAccount \/ WriteAccount
    BY <2>1 DEF LoadAccount, TypeIn, AccountJudged, OpenAccount, WriteAccount
  <2>2. CASE LogIn("typed", "typedSent") \/ LogIn("await", "sent")
    BY <2>2 DEF LogIn
  <2>3. CASE Granted("typedSent", "judge") \/ Granted("sent", "answered")
    BY <2>3 DEF Granted
  <2>4. CASE NotGranted("typedSent", "judge") \/ NotGranted("sent", "answered")
    BY <2>4 DEF NotGranted
  <2>5. CASE SessionTaken \/ Call
    BY <2>5 DEF SessionTaken, Call
  <2>6. CASE AdministratorDecides \/ FileEdited \/ Crash \/ UNCHANGED vars
    BY <2>6 DEF AdministratorDecides, FileEdited, Crash, vars
  <2>7. QED
    BY <2>1, <2>2, <2>3, <2>4, <2>5, <2>6 DEF Next, InputAccount, EnabledTrigger
<1>3. QED
  BY <1>1, <1>2, SessionTypeCorrect, PTL DEF Spec

(* A call is made under the session of its own login, or under none.       *)
THEOREM CallsUseOwnSessions == Spec => []CallUsesOwnSession
BY SessionInvariant, PTL DEF AnswersAreNew

(* However passwords change, logins fail, files are edited and processes   *)
(* die: what the program stores has been good for a session.               *)
THEOREM StoredAccountsWereGood == Spec => []StoredAccountWasGood
BY SessionInvariant, PTL DEF AnswersAreNew

=============================================================================
