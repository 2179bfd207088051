------------------------------- MODULE Sockets -------------------------------
(***************************************************************************)
(* The process as its sockets see it: the receiver at 9080, the            *)
(* diagnostics thread at 9081, the mode thread at 9004 and the main thread *)
(* at 9008 or 9011 take from one table of descriptors, and an exception in *)
(* any of them ends all of them.                                           *)
(***************************************************************************)
EXTENDS CustomerSocket, DiagChannel, BinaryInterface

vars == <<descriptorVars, customerVars, diagVars, binaryVars>>

Init ==
  /\ DescriptorsInit
  /\ CustomerInit
  /\ DiagInit
  /\ BinaryInit

(* main does one thing at a time: it sends a diagnosis when no pose client *)
(* exists, and makes one when it does not send.                            *)
MainAtTrigger == client["pose"].at # "none"

Customer == CustomerNext /\ UNCHANGED <<diagVars, binaryVars>>

Diag ==
  /\ DiagNext
  /\ DiagTest => ~MainAtTrigger
  /\ UNCHANGED <<customerVars, binaryVars>>

Binary ==
  /\ BinaryNext
  /\ diagTested # 0 => UNCHANGED client["pose"]
  /\ UNCHANGED <<customerVars, diagVars>>

Next == Customer \/ Diag \/ Binary

Spec == Init /\ [][Next]_vars

(* connect() and the sleep between two rounds return.                      *)
Connecting(c) == (Socket(c) \/ Connect(c)) /\ UNCHANGED <<customerVars, diagVars>>

FairSpec == Spec /\ \A c \in Clients : WF_vars(Connecting(c))

-----------------------------------------------------------------------------
(* Properties.                                                             *)

(* Every variable keeps its type.                                          *)
TypeOK == DescriptorsTypeOK /\ CustomerTypeOK /\ DiagTypeOK /\ BinaryTypeOK

(* The add-on needs no attention as far as its sockets go: it runs, and    *)
(* its receiver has a connection or waits for one (README.md:85).          *)
NeedsNoAttention == up /\ sockFd # -1

(* The inductive invariant the theorems rest on.                           *)
SocketsInv ==
  /\ TypeOK
  /\ HandleWhileConnected
  /\ ClientsHoldTheirs
  /\ PartsInPlace
  /\ RetriesWithinLimit
  /\ DiagNamesDiag
  /\ RecordIsLastReceived
  /\ PublishesEveryChange

=============================================================================
