----------------------------- MODULE DiagChannel -----------------------------
(***************************************************************************)
(* Port 9081. The diagnostics thread stores every connection it accepts in *)
(* diagSockFd, and the main thread tests and uses the variable to send on; *)
(* neither takes a lock.                                                   *)
(***************************************************************************)
EXTENDS Descriptors

VARIABLES
  diagSockFd,  (* the connection accepted last, 0 before, -1 after failure *)
  diagTested   (* what main saw when it tested diagSockFd, 0 if not at it  *)

diagVars == <<diagSockFd, diagTested>>

DiagInit ==
  /\ diagSockFd = 0
  /\ diagTested = 0

(* Mutant of DiagAccept: the connection before is closed, right after the  *)
(* new one was accepted.                                                   *)
DiagAcceptClosing ==
  /\ up
  /\ \E fd \in Fds :
       /\ table[fd] = "free"
       /\ diagSockFd' = fd
       /\ table' = [f \in Fds |-> CASE f = fd -> "diag"
                                    [] f = diagSockFd -> "free"
                                    [] OTHER -> table[f]]
  /\ UNCHANGED <<up, diagTested>>

(* The connection before stays open.                                       *)
DiagAccept ==
  /\ up
  /\ \E fd \in Fds : Opens(fd, "diag") /\ diagSockFd' = fd
  /\ UNCHANGED <<up, diagTested>>

DiagAcceptFails ==
  /\ up
  /\ Exhausted
  /\ diagSockFd' = -1
  /\ UNCHANGED <<descriptorVars, diagTested>>

(* sendDiagMessage: the test ...                                           *)
DiagTest ==
  /\ up
  /\ diagTested = 0
  /\ diagSockFd > 0
  /\ diagTested' = diagSockFd
  /\ UNCHANGED <<descriptorVars, diagSockFd>>

(* What main may send on: the variable is neither atomic nor locked, so it *)
(* is what was tested or what is there by now, which may be no descriptor. *)
SendsOn == {diagTested, diagSockFd} \cap Fds

(* ... and the use. A failure is logged.                                   *)
DiagSend ==
  /\ up
  /\ diagTested # 0
  /\ diagTested' = 0
  /\ UNCHANGED <<descriptorVars, diagSockFd>>

DiagNext ==
  \/ DiagAccept
  \/ DiagAcceptFails
  \/ DiagTest
  \/ DiagSend

-----------------------------------------------------------------------------
(* Properties.                                                             *)

DiagTypeOK ==
  /\ diagSockFd \in Fds \cup {0, -1}
  /\ diagTested \in Fds \cup {0}

(* A diagnosis is never sent into something else than a diagnostics        *)
(* connection, though the variable may be overwritten between the test and *)
(* the use, and other threads open and close descriptors meanwhile         *)
(* (thread_pool.cpp:113, 120-121).                                         *)
DiagStaysOnDiag == diagTested # 0 => \A fd \in SendsOn : table[fd] = "diag"

(* Its inductive form: so it is while main sends nothing.                  *)
DiagNamesDiag == \A fd \in SendsOn : table[fd] = "diag"

=============================================================================
