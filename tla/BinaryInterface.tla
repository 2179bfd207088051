--------------------------- MODULE BinaryInterface ---------------------------
(***************************************************************************)
(* BinaryInterfaceClient, and how its two users use it: listenMode reads   *)
(* the control mode for as long as it runs, dmTrigger makes a client for   *)
(* each trigger, reads one pose and destroys it.                           *)
(***************************************************************************)
EXTENDS Descriptors

CONSTANTS
  RetryAttempts,    (* retryAttempts                                       *)
  Addresses,        (* how many addresses getaddrinfo returns              *)
  MessageSize,      (* the parts a message may be delivered in             *)
  ConnectOutcomes   (* what connect() may do in this instance              *)

ASSUME BinaryAssumption ==
  /\ RetryAttempts \in Nat
  /\ Addresses \in Nat \ {0}
  /\ MessageSize \in Nat \ {0}
  /\ ConnectOutcomes \subseteq {"ok", "refused", "timedOut", "unreachable", "other"}

VARIABLES
  client,   (* for each client: where it is, and the variables of Connect  *)
  target,   (* the buffer read() fills: the part of a message in each place*)
  got,      (* bytesRead                                                   *)
  arriving  (* the part of a message that comes next on the connection     *)

binaryVars == <<client, target, got, arriving>>

Places == 1 .. MessageSize

ClientState == [at : {"none", "socket", "connect", "open", "spin", "over"},
                Handle : Fds \cup {-1}, Index : Nat, walk : 1 .. Addresses,
                rc : {0, -1}, Error : {"refused", "timedOut", "unreachable", "other"}]

Fresh == [at |-> "none", Handle |-> -1, Index |-> 0, walk |-> 1,
          rc |-> 0, Error |-> "other"]

BinaryInit ==
  /\ client = [c \in Clients |-> Fresh]
  /\ target = [c \in Clients |-> [k \in Places |-> 0]]
  /\ got = [c \in Clients |-> 0]
  /\ arriving = [c \in Clients |-> 1]

readVars == <<target, got, arriving>>

-----------------------------------------------------------------------------
(* Connect.                                                                *)

Becomes(c, state) == client' = [client EXCEPT ![c] = state]

(* The constructor. getaddrinfo leaves rc at 0; it may fail, which throws. *)
Construct(c) ==
  /\ up
  /\ client[c].at = "none"
  /\ \/ /\ Becomes(c, [Fresh EXCEPT !.at = "socket"])
        /\ UNCHANGED up
     \/ /\ "other" \in ConnectOutcomes
        /\ up' = FALSE
        /\ UNCHANGED client
  /\ target' = [target EXCEPT ![c] = [k \in Places |-> 0]]
  /\ got' = [got EXCEPT ![c] = 0]
  /\ arriving' = [arriving EXCEPT ![c] = 1]
  /\ UNCHANGED table

(* Mutant of Retries: Index is compared and never incremented.             *)
RetriesForEver(c, s) ==
  /\ s.rc < 0 /\ s.Error \in {"timedOut", "unreachable", "refused"}
  /\ s.Index < RetryAttempts
  /\ Becomes(c, [s EXCEPT !.at = "socket", !.walk = 1])

(* The condition of the do loop holds: another round over the addresses.   *)
Retries(c, s) ==
  /\ s.rc < 0 /\ s.Error \in {"timedOut", "unreachable", "refused"}
  /\ s.Index < RetryAttempts
  /\ Becomes(c, [s EXCEPT !.at = "socket", !.walk = 1, !.Index = @ + 1])

Exceeds(s) ==
  ~(s.rc < 0 /\ s.Error \in {"timedOut", "unreachable", "refused"} /\ s.Index < RetryAttempts)

(* An address did not do, in state s: the next one, the next round, or an  *)
(* exception that neither main nor listenMode catches.                     *)
Failed(c, s) ==
  \/ /\ s.walk < Addresses
     /\ Becomes(c, [s EXCEPT !.at = "socket", !.walk = @ + 1])
     /\ UNCHANGED up
  \/ /\ s.walk = Addresses
     /\ Retries(c, s)
     /\ UNCHANGED up
  \/ /\ s.walk = Addresses
     /\ Exceeds(s)
     /\ Becomes(c, [Fresh EXCEPT !.at = "over"])
     /\ up' = FALSE

(* socket(). A failure leaves rc and Error as the attempt before left      *)
(* them, or getaddrinfo if there was none.                                 *)
Socket(c) ==
  /\ up
  /\ client[c].at = "socket"
  /\ \/ /\ \E fd \in Fds :
             /\ Opens(fd, c)
             /\ Becomes(c, [client[c] EXCEPT !.at = "connect", !.Handle = fd])
        /\ UNCHANGED up
     \/ /\ Exhausted
        /\ Failed(c, [client[c] EXCEPT !.Handle = -1])
        /\ UNCHANGED table
  /\ UNCHANGED readVars

(* rc, Error and Handle after connect() failed.                            *)
AfterAttempt(s, outcome) == [s EXCEPT !.Handle = -1, !.rc = -1, !.Error = outcome]

(* Mutant of ConnectFails: the socket of a failed attempt stays open.      *)
ConnectFailsOpen(c, outcome) ==
  /\ Failed(c, AfterAttempt(client[c], outcome))
  /\ UNCHANGED table

ConnectFails(c, outcome) ==
  /\ Failed(c, AfterAttempt(client[c], outcome))
  /\ Closes(client[c].Handle)

Connect(c) ==
  /\ up
  /\ client[c].at = "connect"
  /\ \E outcome \in ConnectOutcomes :
       \/ /\ outcome = "ok"
          /\ Becomes(c, [Fresh EXCEPT !.at = "open", !.Handle = client[c].Handle])
          /\ UNCHANGED descriptorVars
       \/ /\ outcome # "ok"
          /\ ConnectFails(c, outcome)
  /\ UNCHANGED readVars

-----------------------------------------------------------------------------
(* read.                                                                   *)

(* Mutant of Wanted: what was read is not deducted.                        *)
WantedAll(c) == MessageSize

(* How much ::read is asked for.                                           *)
Wanted(c) == MessageSize - got[c]

(* Mutant of Filled: every piece is written to the start of the buffer.    *)
FilledFromStart(c, n) ==
  [k \in Places |-> IF k \in 1 .. n THEN arriving[c] + k - 1 ELSE target[c][k]]

(* n parts that arrive are put behind those that are there.                *)
Filled(c, n) ==
  [k \in Places |-> IF k \in got[c] + 1 .. got[c] + n THEN arriving[c] + k - got[c] - 1
                                                      ELSE target[c][k]]

(* The destructor; dmTrigger makes another client for the next trigger,    *)
(* listenMode ends with its only one.                                      *)
Destroyed(c) ==
  /\ Becomes(c, [Fresh EXCEPT !.at = IF c = "mode" THEN "over" ELSE "none"])
  /\ Closes(client[c].Handle)
  /\ UNCHANGED up

(* The client stays as it is, for another read() of the same user.         *)
ReadsOn(c) == UNCHANGED <<client, descriptorVars>>

(* ::read returns a part of what read() is to fill.                        *)
ReadPiece(c) ==
  /\ up
  /\ client[c].at = "open"
  /\ \E n \in 1 .. Wanted(c) - 1 :
       /\ target' = [target EXCEPT ![c] = Filled(c, n)]
       /\ got' = [got EXCEPT ![c] = @ + n]
       /\ arriving' = [arriving EXCEPT ![c] = @ + n]
  /\ UNCHANGED <<descriptorVars, client>>

(* ::read returns the rest of it, and read() is done. listenMode goes on   *)
(* to the next message; dmTrigger has its pose, at 9008 after six reads.   *)
ReadRest(c) ==
  /\ up
  /\ client[c].at = "open"
  /\ target' = [target EXCEPT ![c] = Filled(c, Wanted(c))]
  /\ got' = [got EXCEPT ![c] = 0]
  /\ arriving' = [arriving EXCEPT ![c] = 1]
  /\ \/ ReadsOn(c)
     \/ c = "pose" /\ Destroyed(c)

(* ::read returns 0: both users read again and get 0 again.                *)
ReadEnd(c) ==
  /\ up
  /\ client[c].at = "open"
  /\ Becomes(c, [client[c] EXCEPT !.at = "spin"])
  /\ got' = [got EXCEPT ![c] = 0]
  /\ UNCHANGED <<descriptorVars, target, arriving>>

(* ::read fails. listenMode leaves its loop, and so does dmTrigger at      *)
(* 9011; at 9008 it reads on, unless that was the last read of a pose.     *)
ReadError(c) ==
  /\ up
  /\ client[c].at = "open"
  /\ got' = [got EXCEPT ![c] = 0]
  /\ arriving' = [arriving EXCEPT ![c] = 1]
  /\ \/ Destroyed(c)
     \/ c = "pose" /\ ReadsOn(c)
  /\ UNCHANGED target

BinaryNext ==
  \E c \in Clients :
    \/ Construct(c)
    \/ Socket(c)
    \/ Connect(c)
    \/ ReadPiece(c)
    \/ ReadRest(c)
    \/ ReadEnd(c)
    \/ ReadError(c)

-----------------------------------------------------------------------------
(* Properties.                                                             *)

BinaryTypeOK ==
  /\ client \in [Clients -> ClientState]
  /\ target \in [Clients -> [Places -> Nat]]
  /\ got \in [Clients -> 0 .. MessageSize - 1]
  /\ arriving \in [Clients -> Nat]

(* Over refused attempts, errors and rounds of retries a client has the    *)
(* socket it names open and no other (binary_interface_client.h:41,        *)
(* 133-155).                                                               *)
ClientsHoldTheirs ==
  \A c \in Clients : HeldFor(c) = {client[c].Handle} \ {-1}

(* However a message is cut up on its way, read() returns its parts in     *)
(* order, each in its place (binary_interface_client.h:46-61).             *)
ReadIsWhole ==
  [][\A c \in Clients : ReadRest(c) => \A k \in Places : target'[c][k] = k]_binaryVars

(* The inductive parts: Handle names a descriptor exactly from socket() to *)
(* the destructor, and what arrives next belongs behind what is there.     *)
HandleWhileConnected ==
  \A c \in Clients : client[c].Handle # -1 <=> client[c].at \in {"connect", "open", "spin"}

PartsInPlace ==
  \A c \in Clients :
    client[c].at \in {"socket", "connect", "open"} =>
      /\ arriving[c] = got[c] + 1
      /\ \A k \in 1 .. got[c] : target[c][k] = k

(* The order in which Connect goes through its rounds, the addresses of a  *)
(* round, and socket() and connect() of an address.                        *)
Before(s, t) ==
  \/ s.Index < t.Index
  \/ s.Index = t.Index /\ s.walk < t.walk
  \/ s.Index = t.Index /\ s.walk = t.walk /\ s.at = "socket" /\ t.at = "connect"

(* A client that connects and still does after a step of its own is one    *)
(* attempt further, and within the retries allowed: it makes at most       *)
(* (RetryAttempts + 1) * Addresses attempts, whichever way they fail       *)
(* (binary_interface_client.h:108-161).                                    *)
AttemptsRunOut ==
  [][\A c \in Clients :
       client[c].at \in {"socket", "connect"} /\ client'[c].at \in {"socket", "connect"} =>
         \/ client'[c] = client[c]
         \/ Before(client[c], client'[c]) /\ client'[c].Index <= RetryAttempts]_binaryVars

(* The inductive part: Index counts the retries made.                      *)
RetriesWithinLimit ==
  \A c \in Clients : client[c].Index <= RetryAttempts

(* Connect ends: with a connection or with the exception, whatever the     *)
(* other end does and however many descriptors are left.                   *)
ConnectEnds ==
  \A c \in Clients : client[c].at \in {"socket", "connect"} ~> ~up \/ client[c].at = "open"

=============================================================================
