---------------------------- MODULE CustomerSocket ----------------------------
(***************************************************************************)
(* ThreadHandler::recCustomerPack at port 9080: what the receiver makes of *)
(* a stream of packages and of a code reader that comes and goes. Of a     *)
(* package only the id is kept; how it is published is in TriggerHandoff.  *)
(***************************************************************************)
EXTENDS Descriptors, Sequences

CONSTANTS
  Codes,        (* the ids the reader sends                                *)
  NoCode,       (* UINT32_MAX: no id was seen on this connection yet; the  *)
                (* reader may send it as any other id                      *)
  MaxPackages   (* bound: the packages sent on one connection              *)

ASSUME CustomerAssumption ==
  /\ Codes \subseteq Nat
  /\ NoCode \in Nat \ {0}
  /\ MaxPackages \in Nat

VARIABLES
  recPc,      (* "accept" or "recv"                                        *)
  sockFd,     (* the connection, -1 once accept() has failed               *)
  reader,     (* the other end: "open", or "gone"                          *)
  stream,     (* the ids of the packages under way on the connection       *)
  cut,        (* whether the front of the first of them was received       *)
  idRecord,   (* the id published last on this connection                  *)
  received,   (* history: the ids recv() was taken to bring on this        *)
              (* connection, one for each call that returned data          *)
  published   (* history: those of them that were published                *)

(* What recv() can be taken to bring: an id, or what stands in its place.  *)
AnyCode == Codes \cup {0}

historyVars == <<received, published>>
customerVars == <<recPc, sockFd, reader, stream, cut, idRecord, historyVars>>

CustomerInit ==
  /\ recPc = "accept"
  /\ sockFd = 0
  /\ reader = "gone"
  /\ stream = <<>>
  /\ cut = FALSE
  /\ idRecord = NoCode
  /\ received = <<>>
  /\ published = <<>>

-----------------------------------------------------------------------------
(* The code reader.                                                        *)

ReaderSends(code) ==
  /\ up
  /\ reader = "open"
  /\ Len(received) + Len(stream) < MaxPackages
  /\ stream' = Append(stream, code)
  /\ UNCHANGED <<descriptorVars, recPc, sockFd, reader, cut, idRecord, historyVars>>

(* It closes the connection; or resets it, and what is under way is lost.  *)
ReaderLeaves ==
  /\ up
  /\ reader = "open"
  /\ reader' = "gone"
  /\ \/ UNCHANGED <<stream, cut>>
     \/ stream' = <<>> /\ cut' = FALSE
  /\ UNCHANGED <<descriptorVars, recPc, sockFd, idRecord, historyVars>>

-----------------------------------------------------------------------------
(* The receiver.                                                           *)

(* Mutant of Reconnected: the id outlives the connection.                  *)
ReconnectedRemembering == UNCHANGED idRecord

Reconnected == idRecord' = NoCode

(* accept(). sockFd is overwritten; what it named stays open.              *)
CustomerAccept ==
  /\ up
  /\ recPc = "accept"
  /\ \E fd \in Fds : Opens(fd, "customer") /\ sockFd' = fd
  /\ recPc' = "recv"
  /\ reader' = "open"
  /\ stream' = <<>>
  /\ cut' = FALSE
  /\ Reconnected
  /\ received' = <<>>
  /\ published' = <<>>
  /\ UNCHANGED up

(* accept() fails for want of a descriptor. Its result is not tested, and  *)
(* recv() on it fails from then on: the receiver is deaf.                  *)
CustomerAcceptFails ==
  /\ up
  /\ recPc = "accept"
  /\ Exhausted
  /\ recPc' = "recv"
  /\ sockFd' = -1
  /\ Reconnected
  /\ UNCHANGED <<descriptorVars, reader, stream, cut, historyVars>>

(* A package that does not repeat the id is published, under the lock.     *)
IsNews(code) == code # idRecord

Receiving == up /\ recPc = "recv" /\ sockFd # -1 /\ stream # <<>>

(* What the loop makes of the id a recv() brought.                         *)
Take(code) ==
  /\ idRecord' = code
  /\ received' = Append(received, code)
  /\ published' = IF IsNews(code) THEN Append(published, code) ELSE published

(* recv() returns the package as it was sent.                              *)
ReceiveWhole ==
  /\ Receiving
  /\ ~cut
  /\ stream' = Tail(stream)
  /\ Take(Head(stream))
  /\ UNCHANGED <<descriptorVars, recPc, sockFd, reader, cut>>

(* It returns the front of a package, the rest of one, or that and the     *)
(* front of the next. Whatever stands in place of the id is taken for it.  *)
ReceivePart ==
  /\ Receiving
  /\ \E code \in AnyCode : Take(code)
  /\ \/ /\ ~cut
        /\ cut' = TRUE
        /\ UNCHANGED stream
     \/ /\ cut
        /\ cut' = FALSE
        /\ stream' = Tail(stream)
     \/ /\ cut
        /\ Len(stream) > 1
        /\ stream' = Tail(stream)
        /\ UNCHANGED cut
  /\ UNCHANGED <<descriptorVars, recPc, sockFd, reader>>

(* recv() returns 0: back to accept(), without closing the connection.     *)
ReceiveEnd ==
  /\ up
  /\ recPc = "recv"
  /\ sockFd # -1
  /\ reader = "gone"
  /\ stream = <<>>
  /\ recPc' = "accept"
  /\ UNCHANGED <<descriptorVars, sockFd, reader, stream, cut, idRecord, historyVars>>

CustomerNext ==
  \/ \E code \in Codes : ReaderSends(code)
  \/ ReaderLeaves
  \/ CustomerAccept
  \/ CustomerAcceptFails
  \/ ReceiveWhole
  \/ ReceivePart
  \/ ReceiveEnd

-----------------------------------------------------------------------------
(* Properties.                                                             *)

CustomerTypeOK ==
  /\ recPc \in {"accept", "recv"}
  /\ sockFd \in Fds \cup {0, -1}
  /\ reader \in {"open", "gone"}
  /\ stream \in Seq(Codes)
  /\ cut \in BOOLEAN
  /\ idRecord \in AnyCode \cup {NoCode}
  /\ received \in Seq(AnyCode)
  /\ published \in Seq(AnyCode)

(* Where a sequence of codes differs from the code before; the first one   *)
(* is held against "no id yet", so UINT32_MAX at the front is no change.   *)
ChangePlaces(codes) ==
  {n \in 1 .. Len(codes) : codes[n] # IF n = 1 THEN NoCode ELSE codes[n - 1]}

(* What is published on a connection is every change of the code in what   *)
(* was received on it, in order: at[k] is where the k-th published code    *)
(* was received. The first code counts, be it the last one of the          *)
(* connection before, with one exception: a reader whose first code is     *)
(* UINT32_MAX is not noticed until it sends another one                    *)
(* (thread_pool.cpp:173-199).                                              *)
PublishesEveryChange ==
  \E at \in [1 .. Len(published) -> 1 .. Len(received)] :
    /\ \A j, k \in 1 .. Len(published) : j < k => at[j] < at[k]
    /\ {at[k] : k \in 1 .. Len(published)} = ChangePlaces(received)
    /\ \A k \in 1 .. Len(published) : published[k] = received[at[k]]

(* The inductive part: while the receiver reads from a connection,         *)
(* idRecord is the id received last, or no code before the first.          *)
RecordIsLastReceived ==
  recPc = "recv" /\ sockFd # -1 =>
    idRecord = IF received = <<>> THEN NoCode ELSE received[Len(received)]

=============================================================================
