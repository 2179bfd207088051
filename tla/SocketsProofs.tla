---------------------------- MODULE SocketsProofs ----------------------------
(***************************************************************************)
(* For any number of descriptors, addresses, attempts and parts, and for   *)
(* every way of cutting up a stream: the sockets keep their types, every   *)
(* client has the descriptor it names open and no other, messages are read *)
(* whole, diagnoses go to diagnostics connections, every change of the     *)
(* code is published, and Connect makes no more attempts than allowed.     *)
(***************************************************************************)
EXTENDS Sockets, TLAPS

(* What is open for one use stays open for it while another opens one ...  *)
LEMMA OpensHeld ==
  ASSUME DescriptorsTypeOK, NEW fd \in Fds, NEW for \in Uses, Opens(fd, for)
  PROVE  /\ table' \in [Fds -> Uses \cup {"free"}]
         /\ table'[fd] = for
         /\ \A other \in Fds : table[other] # "free" => table'[other] = table[other]
         /\ \A use \in Uses \ {for} : HeldFor(use)' = HeldFor(use)
         /\ HeldFor(for)' = HeldFor(for) \cup {fd}
<1>1. table \in [Fds -> Uses \cup {"free"}] /\ "free" \notin Uses
  BY DEF DescriptorsTypeOK, Uses, Clients
<1>2. table[fd] = "free" /\ table' = [table EXCEPT ![fd] = for]
  BY DEF Opens
<1>3. QED
  BY <1>1, <1>2 DEF HeldFor

(* ... or closes its own.                                                  *)
LEMMA ClosesHeld ==
  ASSUME DescriptorsTypeOK, NEW for \in Uses, NEW fd \in HeldFor(for), Closes(fd)
  PROVE  /\ table' \in [Fds -> Uses \cup {"free"}]
         /\ \A other \in Fds : table[other] # for => table'[other] = table[other]
         /\ \A use \in Uses \ {for} : HeldFor(use)' = HeldFor(use)
         /\ HeldFor(for)' = HeldFor(for) \ {fd}
<1>1. table \in [Fds -> Uses \cup {"free"}] /\ "free" \notin Uses
  BY DEF DescriptorsTypeOK, Uses, Clients
<1>2. table' = [table EXCEPT ![fd] = "free"] /\ fd \in Fds /\ table[fd] = for
  BY DEF Closes, HeldFor
<1>3. QED
  BY <1>1, <1>2 DEF HeldFor

-----------------------------------------------------------------------------
(* The receiver.                                                           *)

(* The code the next one is held against.                                  *)
LastOf(codes) == IF codes = <<>> THEN NoCode ELSE codes[Len(codes)]

(* One more code, the same as the last one: no change of the code.         *)
LEMMA RepeatIsNoChange ==
  ASSUME NEW codes \in Seq(AnyCode), NEW code \in AnyCode, LastOf(codes) = code
  PROVE  ChangePlaces(Append(codes, code)) = ChangePlaces(codes)
<1>1. /\ Len(Append(codes, code)) = Len(codes) + 1 /\ Len(codes) \in Nat
      /\ codes = <<>> <=> Len(codes) = 0
      /\ Append(codes, code)[Len(codes) + 1] = code
      /\ \A n \in 1 .. Len(codes) : Append(codes, code)[n] = codes[n]
  OBVIOUS
<1>2. QED
  BY <1>1 DEF ChangePlaces, LastOf

(* Another one: a change at the end.                                       *)
LEMMA OtherIsChange ==
  ASSUME NEW codes \in Seq(AnyCode), NEW code \in AnyCode, LastOf(codes) # code
  PROVE  ChangePlaces(Append(codes, code)) = ChangePlaces(codes) \cup {Len(codes) + 1}
<1>1. /\ Len(Append(codes, code)) = Len(codes) + 1 /\ Len(codes) \in Nat
      /\ codes = <<>> <=> Len(codes) = 0
      /\ Append(codes, code)[Len(codes) + 1] = code
      /\ \A n \in 1 .. Len(codes) : Append(codes, code)[n] = codes[n]
  OBVIOUS
<1>2. QED
  BY <1>1 DEF ChangePlaces, LastOf

(* at witnesses that pub is what changes in rec.                           *)
Witnesses(at, pub, rec) ==
  /\ at \in [1 .. Len(pub) -> 1 .. Len(rec)]
  /\ \A j, k \in 1 .. Len(pub) : j < k => at[j] < at[k]
  /\ {at[k] : k \in 1 .. Len(pub)} = ChangePlaces(rec)
  /\ \A k \in 1 .. Len(pub) : pub[k] = rec[at[k]]

(* A repeated code leaves the places as they are ...                       *)
LEMMA PlacesStay ==
  ASSUME NEW pub \in Seq(AnyCode), NEW rec \in Seq(AnyCode), NEW code \in AnyCode,
         NEW at, Witnesses(at, pub, rec), LastOf(rec) = code
  PROVE  Witnesses(at, pub, Append(rec, code))
<1>1. /\ Len(Append(rec, code)) = Len(rec) + 1 /\ Len(rec) \in Nat /\ Len(pub) \in Nat
      /\ \A n \in 1 .. Len(rec) : Append(rec, code)[n] = rec[n]
  OBVIOUS
<1>2. at \in [1 .. Len(pub) -> 1 .. Len(Append(rec, code))]
  BY <1>1 DEF Witnesses
<1>3. \A k \in 1 .. Len(pub) : pub[k] = Append(rec, code)[at[k]]
  BY <1>1 DEF Witnesses
<1>4. QED
  BY <1>2, <1>3, RepeatIsNoChange DEF Witnesses

(* ... and a published one is received at the end.                         *)
LEMMA PlacesGrow ==
  ASSUME NEW pub \in Seq(AnyCode), NEW rec \in Seq(AnyCode), NEW code \in AnyCode,
         NEW at, Witnesses(at, pub, rec), LastOf(rec) # code
  PROVE  \E longer : Witnesses(longer, Append(pub, code), Append(rec, code))
<1> DEFINE longer == [k \in 1 .. Len(pub) + 1 |-> IF k = Len(pub) + 1 THEN Len(rec) + 1 ELSE at[k]]
<1>1. /\ Len(Append(rec, code)) = Len(rec) + 1 /\ Len(rec) \in Nat /\ Len(pub) \in Nat
      /\ Len(Append(pub, code)) = Len(pub) + 1
      /\ \A n \in 1 .. Len(rec) : Append(rec, code)[n] = rec[n]
      /\ \A n \in 1 .. Len(pub) : Append(pub, code)[n] = pub[n]
      /\ Append(rec, code)[Len(rec) + 1] = code
      /\ Append(pub, code)[Len(pub) + 1] = code
  OBVIOUS
<1>2. \A k \in 1 .. Len(pub) : at[k] \in 1 .. Len(rec) /\ longer[k] = at[k]
  BY <1>1 DEF Witnesses
<1>3. longer[Len(pub) + 1] = Len(rec) + 1
  BY <1>1
<1>4. \A k \in 1 .. Len(pub) + 1 : k \in 1 .. Len(pub) \/ k = Len(pub) + 1
  BY <1>1
<1>5. longer \in [1 .. Len(pub) + 1 -> 1 .. Len(rec) + 1]
  <2>1. Len(rec) + 1 \in 1 .. Len(rec) + 1 /\ \A n \in 1 .. Len(rec) : n \in 1 .. Len(rec) + 1
    BY <1>1
  <2>2. \A k \in 1 .. Len(pub) + 1 : longer[k] \in 1 .. Len(rec) + 1
    <3> HIDE DEF longer
    <3>1. QED
      BY <1>2, <1>3, <1>4, <2>1
  <2>3. QED
    BY <2>2
<1> HIDE DEF longer
<1>6. \A j, k \in 1 .. Len(pub) + 1 : j < k => longer[j] < longer[k]
  <2> SUFFICES ASSUME NEW j \in 1 .. Len(pub) + 1, NEW k \in 1 .. Len(pub) + 1, j < k
               PROVE  longer[j] < longer[k]
    OBVIOUS
  <2>1. j \in 1 .. Len(pub)
    BY <1>1
  <2>2. CASE k \in 1 .. Len(pub)
    BY <1>2, <2>1, <2>2 DEF Witnesses
  <2>3. CASE k = Len(pub) + 1
    BY <1>1, <1>2, <1>3, <2>1, <2>3
  <2>4. QED
    BY <1>4, <2>2, <2>3
<1>7. {longer[k] : k \in 1 .. Len(pub) + 1} = ChangePlaces(Append(rec, code))
  <2>1. {longer[k] : k \in 1 .. Len(pub) + 1} = {at[k] : k \in 1 .. Len(pub)} \cup {Len(rec) + 1}
    <3>1. \A k \in 1 .. Len(pub) : k \in 1 .. Len(pub) + 1
      BY <1>1
    <3>2. Len(pub) + 1 \in 1 .. Len(pub) + 1
      BY <1>1
    <3>3. QED
      BY <1>2, <1>3, <1>4, <3>1, <3>2
  <2>2. QED
    BY <2>1, OtherIsChange DEF Witnesses
<1>8. \A k \in 1 .. Len(pub) + 1 : Append(pub, code)[k] = Append(rec, code)[longer[k]]
  <2> SUFFICES ASSUME NEW k \in 1 .. Len(pub) + 1
               PROVE  Append(pub, code)[k] = Append(rec, code)[longer[k]]
    OBVIOUS
  <2>1. CASE k \in 1 .. Len(pub)
    <3>1. Append(pub, code)[k] = pub[k] /\ Append(rec, code)[at[k]] = rec[at[k]]
      BY <1>1, <1>2, <2>1
    <3>2. pub[k] = rec[at[k]]
      BY <2>1 DEF Witnesses
    <3>3. QED
      BY <1>2, <2>1, <3>1, <3>2
  <2>2. CASE k = Len(pub) + 1
    BY <1>1, <1>3, <2>2
  <2>3. QED
    BY <1>4, <2>1, <2>2
<1>9. Witnesses(longer, Append(pub, code), Append(rec, code))
  BY <1>1, <1>5, <1>6, <1>7, <1>8 DEF Witnesses
<1>10. QED
  BY <1>9

(* Whatever recv() is taken to bring, it is published if it is a change.   *)
LEMMA TakeHistory ==
  ASSUME SocketsInv, recPc = "recv", sockFd # -1, NEW code \in AnyCode, Take(code)
  PROVE  RecordIsLastReceived' /\ PublishesEveryChange'
<1>1. /\ received \in Seq(AnyCode) /\ published \in Seq(AnyCode)
      /\ idRecord = LastOf(received)
      /\ PublishesEveryChange
  BY DEF SocketsInv, TypeOK, CustomerTypeOK, RecordIsLastReceived, LastOf
<1>2. /\ idRecord' = code /\ received' = Append(received, code)
      /\ published' = IF code # idRecord THEN Append(published, code) ELSE published
  BY DEF Take, IsNews
<1>3. PICK at : Witnesses(at, published, received)
  BY <1>1 DEF PublishesEveryChange, Witnesses
<1>4. RecordIsLastReceived'
  <2>1. /\ Append(received, code) # <<>>
        /\ Append(received, code)[Len(Append(received, code))] = code
    BY <1>1
  <2>2. QED
    BY <1>2, <2>1 DEF RecordIsLastReceived
<1>5. \E longer : Witnesses(longer, published', received')
  <2>1. CASE code # idRecord
    BY <1>1, <1>2, <1>3, <2>1, PlacesGrow
  <2>2. CASE code = idRecord
    BY <1>1, <1>2, <1>3, <2>2, PlacesStay
  <2>3. QED
    BY <2>1, <2>2
<1>6. QED
  BY <1>4, <1>5 DEF PublishesEveryChange, Witnesses

LEMMA CustomerHistory ==
  ASSUME SocketsInv, CustomerNext
  PROVE  RecordIsLastReceived' /\ PublishesEveryChange'
<1>0. /\ RecordIsLastReceived /\ PublishesEveryChange
      /\ stream \in Seq(Codes) /\ Codes \subseteq AnyCode
  BY DEF SocketsInv, TypeOK, CustomerTypeOK, AnyCode
<1>1. ASSUME UNCHANGED historyVars, UNCHANGED idRecord,
             UNCHANGED <<recPc, sockFd>> \/ recPc' = "accept"
      PROVE  RecordIsLastReceived' /\ PublishesEveryChange'
  BY <1>0, <1>1 DEF RecordIsLastReceived, PublishesEveryChange, historyVars
<1>2. CASE \E code \in Codes : ReaderSends(code)
  BY <1>1, <1>2 DEF ReaderSends
<1>3. CASE ReaderLeaves
  BY <1>1, <1>3 DEF ReaderLeaves
<1>4. CASE ReceiveEnd
  BY <1>1, <1>4 DEF ReceiveEnd
<1>5. CASE CustomerAccept
  <2>1. /\ received' = <<>> /\ published' = <<>> /\ idRecord' = NoCode
    BY <1>5 DEF CustomerAccept, Reconnected
  <2>2. Witnesses(<<>>, <<>>, <<>>)
    BY DEF Witnesses, ChangePlaces
  <2>3. QED
    BY <2>1, <2>2 DEF RecordIsLastReceived, PublishesEveryChange, Witnesses
<1>6. CASE CustomerAcceptFails
  <2>1. sockFd' = -1 /\ UNCHANGED historyVars
    BY <1>6 DEF CustomerAcceptFails
  <2>2. QED
    BY <1>0, <2>1 DEF RecordIsLastReceived, PublishesEveryChange, historyVars
<1>7. CASE ReceivePart
  BY <1>7, TakeHistory DEF ReceivePart, Receiving
<1>8. CASE ReceiveWhole
  <2>1. Head(stream) \in AnyCode /\ Take(Head(stream)) /\ recPc = "recv" /\ sockFd # -1
    BY <1>0, <1>8 DEF ReceiveWhole, Receiving
  <2>2. QED
    BY <2>1, TakeHistory
<1>9. QED
  BY <1>2, <1>3, <1>4, <1>5, <1>6, <1>7, <1>8 DEF CustomerNext

LEMMA CustomerStep ==
  ASSUME SocketsInv, Customer
  PROVE  SocketsInv'
<1>0. /\ DescriptorsTypeOK /\ CustomerTypeOK /\ DiagTypeOK /\ BinaryTypeOK
      /\ UNCHANGED diagVars /\ UNCHANGED binaryVars
  BY DEF SocketsInv, TypeOK, Customer
<1>1. CustomerTypeOK' /\ up' = up
  <2> USE DEF CustomerTypeOK, historyVars, descriptorVars
  <2>1. ASSUME NEW code \in Codes, ReaderSends(code) PROVE CustomerTypeOK' /\ up' = up
    <3>1. Append(stream, code) \in Seq(Codes)
      BY <1>0
    <3>2. /\ stream' \in Seq(Codes)
          /\ UNCHANGED <<up, recPc, sockFd, reader, cut, idRecord, received, published>>
      BY <2>1, <3>1 DEF ReaderSends
    <3>3. QED
      BY <1>0, <3>2
  <2>0. <<>> \in Seq(Codes) /\ <<>> \in Seq(AnyCode)
    OBVIOUS
  <2>9. ASSUME NEW code \in AnyCode, Take(code)
        PROVE  idRecord' \in AnyCode /\ received' \in Seq(AnyCode) /\ published' \in Seq(AnyCode)
    <3>1. received \in Seq(AnyCode) /\ published \in Seq(AnyCode)
      BY <1>0
    <3>2. Append(received, code) \in Seq(AnyCode) /\ Append(published, code) \in Seq(AnyCode)
      BY <3>1
    <3>3. QED
      BY <2>9, <3>1, <3>2 DEF Take
  <2>2. CASE ReaderLeaves
    <3>2. /\ stream' \in {stream, <<>>} /\ cut' \in {cut, FALSE} /\ reader' = "gone"
          /\ UNCHANGED <<up, recPc, sockFd, idRecord, received, published>>
      BY <2>2 DEF ReaderLeaves
    <3>3. stream' \in Seq(Codes) /\ cut' \in BOOLEAN
      BY <1>0, <2>0, <3>2
    <3>4. QED
      BY <1>0, <3>2, <3>3
  <2>3. CASE CustomerAccept
    <3>1. /\ recPc' = "recv" /\ sockFd' \in Fds /\ reader' = "open" /\ stream' = <<>>
          /\ cut' = FALSE /\ idRecord' = NoCode
          /\ received' = <<>> /\ published' = <<>> /\ UNCHANGED up
      BY <2>3 DEF CustomerAccept, Reconnected
    <3>2. QED
      BY <2>0, <3>1
  <2>8. CASE CustomerAcceptFails
    BY <1>0, <2>8 DEF CustomerAcceptFails, Reconnected
  <2>4. CASE ReceiveWhole
    <3>1. Head(stream) \in AnyCode /\ Tail(stream) \in Seq(Codes)
      BY <1>0, <2>4 DEF ReceiveWhole, Receiving, AnyCode
    <3>2. /\ stream' = Tail(stream) /\ Take(Head(stream))
          /\ UNCHANGED <<up, recPc, sockFd, reader, cut>>
      BY <2>4 DEF ReceiveWhole
    <3>3. QED
      BY <1>0, <2>9, <3>1, <3>2
  <2>5. CASE ReceivePart
    <3>1. Tail(stream) \in Seq(Codes)
      BY <1>0, <2>5 DEF ReceivePart, Receiving
    <3>2. /\ stream' \in {stream, Tail(stream)} /\ cut' \in {cut, TRUE, FALSE}
          /\ \E code \in AnyCode : Take(code)
          /\ UNCHANGED <<up, recPc, sockFd, reader>>
      BY <2>5 DEF ReceivePart
    <3>3. stream' \in Seq(Codes) /\ cut' \in BOOLEAN
      BY <1>0, <3>1, <3>2
    <3>4. QED
      BY <1>0, <2>9, <3>2, <3>3
  <2>6. CASE ReceiveEnd
    BY <1>0, <2>6 DEF ReceiveEnd
  <2>7. QED
    BY <2>1, <2>2, <2>3, <2>4, <2>5, <2>6, <2>8 DEF Customer, CustomerNext
<1>2. UNCHANGED table \/ \E fd \in Fds : Opens(fd, "customer")
  BY DEF Customer, CustomerNext, ReaderSends, ReaderLeaves, CustomerAccept, CustomerAcceptFails,
         ReceiveWhole, ReceivePart, ReceiveEnd, descriptorVars
<1>3. /\ table' \in [Fds -> Uses \cup {"free"}]
      /\ \A other \in Fds : table[other] # "free" => table'[other] = table[other]
      /\ \A c \in Clients : HeldFor(c)' = HeldFor(c)
  <2>1. CASE UNCHANGED table
    BY <1>0, <2>1 DEF DescriptorsTypeOK, HeldFor
  <2>2. ASSUME NEW fd \in Fds, Opens(fd, "customer")
        PROVE  <1>3!:
    BY <1>0, <2>2, OpensHeld DEF Uses, Clients
  <2>3. QED
    BY <1>2, <2>1, <2>2
<1>4. /\ DiagTypeOK' /\ BinaryTypeOK' /\ HandleWhileConnected' /\ PartsInPlace'
      /\ RetriesWithinLimit'
  BY <1>0 DEF SocketsInv, DiagTypeOK, BinaryTypeOK, HandleWhileConnected, PartsInPlace,
              RetriesWithinLimit, diagVars, binaryVars
<1>5. ClientsHoldTheirs'
  BY <1>0, <1>3 DEF SocketsInv, ClientsHoldTheirs, binaryVars
<1>6. DiagNamesDiag'
  BY <1>0, <1>3 DEF SocketsInv, DiagNamesDiag, SendsOn, diagVars
<1>7. DescriptorsTypeOK'
  BY <1>0, <1>1, <1>3 DEF DescriptorsTypeOK
<1>8. RecordIsLastReceived' /\ PublishesEveryChange'
  BY CustomerHistory DEF Customer
<1>9. QED
  BY <1>1, <1>4, <1>5, <1>6, <1>7, <1>8 DEF SocketsInv, TypeOK

-----------------------------------------------------------------------------
(* The diagnostics channel.                                                *)

LEMMA DiagStep ==
  ASSUME SocketsInv, Diag
  PROVE  SocketsInv'
<1>0. /\ DescriptorsTypeOK /\ CustomerTypeOK /\ DiagTypeOK /\ BinaryTypeOK /\ DiagNamesDiag
      /\ UNCHANGED customerVars /\ UNCHANGED binaryVars
  BY DEF SocketsInv, TypeOK, Diag
<1>1. /\ up' = up /\ DiagTypeOK'
      /\ \/ UNCHANGED table /\ SendsOn' \subseteq SendsOn
         \/ \E fd \in Fds : Opens(fd, "diag") /\ SendsOn' \subseteq SendsOn \cup {fd}
  <2> USE DescriptorAssumption DEF DiagTypeOK, SendsOn, descriptorVars
  <2>1. CASE DiagAccept
    BY <1>0, <2>1 DEF DiagAccept
  <2>2. CASE DiagAcceptFails
    BY <1>0, <2>2 DEF DiagAcceptFails
  <2>3. CASE DiagTest
    BY <1>0, <2>3 DEF DiagTest
  <2>4. CASE DiagSend
    BY <1>0, <2>4 DEF DiagSend
  <2>5. QED
    BY <2>1, <2>2, <2>3, <2>4 DEF Diag, DiagNext
<1>2. /\ table' \in [Fds -> Uses \cup {"free"}]
      /\ \A c \in Clients : HeldFor(c)' = HeldFor(c)
      /\ DiagNamesDiag'
  <2>1. CASE UNCHANGED table /\ SendsOn' \subseteq SendsOn
    BY <1>0, <2>1 DEF DescriptorsTypeOK, HeldFor, DiagNamesDiag
  <2>2. ASSUME NEW fd \in Fds, Opens(fd, "diag"), SendsOn' \subseteq SendsOn \cup {fd}
        PROVE  <1>2!:
    <3>1. /\ table' \in [Fds -> Uses \cup {"free"}]
          /\ table'[fd] = "diag"
          /\ \A other \in Fds : table[other] # "free" => table'[other] = table[other]
          /\ \A c \in Clients : HeldFor(c)' = HeldFor(c)
      BY <1>0, <2>2, OpensHeld DEF Uses, Clients
    <3>2. \A other \in SendsOn : other \in Fds /\ table[other] = "diag"
      BY <1>0 DEF DiagNamesDiag, SendsOn
    <3>3. \A other \in SendsOn' : table'[other] = "diag"
      BY <2>2, <3>1, <3>2
    <3>4. QED
      BY <3>1, <3>3 DEF DiagNamesDiag
  <2>3. QED
    BY <1>1, <2>1, <2>2
<1>3. QED
  BY <1>0, <1>1, <1>2
     DEF SocketsInv, TypeOK, DescriptorsTypeOK, CustomerTypeOK, BinaryTypeOK, HandleWhileConnected,
         ClientsHoldTheirs, PartsInPlace, RetriesWithinLimit, RecordIsLastReceived,
         PublishesEveryChange, customerVars, historyVars, binaryVars

-----------------------------------------------------------------------------
(* The clients.                                                            *)

(* What one client does leaves the other's variables alone.                *)
LEMMA BecomesType ==
  ASSUME client \in [Clients -> ClientState], NEW c \in Clients, NEW s \in ClientState,
         Becomes(c, s)
  PROVE  /\ client' \in [Clients -> ClientState]
         /\ client'[c] = s
         /\ \A d \in Clients \ {c} : client'[d] = client[d]
BY DEF Becomes

LEMMA FreshType == Fresh \in ClientState /\ Fresh.Index <= RetryAttempts
BY BinaryAssumption DEF Fresh, ClientState

LEMMA AttemptType ==
  ASSUME NEW s \in ClientState,
         NEW outcome \in {"refused", "timedOut", "unreachable", "other"}
  PROVE  /\ AfterAttempt(s, outcome) \in ClientState
         /\ AfterAttempt(s, outcome).Handle = -1
         /\ AfterAttempt(s, outcome).Index = s.Index /\ AfterAttempt(s, outcome).walk = s.walk
BY DEF ClientState, AfterAttempt

(* The next address of the round, or the next round.                       *)
Further(s, t) == s.Index < t.Index \/ (s.Index = t.Index /\ s.walk < t.walk)

(* Whatever comes after an address that did not do, the client names no    *)
(* descriptor, and if it goes on it goes on with the next address or with  *)
(* the next round, of those that are allowed.                              *)
LEMMA FailedType ==
  ASSUME BinaryTypeOK, NEW c \in Clients, NEW s \in ClientState, s.Handle = -1,
         s.Index <= RetryAttempts, Failed(c, s)
  PROVE  /\ client' \in [Clients -> ClientState]
         /\ client'[c].Handle = -1 /\ client'[c].at \in {"socket", "over"}
         /\ client'[c].at = "socket" => Further(s, client'[c])
         /\ client'[c].Index <= RetryAttempts
         /\ \A d \in Clients \ {c} : client'[d] = client[d]
         /\ up' \in {up, FALSE}
<1>0. client \in [Clients -> ClientState]
  BY DEF BinaryTypeOK
<1>1. CASE s.walk < Addresses /\ Becomes(c, [s EXCEPT !.at = "socket", !.walk = @ + 1]) /\ UNCHANGED up
  <2>1. [s EXCEPT !.at = "socket", !.walk = @ + 1] \in ClientState
    <3>1. s.walk + 1 \in 1 .. Addresses
      BY <1>1, BinaryAssumption DEF ClientState
    <3>2. QED
      BY <3>1 DEF ClientState
  <2>2. /\ [s EXCEPT !.at = "socket", !.walk = @ + 1].at = "socket"
        /\ [s EXCEPT !.at = "socket", !.walk = @ + 1].Handle = -1
        /\ [s EXCEPT !.at = "socket", !.walk = @ + 1].Index = s.Index
        /\ Further(s, [s EXCEPT !.at = "socket", !.walk = @ + 1])
    BY DEF ClientState, Further
  <2>3. QED
    BY <1>0, <1>1, <2>1, <2>2, BecomesType
<1>2. CASE Retries(c, s) /\ UNCHANGED up
  <2>1. [s EXCEPT !.at = "socket", !.walk = 1, !.Index = @ + 1] \in ClientState
    <3>1. 1 \in 1 .. Addresses /\ s.Index + 1 \in Nat
      BY BinaryAssumption DEF ClientState
    <3>2. QED
      BY <3>1 DEF ClientState
  <2>2. /\ [s EXCEPT !.at = "socket", !.walk = 1, !.Index = @ + 1].at = "socket"
        /\ [s EXCEPT !.at = "socket", !.walk = 1, !.Index = @ + 1].Handle = -1
        /\ [s EXCEPT !.at = "socket", !.walk = 1, !.Index = @ + 1].Index = s.Index + 1
        /\ Further(s, [s EXCEPT !.at = "socket", !.walk = 1, !.Index = @ + 1])
    BY DEF ClientState, Further
  <2>3. s.Index + 1 <= RetryAttempts
    BY <1>2, BinaryAssumption DEF Retries, ClientState
  <2>4. QED
    BY <1>0, <1>2, <2>1, <2>2, <2>3, BecomesType DEF Retries
<1>3. CASE Becomes(c, [Fresh EXCEPT !.at = "over"]) /\ up' = FALSE
  <2>1. [Fresh EXCEPT !.at = "over"] \in ClientState
        /\ [Fresh EXCEPT !.at = "over"].at = "over" /\ [Fresh EXCEPT !.at = "over"].Handle = -1
        /\ [Fresh EXCEPT !.at = "over"].Index <= RetryAttempts
    BY BinaryAssumption DEF ClientState, Fresh
  <2>2. QED
    BY <1>0, <1>3, <2>1, BecomesType
<1>4. QED
  BY <1>1, <1>2, <1>3 DEF Failed

(* A client keeps its descriptor, gets one, or gives its own back.         *)
Handles(c) ==
  \/ UNCHANGED table /\ client'[c].Handle = client[c].Handle
  \/ client[c].Handle = -1 /\ \E fd \in Fds : Opens(fd, c) /\ client'[c].Handle = fd
  \/ client[c].Handle # -1 /\ Closes(client[c].Handle) /\ client'[c].Handle = -1

LEMMA HandlesKeeps ==
  ASSUME SocketsInv, NEW c \in Clients, Handles(c), UNCHANGED diagVars, up' \in BOOLEAN,
         \A d \in Clients \ {c} : client'[d] = client[d]
  PROVE  ClientsHoldTheirs' /\ DiagNamesDiag' /\ DescriptorsTypeOK'
<1>0. /\ DescriptorsTypeOK /\ DiagNamesDiag /\ UNCHANGED diagVars
      /\ client[c].Handle \in Fds \cup {-1}
      /\ \A d \in Clients : HeldFor(d) = {client[d].Handle} \ {-1}
      /\ c \in Uses /\ c # "diag" /\ Clients \subseteq Uses
      /\ -1 \notin Fds
  BY DescriptorAssumption DEF SocketsInv, TypeOK, BinaryTypeOK, ClientState, ClientsHoldTheirs,
                              Uses, Clients
<1>1. CASE UNCHANGED table /\ client'[c].Handle = client[c].Handle
  <2>1. \A d \in Clients : HeldFor(d)' = HeldFor(d) /\ client'[d].Handle = client[d].Handle
    BY <1>1 DEF HeldFor
  <2>2. QED
    BY <1>0, <1>1, <2>1
       DEF ClientsHoldTheirs, DiagNamesDiag, SendsOn, diagVars, DescriptorsTypeOK
<1>2. ASSUME client[c].Handle = -1, NEW fd \in Fds, Opens(fd, c), client'[c].Handle = fd
      PROVE  ClientsHoldTheirs' /\ DiagNamesDiag' /\ DescriptorsTypeOK'
  <2>1. /\ table' \in [Fds -> Uses \cup {"free"}]
        /\ \A other \in Fds : table[other] # "free" => table'[other] = table[other]
        /\ \A use \in Uses \ {c} : HeldFor(use)' = HeldFor(use)
        /\ HeldFor(c)' = HeldFor(c) \cup {fd}
    BY <1>0, <1>2, OpensHeld
  <2>2. HeldFor(c)' = {fd} \ {-1}
    BY <1>0, <1>2, <2>1
  <2>3. ClientsHoldTheirs'
    BY <1>0, <1>2, <2>1, <2>2 DEF ClientsHoldTheirs
  <2>4. QED
    BY <1>0, <2>1, <2>3 DEF DiagNamesDiag, SendsOn, diagVars, DescriptorsTypeOK
<1>3. CASE client[c].Handle # -1 /\ Closes(client[c].Handle) /\ client'[c].Handle = -1
  <2>1. client[c].Handle \in HeldFor(c)
    BY <1>0, <1>3
  <2>2. /\ table' \in [Fds -> Uses \cup {"free"}]
        /\ \A other \in Fds : table[other] # c => table'[other] = table[other]
        /\ \A use \in Uses \ {c} : HeldFor(use)' = HeldFor(use)
        /\ HeldFor(c)' = HeldFor(c) \ {client[c].Handle}
    BY <1>0, <1>3, <2>1, ClosesHeld
  <2>3. HeldFor(c)' = {client'[c].Handle} \ {-1}
    BY <1>0, <1>3, <2>2
  <2>4. ClientsHoldTheirs'
    BY <1>0, <2>2, <2>3 DEF ClientsHoldTheirs
  <2>5. DiagNamesDiag'
    BY <1>0, <2>2 DEF DiagNamesDiag, SendsOn, diagVars
  <2>6. QED
    BY <1>0, <2>2, <2>4, <2>5 DEF DescriptorsTypeOK
<1>4. QED
  BY <1>1, <1>2, <1>3 DEF Handles

(* The destructor gives the descriptor back.                               *)
LEMMA DestroyedType ==
  ASSUME SocketsInv, NEW c \in Clients, client[c].at = "open", Destroyed(c)
  PROVE  /\ client' \in [Clients -> ClientState]
         /\ Handles(c)
         /\ client'[c].Handle = -1 /\ client'[c].at \in {"none", "over"}
         /\ client'[c].Index <= RetryAttempts
         /\ \A d \in Clients \ {c} : client'[d] = client[d]
         /\ up' = up
<1> DEFINE gone == [Fresh EXCEPT !.at = IF c = "mode" THEN "over" ELSE "none"]
<1>1. /\ gone \in ClientState /\ gone.Handle = -1 /\ gone.at \in {"none", "over"}
      /\ gone.Index <= RetryAttempts
  BY BinaryAssumption DEF Fresh, ClientState
<1>2. client \in [Clients -> ClientState] /\ client[c].Handle # -1
  BY DEF SocketsInv, TypeOK, BinaryTypeOK, HandleWhileConnected
<1> HIDE DEF gone
<1>3. Becomes(c, gone) /\ Closes(client[c].Handle) /\ up' = up
  BY DEF Destroyed, gone
<1>4. QED
  BY <1>1, <1>2, <1>3, BecomesType DEF Handles

(* What every action of a client does to the rest of its variables.        *)
Advances(c) ==
  /\ client' \in [Clients -> ClientState]
  /\ \A d \in Clients \ {c} : client'[d] = client[d]
  /\ Handles(c)
  /\ up' \in BOOLEAN
  /\ client'[c].Handle # -1 <=> client'[c].at \in {"connect", "open", "spin"}
  /\ client'[c].Index <= RetryAttempts
  /\ client[c].at \in {"socket", "connect"} /\ client'[c].at \in {"socket", "connect"} =>
       Before(client[c], client'[c])

(* Nothing of it changes when the user reads on.                           *)
LEMMA ReadsOnType ==
  ASSUME SocketsInv, NEW c \in Clients, client[c].at = "open", ReadsOn(c)
  PROVE  Advances(c)
BY DEF SocketsInv, TypeOK, BinaryTypeOK, DescriptorsTypeOK, HandleWhileConnected,
       RetriesWithinLimit, ReadsOn, descriptorVars, Advances, Handles

LEMMA ConnectionAdvances ==
  ASSUME SocketsInv, NEW c \in Clients, Socket(c) \/ Connect(c)
  PROVE  Advances(c) /\ UNCHANGED readVars /\ client[c].at \in {"socket", "connect"}
<1>0. /\ BinaryTypeOK /\ client \in [Clients -> ClientState] /\ client[c] \in ClientState
      /\ up \in BOOLEAN
      /\ client[c].Handle # -1 <=> client[c].at \in {"connect", "open", "spin"}
      /\ client[c].Index <= RetryAttempts
      /\ -1 \notin Fds
  BY DescriptorAssumption DEF SocketsInv, TypeOK, BinaryTypeOK, DescriptorsTypeOK,
                              HandleWhileConnected, RetriesWithinLimit
<1>1. CASE Socket(c)
  <2>1. client[c].at = "socket" /\ client[c].Handle = -1 /\ UNCHANGED readVars
    BY <1>0, <1>1 DEF Socket
  <2>2. ASSUME NEW fd \in Fds, Opens(fd, c), UNCHANGED up,
               Becomes(c, [client[c] EXCEPT !.at = "connect", !.Handle = fd])
        PROVE  Advances(c)
    <3>1. /\ [client[c] EXCEPT !.at = "connect", !.Handle = fd] \in ClientState
          /\ [client[c] EXCEPT !.at = "connect", !.Handle = fd].at = "connect"
          /\ [client[c] EXCEPT !.at = "connect", !.Handle = fd].Handle = fd
          /\ [client[c] EXCEPT !.at = "connect", !.Handle = fd].Index = client[c].Index
          /\ Before(client[c], [client[c] EXCEPT !.at = "connect", !.Handle = fd])
      BY <1>0, <2>1 DEF ClientState, Before
    <3>2. QED
      BY <1>0, <2>1, <2>2, <3>1, BecomesType DEF Advances, Handles
  <2>3. CASE Failed(c, [client[c] EXCEPT !.Handle = -1]) /\ UNCHANGED table
    <3>1. /\ [client[c] EXCEPT !.Handle = -1] \in ClientState
          /\ [client[c] EXCEPT !.Handle = -1].Handle = -1
          /\ [client[c] EXCEPT !.Handle = -1].Index = client[c].Index
          /\ [client[c] EXCEPT !.Handle = -1].walk = client[c].walk
      BY <1>0 DEF ClientState
    <3>2. client'[c].at = "socket" => Before(client[c], client'[c])
      BY <1>0, <2>3, <3>1, FailedType DEF Before, Further
    <3>3. QED
      BY <1>0, <2>1, <2>3, <3>1, <3>2, FailedType DEF Advances, Handles
  <2>4. QED
    BY <1>1, <2>1, <2>2, <2>3 DEF Socket
<1>2. CASE Connect(c)
  <2>1. client[c].at = "connect" /\ client[c].Handle # -1 /\ client[c].Handle \in Fds
        /\ UNCHANGED readVars
    BY <1>0, <1>2 DEF Connect, ClientState
  <2>2. CASE Becomes(c, [Fresh EXCEPT !.at = "open", !.Handle = client[c].Handle])
             /\ UNCHANGED descriptorVars
    <3>1. /\ [Fresh EXCEPT !.at = "open", !.Handle = client[c].Handle] \in ClientState
          /\ [Fresh EXCEPT !.at = "open", !.Handle = client[c].Handle].at = "open"
          /\ [Fresh EXCEPT !.at = "open", !.Handle = client[c].Handle].Handle = client[c].Handle
          /\ [Fresh EXCEPT !.at = "open", !.Handle = client[c].Handle].Index = Fresh.Index
      BY <2>1, FreshType DEF ClientState
    <3>2. UNCHANGED table /\ up' \in BOOLEAN
      BY <1>0, <2>2 DEF descriptorVars
    <3>3. QED
      BY <1>0, <2>1, <2>2, <3>1, <3>2, BecomesType, FreshType DEF Advances, Handles
  <2>3. ASSUME NEW outcome \in ConnectOutcomes, outcome # "ok", ConnectFails(c, outcome)
        PROVE  Advances(c)
    <3>1. outcome \in {"refused", "timedOut", "unreachable", "other"}
      BY <2>3, BinaryAssumption
    <3>2. /\ AfterAttempt(client[c], outcome) \in ClientState
          /\ AfterAttempt(client[c], outcome).Handle = -1
          /\ AfterAttempt(client[c], outcome).Index = client[c].Index
          /\ AfterAttempt(client[c], outcome).walk = client[c].walk
      BY <1>0, <3>1, AttemptType
    <3>3. Failed(c, AfterAttempt(client[c], outcome)) /\ Closes(client[c].Handle)
      BY <2>3 DEF ConnectFails
    <3>4. client'[c].at = "socket" => Before(client[c], client'[c])
      BY <1>0, <3>2, <3>3, FailedType DEF Before, Further
    <3>5. QED
      BY <1>0, <2>1, <3>2, <3>3, <3>4, FailedType DEF Advances, Handles
  <2>4. QED
    BY <1>2, <2>1, <2>2, <2>3 DEF Connect
<1>3. QED
  BY <1>1, <1>2

(* What of the invariant depends on the buffers only.                      *)
Buffered ==
  /\ target' \in [Clients -> [Places -> Nat]]
  /\ got' \in [Clients -> 0 .. MessageSize - 1]
  /\ arriving' \in [Clients -> Nat]
  /\ PartsInPlace'

LEMMA ConnectionBuffers ==
  ASSUME SocketsInv, NEW c \in Clients, Advances(c), UNCHANGED readVars,
         client[c].at \in {"socket", "connect"}
  PROVE  Buffered
BY DEF SocketsInv, TypeOK, BinaryTypeOK, PartsInPlace, Advances, readVars, Buffered

(* The parts that arrive continue the message in the buffer.               *)
LEMMA PiecesInPlace ==
  ASSUME SocketsInv, NEW c \in Clients, client[c].at = "open", NEW n \in 1 .. Wanted(c)
  PROVE  /\ Filled(c, n) \in [Places -> Nat]
         /\ \A k \in 1 .. got[c] + n : Filled(c, n)[k] = k
<1>1. /\ got[c] \in 0 .. MessageSize - 1 /\ arriving[c] = got[c] + 1
      /\ \A k \in 1 .. got[c] : target[c][k] = k
      /\ target[c] \in [Places -> Nat] /\ MessageSize \in Nat
      /\ n \in Nat /\ got[c] + n <= MessageSize
  BY BinaryAssumption DEF SocketsInv, TypeOK, BinaryTypeOK, PartsInPlace, Wanted
<1>2. \A k \in Places :
        IF k \in got[c] + 1 .. got[c] + n THEN Filled(c, n)[k] = k
                                          ELSE Filled(c, n)[k] = target[c][k]
  BY <1>1 DEF Filled, Places
<1>3. \A k \in Places : Filled(c, n)[k] \in Nat
  BY <1>1, <1>2 DEF Places
<1>4. Filled(c, n) \in [Places -> Nat]
  BY <1>3 DEF Filled
<1>5. \A k \in 1 .. got[c] + n : k \in Places /\ (k \in 1 .. got[c] \/ k \in got[c] + 1 .. got[c] + n)
  BY <1>1 DEF Places
<1>6. QED
  BY <1>1, <1>2, <1>4, <1>5

LEMMA BinaryAction ==
  ASSUME SocketsInv, NEW c \in Clients,
         \/ Construct(c) \/ Socket(c) \/ Connect(c) \/ ReadPiece(c)
         \/ ReadRest(c) \/ ReadEnd(c) \/ ReadError(c)
  PROVE  Advances(c) /\ Buffered
<1>0. /\ client \in [Clients -> ClientState] /\ client[c] \in ClientState /\ up \in BOOLEAN
      /\ target \in [Clients -> [Places -> Nat]]
      /\ got \in [Clients -> 0 .. MessageSize - 1]
      /\ arriving \in [Clients -> Nat]
      /\ MessageSize \in Nat \ {0} /\ 0 \in 0 .. MessageSize - 1
      /\ client[c].Handle # -1 <=> client[c].at \in {"connect", "open", "spin"}
      /\ client[c].Index <= RetryAttempts
      /\ PartsInPlace
  BY BinaryAssumption DEF SocketsInv, TypeOK, BinaryTypeOK, DescriptorsTypeOK,
                          HandleWhileConnected, RetriesWithinLimit
<1>1. CASE Construct(c)
  <2>1. /\ target' \in [Clients -> [Places -> Nat]]
        /\ got' \in [Clients -> 0 .. MessageSize - 1] /\ arriving' \in [Clients -> Nat]
        /\ got'[c] = 0 /\ arriving'[c] = 1
        /\ \A d \in Clients \ {c} : /\ target'[d] = target[d] /\ got'[d] = got[d]
                                    /\ arriving'[d] = arriving[d]
    <3>1. [k \in Places |-> 0] \in [Places -> Nat]
      OBVIOUS
    <3>2. QED
      BY <1>0, <1>1, <3>1 DEF Construct
  <2>2. Advances(c)
    <3>1. /\ [Fresh EXCEPT !.at = "socket"] \in ClientState
          /\ [Fresh EXCEPT !.at = "socket"].at = "socket"
          /\ [Fresh EXCEPT !.at = "socket"].Handle = -1
          /\ [Fresh EXCEPT !.at = "socket"].Index <= RetryAttempts
      BY BinaryAssumption DEF Fresh, ClientState
    <3>2. client[c].Handle = -1 /\ client[c].at = "none" /\ UNCHANGED table
      BY <1>0, <1>1 DEF Construct
    <3>3. CASE Becomes(c, [Fresh EXCEPT !.at = "socket"]) /\ UNCHANGED up
      BY <1>0, <3>1, <3>2, <3>3, BecomesType DEF Advances, Handles
    <3>4. CASE up' = FALSE /\ UNCHANGED client
      BY <1>0, <3>2, <3>4 DEF Advances, Handles
    <3>5. QED
      BY <1>1, <3>3, <3>4 DEF Construct
  <2>3. PartsInPlace'
    BY <1>0, <2>1, <2>2 DEF PartsInPlace, Advances
  <2>4. QED
    BY <2>1, <2>2, <2>3 DEF Buffered
<1>2. CASE Socket(c) \/ Connect(c)
  BY <1>2, ConnectionAdvances, ConnectionBuffers
<1>3. CASE ReadPiece(c)
  <2>1. PICK n \in 1 .. Wanted(c) - 1 :
          /\ target' = [target EXCEPT ![c] = Filled(c, n)]
          /\ got' = [got EXCEPT ![c] = @ + n]
          /\ arriving' = [arriving EXCEPT ![c] = @ + n]
    BY <1>3 DEF ReadPiece
  <2>2. /\ client[c].at = "open" /\ UNCHANGED <<table, up, client>>
    BY <1>3 DEF ReadPiece, descriptorVars
  <2>3. /\ n \in 1 .. Wanted(c) /\ n \in Nat /\ got[c] + n \in 0 .. MessageSize - 1
        /\ arriving[c] + n \in Nat /\ arriving[c] + n = got[c] + n + 1
    BY <1>0, <2>2 DEF Wanted, PartsInPlace
  <2>4. /\ Filled(c, n) \in [Places -> Nat]
        /\ \A k \in 1 .. got[c] + n : Filled(c, n)[k] = k
    BY <2>2, <2>3, PiecesInPlace
  <2>5. /\ target' \in [Clients -> [Places -> Nat]]
        /\ got' \in [Clients -> 0 .. MessageSize - 1] /\ arriving' \in [Clients -> Nat]
        /\ target'[c] = Filled(c, n) /\ got'[c] = got[c] + n /\ arriving'[c] = got[c] + n + 1
        /\ \A d \in Clients \ {c} : /\ target'[d] = target[d] /\ got'[d] = got[d]
                                    /\ arriving'[d] = arriving[d]
    <3> HIDE DEF Filled
    <3>1. QED
      BY <1>0, <2>1, <2>3, <2>4
  <2>6. PartsInPlace'
    BY <1>0, <2>2, <2>4, <2>5 DEF PartsInPlace
  <2>7. Advances(c)
    BY <1>0, <2>2 DEF Advances, Handles
  <2>8. QED
    BY <2>5, <2>6, <2>7 DEF Buffered
<1>4. CASE ReadRest(c)
  <2>1. /\ client[c].at = "open"
        /\ target' = [target EXCEPT ![c] = Filled(c, Wanted(c))]
        /\ got' = [got EXCEPT ![c] = 0] /\ arriving' = [arriving EXCEPT ![c] = 1]
    BY <1>4 DEF ReadRest
  <2>2. Filled(c, Wanted(c)) \in [Places -> Nat]
    <3>1. Wanted(c) \in 1 .. Wanted(c)
      BY <1>0 DEF Wanted
    <3>2. QED
      BY <2>1, <3>1, PiecesInPlace
  <2>3. /\ target' \in [Clients -> [Places -> Nat]]
        /\ got' \in [Clients -> 0 .. MessageSize - 1] /\ arriving' \in [Clients -> Nat]
        /\ got'[c] = 0 /\ arriving'[c] = 1
        /\ \A d \in Clients \ {c} : /\ target'[d] = target[d] /\ got'[d] = got[d]
                                    /\ arriving'[d] = arriving[d]
    BY <1>0, <2>1, <2>2
  <2>4. Advances(c)
    <3>1. CASE ReadsOn(c)
      BY <1>0, <2>1, <3>1, ReadsOnType
    <3>2. CASE Destroyed(c)
      BY <1>0, <2>1, <3>2, DestroyedType DEF Advances
    <3>3. QED
      BY <1>4, <3>1, <3>2 DEF ReadRest
  <2>5. PartsInPlace'
    BY <1>0, <2>3, <2>4 DEF PartsInPlace, Advances
  <2>6. QED
    BY <2>3, <2>4, <2>5 DEF Buffered
<1>5. CASE ReadEnd(c)
  <2>1. /\ client[c].at = "open" /\ UNCHANGED <<target, arriving>>
        /\ got' = [got EXCEPT ![c] = 0]
    BY <1>5 DEF ReadEnd
  <2>2. /\ got' \in [Clients -> 0 .. MessageSize - 1]
        /\ \A d \in Clients \ {c} : got'[d] = got[d]
    BY <1>0, <2>1
  <2>3. Advances(c) /\ client'[c].at = "spin"
    <3>1. /\ [client[c] EXCEPT !.at = "spin"] \in ClientState
          /\ [client[c] EXCEPT !.at = "spin"].at = "spin"
          /\ [client[c] EXCEPT !.at = "spin"].Handle = client[c].Handle
          /\ [client[c] EXCEPT !.at = "spin"].Index = client[c].Index
      BY <1>0 DEF ClientState
    <3>2. Becomes(c, [client[c] EXCEPT !.at = "spin"]) /\ UNCHANGED <<table, up>>
      BY <1>5 DEF ReadEnd, descriptorVars
    <3>3. QED
      BY <1>0, <2>1, <3>1, <3>2, BecomesType DEF Advances, Handles
  <2>4. PartsInPlace'
    BY <1>0, <2>1, <2>2, <2>3 DEF PartsInPlace, Advances
  <2>5. QED
    BY <1>0, <2>1, <2>2, <2>3, <2>4 DEF Buffered
<1>6. CASE ReadError(c)
  <2>1. /\ client[c].at = "open" /\ UNCHANGED target
        /\ got' = [got EXCEPT ![c] = 0] /\ arriving' = [arriving EXCEPT ![c] = 1]
    BY <1>6 DEF ReadError
  <2>2. /\ got' \in [Clients -> 0 .. MessageSize - 1] /\ arriving' \in [Clients -> Nat]
        /\ got'[c] = 0 /\ arriving'[c] = 1
        /\ \A d \in Clients \ {c} : got'[d] = got[d] /\ arriving'[d] = arriving[d]
    BY <1>0, <2>1
  <2>3. Advances(c)
    <3>1. CASE ReadsOn(c)
      BY <1>0, <2>1, <3>1, ReadsOnType
    <3>2. CASE Destroyed(c)
      BY <1>0, <2>1, <3>2, DestroyedType DEF Advances
    <3>3. QED
      BY <1>6, <3>1, <3>2 DEF ReadError
  <2>4. PartsInPlace'
    BY <1>0, <2>1, <2>2, <2>3 DEF PartsInPlace, Advances
  <2>5. QED
    BY <1>0, <2>1, <2>2, <2>3, <2>4 DEF Buffered
<1>7. QED
  BY <1>1, <1>2, <1>3, <1>4, <1>5, <1>6

LEMMA BinaryStep ==
  ASSUME SocketsInv, Binary
  PROVE  SocketsInv'
<1>1. PICK c \in Clients :
        \/ Construct(c) \/ Socket(c) \/ Connect(c) \/ ReadPiece(c)
        \/ ReadRest(c) \/ ReadEnd(c) \/ ReadError(c)
  BY DEF Binary, BinaryNext
<1>2. Advances(c) /\ Buffered
  BY <1>1, BinaryAction
<1>3. UNCHANGED diagVars /\ UNCHANGED customerVars
  BY DEF Binary
<1>4. ClientsHoldTheirs' /\ DiagNamesDiag' /\ DescriptorsTypeOK'
  BY <1>2, <1>3, HandlesKeeps DEF Advances
<1>5. HandleWhileConnected' /\ RetriesWithinLimit'
  BY <1>2 DEF Advances, HandleWhileConnected, RetriesWithinLimit, SocketsInv
<1>6. BinaryTypeOK' /\ PartsInPlace'
  BY <1>2 DEF Advances, Buffered, BinaryTypeOK
<1>7. CustomerTypeOK' /\ DiagTypeOK'
  BY <1>3 DEF SocketsInv, TypeOK, CustomerTypeOK, DiagTypeOK, customerVars, historyVars, diagVars
<1>8. RecordIsLastReceived' /\ PublishesEveryChange'
  BY <1>3 DEF SocketsInv, RecordIsLastReceived, PublishesEveryChange, customerVars, historyVars
<1>9. QED
  BY <1>4, <1>5, <1>6, <1>7, <1>8 DEF SocketsInv, TypeOK

-----------------------------------------------------------------------------
(* The theorems.                                                           *)

(* The conjunction is inductive.                                           *)
THEOREM SocketsInvariant == Spec => []SocketsInv
<1>1. Init => SocketsInv
  <2> SUFFICES ASSUME Init PROVE SocketsInv
    OBVIOUS
  <2>1. DescriptorsTypeOK /\ CustomerTypeOK /\ DiagTypeOK
    <3>1. DescriptorsTypeOK /\ DiagTypeOK
      BY DEF Init, DescriptorsInit, DiagInit, DescriptorsTypeOK, DiagTypeOK
    <3>2. <<>> \in Seq(Codes) /\ <<>> \in Seq(AnyCode)
      OBVIOUS
    <3>3. CustomerTypeOK
      BY <3>2 DEF Init, CustomerInit, CustomerTypeOK
    <3>4. QED
      BY <3>1, <3>3
  <2>2. Fresh \in ClientState /\ Fresh.Handle = -1 /\ Fresh.at = "none"
    BY FreshType DEF Fresh
  <2>3. BinaryTypeOK
    BY <2>2, BinaryAssumption DEF Init, BinaryInit, BinaryTypeOK
  <2>4. HandleWhileConnected /\ PartsInPlace /\ RetriesWithinLimit
    BY <2>2, BinaryAssumption
       DEF Init, BinaryInit, HandleWhileConnected, PartsInPlace, RetriesWithinLimit, Fresh
  <2>5. ClientsHoldTheirs
    BY <2>2 DEF Init, DescriptorsInit, BinaryInit, ClientsHoldTheirs, HeldFor, Clients
  <2>6. DiagNamesDiag
    BY DescriptorAssumption DEF Init, DiagInit, DiagNamesDiag, SendsOn
  <2>7. RecordIsLastReceived
    BY DEF Init, CustomerInit, RecordIsLastReceived
  <2>8. PublishesEveryChange
    <3>1. Witnesses(<<>>, <<>>, <<>>)
      BY DEF Witnesses, ChangePlaces
    <3>2. QED
      BY <3>1 DEF Init, CustomerInit, PublishesEveryChange, Witnesses
  <2>9. QED
    BY <2>1, <2>3, <2>4, <2>5, <2>6, <2>7, <2>8 DEF SocketsInv, TypeOK
<1>2. SocketsInv /\ [Next]_vars => SocketsInv'
  <2> SUFFICES ASSUME SocketsInv, [Next]_vars PROVE SocketsInv'
    OBVIOUS
  <2>1. CASE UNCHANGED vars
    <3>1. TypeOK'
      BY <2>1 DEF vars, descriptorVars, customerVars, historyVars, diagVars, binaryVars, SocketsInv,
         TypeOK, DescriptorsTypeOK, CustomerTypeOK, DiagTypeOK, BinaryTypeOK
    <3>2. RecordIsLastReceived' /\ PublishesEveryChange'
      BY <2>1 DEF vars, customerVars, historyVars, SocketsInv, RecordIsLastReceived,
         PublishesEveryChange
    <3>3. /\ HandleWhileConnected' /\ ClientsHoldTheirs' /\ PartsInPlace' /\ RetriesWithinLimit'
          /\ DiagNamesDiag'
      BY <2>1 DEF vars, descriptorVars, diagVars, binaryVars, SocketsInv, HandleWhileConnected,
         ClientsHoldTheirs, HeldFor, PartsInPlace, RetriesWithinLimit, DiagNamesDiag, SendsOn
    <3>4. QED
      BY <3>1, <3>2, <3>3 DEF SocketsInv
  <2>2. QED
    BY <2>1, CustomerStep, DiagStep, BinaryStep DEF Next
<1>3. QED
  BY <1>1, <1>2, PTL DEF Spec

(* Every variable keeps its type: in particular what is in a buffer never  *)
(* exceeds the message it is read for.                                     *)
THEOREM SocketsTypeCorrect == Spec => []TypeOK
BY SocketsInvariant, PTL DEF SocketsInv

(* Over any number of attempts and triggers a client has open the socket   *)
(* it names and no other.                                                  *)
THEOREM ClientsNeverLeak == Spec => []ClientsHoldTheirs
BY SocketsInvariant, PTL DEF SocketsInv

(* Whatever ids the reader sends, UINT32_MAX included, and however codes   *)
(* repeat, packages are cut up, connections end and accept() fails in      *)
(* between: what is published is every change of the code received but one *)
(* from "no id yet" to UINT32_MAX, and nothing else.                       *)
THEOREM EveryChangePublished == Spec => []PublishesEveryChange
BY SocketsInvariant, PTL DEF SocketsInv

(* However its accesses interleave with accept() and with other threads'   *)
(* opens and closes, main sends a diagnosis to a diagnostics connection.   *)
THEOREM DiagnosesStayOnDiag == Spec => []DiagStaysOnDiag
<1>1. SocketsInv => DiagStaysOnDiag
  BY DEF SocketsInv, DiagNamesDiag, DiagStaysOnDiag
<1>2. QED
  BY <1>1, SocketsInvariant, PTL

(* However a message is cut up, read() returns it in order.                *)
THEOREM ReadsAreWhole == Spec => ReadIsWhole
<1>1. SocketsInv => \A c \in Clients : ReadRest(c) => \A k \in Places : target'[c][k] = k
  <2> SUFFICES ASSUME SocketsInv, NEW c \in Clients, ReadRest(c), NEW k \in Places
               PROVE  target'[c][k] = k
    OBVIOUS
  <2>1. /\ client[c].at = "open" /\ target \in [Clients -> [Places -> Nat]]
        /\ got[c] \in 0 .. MessageSize - 1 /\ MessageSize \in Nat
        /\ target' = [target EXCEPT ![c] = Filled(c, Wanted(c))]
    BY BinaryAssumption DEF SocketsInv, TypeOK, BinaryTypeOK, ReadRest
  <2>2. Wanted(c) \in 1 .. Wanted(c) /\ k \in 1 .. got[c] + Wanted(c)
    BY <2>1 DEF Wanted, Places
  <2>3. Filled(c, Wanted(c))[k] = k
    BY <2>1, <2>2, PiecesInPlace
  <2>4. QED
    BY <2>1, <2>3
<1>2. QED
  BY <1>1, SocketsInvariant, PTL DEF ReadIsWhole

(* Whatever attempts fail with and however few descriptors are left,       *)
(* Connect goes through the addresses and the rounds one after another,    *)
(* and through no more rounds than allowed.                                *)
THEOREM ConnectRunsOut == Spec => AttemptsRunOut
<1> DEFINE Goes(c) ==
      client[c].at \in {"socket", "connect"} /\ client'[c].at \in {"socket", "connect"} =>
        \/ client'[c] = client[c]
        \/ Before(client[c], client'[c]) /\ client'[c].Index <= RetryAttempts
<1>1. SocketsInv /\ [Next]_vars => [\A c \in Clients : Goes(c)]_binaryVars
  <2> SUFFICES ASSUME SocketsInv, [Next]_vars, NEW c \in Clients, ~ UNCHANGED binaryVars
               PROVE  Goes(c)
    OBVIOUS
  <2>1. Binary
    BY DEF Next, vars, Customer, Diag
  <2>2. PICK d \in Clients :
          \/ Construct(d) \/ Socket(d) \/ Connect(d) \/ ReadPiece(d)
          \/ ReadRest(d) \/ ReadEnd(d) \/ ReadError(d)
    BY <2>1 DEF Binary, BinaryNext
  <2>3. Advances(d)
    BY <2>2, BinaryAction
  <2>4. QED
    BY <2>3 DEF Advances
<1>2. QED
  BY <1>1, SocketsInvariant, PTL DEF Spec, AttemptsRunOut

=============================================================================
