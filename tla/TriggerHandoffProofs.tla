----------------------- MODULE TriggerHandoffProofs -------------------------
(***************************************************************************)
(* For every set of codes and deviations and every behaviour of ROKIT's    *)
(* streams: the hand-off keeps its types, wakes main only for news, makes  *)
(* one decision in a steady mode, posts observations that belong together  *)
(* unless the trigger is overtaken, does not move the shared package under *)
(* main's hands, and implements the mailbox.                               *)
(***************************************************************************)
EXTENDS TriggerHandoff, TLAPS

(* Negating a deviation stays in range.                                    *)
LEMMA DeviationNegation ==
  ASSUME NEW d \in AnyDeviation
  PROVE  -d \in AnyDeviation
BY HandoffAssumption DEF AnyDeviation

(* Turning a package round keeps its id and its type.                      *)
LEMMA InvertType ==
  ASSUME NEW p \in AnyPackage
  PROVE  /\ Invert(p) \in AnyPackage
         /\ Invert(p).dmId = p.dmId
         /\ Invert(p).devi = -p.devi
BY DeviationNegation DEF AnyPackage, Invert

(* What the reader sends is in the range of the shared package.            *)
LEMMA PackageType == Package \cup {ZeroPackage} \subseteq AnyPackage
BY DEF Package, ZeroPackage, AnyPackage, AnyId, AnyDeviation

-----------------------------------------------------------------------------

(* The values the program starts with have their types.                    *)
LEMMA InitType == Init => TypeOK
<1>1. ZeroPackage \in AnyPackage
  BY PackageType
<1>2. Init => dm \in [id : AnyId, src : PoseSources] /\ rokitId \in AnyId
  BY DEF Init, AnyId, PoseSources
<1>3. QED
  BY <1>1, <1>2 DEF Init, TypeOK, MainPcs, Modes

(* Six reads leave a whole pose, a cut one, or no pose and no end.         *)
LEMMA RecordingReadsCases == RecordingReads \subseteq {"recording", "cut", "spin"}
<1> SUFFICES ASSUME NEW rv \in Reads(6)
             PROVE  (CASE rv[6] = "end" -> "spin"
                       [] \A k \in 1 .. 6 : rv[k] = "data" -> "recording"
                       [] OTHER -> "cut") \in {"recording", "cut", "spin"}
  BY DEF RecordingReads
<1> DEFINE allData == \A k \in 1 .. 6 : rv[k] = "data"
<1>1. allData => rv[6] # "end"
  OBVIOUS
<1> HIDE DEF allData
<1>2. (CASE rv[6] = "end" -> "spin" [] allData -> "recording" [] OTHER -> "cut")
        \in {"recording", "cut", "spin"}
  BY <1>1
<1>3. QED
  BY <1>2 DEF allData

(* Every variable keeps the type the C++ declares for it.                  *)
THEOREM TypeCorrect == Spec => []TypeOK
<1>1. TypeOK /\ [Next]_vars => TypeOK'
  <2> SUFFICES ASSUME TypeOK, [Next]_vars
               PROVE  TypeOK'
    OBVIOUS
  <2> USE DEF TypeOK, receiverVars, triggerVars, historyVars, RecAt, MainAt, RecCritical
  <2>1. CASE Receiver
    <3>1. CASE RecAccept
      BY <3>1 DEF RecAccept
    <3>2. CASE RecClosed
      BY <3>2 DEF RecClosed
    <3>3. ASSUME NEW p \in Package, RecReceive(p)
          PROVE  TypeOK'
      BY <3>3 DEF RecReceive
    <3>4. CASE RecLock
      BY <3>4 DEF RecLock
    <3>5. CASE RecCopy
      BY <3>5, PackageType DEF RecCopy, AnyPackage
    <3>6. CASE RecInvert
      BY <3>6, InvertType DEF RecInvert
    <3>7. CASE RecNotify
      BY <3>7 DEF RecNotify, MainPcs
    <3>8. CASE RecUnlock
      BY <3>8 DEF RecUnlock
    <3>9. QED
      BY <2>1, <3>1, <3>2, <3>3, <3>4, <3>5, <3>6, <3>7, <3>8 DEF Receiver
  <2>2. CASE Main
    <3> USE DEF MainPcs
    <3>1. CASE MainWait
      BY <3>1 DEF MainWait
    <3>2. CASE MainRelock
      BY <3>2 DEF MainRelock
    <3>3. CASE ReadDeviation
      BY <3>3 DEF ReadDeviation, AnyPackage
    <3>4. CASE ReadId
      BY <3>4 DEF ReadId, AnyPackage
    <3>5. CASE TriggerTestsRecording
      BY <3>5 DEF TriggerTestsRecording
    <3>6. CASE TriggerTestsLocalization
      BY <3>6 DEF TriggerTestsLocalization
    <3>7. CASE ReadRecordingPose
      BY <3>7, RecordingReadsCases DEF ReadRecordingPose, AnyPackage, PoseSources
    <3>8. CASE ReadLocalizationPose
      BY <3>8 DEF ReadLocalizationPose, AnyPackage, PoseSources
    <3>9. CASE LeaveTrigger
      BY <3>9 DEF LeaveTrigger
    <3>10. CASE EnterBody
      BY <3>10 DEF EnterBody
    <3>11. CASE BodyTestsRecording
      BY <3>11 DEF BodyTestsRecording
    <3>12. CASE HandleRecording
      BY <3>12 DEF HandleRecording, AnyPackage, PoseSources
    <3>13. CASE BodyTestsLocalization
      BY <3>13 DEF BodyTestsLocalization
    <3>14. CASE HandleLocalization
      BY <3>14 DEF HandleLocalization, PoseSources
    <3>15. CASE Release
      BY <3>15, PackageType DEF Release
    <3>16. QED
      BY <2>2, <3>1, <3>2, <3>3, <3>4, <3>5, <3>6, <3>7, <3>8, <3>9, <3>10,
         <3>11, <3>12, <3>13, <3>14, <3>15 DEF Main
  <2>3. CASE SpuriousWakeup \/ ListenMode
    <3>1. CASE SpuriousWakeup
      BY <3>1 DEF SpuriousWakeup, MainPcs
    <3>2. CASE ListenMode
      BY <3>2 DEF ListenMode
    <3>3. QED
      BY <2>3, <3>1, <3>2
  <2>4. CASE Stopped \/ UNCHANGED vars
    BY <2>4 DEF Stopped, vars
  <2>5. QED
    BY <2>1, <2>2, <2>3, <2>4 DEF Next
<1>2. QED
  BY InitType, <1>1, PTL DEF Spec

-----------------------------------------------------------------------------
(* The inductive invariant, one lemma per conjunct.                        *)

(* The mutex has one owner, and it is the thread inside its section.       *)
LEMMA MutexStep ==
  ASSUME TypeOK, MutexOwned, [Next]_vars
  PROVE  MutexOwned'
<1> USE DEF receiverVars, triggerVars, historyVars, RecAt, MainAt, TypeOK, MutexOwned, RecCritical,
    MainCritical, TriggerCritical, BodyCritical
<1>1. CASE Receiver
  BY <1>1 DEF Receiver,
     RecAccept, RecClosed, RecReceive, RecLock, RecCopy, RecInvert,
     RecNotify, RecUnlock
<1>2. CASE Main
  BY <1>2 DEF Main,
     MainWait, MainRelock, ReadDeviation, ReadId, TriggerTestsRecording,
     TriggerTestsLocalization, ReadRecordingPose, ReadLocalizationPose,
     LeaveTrigger, EnterBody, BodyTestsRecording, HandleRecording,
     BodyTestsLocalization, HandleLocalization, Release
<1>3. CASE SpuriousWakeup
  BY <1>3 DEF SpuriousWakeup
<1>4. CASE ListenMode
  BY <1>4 DEF ListenMode
<1>5. CASE UNCHANGED vars
  BY <1>5 DEF vars
<1>6. QED
  BY <1>1, <1>2, <1>3, <1>4, <1>5 DEF Next, Stopped

(* Only the receiver writes its buffer and, under the mutex, *deviInfo.    *)
LEMMA BufferStep ==
  ASSUME TypeOK, BufferPublished, [Next]_vars
  PROVE  BufferPublished'
<1> USE DEF receiverVars, triggerVars, historyVars, RecAt, MainAt, TypeOK, BufferPublished, RecCritical
<1>1. CASE Receiver
  BY <1>1 DEF Receiver,
     RecAccept, RecClosed, RecReceive, RecLock, RecCopy, RecInvert,
     RecNotify, RecUnlock
<1>2. CASE Main
  BY <1>2 DEF Main,
     MainWait, MainRelock, ReadDeviation, ReadId, TriggerTestsRecording,
     TriggerTestsLocalization, ReadRecordingPose, ReadLocalizationPose,
     LeaveTrigger, EnterBody, BodyTestsRecording, HandleRecording,
     BodyTestsLocalization, HandleLocalization, Release
<1>3. CASE SpuriousWakeup
  BY <1>3 DEF SpuriousWakeup
<1>4. CASE ListenMode
  BY <1>4 DEF ListenMode
<1>5. CASE UNCHANGED vars
  BY <1>5 DEF vars
<1>6. QED
  BY <1>1, <1>2, <1>3, <1>4, <1>5 DEF Next, Stopped

(* Between its two reads main holds the mutex, so *deviInfo stands still.  *)
LEMMA CaptureStep ==
  ASSUME TypeOK, MutexOwned, CaptureWhole, [Next]_vars
  PROVE  CaptureWhole'
<1> USE DEF receiverVars, triggerVars, historyVars, RecAt, MainAt, TypeOK, MutexOwned, CaptureWhole, AnyPackage,
    RecCritical, MainCritical, TriggerCritical
<1>1. CASE Receiver
  BY <1>1 DEF Receiver,
     RecAccept, RecClosed, RecReceive, RecLock, RecCopy, RecInvert,
     RecNotify, RecUnlock
<1>2. CASE Main
  BY <1>2 DEF Main,
     MainWait, MainRelock, ReadDeviation, ReadId, TriggerTestsRecording,
     TriggerTestsLocalization, ReadRecordingPose, ReadLocalizationPose,
     LeaveTrigger, EnterBody, BodyTestsRecording, HandleRecording,
     BodyTestsLocalization, HandleLocalization, Release
<1>3. CASE SpuriousWakeup
  BY <1>3 DEF SpuriousWakeup
<1>4. CASE ListenMode
  BY <1>4 DEF ListenMode
<1>5. CASE UNCHANGED vars
  BY <1>5 DEF vars
<1>6. QED
  BY <1>1, <1>2, <1>3, <1>4, <1>5 DEF Next, Stopped

(* News is only cleared by the thread that has just captured it.           *)
LEMMA NewsStep ==
  ASSUME TypeOK, MutexOwned, PublicationIsNews, [Next]_vars
  PROVE  PublicationIsNews'
<1> USE DEF receiverVars, triggerVars, historyVars, RecAt, MainAt, TypeOK, MutexOwned, PublicationIsNews, WakeMeansNews,
    RecCritical
<1>1. CASE Receiver
  BY <1>1 DEF Receiver,
     RecAccept, RecClosed, RecReceive, RecLock, RecCopy, RecInvert,
     RecNotify, RecUnlock
<1>2. CASE Main
  BY <1>2 DEF Main,
     MainWait, MainRelock, ReadDeviation, ReadId, TriggerTestsRecording,
     TriggerTestsLocalization, ReadRecordingPose, ReadLocalizationPose,
     LeaveTrigger, EnterBody, BodyTestsRecording, HandleRecording,
     BodyTestsLocalization, HandleLocalization, Release
<1>3. CASE SpuriousWakeup
  BY <1>3 DEF SpuriousWakeup
<1>4. CASE ListenMode
  BY <1>4 DEF ListenMode
<1>5. CASE UNCHANGED vars
  BY <1>5 DEF vars
<1>6. QED
  BY <1>1, <1>2, <1>3, <1>4, <1>5 DEF Next, Stopped

(* In a steady mode each test of *modePtr agrees with the ones before it.  *)
LEMMA ModeStep ==
  ASSUME TypeOK, ModeKnown, [Next]_vars
  PROVE  ModeKnown'
<1> USE DEF receiverVars, triggerVars, historyVars, MainAt, TypeOK, ModeKnown,
    DmFetched, TriggerCritical
<1>1. CASE Receiver
  BY <1>1 DEF Receiver, RecAt, RecAccept, RecClosed, RecReceive, RecLock, RecCopy,
     RecInvert, RecNotify, RecUnlock
<1>2. CASE Main
  <2>1. CASE MainWait \/ MainRelock \/ ReadDeviation \/ ReadId
    BY <2>1 DEF MainWait, MainRelock, ReadDeviation, ReadId, AnyPackage
  <2>2. CASE TriggerTestsRecording \/ TriggerTestsLocalization
    BY <2>2 DEF TriggerTestsRecording, TriggerTestsLocalization, Modes
  <2>3. CASE ReadRecordingPose
    BY <2>3, RecordingReadsCases DEF ReadRecordingPose
  <2>4. CASE ReadLocalizationPose
    BY <2>4 DEF ReadLocalizationPose
  <2>5. CASE LeaveTrigger \/ EnterBody \/ BodyTestsRecording \/ BodyTestsLocalization
    BY <2>5 DEF LeaveTrigger, EnterBody, BodyTestsRecording, BodyTestsLocalization
  <2>6. CASE HandleRecording
    BY <2>6 DEF HandleRecording
  <2>7. CASE HandleLocalization \/ Release
    BY <2>7 DEF HandleLocalization, Release
  <2>8. QED
    BY <1>2, <2>1, <2>2, <2>3, <2>4, <2>5, <2>6, <2>7 DEF Main
<1>3. CASE SpuriousWakeup
  BY <1>3 DEF SpuriousWakeup
<1>4. CASE ListenMode
  BY <1>4 DEF ListenMode
<1>5. CASE UNCHANGED vars
  BY <1>5 DEF vars
<1>6. QED
  BY <1>1, <1>2, <1>3, <1>4, <1>5 DEF Next, Stopped

(* What the body's branches have done once main is about to let go.        *)
LEMMA DecisionStep ==
  ASSUME TypeOK, ModeKnown, OneDecisionInSteadyMode, [Next]_vars
  PROVE  OneDecisionInSteadyMode'
<1> USE DEF receiverVars, triggerVars, historyVars, MainAt, TypeOK, ModeKnown,
    DmFetched, OneDecisionInSteadyMode
<1>1. CASE Receiver
  BY <1>1 DEF Receiver, RecAt, RecAccept, RecClosed, RecReceive, RecLock, RecCopy,
     RecInvert, RecNotify, RecUnlock
<1>2. CASE Main
  <2>1. CASE BodyTestsLocalization
    BY <2>1 DEF BodyTestsLocalization, Modes
  <2>2. CASE HandleLocalization
    BY <2>2 DEF HandleLocalization
  <2>3. CASE BodyTestsRecording \/ HandleRecording \/ Release
    BY <2>3 DEF BodyTestsRecording, HandleRecording, Release
  <2>4. CASE MainWait \/ MainRelock \/ ReadDeviation \/ ReadId \/ LeaveTrigger \/ EnterBody
    BY <2>4 DEF MainWait, MainRelock, ReadDeviation, ReadId, LeaveTrigger, EnterBody
  <2>5. CASE TriggerTestsRecording \/ TriggerTestsLocalization
    BY <2>5 DEF TriggerTestsRecording, TriggerTestsLocalization
  <2>6. CASE ReadRecordingPose \/ ReadLocalizationPose
    BY <2>6 DEF ReadRecordingPose, ReadLocalizationPose
  <2>7. QED
    BY <1>2, <2>1, <2>2, <2>3, <2>4, <2>5, <2>6 DEF Main
<1>3. CASE SpuriousWakeup
  BY <1>3 DEF SpuriousWakeup
<1>4. CASE ListenMode
  BY <1>4 DEF ListenMode
<1>5. CASE UNCHANGED vars
  BY <1>5 DEF vars
<1>6. QED
  BY <1>1, <1>2, <1>3, <1>4, <1>5 DEF Next, Stopped

(* Only a publication moves *deviInfo, and none goes on while main captures*)
(* it; main clears news only when it captures the package anew.            *)
LEMMA CaptureStandsStep ==
  ASSUME TypeOK, MutexOwned, CaptureWhole, PublicationIsNews, CaptureStands, [Next]_vars
  PROVE  CaptureStands'
<1> USE DEF receiverVars, triggerVars, historyVars, RecAt, MainAt, CaptureStands
<1>1. CASE Receiver
  <2>1. CASE RecCopy
    BY <2>1 DEF RecCopy
  <2>2. CASE RecInvert
    BY <2>2 DEF RecInvert, PublicationIsNews
  <2>3. CASE RecNotify
    BY <2>3 DEF RecNotify
  <2>4. CASE \/ RecAccept
             \/ RecClosed
             \/ \E p \in Package : RecReceive(p)
             \/ RecLock
             \/ RecUnlock
    BY <2>4 DEF RecAccept, RecClosed, RecReceive, RecLock, RecUnlock
  <2>5. QED
    BY <1>1, <2>1, <2>2, <2>3, <2>4 DEF Receiver
<1>2. CASE Main
  <2>1. CASE ReadId
    <3>1. taken' = deviInfo
      BY <2>1 DEF ReadId, CaptureWhole, TypeOK, AnyPackage
    <3>2. QED
      BY <2>1, <3>1 DEF ReadId
  <2>2. CASE MainWait \/ MainRelock \/ ReadDeviation \/ Release
    BY <2>2 DEF MainWait, MainRelock, ReadDeviation, Release
  <2>3. CASE \/ TriggerTestsRecording
             \/ TriggerTestsLocalization
             \/ ReadRecordingPose
             \/ ReadLocalizationPose
             \/ LeaveTrigger
    BY <2>3 DEF TriggerTestsRecording, TriggerTestsLocalization, ReadRecordingPose,
       ReadLocalizationPose, LeaveTrigger
  <2>4. CASE \/ EnterBody
             \/ BodyTestsRecording
             \/ HandleRecording
             \/ BodyTestsLocalization
             \/ HandleLocalization
    BY <2>4 DEF EnterBody, BodyTestsRecording, HandleRecording, BodyTestsLocalization,
       HandleLocalization
  <2>5. QED
    BY <1>2, <2>1, <2>2, <2>3, <2>4 DEF Main
<1>3. CASE SpuriousWakeup \/ ListenMode \/ UNCHANGED vars
  BY <1>3 DEF SpuriousWakeup, ListenMode, vars
<1>4. QED
  BY <1>1, <1>2, <1>3 DEF Next, Stopped

(* An observation is posted by the recording branch, from what *dmPtr and  *)
(* *deviInfo hold then, and given up when the body ends.                   *)
LEMMA PairedStep ==
  ASSUME TypeOK, PublicationIsNews, OneDecisionInSteadyMode, CaptureStands, PostedInBody,
         PairedUnlessOvertaken, [Next]_vars
  PROVE  PostedInBody' /\ PairedUnlessOvertaken'
<1> USE DEF receiverVars, triggerVars, historyVars, RecAt, MainAt, PostedInBody,
    PairedUnlessOvertaken
<1>1. CASE Receiver
  BY <1>1 DEF Receiver, RecAccept, RecClosed, RecReceive, RecLock, RecCopy, RecInvert,
     RecNotify, RecUnlock
<1>2. CASE Main
  <2>1. CASE HandleRecording
    <3>1. UNCHANGED <<taken, news, modeMoved>> /\ mainPc = "recording"
          /\ mainPc' = "bodyLocalization"
      BY <2>1 DEF HandleRecording
    <3>2. CASE UNCHANGED posted
      BY <3>1, <3>2
    <3>3. CASE posted' = {[dmId |-> dm.id, devi |-> deviInfo.devi]}
      <4>1. SUFFICES ASSUME ~news, ~modeMoved
                     PROVE  [dmId |-> dm.id, devi |-> deviInfo.devi] = taken
        BY <3>1, <3>3
      <4>2. dm.id = taken.dmId /\ taken = deviInfo
        BY <3>1, <4>1 DEF OneDecisionInSteadyMode, CaptureStands
      <4>3. QED
        BY <4>2 DEF TypeOK, AnyPackage
    <3>4. QED
      BY <2>1, <3>2, <3>3 DEF HandleRecording
  <2>2. CASE MainWait \/ MainRelock \/ ReadDeviation \/ ReadId \/ LeaveTrigger
    BY <2>2 DEF MainWait, MainRelock, ReadDeviation, ReadId, LeaveTrigger
  <2>3. CASE \/ TriggerTestsRecording
             \/ TriggerTestsLocalization
             \/ ReadRecordingPose
             \/ ReadLocalizationPose
    BY <2>3 DEF TriggerTestsRecording, TriggerTestsLocalization, ReadRecordingPose,
       ReadLocalizationPose
  <2>4. CASE \/ EnterBody
             \/ BodyTestsRecording
             \/ BodyTestsLocalization
             \/ HandleLocalization
             \/ Release
    BY <2>4 DEF EnterBody, BodyTestsRecording, BodyTestsLocalization, HandleLocalization, Release
  <2>5. QED
    BY <1>2, <2>1, <2>2, <2>3, <2>4 DEF Main
<1>3. CASE SpuriousWakeup \/ ListenMode \/ UNCHANGED vars
  BY <1>3 DEF SpuriousWakeup, ListenMode, vars
<1>4. QED
  BY <1>1, <1>2, <1>3 DEF Next, Stopped

(* The conjunction is inductive.                                           *)
THEOREM InvariantHolds == Spec => []HandoffInv
<1>1. Init => HandoffInv
  <2> SUFFICES ASSUME Init, TypeOK
               PROVE  HandoffInv
    BY InitType
  <2>1. MutexOwned /\ BufferPublished /\ CaptureWhole /\ PublicationIsNews
    BY DEF Init, MutexOwned, BufferPublished, CaptureWhole, PublicationIsNews, WakeMeansNews,
       RecCritical, MainCritical, TriggerCritical, BodyCritical
  <2>2. ModeKnown /\ OneDecisionInSteadyMode
    BY DEF Init, ModeKnown, OneDecisionInSteadyMode, TriggerCritical
  <2>3. CaptureStands /\ PostedInBody /\ PairedUnlessOvertaken
    BY DEF Init, CaptureStands, PostedInBody, PairedUnlessOvertaken
  <2>4. QED
    BY <2>1, <2>2, <2>3 DEF HandoffInv
<1>2. TypeOK' /\ HandoffInv /\ [Next]_vars => HandoffInv'
  BY MutexStep, BufferStep, CaptureStep, NewsStep, ModeStep, DecisionStep, CaptureStandsStep,
     PairedStep DEF HandoffInv
<1>3. QED
  BY <1>1, <1>2, TypeCorrect, PTL DEF Spec

-----------------------------------------------------------------------------
(* The properties.                                                         *)

(* Main is woken by a publication it has not captured, or spuriously.      *)
THEOREM WokenForNews == Spec => []WakeMeansNews
BY InvariantHolds, PTL DEF HandoffInv, PublicationIsNews

(* A mode that holds still means one decision about one code.              *)
THEOREM SteadyModeDecides == Spec => []OneDecisionInSteadyMode
BY InvariantHolds, PTL DEF HandoffInv

(* An observation that no publication and no change of the mode overtook   *)
(* carries the package it was triggered by.                                *)
THEOREM PairedWhenUndisturbed == Spec => []PairedUnlessOvertaken
BY InvariantHolds, PTL DEF HandoffInv

(* *deviInfo does not move while main is inside one of its lock guards:    *)
(* only the receiver's copy and inversion write it, and both need the      *)
(* mutex that main owns.                                                   *)
THEOREM PackageStable == Spec => PackageStableUnderLock
<1>1. HandoffInv /\ [Next]_vars => [(mainPc \in MainCritical) => UNCHANGED deviInfo]_vars
  <2> SUFFICES ASSUME HandoffInv, [Next]_vars, mainPc \in MainCritical
               PROVE  UNCHANGED deviInfo
    OBVIOUS
  <2>1. recPc \notin {"copy", "invert"}
    BY DEF HandoffInv, MutexOwned, RecCritical
  <2> USE <2>1 DEF receiverVars, triggerVars, RecAt, MainAt
  <2>2. CASE Receiver
    BY <2>2 DEF Receiver, RecAccept, RecClosed, RecReceive, RecLock, RecCopy, RecInvert,
       RecNotify, RecUnlock
  <2>3. CASE Main
    BY <2>3 DEF Main, MainWait, MainRelock, ReadDeviation, ReadId, TriggerTestsRecording,
       TriggerTestsLocalization, ReadRecordingPose, ReadLocalizationPose, LeaveTrigger,
       EnterBody, BodyTestsRecording, HandleRecording, BodyTestsLocalization,
       HandleLocalization, Release
  <2>4. CASE SpuriousWakeup \/ ListenMode \/ UNCHANGED vars
    BY <2>4 DEF SpuriousWakeup, ListenMode, vars
  <2>5. QED
    BY <2>2, <2>3, <2>4 DEF Next, Stopped
<1>2. QED
  BY <1>1, InvariantHolds, PTL DEF Spec, PackageStableUnderLock

-----------------------------------------------------------------------------
(* Refinement: every step of the threads is a mailbox step or a stutter.   *)

(* The two modules agree on what a package is.                             *)
LEMMA SamePackages ==
  /\ Mailbox!Package = Package
  /\ Mailbox!ZeroPackage = ZeroPackage
  /\ \A p : Mailbox!Turned(p) = Invert(p)
BY DEF Mailbox!Package, Package, Mailbox!ZeroPackage, ZeroPackage, Mailbox!Turned, Invert

(* Under the invariant each thread step maps to a mailbox step or nothing. *)
LEMMA MailboxStep ==
  ASSUME HandoffInv, [Next]_vars
  PROVE  [Mailbox!MailboxNext]_(Mailbox!mailboxVars)
<1> USE DEF HandoffInv, receiverVars, triggerVars, historyVars, RecAt, MainAt, Mailbox!mailboxVars
<1>1. CASE RecCopy
  <2>1. localPackage \in Package /\ owner = "receiver"
    BY <1>1 DEF RecCopy, BufferPublished, MutexOwned, RecCritical
  <2>2. mainPc \notin {"deviation", "id"}
    BY <2>1 DEF MutexOwned, MainCritical, TriggerCritical
  <2>3. Mailbox!Publish(localPackage)
    BY <1>1, <2>2, SamePackages DEF RecCopy, Mailbox!Publish
  <2>4. QED
    BY <2>1, <2>3, SamePackages DEF Mailbox!MailboxNext
<1>2. CASE RecInvert
  BY <1>2 DEF RecInvert
<1>3. CASE RecNotify
  BY <1>3 DEF RecNotify
<1>4. CASE \/ RecAccept
           \/ RecClosed
           \/ \E p \in Package : RecReceive(p)
           \/ RecLock
           \/ RecUnlock
  BY <1>4 DEF RecAccept, RecClosed, RecReceive, RecLock, RecUnlock
<1>5. CASE MainWait
  <2>1. recPc \notin {"invert", "notify"}
    BY <1>5 DEF MainWait, MutexOwned, RecCritical
  <2>2. Mailbox!Arm
    BY <1>5, <2>1 DEF MainWait, Mailbox!Arm
  <2>3. QED
    BY <2>2 DEF Mailbox!MailboxNext
<1>6. CASE SpuriousWakeup
  <2>1. CASE recPc \in {"invert", "notify"}
    BY <1>6, <2>1 DEF SpuriousWakeup
  <2>2. CASE recPc \notin {"invert", "notify"}
    BY <1>6, <2>2 DEF SpuriousWakeup, Mailbox!RingSpuriously, Mailbox!MailboxNext
  <2>3. QED
    BY <2>1, <2>2
<1>7. CASE MainRelock \/ ReadDeviation
  BY <1>7 DEF MainRelock, ReadDeviation
<1>8. CASE ReadId
  <2>1. recPc # "invert"
    BY <1>8 DEF ReadId, MutexOwned, MainCritical, TriggerCritical, RecCritical
  <2>2. taken' = deviInfo
    BY <1>8 DEF ReadId, CaptureWhole, TypeOK, AnyPackage
  <2>3. Mailbox!Take
    BY <1>8, <2>1, <2>2 DEF ReadId, Mailbox!Take
  <2>4. QED
    BY <2>3 DEF Mailbox!MailboxNext
<1>9. CASE Release
  BY <1>9 DEF Release, Mailbox!Finish, Mailbox!MailboxNext
<1>10. CASE \/ TriggerTestsRecording
            \/ TriggerTestsLocalization
            \/ ReadRecordingPose
            \/ ReadLocalizationPose
            \/ LeaveTrigger
  BY <1>10 DEF TriggerTestsRecording, TriggerTestsLocalization, ReadRecordingPose,
     ReadLocalizationPose, LeaveTrigger
<1>11. CASE \/ EnterBody
            \/ BodyTestsRecording
            \/ HandleRecording
            \/ BodyTestsLocalization
            \/ HandleLocalization
  BY <1>11 DEF EnterBody, BodyTestsRecording, HandleRecording, BodyTestsLocalization,
     HandleLocalization
<1>12. CASE ListenMode \/ UNCHANGED vars
  BY <1>12 DEF ListenMode, vars
<1>13. QED
  BY <1>1, <1>2, <1>3, <1>4, <1>5, <1>6, <1>7, <1>8, <1>9, <1>10, <1>11, <1>12
     DEF Next, Receiver, Main, Stopped

(* The threads implement the mailbox.                                      *)
THEOREM HandoffImplementsMailbox == Spec => ImplementsMailbox
<1>1. Init => Mailbox!MailboxInit
  BY SamePackages DEF Init, Mailbox!MailboxInit
<1>2. QED
  BY <1>1, MailboxStep, InvariantHolds, PTL DEF Spec, ImplementsMailbox, Mailbox!MailboxSpec

=============================================================================
