--------------------------- MODULE TriggerHandoff ---------------------------
(***************************************************************************)
(* The threads of the add-on and what they share.                          *)
(*                                                                         *)
(*   receiver  ThreadHandler::recCustomerPack: takes packages of the code  *)
(*             reader off port 9080 and publishes them in *deviInfo.       *)
(*   main      the main loop: ThreadHandler::dmTrigger waits for a         *)
(*             publication, captures it and fetches a pose from ROKIT; the *)
(*             loop body then handles the trigger as a recording or as a   *)
(*             localization observation.                                   *)
(*   mode      ThreadHandler::listenMode: overwrites *modePtr whenever     *)
(*             ROKIT reports another control mode, without taking a lock.  *)
(*                                                                         *)
(* receiver and main share *deviInfo under myMutex and signal through      *)
(* myCond, which main waits on without a predicate. main releases the      *)
(* mutex when dmTrigger returns and takes it again for the loop body.      *)
(***************************************************************************)
EXTENDS Integers

CONSTANTS
  Ids,          (* code ids the reader may send                            *)
  Deviations,   (* lens deviations, one number standing for x, y and a     *)
  MaxId,        (* UINT32_MAX, the "no id yet" of recCustomerPack          *)
  ReadOutcomes  (* what a read of ROKIT's streams may do in this instance  *)

ASSUME HandoffAssumption ==
  /\ Ids \subseteq 0 .. MaxId
  /\ MaxId \in Nat
  /\ Deviations \subseteq Int
  /\ ReadOutcomes \subseteq {"data", "error", "end", "refused"}

Package == [dmId : Ids, devi : Deviations]
ZeroPackage == [dmId |-> 0, devi |-> 0]
Invert(p) == [p EXCEPT !.devi = -@]

Modes == {"RECORDING", "LOCALIZATION", "INIT"}

VARIABLES
  owner,         (* the thread that holds myMutex, or "none"               *)
  recPc,         (* where the receiver is                                  *)
  localPackage,  (* its receive buffer                                     *)
  idRecord,      (* the id it published last on this connection            *)
  deviInfo,      (* the shared package                                     *)
  mainPc,        (* where the main thread is                               *)
  taken,         (* xdX.., id: what dmTrigger copied out of deviInfo       *)
  mode,          (* *modePtr                                               *)
  dm,            (* *dmPtr: the code it names and where its pose is from   *)
  rokitId,       (* the code *locStatPtr and *rokitPosePtr were read for   *)
  posted,        (* the observation GLA posts for the trigger at hand      *)
  news,          (* history: a publication nobody has captured yet         *)
  woken,         (* history: what woke main last, "notify" or "spurious"   *)
  modeMoved,     (* history: the mode changed since main was woken         *)
  blocks         (* history: the branches that handled this trigger        *)

receiverVars == <<recPc, localPackage, idRecord, deviInfo>>
triggerVars == <<taken, dm, rokitId, posted>>
historyVars == <<news, woken, modeMoved, blocks>>
vars == <<owner, receiverVars, mainPc, triggerVars, mode, historyVars>>

(* Where a pose in dm can come from: nowhere yet, ROKIT's recording stream *)
(* (whole, or cut off by an error), ROKIT's localization stream, the pose  *)
(* of the code handled before, or the user database.                       *)
PoseSources == {"none", "recording", "cut", "localization", "previous", "database"}

Init ==
  /\ owner = "none"
  /\ recPc = "accept"
  /\ localPackage = ZeroPackage
  /\ idRecord = MaxId
  /\ deviInfo = ZeroPackage
  /\ mainPc = "idle"
  /\ taken = ZeroPackage
  /\ mode = "INIT"
  /\ dm = [id |-> 0, src |-> "none"]
  /\ rokitId = 0
  /\ posted = {}
  /\ news = FALSE
  /\ woken = "notify"
  /\ modeMoved = FALSE
  /\ blocks = {}

-----------------------------------------------------------------------------
(* The receiver.                                                           *)

RecAt(from, to) == recPc = from /\ recPc' = to

(* Mutant of RecAccept: the "no id yet" is a signed -1.                    *)
RecAcceptSigned ==
  /\ RecAt("accept", "recv")
  /\ idRecord' = -1
  /\ UNCHANGED <<owner, localPackage, deviInfo, mainPc, triggerVars, mode, historyVars>>

(* accept() returns a connection; no id has been seen on it.               *)
RecAccept ==
  /\ RecAt("accept", "recv")
  /\ idRecord' = MaxId
  /\ UNCHANGED <<owner, localPackage, deviInfo, mainPc, triggerVars, mode, historyVars>>

(* recv() returns 0: the reader has gone, back to accept(). (A negative    *)
(* result is logged and recv() is called again, which changes nothing.)    *)
RecClosed ==
  /\ RecAt("recv", "accept")
  /\ UNCHANGED <<owner, localPackage, idRecord, deviInfo, mainPc, triggerVars, mode, historyVars>>

(* Mutant of RecReceive: the notification stands outside the comparison.   *)
RecReceiveAlwaysNotifies(p) ==
  /\ RecAt("recv", IF p.dmId # idRecord THEN "lock" ELSE "notify")
  /\ localPackage' = p
  /\ UNCHANGED <<owner, idRecord, deviInfo, mainPc, triggerVars, mode, historyVars>>

(* A package whose id differs from the last one is to be published; one    *)
(* that repeats the id is dropped on the spot.                             *)
RecReceive(p) ==
  /\ p.dmId # idRecord
  /\ RecAt("recv", "lock")
  /\ localPackage' = p
  /\ UNCHANGED <<owner, idRecord, deviInfo, mainPc, triggerVars, mode, historyVars>>

(* Mutant of RecLock: the lock guard is missing.                           *)
RecLockUnguarded ==
  /\ RecAt("lock", "copy")
  /\ UNCHANGED <<owner, localPackage, idRecord, deviInfo, mainPc, triggerVars, mode, historyVars>>

RecLock ==
  /\ RecAt("lock", "copy")
  /\ owner = "none"
  /\ owner' = "receiver"
  /\ UNCHANGED <<localPackage, idRecord, deviInfo, mainPc, triggerVars, mode, historyVars>>

(* Mutant of RecCopy: the deviation is not turned round.                   *)
RecCopyUnturned ==
  /\ RecAt("copy", "notify")
  /\ idRecord' = localPackage.dmId
  /\ deviInfo' = localPackage
  /\ news' = TRUE
  /\ UNCHANGED <<owner, localPackage, mainPc, triggerVars, mode, woken, modeMoved, blocks>>

RecCopy ==
  /\ RecAt("copy", "invert")
  /\ idRecord' = localPackage.dmId
  /\ deviInfo' = localPackage
  /\ news' = TRUE
  /\ UNCHANGED <<owner, localPackage, mainPc, triggerVars, mode, woken, modeMoved, blocks>>

RecInvert ==
  /\ RecAt("invert", "notify")
  /\ deviInfo' = Invert(deviInfo)
  /\ UNCHANGED <<owner, localPackage, idRecord, mainPc, triggerVars, mode, historyVars>>

(* notify_one() wakes main if it waits, and is lost otherwise.             *)
RecNotify ==
  /\ RecAt("notify", "unlock")
  /\ \/ /\ mainPc = "waiting"
        /\ mainPc' = "woken"
        /\ woken' = "notify"
     \/ /\ mainPc # "waiting"
        /\ UNCHANGED <<mainPc, woken>>
  /\ UNCHANGED <<owner, localPackage, idRecord, deviInfo, triggerVars, mode,
                 news, modeMoved, blocks>>

(* The lock guard goes out of scope and the buffer is cleared.             *)
RecUnlock ==
  /\ RecAt("unlock", "recv")
  /\ owner' = "none"
  /\ localPackage' = ZeroPackage
  /\ UNCHANGED <<idRecord, deviInfo, mainPc, triggerVars, mode, historyVars>>

Receiver ==
  \/ RecAccept
  \/ RecClosed
  \/ \E p \in Package : RecReceive(p)
  \/ RecLock
  \/ RecCopy
  \/ RecInvert
  \/ RecNotify
  \/ RecUnlock

-----------------------------------------------------------------------------
(* dmTrigger.                                                              *)

MainAt(from, to) == mainPc = from /\ mainPc' = to

(* lockGuard6 is taken and wait() gives it up again in one step.           *)
MainWait ==
  /\ MainAt("idle", "waiting")
  /\ owner = "none"
  /\ UNCHANGED <<owner, receiverVars, triggerVars, mode, historyVars>>

SpuriousWakeup ==
  /\ MainAt("waiting", "woken")
  /\ woken' = "spurious"
  /\ UNCHANGED <<owner, receiverVars, triggerVars, mode, news, modeMoved, blocks>>

(* wait() returns once main holds the mutex again.                         *)
MainRelock ==
  /\ MainAt("woken", "deviation")
  /\ owner = "none"
  /\ owner' = "main"
  /\ news' = FALSE
  /\ modeMoved' = FALSE
  /\ blocks' = {}
  /\ UNCHANGED <<receiverVars, triggerVars, mode, woken>>

ReadDeviation ==
  /\ MainAt("deviation", "id")
  /\ taken' = [taken EXCEPT !.devi = deviInfo.devi]
  /\ UNCHANGED <<owner, receiverVars, dm, rokitId, posted, mode, historyVars>>

ReadId ==
  /\ MainAt("id", "modeRecording")
  /\ taken' = [taken EXCEPT !.dmId = deviInfo.dmId]
  /\ UNCHANGED <<owner, receiverVars, dm, rokitId, posted, mode, historyVars>>

(* *modePtr is read once for each comparison, and may change in between.   *)
TriggerTestsRecording ==
  /\ MainAt("modeRecording", IF mode = "RECORDING" THEN "poseRecording" ELSE "modeLocalization")
  /\ UNCHANGED <<owner, receiverVars, triggerVars, mode, historyVars>>

(* In no known mode setInfo is not reached: *dmPtr keeps the previous code.*)
TriggerTestsLocalization ==
  /\ MainAt("modeLocalization", IF mode = "LOCALIZATION" THEN "poseLocalization" ELSE "leave")
  /\ UNCHANGED <<owner, receiverVars, triggerVars, mode, historyVars>>

(* What n reads of one connection may return: data, an error, or 0 once    *)
(* the stream has ended, and then 0 for ever. A reset is one error and     *)
(* then the end; an error may also persist, or be a passing one.           *)
Reads(n) ==
  {rv \in [1 .. n -> ReadOutcomes \ {"refused"}] :
     \A k \in 1 .. n - 1 : rv[k] = "end" => rv[k + 1] = "end"}

(* Six reads make a pose. No result is acted on but a 0 of the last three, *)
(* which starts the loop over, into zeros without end; an error is written *)
(* over by the next read, and what it did not read is missing in the pose. *)
RecordingReads ==
  {CASE rv[6] = "end" -> "spin"
     [] \A k \in 1 .. 6 : rv[k] = "data" -> "recording"
     [] OTHER -> "cut" : rv \in Reads(6)}

(* Port 9008. A refused connection throws, and nobody catches it.          *)
ReadRecordingPose ==
  /\ mainPc = "poseRecording"
  /\ \/ \E src \in RecordingReads \ {"spin"} :
          /\ dm' = [id |-> taken.dmId, src |-> src]
          /\ mainPc' = "leave"
     \/ /\ "spin" \in RecordingReads
        /\ mainPc' = "spin"
        /\ UNCHANGED dm
     \/ /\ "refused" \in ReadOutcomes
        /\ mainPc' = "terminated"
        /\ UNCHANGED dm
  /\ UNCHANGED <<owner, receiverVars, taken, rokitId, posted, mode, historyVars>>

(* Mutant of ReadLocalizationPose: setInfo is skipped after an error.      *)
ReadLocalizationPoseSkipsSet ==
  /\ mainPc = "poseLocalization"
  /\ mainPc' = "leave"
  /\ \/ /\ dm' = [id |-> taken.dmId, src |-> "localization"]
        /\ rokitId' = taken.dmId
     \/ UNCHANGED <<dm, rokitId>>
  /\ UNCHANGED <<owner, receiverVars, taken, posted, mode, historyVars>>

(* Port 9011, one read per round. An error ends the loop, and the pose     *)
(* copied from *dmPtr stays in place; a 0 is followed by zeros for ever.   *)
ReadLocalizationPose ==
  /\ mainPc = "poseLocalization"
  /\ \/ /\ "data" \in ReadOutcomes
        /\ dm' = [id |-> taken.dmId, src |-> "localization"]
        /\ rokitId' = taken.dmId
        /\ mainPc' = "leave"
     \/ /\ "error" \in ReadOutcomes
        /\ dm' = [id |-> taken.dmId, src |-> "previous"]
        /\ mainPc' = "leave"
        /\ UNCHANGED rokitId
     \/ /\ "end" \in ReadOutcomes
        /\ mainPc' = "spin"
        /\ UNCHANGED <<dm, rokitId>>
     \/ /\ "refused" \in ReadOutcomes
        /\ mainPc' = "terminated"
        /\ UNCHANGED <<dm, rokitId>>
  /\ UNCHANGED <<owner, receiverVars, taken, posted, mode, historyVars>>

(* Mutant of LeaveTrigger: dmTrigger returns with the mutex locked.        *)
LeaveTriggerLocked ==
  /\ MainAt("leave", "between")
  /\ UNCHANGED <<owner, receiverVars, triggerVars, mode, historyVars>>

LeaveTrigger ==
  /\ MainAt("leave", "between")
  /\ owner' = "none"
  /\ UNCHANGED <<receiverVars, triggerVars, mode, historyVars>>

-----------------------------------------------------------------------------
(* The body of the main loop.                                              *)

(* lockGuard7.                                                             *)
EnterBody ==
  /\ MainAt("between", "bodyRecording")
  /\ owner = "none"
  /\ owner' = "main"
  /\ UNCHANGED <<receiverVars, triggerVars, mode, historyVars>>

BodyTestsRecording ==
  /\ MainAt("bodyRecording", IF mode = "RECORDING" THEN "recording" ELSE "bodyLocalization")
  /\ UNCHANGED <<owner, receiverVars, triggerVars, mode, historyVars>>

(* A known code takes over the stored pose; code 0 is never found in the   *)
(* user database. Once the code is enabled an observation is posted:       *)
(* dmInfo's id with the deviation *deviInfo holds by now.                  *)
HandleRecording ==
  /\ MainAt("recording", "bodyLocalization")
  /\ blocks' = blocks \cup {"recording"}
  /\ \/ UNCHANGED <<dm, posted>>
     \/ /\ dm.id # 0
        /\ dm' = [dm EXCEPT !.src = "database"]
        /\ posted' \in {posted, {[dmId |-> dm.id, devi |-> deviInfo.devi]}}
  /\ UNCHANGED <<owner, receiverVars, taken, rokitId, mode, news, woken, modeMoved>>

BodyTestsLocalization ==
  /\ MainAt("bodyLocalization", IF mode = "LOCALIZATION" THEN "localization" ELSE "release")
  /\ UNCHANGED <<owner, receiverVars, triggerVars, mode, historyVars>>

HandleLocalization ==
  /\ MainAt("localization", "release")
  /\ blocks' = blocks \cup {"localization"}
  /\ \/ UNCHANGED dm
     \/ dm.id # 0 /\ dm' = [dm EXCEPT !.src = "database"]
  /\ UNCHANGED <<owner, receiverVars, taken, rokitId, posted, mode, news, woken, modeMoved>>

(* Mutant of Release: the loop body ends with the mutex locked.            *)
ReleaseLocked ==
  /\ MainAt("release", "idle")
  /\ taken' = ZeroPackage
  /\ posted' = {}
  /\ UNCHANGED <<owner, receiverVars, dm, rokitId, mode, historyVars>>

Release ==
  /\ MainAt("release", "idle")
  /\ owner' = "none"
  /\ taken' = ZeroPackage
  /\ posted' = {}
  /\ UNCHANGED <<receiverVars, dm, rokitId, mode, historyVars>>

Main ==
  \/ MainRelock
  \/ MainWait
  \/ ReadDeviation
  \/ ReadId
  \/ TriggerTestsRecording
  \/ TriggerTestsLocalization
  \/ ReadRecordingPose
  \/ ReadLocalizationPose
  \/ LeaveTrigger
  \/ EnterBody
  \/ BodyTestsRecording
  \/ HandleRecording
  \/ BodyTestsLocalization
  \/ HandleLocalization
  \/ Release

-----------------------------------------------------------------------------

(* ROKIT reports another control mode; the store takes no lock.            *)
ListenMode ==
  /\ mode' \in Modes \ {mode}
  /\ modeMoved' = TRUE
  /\ UNCHANGED <<owner, receiverVars, mainPc, triggerVars, news, woken, blocks>>

(* std::terminate ends every thread of the process.                        *)
Running == mainPc # "terminated"

Stopped == ~Running /\ UNCHANGED vars

Next ==
  \/ Running /\ (Receiver \/ Main \/ SpuriousWakeup \/ ListenMode)
  \/ Stopped

Spec == Init /\ [][Next]_vars

(* The scheduler runs a thread that is not blocked, and the mutex is not   *)
(* withheld from a thread for which it becomes free again and again: main  *)
(* gives it up inside wait(), the receiver while it blocks in recv(). What *)
(* comes from outside (packages, modes, spurious wakeups) is not fair.     *)
Publishing == RecLock \/ RecCopy \/ RecInvert \/ RecNotify \/ RecUnlock

FairSpec == Spec /\ SF_vars(Main) /\ SF_vars(Publishing)

-----------------------------------------------------------------------------
(* Properties.                                                             *)

MainPcs == {"idle", "waiting", "woken", "deviation", "id", "modeRecording",
            "modeLocalization", "poseRecording", "poseLocalization", "leave",
            "between", "bodyRecording", "recording", "bodyLocalization",
            "localization", "release", "spin", "terminated"}

TriggerCritical == {"deviation", "id", "modeRecording", "modeLocalization",
                    "poseRecording", "poseLocalization", "leave", "spin", "terminated"}
BodyCritical == {"bodyRecording", "recording", "bodyLocalization", "localization", "release"}
MainCritical == TriggerCritical \cup BodyCritical
RecCritical == {"copy", "invert", "notify", "unlock"}

AnyDeviation == Deviations \cup {-d : d \in Deviations} \cup {0}
AnyId == Ids \cup {0}
AnyPackage == [dmId : AnyId, devi : AnyDeviation]

(* Every variable keeps the type the C++ declares for it.                  *)
TypeOK ==
  /\ owner \in {"none", "receiver", "main"}
  /\ recPc \in {"accept", "recv", "lock"} \cup RecCritical
  /\ localPackage \in Package \cup {ZeroPackage}
  /\ idRecord \in AnyId \cup {MaxId}
  /\ deviInfo \in AnyPackage
  /\ mainPc \in MainPcs
  /\ taken \in AnyPackage
  /\ mode \in Modes
  /\ dm \in [id : AnyId, src : PoseSources]
  /\ rokitId \in AnyId
  /\ posted \in SUBSET AnyPackage
  /\ news \in BOOLEAN
  /\ woken \in {"notify", "spurious"}
  /\ modeMoved \in BOOLEAN
  /\ blocks \in SUBSET {"recording", "localization"}

(* Apart from spurious wakeups, main is woken only by a publication it has *)
(* not captured yet: no package is counted twice because of a stale        *)
(* notification (the bare myCond.wait of dmTrigger).                       *)
WakeMeansNews == mainPc = "woken" /\ woken = "notify" => news

(* If the control mode holds still from the wakeup on, the four separate   *)
(* reads of *modePtr add up to one decision: the loop body handles the     *)
(* code that triggered, with a pose fetched for that mode, in exactly the  *)
(* branch of that mode, and in no branch in any other mode.                *)
OneDecisionInSteadyMode ==
  ~modeMoved =>
    /\ mainPc = "recording" => dm.id = taken.dmId /\ dm.src \in {"recording", "cut"}
    /\ mainPc = "localization" =>
         /\ dm.id = taken.dmId
         /\ dm.src \in {"localization", "previous"}
         /\ dm.src = "localization" => rokitId = taken.dmId
    /\ mainPc = "release" =>
         blocks = CASE mode = "RECORDING" -> {"recording"}
                    [] mode = "LOCALIZATION" -> {"localization"}
                    [] OTHER -> {}

(* An observation carries the deviation that came with the code it names,  *)
(* unless the trigger was overtaken: by another publication, which can     *)
(* come in only between dmTrigger's lock and the loop body's, or by a      *)
(* change of the mode (main_logic.cpp:151-171).                            *)
PairedUnlessOvertaken == ~news /\ ~modeMoved => posted \subseteq {taken}

(* While main works under either of its two lock guards the shared package *)
(* does not move, however long the reads and remote calls in between take. *)
PackageStableUnderLock ==
  [][(mainPc \in MainCritical) => UNCHANGED deviInfo]_vars

(* The inductive invariant the theorems rest on.                           *)
MutexOwned ==
  /\ owner = "receiver" <=> recPc \in RecCritical
  /\ owner = "main" <=> mainPc \in MainCritical

(* The buffer holds a package from the moment one is to be published, and  *)
(* the shared package is that buffer while it is being turned.             *)
BufferPublished ==
  /\ recPc \in {"lock"} \cup RecCritical => localPackage \in Package
  /\ recPc = "invert" => deviInfo = localPackage

(* What dmTrigger has copied so far is what the shared package holds.      *)
CaptureWhole == mainPc = "id" => taken.devi = deviInfo.devi

PublicationIsNews ==
  /\ recPc \in {"invert", "notify"} => news
  /\ WakeMeansNews

(* dm as dmTrigger leaves it in a mode that holds still.                   *)
DmFetched ==
  /\ mode # "INIT" => dm.id = taken.dmId
  /\ mode = "RECORDING" => dm.src \in {"recording", "cut"}
  /\ mode = "LOCALIZATION" =>
       /\ dm.src \in {"localization", "previous"}
       /\ dm.src = "localization" => rokitId = taken.dmId

ModeKnown ==
  ~modeMoved =>
    /\ mainPc \in {"poseRecording", "recording"} => mode = "RECORDING"
    /\ mainPc \in {"poseLocalization", "localization"} => mode = "LOCALIZATION"
    /\ mainPc = "modeLocalization" => mode # "RECORDING"
    /\ mainPc \in {"leave", "between", "bodyRecording", "recording", "localization"} => DmFetched
    /\ mainPc = "bodyLocalization" /\ mode # "RECORDING" => DmFetched
    /\ mainPc \in TriggerCritical \cup {"between", "bodyRecording", "recording", "localization"}
         => blocks = {}
    /\ mainPc = "bodyLocalization" =>
         blocks = IF mode = "RECORDING" THEN {"recording"} ELSE {}

(* Until there is news, what dmTrigger captured is what *deviInfo holds,   *)
(* through the gap between the two lock guards and to the end of the body. *)
CaptureStands ==
  mainPc \notin {"idle", "waiting", "woken", "deviation", "id"} /\ ~news => taken = deviInfo

PostedInBody == mainPc \notin {"bodyLocalization", "localization", "release"} => posted = {}

HandoffInv ==
  /\ TypeOK
  /\ MutexOwned
  /\ BufferPublished
  /\ CaptureWhole
  /\ PublicationIsNews
  /\ ModeKnown
  /\ OneDecisionInSteadyMode
  /\ CaptureStands
  /\ PostedInBody
  /\ PairedUnlessOvertaken

(* The pair of threads implements the mailbox: packages go in and out      *)
(* whole, latest wins, and main is rung only while it waits. The mailbox   *)
(* is filled when the receiver copies its buffer under the mutex, although *)
(* the deviation is turned and main notified only later; it is emptied     *)
(* when dmTrigger has read the id, although it read the deviation before.  *)
Mailbox == INSTANCE TriggerMailbox WITH
  slot <- IF recPc = "invert" THEN Invert(deviInfo) ELSE deviInfo,
  consumer <- IF \/ mainPc \in {"woken", "deviation", "id"}
                 \/ mainPc = "waiting" /\ recPc \in {"invert", "notify"}
              THEN "rung"
              ELSE IF mainPc = "waiting" THEN "armed" ELSE "busy",
  taken <- IF mainPc \in {"idle", "waiting", "woken", "deviation", "id"} THEN {} ELSE {taken}

ImplementsMailbox == Mailbox!MailboxSpec

(* In a mode that holds still, the observation posted for a trigger        *)
(* carries the deviation that came with the code it names, whatever the    *)
(* reader sends meanwhile. (README.md:68: the code reader sends the id and *)
(* the relative position together, as one CustomerPackage.)                *)
ObservationPairsPackage == ~modeMoved => posted \subseteq {taken}

(* A woken main thread handles its trigger and gets back to waiting.       *)
WokenIsHandled == mainPc = "woken" ~> mainPc = "idle"

(* A package the receiver has decided to publish gets published: main does *)
(* not keep the mutex from it for good.                                    *)
PublicationGoesThrough == recPc = "lock" ~> recPc = "recv"

=============================================================================
