------------------------- MODULE ObservationLedger -------------------------
(***************************************************************************)
(* The loop body of main(): what one trigger does to the two databases.    *)
(*                                                                         *)
(*   userDb  ../DmList.db: one row per code, with its pose, how often it   *)
(*           was seen, how often it was seen out of place, whether its     *)
(*           pose is a recommendation, and whether the operator enabled it *)
(*   selfDb  ../SelfDmList.db: a log of observations, oldest first, which  *)
(*           a trigger in the database keeps from growing                  *)
(*                                                                         *)
(* Every SQL statement is a step: the process may die between two of them, *)
(* a statement may fail (its result is logged, and the code goes on), and  *)
(* the operator may edit the user database from another process.           *)
(***************************************************************************)
EXTENDS Integers, Sequences, FiniteSets
LOCAL INSTANCE FiniteSetsExt

CONSTANTS
  Ids,           (* code ids                                               *)
  Poses,         (* poses in millionths of a metre (std::to_string keeps   *)
                 (* six decimals); one number stands for x, y and yaw      *)
  LocErr,        (* loc_error_threshold, in the same unit                  *)
  MapRepeat,     (* mapping_repeat_num                                     *)
  LocRepeat,     (* loc_repeat_num                                         *)
  MaxRow,        (* maxrow_selfDb_reserve                                  *)
  Blocks,        (* the branches of the loop body that may run             *)
  MayFail,       (* the statements that may fail                           *)
  Crashes,       (* whether the process may die and be started again       *)
  MaxObs         (* bound: a code i is not seen any more once MaxObs[i]    *)
                 (* observations of it were logged or lost                 *)

ASSUME LedgerAssumption ==
  /\ Ids \subseteq Nat
  /\ Poses \subseteq Int /\ 0 \in Poses
  /\ {LocErr, MapRepeat, LocRepeat, MaxRow} \subseteq Nat
  /\ MaxObs \in [Ids -> Nat]
  /\ Blocks \subseteq {"RECORDING", "LOCALIZATION"}
  /\ MayFail \subseteq {"retrieve", "userAdd", "selfAdd", "fit", "update"}
  /\ Crashes \in BOOLEAN

VARIABLES
  userDb,   (* a set of DmInfo with different ids                          *)
  selfDb,   (* a sequence of observations                                  *)
  pc,       (* the statement the loop body is at                           *)
  block,    (* the branch of the loop body it is in, or "none"             *)
  dm,       (* *dmPtr                                                      *)
  ori,      (* the pose in *oriTriggerDmPtr: where the code was just seen  *)
  logged,   (* history: how often each code was ever logged in selfDb      *)
  lost,     (* history: how often a row of it was refused, or the process  *)
            (* died with the first row of it not yet written               *)
  localized (* history: the codes retrieved by the localization branch     *)

historyVars == <<logged, lost, localized>>
vars == <<userDb, selfDb, pc, block, dm, ori, historyVars>>

DmInfo == [id : Ids \cup {0}, pose : Poses, cnt : Nat, sloppyCnt : Nat,
           recommend : BOOLEAN, enable : BOOLEAN]
NoDm == [id |-> 0, pose |-> 0, cnt |-> 0, sloppyCnt |-> 0,
         recommend |-> FALSE, enable |-> FALSE]

Init ==
  /\ userDb = {}
  /\ selfDb = <<>>
  /\ pc = "await"
  /\ block = "none"
  /\ dm = NoDm
  /\ ori = 0
  /\ logged = [i \in Ids |-> 0]
  /\ lost = [i \in Ids |-> 0]
  /\ localized = {}

At(from, to) == pc = from /\ pc' = to

-----------------------------------------------------------------------------
(* The trigger and the retrieval.                                          *)

(* dmTrigger overwrites the id and the pose and leaves the rest of *dmPtr  *)
(* as the trigger before left it.                                          *)
Trigger(i, p) ==
  /\ At("await", "retrieve")
  /\ logged[i] + lost[i] < MaxObs[i]
  /\ dm' = [dm EXCEPT !.id = i, !.pose = p]
  /\ ori' = p
  /\ block' \in Blocks
  /\ UNCHANGED <<userDb, selfDb, historyVars>>

RepeatNum == IF block = "RECORDING" THEN MapRepeat ELSE LocRepeat

(* Mutant of Recommends: an enabled code is fitted again.                  *)
RecommendsEnabled(row) == row.cnt = RepeatNum

(* Mutant of Recommends: the threshold has to be exceeded.                 *)
RecommendsLate(row) == row.cnt > RepeatNum /\ ~row.enable

(* The code has been counted often enough in this mode for its pose to be  *)
(* computed, and it is still the program's to change.                      *)
Recommends(row) == row.cnt = RepeatNum /\ ~row.enable

(* Mutant of AfterRetrieve: the fit runs before the row it counts on.      *)
AfterRetrieveFitsFirst(row) ==
  IF Recommends(row) THEN "fit" ELSE IF row.enable THEN "rpc" ELSE "add"

AfterRetrieve(row) ==
  IF Recommends(row) THEN "fitAdd" ELSE IF row.enable THEN "rpc" ELSE "add"

Counted(info) == [info EXCEPT !.cnt = @ + 1]

(* Mutant of Marked: the flag is assigned instead of set.                  *)
MarkedAnew(info) ==
  [info EXCEPT !.recommend = Recommends(info) \/ (info.enable /\ block = "RECORDING")]

(* setRecommend, in the recording branch also for a code that is enabled.  *)
Marked(info) ==
  [info EXCEPT !.recommend = @ \/ Recommends(info) \/ (info.enable /\ block = "RECORDING")]

(* The retrieval by the localization branch goes into the history.         *)
Noted ==
  /\ localized' = IF block = "LOCALIZATION" THEN localized \cup {dm.id} ELSE localized
  /\ UNCHANGED <<logged, lost>>

(* retrieveUsrDb finds the row; it is counted. A code with id 0 is never   *)
(* found, because 0 is how the function tells that no row came back.       *)
RetrieveKnown ==
  \E row \in userDb :
    /\ row.id = dm.id
    /\ row.id # 0
    /\ At("retrieve", AfterRetrieve(Counted(row)))
    /\ dm' = Marked(Counted(row))
    /\ Noted
    /\ UNCHANGED <<userDb, selfDb, block, ori>>

(* Mutant of Cleared: clearRemainingInfo forgets sloppyCnt.                *)
ClearedButSloppy(info) ==
  [info EXCEPT !.cnt = 0, !.recommend = FALSE, !.enable = FALSE]

Cleared(info) ==
  [info EXCEPT !.cnt = 0, !.sloppyCnt = 0, !.recommend = FALSE, !.enable = FALSE]

(* Mutant of RetrieveUnknown: the first observation is not counted.        *)
RetrieveUnknownUncounted ==
  /\ At("retrieve", "userAdd")
  /\ \A row \in userDb : row.id # dm.id
  /\ dm' = Cleared(dm)
  /\ Noted
  /\ UNCHANGED <<userDb, selfDb, block, ori>>

(* No row, the row of code 0, or a query that failed: a new code.          *)
RetrieveUnknown ==
  /\ At("retrieve", "userAdd")
  /\ \/ \A row \in userDb : row.id # dm.id
     \/ dm.id = 0
     \/ "retrieve" \in MayFail
  /\ dm' = Counted(Cleared(dm))
  /\ Noted
  /\ UNCHANGED <<userDb, selfDb, block, ori>>

-----------------------------------------------------------------------------
(* The statements.                                                         *)

(* Insert into the user database: refused when the primary key exists.     *)
UserAdd ==
  /\ At("userAdd", "newAdd")
  /\ \/ /\ \A row \in userDb : row.id # dm.id
        /\ userDb' = userDb \cup {dm}
     \/ /\ \/ \E row \in userDb : row.id = dm.id
           \/ "userAdd" \in MayFail
        /\ UNCHANGED userDb
  /\ UNCHANGED <<selfDb, block, dm, ori, historyVars>>

(* Mutant of KeepRowsSize: IN for "=". Up to a hundred rows go, which are  *)
(* all of them here.                                                       *)
KeepRowsSizeIn(rows) == IF Len(rows) > MaxRow THEN <<>> ELSE rows

(* The keep_rows_size trigger. "ROWID = (SELECT ... LIMIT 100)" compares   *)
(* with the first of those hundred: one row goes, the oldest.              *)
KeepRowsSize(rows) == IF Len(rows) > MaxRow THEN Tail(rows) ELSE rows

SelfAddContent ==
  \/ /\ selfDb' = KeepRowsSize(Append(selfDb, [id |-> dm.id, pose |-> ori]))
     /\ logged' = [logged EXCEPT ![dm.id] = @ + 1]
     /\ UNCHANGED <<lost, localized>>
  \/ /\ "selfAdd" \in MayFail
     /\ lost' = [lost EXCEPT ![dm.id] = @ + 1]
     /\ UNCHANGED <<selfDb, logged, localized>>

(* A trigger is over once its branch is, unless ROKIT has gone over to     *)
(* localization during the recording branch: then the next branch runs for *)
(* the same trigger. *oriTriggerDmPtr lives no longer than the trigger.    *)
EndBranch ==
  \/ /\ pc' = "await"
     /\ block' = "none"
     /\ ori' = 0
  \/ /\ block = "RECORDING"
     /\ "LOCALIZATION" \in Blocks
     /\ pc' = "retrieve"
     /\ block' = "LOCALIZATION"
     /\ UNCHANGED ori

(* A new code is logged and the branch is over.                            *)
NewAdd ==
  /\ pc = "newAdd"
  /\ SelfAddContent
  /\ EndBranch
  /\ UNCHANGED <<userDb, dm>>

(* The row the mean will count on is logged first.                         *)
FitAdd ==
  /\ At("fitAdd", "fit")
  /\ SelfAddContent
  /\ UNCHANGED <<userDb, block, dm, ori>>

(* The rows of a code, by their places in the log, and the first n of them.*)
RowsOf(i) == {k \in 1 .. Len(selfDb) : selfDb[k].id = i}

FirstRows(i, n) == {k \in RowsOf(i) : Cardinality({j \in RowsOf(i) : j < k}) < n}

(* The sum of the rows found over the number asked for, rounded to the     *)
(* unit; binary fractions let a tie fall on either side.                   *)
Fitted(i, n) ==
  LET sum == MapThenSumSet(LAMBDA k : selfDb[k].pose, FirstRows(i, n))
  IN  {q \in Poses : 2 * n * q - 2 * sum \in -n .. n}

(* fitPose. A statement that fails leaves the pose alone; a statement that *)
(* finds too few rows does not fail.                                       *)
Fit ==
  /\ At("fit", "update")
  /\ \/ \E q \in Fitted(dm.id, RepeatNum) : dm' = [dm EXCEPT !.pose = q]
     \/ "fit" \in MayFail /\ UNCHANGED dm
  /\ UNCHANGED <<userDb, selfDb, block, ori, historyVars>>

(* ROKIT is called, and the place where the code was seen compared with    *)
(* the place it has been given.                                            *)
Judge ==
  /\ At("rpc", "add")
  /\ dm' = IF ori - dm.pose \in -LocErr .. LocErr
             THEN dm ELSE [dm EXCEPT !.sloppyCnt = @ + 1]
  /\ UNCHANGED <<userDb, selfDb, block, ori, historyVars>>

(* Mutant of Add: the observation of a known code is not logged.           *)
AddNothing ==
  /\ At("add", "update")
  /\ UNCHANGED <<userDb, selfDb, block, dm, ori, historyVars>>

Add ==
  /\ At("add", "update")
  /\ SelfAddContent
  /\ UNCHANGED <<userDb, block, dm, ori>>

(* updateDataBase writes every column of the row back.                     *)
Update ==
  /\ pc = "update"
  /\ \/ userDb' = {IF row.id = dm.id THEN dm ELSE row : row \in userDb}
     \/ "update" \in MayFail /\ UNCHANGED userDb
  /\ EndBranch
  /\ UNCHANGED <<selfDb, dm, historyVars>>

-----------------------------------------------------------------------------
(* Around the program.                                                     *)

(* The process dies and is started again.                                  *)
Crash ==
  /\ Crashes
  /\ pc' = "await"
  /\ block' = "none"
  /\ dm' = NoDm
  /\ ori' = 0
  /\ lost' = IF pc = "newAdd" THEN [lost EXCEPT ![dm.id] = @ + 1] ELSE lost
  /\ UNCHANGED <<userDb, selfDb, logged, localized>>

(* The operator enables or disables a code, with a database browser. No    *)
(* statement of the program does it.                                       *)
OperatorDecides ==
  /\ \E row \in userDb :
       userDb' = (userDb \ {row}) \cup {[row EXCEPT !.enable = ~@]}
  /\ UNCHANGED <<selfDb, pc, block, dm, ori, historyVars>>

Next ==
  \/ \E i \in Ids, p \in Poses : Trigger(i, p)
  \/ RetrieveKnown
  \/ RetrieveUnknown
  \/ UserAdd
  \/ NewAdd
  \/ FitAdd
  \/ Fit
  \/ Judge
  \/ Add
  \/ Update
  \/ Crash
  \/ OperatorDecides

Spec == Init /\ [][Next]_vars

-----------------------------------------------------------------------------
(* Properties.                                                             *)

Observation == [id : Ids, pose : Poses]

(* Every variable keeps its type; a code is in the user database at most   *)
(* once, and only after it has been counted.                               *)
TypeOK ==
  /\ userDb \subseteq {info \in DmInfo : info.id \in Ids /\ info.cnt > 0}
  /\ \A r, s \in userDb : r.id = s.id => r = s
  /\ selfDb \in Seq(Observation)
  /\ pc \in {"await", "retrieve", "userAdd", "newAdd", "fitAdd", "fit", "rpc", "add", "update"}
  /\ block \in {"none", "RECORDING", "LOCALIZATION"}
  /\ (block = "none") <=> (pc = "await")
  /\ dm \in DmInfo
  /\ pc # "await" => dm.id \in Ids
  /\ pc \notin {"await", "retrieve"} => dm.cnt > 0
  /\ ori \in Poses
  /\ logged \in [Ids -> Nat]
  /\ lost \in [Ids -> Nat]
  /\ localized \subseteq Ids

(* Observations are logged before they are counted, except the first of a  *)
(* code. So a code is never counted more often than it was logged or a row *)
(* of it was lost, wherever the process dies and however often; only a     *)
(* code just inserted has one row outstanding (main_logic.cpp:160-186,     *)
(* 192-197).                                                               *)
Outstanding(i) == IF pc = "newAdd" /\ dm.id = i THEN 1 ELSE 0

RowsCoverCount ==
  \A row \in userDb : row.cnt <= logged[row.id] + lost[row.id] + Outstanding(row.id)

(* A code is never out of place in its first observation, which defines    *)
(* its place, and at most once in every other one.                         *)
SloppyBelowCount == \A row \in userDb : row.sloppyCnt < row.cnt

(* A row that is enabled after a step of any kind has the pose it had      *)
(* before: updateDataBase moves no row in the same step in which it leaves *)
(* or makes it enabled. (It may clear a flag the operator has set since    *)
(* the retrieval, and move the row with that.)                             *)
EnabledPoseStays ==
  [][\A r \in userDb, s \in userDb' : r.id = s.id /\ s.enable => s.pose = r.pose]_vars

(* The log reserves maxrow_selfDb_reserve rows: it never holds more, and   *)
(* gives none up before it is full. While there is room for another row it *)
(* holds every row that was ever written, through crashes and refused      *)
(* statements (the keep_rows_size trigger, database_controller.cpp:241-    *)
(* 252).                                                                   *)
LogIsComplete ==
  /\ Len(selfDb) <= MaxRow
  /\ Len(selfDb) < MaxRow => \A i \in Ids : Cardinality(RowsOf(i)) = logged[i]

(* When a pose is fitted, the log holds as many rows of this code as       *)
(* fitPose divides by, unless it refused one or has given one up: the      *)
(* recommended pose is a mean of observations (main_logic.cpp:160-161,     *)
(* database_controller.cpp:297).                                           *)
FitHasItsRows ==
  (pc = "fit" /\ lost[dm.id] = 0 /\ logged[dm.id] = Cardinality(RowsOf(dm.id)))
    => Cardinality(RowsOf(dm.id)) >= RepeatNum

(* A code that has been counted as often as mapping_repeat_num asks, and   *)
(* never while localizing, has a recommended pose: no crash and no failing *)
(* statement makes it step over the number (main_logic.cpp:156-183).       *)
CountedIsRecommended ==
  \A row \in userDb :
    (row.id # 0 /\ row.id \notin localized /\ row.cnt >= MapRepeat) => row.recommend

(* A code that was seen more often than mapping_repeat_num asks, and never *)
(* while localizing, has a recommended pose, whatever the number is.       *)
(* (include/main_logic.h:139-140: no boundary of the number is checked.)   *)
SeenOftenIsRecommended ==
  \A row \in userDb :
    (row.id # 0 /\ row.id \notin localized /\ row.cnt > MapRepeat) => row.recommend

(* What the operator sees of the user database is a catalogue of codes;    *)
(* how often a code was out of place is not part of it.                    *)
Entry(row) == [id |-> row.id, place |-> row.pose, count |-> row.cnt,
               recommended |-> row.recommend, enabled |-> row.enable]

Book == {Entry(row) : row \in userDb}

Catalogue == INSTANCE CodeCatalogue WITH catalogue <- Book

ImplementsCatalogue == Catalogue!CatalogueSpec

(* The inductive invariant the theorems rest on: what the rows satisfy,    *)
(* and what *dmPtr satisfies on its way from the retrieval to the update.  *)
Underway == {"fitAdd", "fit", "rpc", "add", "update"}

LogCovers ==
  /\ RowsCoverCount
  /\ pc = "userAdd" => dm.cnt = 1
  /\ pc \in {"rpc", "add", "fitAdd"} => dm.cnt <= logged[dm.id] + lost[dm.id] + 1
  /\ pc \in {"fit", "update"} => dm.cnt <= logged[dm.id] + lost[dm.id]
  /\ pc \in {"fitAdd", "fit"} => dm.cnt = RepeatNum

SloppyBelow ==
  /\ SloppyBelowCount
  /\ pc \in {"userAdd", "fitAdd", "fit", "add", "update"} => dm.sloppyCnt < dm.cnt
  /\ pc = "rpc" => dm.sloppyCnt + 1 < dm.cnt

(* Main is the only one to count, to recommend and to move a code, so what *)
(* it carries continues the row it retrieved.                              *)
Continues(row) ==
  /\ row.id = dm.id
  /\ dm.cnt = row.cnt + 1
  /\ row.recommend => dm.recommend
  /\ dm.pose = row.pose \/ (pc = "update" /\ dm.recommend /\ ~dm.enable)

AsStored ==
  /\ pc = "userAdd" => dm.cnt = 1 /\ ~dm.recommend /\ ~dm.enable
  /\ pc \in {"fitAdd", "fit"} => dm.recommend /\ ~dm.enable
  /\ pc \in Underway => \E row \in userDb : Continues(row)

LedgerInv == TypeOK /\ LogCovers /\ SloppyBelow /\ AsStored

(* With it, as long as the number is at least 2: a code that is retrieved  *)
(* by the recording branch only is marked when it reaches the number.      *)
RecommendedInTime ==
  /\ CountedIsRecommended
  /\ (pc \in Underway /\ dm.id \notin localized /\ dm.cnt >= MapRepeat) => dm.recommend

(* fitPose moves a code only if it finds it in the log. (The message at    *)
(* database_controller.cpp:292: not found, the recommended pose cannot be  *)
(* computed.)                                                              *)
FitFindsTheCode == [][(Fit /\ dm'.pose # dm.pose) => RowsOf(dm.id) # {}]_vars

=============================================================================
