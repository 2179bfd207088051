---------------------- MODULE ObservationLedgerProofs ----------------------
(***************************************************************************)
(* For every set of codes and poses, every threshold, every choice of the  *)
(* statements that may fail and with or without crashes: the two databases *)
(* keep their types, the log covers the counts and is complete until it is *)
(* full, a code is out of place less often than it is counted, an enabled  *)
(* pose stays, and the user database is the catalogue the operator is      *)
(* promised.                                                               *)
(***************************************************************************)
EXTENDS ObservationLedger, SequenceTheorems, FiniteSetTheorems, TLAPS

(* Logging appends one row of this code and may drop the oldest row, or    *)
(* the row is lost; one of the two is counted.                             *)
LEMMA SelfAddType ==
  ASSUME TypeOK, dm.id \in Ids, SelfAddContent
  PROVE  /\ selfDb' \in Seq(Observation)
         /\ logged' \in [Ids -> Nat] /\ lost' \in [Ids -> Nat]
         /\ \A i \in Ids : logged'[i] + lost'[i] >= logged[i] + lost[i]
         /\ logged'[dm.id] + lost'[dm.id] = logged[dm.id] + lost[dm.id] + 1
         /\ localized' = localized
<1> DEFINE row == [id |-> dm.id, pose |-> ori]
<1>1. row \in Observation
  BY DEF TypeOK, Observation
<1>0. /\ selfDb \in Seq(Observation)
      /\ logged \in [Ids -> Nat] /\ lost \in [Ids -> Nat]
  BY DEF TypeOK
<1>2. Append(selfDb, row) \in Seq(Observation) /\ Append(selfDb, row) # <<>>
  <2> HIDE DEF row
  <2>1. QED
    BY <1>0, <1>1, AppendProperties
<1>3. KeepRowsSize(Append(selfDb, row)) \in Seq(Observation)
  <2> HIDE DEF row
  <2>1. Tail(Append(selfDb, row)) \in Seq(Observation)
    BY <1>2
  <2>2. QED
    BY <1>2, <2>1 DEF KeepRowsSize
<1>4. CASE selfDb' = KeepRowsSize(Append(selfDb, row)) /\ logged' = [logged EXCEPT ![dm.id] = @ + 1]
           /\ UNCHANGED <<lost, localized>>
  <2> HIDE DEF row
  <2>1. /\ logged' \in [Ids -> Nat] /\ lost' = lost /\ localized' = localized
        /\ logged'[dm.id] = logged[dm.id] + 1
        /\ \A i \in Ids : logged'[i] >= logged[i]
    BY <1>0, <1>4
  <2>2. selfDb' \in Seq(Observation)
    BY <1>3, <1>4
  <2>3. QED
    BY <1>0, <2>1, <2>2
<1>5. CASE lost' = [lost EXCEPT ![dm.id] = @ + 1] /\ UNCHANGED <<selfDb, logged, localized>>
  BY <1>0, <1>5
<1>6. QED
  BY <1>4, <1>5 DEF SelfAddContent

(* What fitPose computes is a pose.                                        *)
LEMMA FittedType == \A i, n : Fitted(i, n) \subseteq Poses
BY DEF Fitted

(* updateCnt.                                                              *)
LEMMA CountedType ==
  ASSUME NEW info \in DmInfo
  PROVE  /\ Counted(info) \in DmInfo
         /\ Counted(info).cnt = info.cnt + 1
         /\ \A f \in {"id", "pose", "sloppyCnt", "recommend", "enable"} : Counted(info)[f] = info[f]
<1>1. info.cnt + 1 \in Nat
  BY DEF DmInfo
<1>2. QED
  BY <1>1 DEF DmInfo, Counted

(* setRecommend.                                                           *)
LEMMA MarkedType ==
  ASSUME NEW info \in DmInfo
  PROVE  /\ Marked(info) \in DmInfo
         /\ \A f \in {"id", "pose", "cnt", "sloppyCnt", "enable"} : Marked(info)[f] = info[f]
         /\ info.recommend => Marked(info).recommend
         /\ Recommends(info) => Marked(info).recommend
         /\ info.enable /\ block = "RECORDING" => Marked(info).recommend
<1> DEFINE flag == info.recommend \/ Recommends(info) \/ (info.enable /\ block = "RECORDING")
<1>1. flag \in BOOLEAN
  BY Zenon
<1>2. Marked(info) = [info EXCEPT !.recommend = flag]
  BY Zenon DEF Marked
<1>3. /\ Marked(info) \in DmInfo
      /\ \A f \in {"id", "pose", "cnt", "sloppyCnt", "enable"} : Marked(info)[f] = info[f]
      /\ Marked(info).recommend = flag
  <2> HIDE DEF flag
  <2>1. QED
    BY <1>1, <1>2 DEF DmInfo
<1>4. QED
  BY <1>3, Zenon

(* clearRemainingInfo.                                                     *)
LEMMA ClearedType ==
  ASSUME NEW info \in DmInfo
  PROVE  /\ Cleared(info) \in DmInfo
         /\ Cleared(info).id = info.id
         /\ Cleared(info).cnt = 0
         /\ Cleared(info).sloppyCnt = 0
         /\ Cleared(info).recommend = FALSE
         /\ Cleared(info).enable = FALSE
BY DEF DmInfo, Cleared

(* What *dmPtr holds once the code is retrieved.                           *)
LEMMA KnownType ==
  ASSUME TypeOK, NEW row \in userDb, dm' = Marked(Counted(row))
  PROVE  /\ dm' \in DmInfo
         /\ dm'.id = row.id /\ dm'.pose = row.pose
         /\ dm'.cnt = row.cnt + 1 /\ dm'.sloppyCnt = row.sloppyCnt
         /\ dm'.enable = row.enable /\ Counted(row).enable = row.enable
         /\ Counted(row).cnt = row.cnt + 1
         /\ row.recommend => dm'.recommend
         /\ Recommends(Counted(row)) => dm'.recommend
         /\ row.enable /\ block = "RECORDING" => dm'.recommend
<1>1. row \in DmInfo
  BY DEF TypeOK
<1>2. QED
  BY <1>1, CountedType, MarkedType

(* What *dmPtr holds once the code is taken for a new one.                 *)
LEMMA UnknownType ==
  ASSUME TypeOK, RetrieveUnknown
  PROVE  /\ dm' \in DmInfo
         /\ dm'.id = dm.id
         /\ dm'.cnt = 1
         /\ dm'.sloppyCnt = 0
         /\ ~dm'.recommend /\ ~dm'.enable
<1>1. dm \in DmInfo /\ dm' = Counted(Cleared(dm))
  BY DEF TypeOK, RetrieveUnknown
<1>2. Cleared(dm) \in DmInfo /\ Cleared(dm).id = dm.id /\ Cleared(dm).cnt = 0 /\ Cleared(dm).sloppyCnt = 0
      /\ Cleared(dm).recommend = FALSE /\ Cleared(dm).enable = FALSE
  BY <1>1, ClearedType
<1>3. QED
  BY <1>1, <1>2, CountedType

(* fitPose touches the pose only.                                          *)
LEMMA FitType ==
  ASSUME TypeOK, Fit
  PROVE  /\ dm' \in DmInfo
         /\ \A f \in {"id", "cnt", "sloppyCnt", "recommend", "enable"} : dm'[f] = dm[f]
<1>1. CASE UNCHANGED dm
  BY <1>1 DEF TypeOK
<1>2. ASSUME NEW q \in Poses, dm' = [dm EXCEPT !.pose = q]
      PROVE  /\ dm' \in DmInfo
             /\ \A f \in {"id", "cnt", "sloppyCnt", "recommend", "enable"} : dm'[f] = dm[f]
  BY <1>2 DEF TypeOK, DmInfo
<1>3. QED
  BY <1>1, <1>2, FittedType DEF Fit

(* No step invents a row: every row of the user database was there before, *)
(* up to the operator's flag, or is what *dmPtr holds.                     *)
LEMMA RowsComeFrom ==
  ASSUME TypeOK, [Next]_vars
  PROVE  \A s \in userDb' :
           \/ \E r \in userDb : s = r \/ s = [r EXCEPT !.enable = ~@]
           \/ s = dm /\ pc = "userAdd" /\ \A r \in userDb : r.id # dm.id
           \/ s = dm /\ pc = "update" /\ \E r \in userDb : r.id = dm.id
<1>1. CASE OperatorDecides
  BY <1>1 DEF OperatorDecides
<1>2. CASE UserAdd
  BY <1>2 DEF UserAdd, At
<1>3. CASE Update
  BY <1>3 DEF Update
<1>4. CASE UNCHANGED userDb
  BY <1>4
<1>5. QED
  BY <1>1, <1>2, <1>3, <1>4 DEF Next, vars, Trigger, RetrieveKnown, RetrieveUnknown, NewAdd,
     FitAdd, Fit, Judge, Add, Crash

-----------------------------------------------------------------------------

(* Every variable keeps its type, and codes stay unique.                   *)
THEOREM LedgerTypeCorrect == Spec => []TypeOK
<1>1. Init => TypeOK
  BY LedgerAssumption DEF Init, TypeOK, NoDm, DmInfo
<1>2. TypeOK /\ [Next]_vars => TypeOK'
  <2> SUFFICES ASSUME TypeOK, [Next]_vars
               PROVE  TypeOK'
    OBVIOUS
  <2> USE DEF TypeOK, At, historyVars
  <2>1. ASSUME NEW i \in Ids, NEW p \in Poses, Trigger(i, p)
        PROVE  TypeOK'
    BY <2>1, LedgerAssumption DEF Trigger, DmInfo
  <2>2. CASE RetrieveKnown
    <3>1. PICK row \in userDb :
            /\ row.id = dm.id
            /\ At("retrieve", AfterRetrieve(Counted(row)))
            /\ dm' = Marked(Counted(row))
            /\ Noted
            /\ UNCHANGED <<userDb, selfDb, block, ori>>
      BY <2>2 DEF RetrieveKnown
    <3>2. dm' \in DmInfo /\ dm'.id = dm.id /\ dm'.cnt = row.cnt + 1 /\ row.cnt \in Nat
      BY <3>1, KnownType DEF DmInfo
    <3>3. pc = "retrieve" /\ pc' \in {"fitAdd", "rpc", "add"}
      BY <3>1 DEF AfterRetrieve
    <3>4. QED
      BY <3>1, <3>2, <3>3 DEF Noted
  <2>3. CASE RetrieveUnknown
    BY <2>3, UnknownType DEF RetrieveUnknown, Noted
  <2>4. CASE UserAdd
    BY <2>4 DEF UserAdd
  <2>5. CASE NewAdd
    <3>1. selfDb' \in Seq(Observation) /\ logged' \in [Ids -> Nat] /\ lost' \in [Ids -> Nat]
          /\ localized' = localized
      BY <2>5, SelfAddType DEF NewAdd
    <3>2. QED
      BY <2>5, <3>1, LedgerAssumption DEF NewAdd, EndBranch
  <2>6. CASE FitAdd
    BY <2>6, SelfAddType DEF FitAdd
  <2>7. CASE Fit
    BY <2>7, FitType DEF Fit
  <2>8. CASE Judge
    <3>1. dm \in DmInfo /\ (dm' = dm \/ dm' = [dm EXCEPT !.sloppyCnt = @ + 1])
      BY <2>8 DEF Judge
    <3>3. dm' \in DmInfo /\ dm'.id = dm.id /\ dm'.cnt = dm.cnt
      <4> HIDE DEF TypeOK
      <4>1. QED
        BY <3>1 DEF DmInfo
    <3>2. QED
      BY <2>8, <3>3 DEF Judge
  <2>9. CASE Add
    BY <2>9, SelfAddType DEF Add
  <2>10. CASE Update
    <3>1. \A s \in userDb' : s \in userDb \/ s = dm
      BY <2>10 DEF Update
    <3>2. /\ pc = "update" /\ pc' \in {"await", "retrieve"}
          /\ block' \in {"none", "LOCALIZATION"} /\ ori' \in Poses
          /\ (block' = "none") <=> (pc' = "await")
          /\ UNCHANGED <<selfDb, dm, logged, lost, localized>>
      BY <2>10, LedgerAssumption DEF Update, EndBranch
    <3>3. dm \in {info \in DmInfo : info.id \in Ids /\ info.cnt > 0}
      BY <3>2
    <3>4. userDb' \subseteq {info \in DmInfo : info.id \in Ids /\ info.cnt > 0}
      BY <3>1, <3>3
    <3>5. \A r, s \in userDb : r.id = s.id => r = s
      OBVIOUS
    <3>6. \A r, s \in userDb' : r.id = s.id => r = s
      <4> HIDE DEF TypeOK
      <4>1. \/ UNCHANGED userDb
            \/ userDb' = {IF row.id = dm.id THEN dm ELSE row : row \in userDb}
        BY <2>10 DEF Update
      <4>2. ASSUME userDb' = {IF row.id = dm.id THEN dm ELSE row : row \in userDb},
                   NEW r \in userDb', NEW s \in userDb', r.id = s.id
            PROVE  r = s
        <5>1. /\ r = dm \/ (r \in userDb /\ r.id # dm.id)
              /\ s = dm \/ (s \in userDb /\ s.id # dm.id)
          BY <4>2
        <5>2. QED
          BY <3>5, <4>2, <5>1
      <4>3. QED
        BY <3>5, <4>1, <4>2
    <3>7. pc' # "await" => dm'.id \in Ids
      BY <3>2
    <3>8. pc' \notin {"await", "retrieve"} => dm'.cnt > 0
      BY <3>2
    <3>9. selfDb' \in Seq(Observation) /\ dm' \in DmInfo /\ localized' \subseteq Ids
          /\ logged' \in [Ids -> Nat] /\ lost' \in [Ids -> Nat]
      BY <3>2
    <3>10. /\ pc' \in {"await", "retrieve", "userAdd", "newAdd", "fitAdd", "fit", "rpc", "add", "update"}
           /\ block' \in {"none", "RECORDING", "LOCALIZATION"}
           /\ (block' = "none") <=> (pc' = "await")
           /\ ori' \in Poses
      BY <3>2
    <3>11. QED
      BY <3>4, <3>6, <3>7, <3>8, <3>9, <3>10, Zenon
  <2>11. CASE Crash
    <3>1. lost' \in [Ids -> Nat]
      BY <2>11 DEF Crash
    <3>2. QED
      BY <2>11, <3>1, LedgerAssumption DEF Crash, NoDm, DmInfo
  <2>12. CASE OperatorDecides
    BY <2>12 DEF OperatorDecides, DmInfo
  <2>13. CASE UNCHANGED vars
    BY <2>13 DEF vars
  <2>14. QED
    BY <2>1, <2>2, <2>3, <2>4, <2>5, <2>6, <2>7, <2>8, <2>9, <2>10, <2>11, <2>12, <2>13 DEF Next
<1>3. QED
  BY <1>1, <1>2, PTL DEF Spec

-----------------------------------------------------------------------------
(* The log covers the counts.                                              *)

(* A code is logged, or its row lost, before updateDataBase counts it, and *)
(* the first time at the latest right after it was counted; neither is     *)
(* ever taken back.                                                        *)
LEMMA LogCoversStep ==
  ASSUME TypeOK, LogCovers, [Next]_vars
  PROVE  LogCovers'
<1> USE DEF LogCovers, RowsCoverCount, Outstanding, At, historyVars
<1>0. /\ dm \in DmInfo /\ logged \in [Ids -> Nat] /\ lost \in [Ids -> Nat]
      /\ pc # "await" => dm.id \in Ids
      /\ \A row \in userDb : row \in DmInfo /\ row.id \in Ids
  BY DEF TypeOK
<1> USE <1>0
<1>1. ASSUME NEW i \in Ids, NEW p \in Poses, Trigger(i, p)
      PROVE  LogCovers'
  BY <1>1 DEF Trigger
<1>2. CASE RetrieveKnown
  <2>1. PICK row \in userDb :
          /\ row.id = dm.id
          /\ At("retrieve", AfterRetrieve(Counted(row)))
          /\ dm' = Marked(Counted(row))
          /\ Noted
          /\ UNCHANGED <<userDb, selfDb, block, ori>>
    BY <1>2 DEF RetrieveKnown
  <2>2. dm'.id = dm.id /\ dm'.cnt = row.cnt + 1 /\ row.cnt \in Nat /\ Counted(row).cnt = dm'.cnt
    BY <2>1, KnownType DEF DmInfo
  <2>3. pc = "retrieve" /\ pc' \in {"fitAdd", "rpc", "add"}
    BY <2>1 DEF AfterRetrieve
  <2>4. pc' = "fitAdd" => dm'.cnt = RepeatNum'
    BY <2>1, <2>2 DEF AfterRetrieve, Recommends, RepeatNum
  <2>5. QED
    BY <2>1, <2>2, <2>3, <2>4 DEF DmInfo, Noted
<1>3. CASE RetrieveUnknown
  <2>1. /\ pc' = "userAdd" /\ pc = "retrieve" /\ dm'.cnt = 1
        /\ UNCHANGED <<userDb, logged, lost>>
    BY <1>3, UnknownType DEF RetrieveUnknown, Noted
  <2>2. QED
    BY <2>1
<1>4. CASE UserAdd
  <2>1. /\ pc = "userAdd" /\ pc' = "newAdd" /\ UNCHANGED <<dm, logged, lost>>
        /\ \A s \in userDb' : s \in userDb \/ s = dm
        /\ dm.cnt = 1 /\ dm.id \in Ids
    BY <1>4 DEF UserAdd
  <2>2. ASSUME NEW s \in userDb'
        PROVE  s.cnt <= logged[s.id] + lost[s.id] + (IF s.id = dm.id THEN 1 ELSE 0)
    <3>1. CASE s = dm
      BY <2>1, <3>1
    <3>2. CASE s \in userDb
      <4>1. s.cnt \in Nat /\ s.id \in Ids /\ s.cnt <= logged[s.id] + lost[s.id]
        BY <2>1, <3>2 DEF DmInfo
      <4>2. QED
        BY <4>1
    <3>3. QED
      BY <2>1, <3>1, <3>2
  <2>3. QED
    BY <2>1, <2>2
<1>5. CASE NewAdd \/ FitAdd \/ Add
  <2>1. pc \in {"newAdd", "fitAdd", "add"} /\ UNCHANGED <<userDb, dm>> /\ SelfAddContent
    BY <1>5 DEF NewAdd, FitAdd, Add
  <2>2. /\ logged' \in [Ids -> Nat] /\ lost' \in [Ids -> Nat]
        /\ \A i \in Ids : logged'[i] + lost'[i] >= logged[i] + lost[i]
        /\ logged'[dm.id] + lost'[dm.id] = logged[dm.id] + lost[dm.id] + 1
    BY <2>1, SelfAddType
  <2>3. pc' # "newAdd"
    BY <1>5 DEF NewAdd, FitAdd, Add, EndBranch
  <2>4. ASSUME NEW row \in userDb
        PROVE  row.cnt <= logged'[row.id] + lost'[row.id]
    <3>1. row.cnt \in Nat /\ row.id \in Ids
      BY DEF DmInfo
    <3>2. CASE row.id = dm.id
      BY <2>1, <2>2, <3>1, <3>2
    <3>3. CASE row.id # dm.id
      BY <2>1, <2>2, <3>1, <3>3
    <3>4. QED
      BY <3>2, <3>3
  <2>5. pc' \in {"fit", "update"} => pc \in {"fitAdd", "add"}
    BY <1>5 DEF NewAdd, FitAdd, Add, EndBranch
  <2>6. pc' \notin {"userAdd", "rpc", "add", "fitAdd"}
    BY <1>5 DEF NewAdd, FitAdd, Add, EndBranch
  <2>7. pc' = "fit" => pc = "fitAdd" /\ UNCHANGED block
    BY <1>5 DEF NewAdd, FitAdd, Add, EndBranch
  <2>8. QED
    BY <2>1, <2>2, <2>3, <2>4, <2>5, <2>6, <2>7 DEF DmInfo, RepeatNum
<1>6. CASE Fit
  BY <1>6, FitType DEF Fit
<1>7. CASE Judge
  BY <1>7 DEF Judge, DmInfo
<1>8. CASE Update
  <2>1. \A s \in userDb' : s \in userDb \/ s = dm
    BY <1>8 DEF Update
  <2>2. pc' \in {"await", "retrieve"} /\ UNCHANGED <<dm, logged, lost>>
    BY <1>8 DEF Update, EndBranch
  <2>3. pc = "update" /\ dm.cnt <= logged[dm.id] + lost[dm.id]
    BY <1>8 DEF Update
  <2>4. QED
    BY <2>1, <2>2, <2>3
<1>9. CASE Crash
  <2>1. pc' = "await" /\ UNCHANGED <<userDb, logged>> /\ lost' \in [Ids -> Nat]
    BY <1>9 DEF Crash
  <2>2. ASSUME NEW row \in userDb
        PROVE  row.cnt <= logged'[row.id] + lost'[row.id]
    <3>1. row.cnt \in Nat /\ row.id \in Ids
      BY DEF DmInfo
    <3>2. CASE pc = "newAdd"
      BY <1>9, <2>1, <3>1, <3>2 DEF Crash
    <3>3. CASE pc # "newAdd"
      BY <1>9, <2>1, <3>1, <3>3 DEF Crash
    <3>4. QED
      BY <3>2, <3>3
  <2>3. \A row \in userDb : logged'[row.id] + lost'[row.id] \in Nat
    BY <2>1
  <2>4. QED
    BY <2>1, <2>2, <2>3
<1>10. CASE OperatorDecides
  BY <1>10 DEF OperatorDecides, DmInfo, RepeatNum
<1>11. CASE UNCHANGED vars
  BY <1>11 DEF vars, RepeatNum
<1>12. QED
  BY <1>1, <1>2, <1>3, <1>4, <1>5, <1>6, <1>7, <1>8, <1>9, <1>10, <1>11 DEF Next

-----------------------------------------------------------------------------
(* The log is complete until it is full.                                   *)

PlacesIn(rows, i) == {k \in 1 .. Len(rows) : rows[k].id = i}

(* A row more of its code, and as many as before of every other.           *)
LEMMA AppendedPlaces ==
  ASSUME NEW rows \in Seq(Observation), NEW row \in Observation, NEW i \in Ids
  PROVE  Cardinality(PlacesIn(Append(rows, row), i)) =
           Cardinality(PlacesIn(rows, i)) + (IF row.id = i THEN 1 ELSE 0)
<1>1. /\ Len(rows) \in Nat /\ Len(Append(rows, row)) = Len(rows) + 1
      /\ Append(rows, row)[Len(rows) + 1] = row
      /\ \A k \in 1 .. Len(rows) : Append(rows, row)[k] = rows[k]
  BY AppendProperties
<1>2. \A k : k \in 1 .. Len(rows) + 1 <=> k \in 1 .. Len(rows) \/ k = Len(rows) + 1
  BY <1>1
<1>3. PlacesIn(Append(rows, row), i) =
        PlacesIn(rows, i) \cup (IF row.id = i THEN {Len(rows) + 1} ELSE {})
  BY <1>1, <1>2 DEF PlacesIn
<1>4. IsFiniteSet(PlacesIn(rows, i))
  <2>1. IsFiniteSet(1 .. Len(rows)) /\ PlacesIn(rows, i) \in SUBSET (1 .. Len(rows))
    BY <1>1, FS_Interval DEF PlacesIn
  <2>2. QED
    BY <2>1, FS_Subset
<1>5. Cardinality(PlacesIn(rows, i)) \in Nat
  BY <1>4, FS_CardinalityType
<1>6. CASE row.id = i
  <2>1. Len(rows) + 1 \notin PlacesIn(rows, i)
    BY <1>1 DEF PlacesIn
  <2>2. PlacesIn(Append(rows, row), i) = PlacesIn(rows, i) \cup {Len(rows) + 1}
    BY <1>3, <1>6
  <2>3. Cardinality(PlacesIn(rows, i) \cup {Len(rows) + 1}) = Cardinality(PlacesIn(rows, i)) + 1
    BY <1>4, <2>1, FS_AddElement
  <2>4. QED
    BY <1>6, <2>2, <2>3
<1>7. CASE row.id # i
  BY <1>3, <1>5, <1>7
<1>8. QED
  BY <1>6, <1>7

(* One row goes when one too many has come.                                *)
LEMMA KeepRowsSizeKeeps ==
  ASSUME NEW rows \in Seq(Observation), NEW row \in Observation, Len(rows) <= MaxRow
  PROVE  /\ Len(KeepRowsSize(Append(rows, row))) <= MaxRow
         /\ Len(KeepRowsSize(Append(rows, row))) < MaxRow
              => KeepRowsSize(Append(rows, row)) = Append(rows, row) /\ Len(rows) < MaxRow
<1>0. MaxRow \in Nat
  BY LedgerAssumption
<1>1. /\ Append(rows, row) \in Seq(Observation) /\ Append(rows, row) # <<>>
      /\ Len(rows) \in Nat /\ Len(Append(rows, row)) = Len(rows) + 1
  BY AppendProperties
<1>2. Len(Tail(Append(rows, row))) = Len(rows)
  BY <1>1
<1>3. QED
  BY <1>0, <1>1, <1>2 DEF KeepRowsSize

LEMMA LogCompleteStep ==
  ASSUME TypeOK, LogIsComplete, [Next]_vars
  PROVE  LogIsComplete'
<1>0. /\ selfDb \in Seq(Observation) /\ logged \in [Ids -> Nat]
      /\ pc # "await" => dm.id \in Ids
  BY DEF TypeOK
<1>1. CASE UNCHANGED <<selfDb, logged>>
  BY <1>1 DEF LogIsComplete, RowsOf
<1>2. CASE NewAdd \/ FitAdd \/ Add
  <2> DEFINE row == [id |-> dm.id, pose |-> ori]
  <2>1. SelfAddContent /\ row \in Observation /\ dm.id \in Ids /\ row.id = dm.id
    BY <1>2 DEF NewAdd, FitAdd, Add, At, TypeOK, Observation
  <2>2. CASE /\ selfDb' = KeepRowsSize(Append(selfDb, row))
             /\ logged' = [logged EXCEPT ![dm.id] = @ + 1]
    <3> HIDE DEF row
    <3>1. /\ Len(selfDb') <= MaxRow
          /\ Len(selfDb') < MaxRow => selfDb' = Append(selfDb, row) /\ Len(selfDb) < MaxRow
      BY <1>0, <2>1, <2>2, KeepRowsSizeKeeps DEF LogIsComplete
    <3>2. ASSUME Len(selfDb') < MaxRow, NEW i \in Ids
          PROVE  Cardinality(RowsOf(i))' = logged'[i]
      <4>1. Cardinality(PlacesIn(selfDb, i)) = logged[i] /\ logged[i] \in Nat
        BY <1>0, <3>1, <3>2 DEF LogIsComplete, RowsOf, PlacesIn
      <4>2. Cardinality(PlacesIn(selfDb', i)) = logged[i] + (IF row.id = i THEN 1 ELSE 0)
        BY <1>0, <2>1, <3>1, <3>2, <4>1, AppendedPlaces
      <4>3. logged'[i] = logged[i] + (IF row.id = i THEN 1 ELSE 0)
        BY <1>0, <2>1, <2>2, <4>1
      <4>4. QED
        BY <4>2, <4>3 DEF RowsOf, PlacesIn
    <3>3. QED
      BY <3>1, <3>2 DEF LogIsComplete
  <2>3. QED
    BY <1>1, <2>1, <2>2 DEF SelfAddContent
<1>3. QED
  BY <1>1, <1>2 DEF Next, vars, historyVars, Trigger, RetrieveKnown, RetrieveUnknown, Noted,
     UserAdd, Fit, Judge, Update, Crash, OperatorDecides

-----------------------------------------------------------------------------
(* Out of place.                                                           *)

(* Every trigger counts the code, and judges it at most once.              *)
LEMMA SloppyBelowStep ==
  ASSUME TypeOK, SloppyBelow, [Next]_vars
  PROVE  SloppyBelow'
<1> USE DEF SloppyBelow, SloppyBelowCount, At
<1>0. dm \in DmInfo /\ \A row \in userDb : row \in DmInfo
  BY DEF TypeOK
<1> USE <1>0
<1>1. ASSUME NEW i \in Ids, NEW p \in Poses, Trigger(i, p)
      PROVE  SloppyBelow'
  BY <1>1 DEF Trigger
<1>2. CASE RetrieveKnown
  <2>1. PICK row \in userDb :
          /\ row.id = dm.id
          /\ At("retrieve", AfterRetrieve(Counted(row)))
          /\ dm' = Marked(Counted(row))
          /\ UNCHANGED <<userDb, selfDb, block, ori>>
    BY <1>2 DEF RetrieveKnown
  <2>2. dm'.cnt = row.cnt + 1 /\ dm'.sloppyCnt = row.sloppyCnt /\ row.sloppyCnt < row.cnt
    BY <2>1, KnownType
  <2>3. row.cnt \in Nat /\ row.sloppyCnt \in Nat
    BY DEF DmInfo
  <2>4. QED
    BY <2>1, <2>2, <2>3
<1>3. CASE RetrieveUnknown
  BY <1>3, UnknownType DEF RetrieveUnknown
<1>4. CASE UserAdd
  BY <1>4 DEF UserAdd
<1>5. CASE NewAdd \/ FitAdd \/ Add
  BY <1>5 DEF NewAdd, FitAdd, Add, EndBranch
<1>6. CASE Fit
  BY <1>6, FitType DEF Fit
<1>7. CASE Judge
  BY <1>7 DEF Judge, DmInfo
<1>8. CASE Update
  <2>1. \A s \in userDb' : s \in userDb \/ s = dm
    BY <1>8 DEF Update
  <2>2. QED
    BY <1>8, <2>1 DEF Update, EndBranch
<1>9. CASE Crash
  BY <1>9 DEF Crash
<1>10. CASE OperatorDecides
  BY <1>10 DEF OperatorDecides, DmInfo
<1>11. CASE UNCHANGED vars
  BY <1>11 DEF vars
<1>12. QED
  BY <1>1, <1>2, <1>3, <1>4, <1>5, <1>6, <1>7, <1>8, <1>9, <1>10, <1>11 DEF Next

-----------------------------------------------------------------------------
(* What main carries continues what is stored.                             *)

(* The operator changes no column but enable, so a row that main continues *)
(* is still there after the edit.                                          *)
LEMMA OperatorKeeps ==
  ASSUME TypeOK, OperatorDecides
  PROVE  \A r \in userDb : \E s \in userDb' :
           \A f \in {"id", "pose", "cnt", "sloppyCnt", "recommend"} : s[f] = r[f]
<1>1. PICK row \in userDb :
        userDb' = (userDb \ {row}) \cup {[row EXCEPT !.enable = ~@]}
  BY DEF OperatorDecides
<1>2. row \in DmInfo
  BY DEF TypeOK
<1>3. \A f \in {"id", "pose", "cnt", "sloppyCnt", "recommend"} :
        [row EXCEPT !.enable = ~@][f] = row[f]
  BY <1>2 DEF DmInfo
<1>4. QED
  BY <1>1, <1>3

LEMMA AsStoredStep ==
  ASSUME TypeOK, AsStored, [Next]_vars
  PROVE  AsStored'
<1> USE DEF AsStored, Continues, Underway, At
<1>0. dm \in DmInfo /\ \A row \in userDb : row \in DmInfo
  BY DEF TypeOK
<1> USE <1>0
<1>1. ASSUME NEW i \in Ids, NEW p \in Poses, Trigger(i, p)
      PROVE  AsStored'
  BY <1>1 DEF Trigger
<1>2. CASE RetrieveKnown
  <2>1. PICK row \in userDb :
          /\ row.id = dm.id
          /\ At("retrieve", AfterRetrieve(Counted(row)))
          /\ dm' = Marked(Counted(row))
          /\ UNCHANGED <<userDb, selfDb, block, ori>>
    BY <1>2 DEF RetrieveKnown
  <2>2. /\ dm'.id = row.id /\ dm'.pose = row.pose /\ dm'.cnt = row.cnt + 1
        /\ dm'.enable = row.enable /\ Counted(row).enable = row.enable
        /\ row.recommend => dm'.recommend
        /\ Recommends(Counted(row)) => dm'.recommend
    BY <2>1, KnownType
  <2>3. pc' = "fitAdd" => Recommends(Counted(row))
    BY <2>1 DEF AfterRetrieve
  <2>4. pc' = "fitAdd" => ~dm'.enable
    BY <2>2, <2>3 DEF Recommends
  <2>5. pc' \in {"fitAdd", "rpc", "add"}
    BY <2>1 DEF AfterRetrieve
  <2>6. QED
    BY <2>1, <2>2, <2>3, <2>4, <2>5
<1>3. CASE RetrieveUnknown
  BY <1>3, UnknownType DEF RetrieveUnknown
<1>4. CASE UserAdd
  BY <1>4 DEF UserAdd
<1>5. CASE NewAdd \/ FitAdd \/ Add
  BY <1>5 DEF NewAdd, FitAdd, Add, EndBranch
<1>6. CASE Fit
  <2>1. /\ pc = "fit" /\ pc' = "update" /\ UNCHANGED userDb
        /\ \A f \in {"id", "cnt", "sloppyCnt", "recommend", "enable"} : dm'[f] = dm[f]
    BY <1>6, FitType DEF Fit
  <2>2. QED
    BY <2>1
<1>7. CASE Judge
  <2>1. /\ pc = "rpc" /\ pc' = "add" /\ UNCHANGED userDb
        /\ \A f \in {"id", "pose", "cnt", "recommend", "enable"} : dm'[f] = dm[f]
    BY <1>7 DEF Judge, DmInfo
  <2>2. QED
    BY <2>1
<1>8. CASE Update
  BY <1>8 DEF Update, EndBranch
<1>9. CASE Crash
  BY <1>9 DEF Crash
<1>10. CASE OperatorDecides
  <2>1. UNCHANGED <<pc, dm>>
    BY <1>10 DEF OperatorDecides
  <2>2. QED
    BY <1>10, <2>1, OperatorKeeps
<1>11. CASE UNCHANGED vars
  BY <1>11 DEF vars
<1>12. QED
  BY <1>1, <1>2, <1>3, <1>4, <1>5, <1>6, <1>7, <1>8, <1>9, <1>10, <1>11 DEF Next

-----------------------------------------------------------------------------
(* Counting by ones from less than the number, main cannot step over it.   *)

LEMMA InTimeStep ==
  ASSUME MapRepeat >= 2, LedgerInv, RecommendedInTime, [Next]_vars
  PROVE  RecommendedInTime'
<1> USE DEF RecommendedInTime, CountedIsRecommended, Underway, At, historyVars
<1>0. /\ TypeOK /\ dm \in DmInfo /\ MapRepeat \in Nat
      /\ \A row \in userDb : row \in DmInfo
      /\ block \in {"none", "RECORDING", "LOCALIZATION"}
      /\ (block = "none") <=> (pc = "await")
      /\ pc = "userAdd" => dm.cnt = 1
  BY LedgerAssumption DEF LedgerInv, TypeOK, AsStored
<1>a. \A row \in userDb : row.cnt \in Nat
  BY <1>0 DEF DmInfo
<1> USE <1>0, <1>a
<1>1. ASSUME NEW i \in Ids, NEW p \in Poses, Trigger(i, p)
      PROVE  RecommendedInTime'
  BY <1>1 DEF Trigger
<1>2. CASE RetrieveKnown
  <2>1. PICK row \in userDb :
          /\ row.id = dm.id
          /\ row.id # 0
          /\ At("retrieve", AfterRetrieve(Counted(row)))
          /\ dm' = Marked(Counted(row))
          /\ Noted
          /\ UNCHANGED <<userDb, selfDb, block, ori>>
    BY <1>2 DEF RetrieveKnown
  <2>2. /\ dm'.id = row.id /\ dm'.cnt = row.cnt + 1
        /\ Counted(row).cnt = row.cnt + 1 /\ Counted(row).enable = row.enable
        /\ row.recommend => dm'.recommend
        /\ Recommends(Counted(row)) => dm'.recommend
        /\ row.enable /\ block = "RECORDING" => dm'.recommend
    BY <2>1, KnownType
  <2>3. localized \subseteq localized' /\ (block = "LOCALIZATION" => dm.id \in localized')
    BY <2>1 DEF Noted
  <2>4. ASSUME dm'.id \notin localized', dm'.cnt >= MapRepeat
        PROVE  dm'.recommend
    <3>1. block = "RECORDING" /\ row.id \notin localized
      BY <2>1, <2>2, <2>3, <2>4
    <3>2. CASE row.cnt >= MapRepeat
      BY <2>1, <2>2, <3>1, <3>2
    <3>3. CASE row.cnt + 1 = MapRepeat
      BY <2>2, <3>1, <3>3 DEF Recommends, RepeatNum
    <3>4. QED
      BY <2>2, <2>4, <3>2, <3>3
  <2>5. QED
    BY <2>1, <2>3, <2>4
<1>3. CASE RetrieveUnknown
  <2>1. pc' = "userAdd" /\ UNCHANGED userDb /\ localized \subseteq localized'
    BY <1>3 DEF RetrieveUnknown, Noted
  <2>2. QED
    BY <2>1
<1>4. CASE UserAdd
  BY <1>4 DEF UserAdd
<1>5. CASE NewAdd \/ FitAdd \/ Add
  BY <1>5 DEF NewAdd, FitAdd, Add, EndBranch, SelfAddContent
<1>6. CASE Fit
  BY <1>6, FitType DEF Fit
<1>7. CASE Judge
  <2>1. /\ pc = "rpc" /\ pc' = "add" /\ UNCHANGED <<userDb, localized>>
        /\ \A f \in {"id", "cnt", "recommend"} : dm'[f] = dm[f]
    BY <1>7 DEF Judge, DmInfo
  <2>2. QED
    BY <2>1
<1>8. CASE Update
  <2>1. \A s \in userDb' : s \in userDb \/ s = dm
    BY <1>8 DEF Update
  <2>2. QED
    BY <1>8, <2>1 DEF Update, EndBranch
<1>9. CASE Crash
  BY <1>9 DEF Crash
<1>10. CASE OperatorDecides
  <2>1. /\ UNCHANGED <<pc, dm, localized>>
        /\ \A s \in userDb' : \E r \in userDb :
             \A f \in {"id", "cnt", "recommend"} : s[f] = r[f]
    BY <1>10 DEF OperatorDecides, DmInfo
  <2>2. QED
    BY <2>1
<1>11. CASE UNCHANGED vars
  BY <1>11 DEF vars
<1>12. QED
  BY <1>1, <1>2, <1>3, <1>4, <1>5, <1>6, <1>7, <1>8, <1>9, <1>10, <1>11 DEF Next

-----------------------------------------------------------------------------
(* The catalogue.                                                          *)

(* Codes are unique, so replacing a row replaces its entry and no other.   *)
LEMMA BookRewritten ==
  ASSUME TypeOK, NEW row \in userDb, NEW new, new.id = row.id,
         userDb' = (userDb \ {row}) \cup {new}
  PROVE  /\ Book' = (Book \ {Entry(row)}) \cup {Entry(new)}
         /\ Entry(new) # Entry(row) => Entry(row) \in Book \ Book'
<1>1. \A r, s \in userDb : r.id = s.id => r = s
  BY DEF TypeOK
<1>2. \A x, y : Entry(x) = Entry(y) => x.id = y.id
  BY DEF Entry
<1> HIDE DEF Entry
<1>3. \A r \in userDb : Entry(r) = Entry(row) <=> r = row
  BY <1>1, <1>2
<1>4. QED
  BY <1>3 DEF Book

(* updateDataBase writes the row main retrieved, as another observation or *)
(* with the place recommended to it.                                       *)
LEMMA UpdateRewrites ==
  ASSUME LedgerInv, Update
  PROVE  Catalogue!CatalogueNext \/ UNCHANGED Book
<1>0. /\ TypeOK /\ dm \in DmInfo /\ pc = "update"
      /\ \A r, s \in userDb : r.id = s.id => r = s
  BY DEF LedgerInv, TypeOK, Update
<1>1. CASE UNCHANGED userDb
  BY <1>1 DEF Book
<1>2. CASE userDb' = {IF row.id = dm.id THEN dm ELSE row : row \in userDb}
  <2>1. PICK row \in userDb : Continues(row)
    BY <1>0 DEF LedgerInv, AsStored, Underway
  <2>2. /\ row \in DmInfo /\ row.id = dm.id /\ dm.cnt = row.cnt + 1
        /\ row.recommend => dm.recommend
        /\ dm.pose = row.pose \/ (dm.recommend /\ ~dm.enable)
    BY <1>0, <2>1 DEF Continues, TypeOK
  <2>3. userDb' = (userDb \ {row}) \cup {dm}
    BY <1>0, <1>2, <2>2
  <2>4. /\ Entry(dm) # Entry(row)
        /\ Entry(row).recommended = row.recommend
        /\ Entry(row).place = row.pose
    BY <1>0, <2>2 DEF Entry, DmInfo
  <2>5. /\ Entry(row) \in Book \ Book'
        /\ Book' = (Book \ {Entry(row)}) \cup {Entry(dm)}
    BY <1>0, <2>2, <2>3, <2>4, BookRewritten
  <2>6. CASE dm.pose = row.pose
    <3>1. Entry(dm) = Catalogue!Again(Entry(row), row.pose, dm.recommend, dm.enable)
      BY <2>2, <2>6 DEF Entry, Catalogue!Again
    <3>2. dm.recommend \in BOOLEAN /\ dm.enable \in BOOLEAN
      BY <1>0 DEF DmInfo
    <3>3. Catalogue!Observe(Entry(row), dm.recommend, dm.enable)
      BY <2>2, <2>4, <2>5, <3>1 DEF Catalogue!Observe, Catalogue!Rewrite
    <3>4. QED
      BY <2>5, <3>2, <3>3 DEF Catalogue!CatalogueNext
  <2>7. CASE dm.recommend /\ ~dm.enable
    <3>1. dm.recommend = TRUE /\ dm.enable = FALSE /\ dm.pose \in Poses
      BY <1>0, <2>7 DEF DmInfo
    <3>2. Entry(dm) = Catalogue!Again(Entry(row), dm.pose, TRUE, FALSE)
      BY <2>2, <3>1 DEF Entry, Catalogue!Again
    <3>3. Catalogue!Recommend(Entry(row), dm.pose)
      BY <2>5, <3>2 DEF Catalogue!Recommend, Catalogue!Rewrite
    <3>4. QED
      BY <2>5, <3>1, <3>3 DEF Catalogue!CatalogueNext
  <2>8. QED
    BY <2>2, <2>6, <2>7
<1>3. QED
  BY <1>1, <1>2 DEF Update

LEMMA UserAddLearns ==
  ASSUME LedgerInv, UserAdd
  PROVE  Catalogue!CatalogueNext \/ UNCHANGED Book
<1>0. /\ dm \in DmInfo /\ pc = "userAdd" /\ dm.id \in Ids /\ dm.pose \in Poses
      /\ dm.cnt = 1 /\ dm.recommend = FALSE /\ dm.enable = FALSE
  BY DEF LedgerInv, TypeOK, AsStored, UserAdd, At, DmInfo
<1>1. CASE UNCHANGED userDb
  BY <1>1 DEF Book
<1>2. CASE /\ \A row \in userDb : row.id # dm.id
           /\ userDb' = userDb \cup {dm}
  <2>1. Entry(dm) = [id |-> dm.id, place |-> dm.pose, count |-> 1,
                     recommended |-> FALSE, enabled |-> FALSE]
    BY <1>0 DEF Entry
  <2>2. Book' = Book \cup {Entry(dm)} /\ \A entry \in Book : entry.id # dm.id
    BY <1>2 DEF Book, Entry
  <2>3. Catalogue!Learn(dm.id, dm.pose)
    BY <2>1, <2>2 DEF Catalogue!Learn
  <2>4. QED
    BY <1>0, <2>3 DEF Catalogue!CatalogueNext
<1>3. QED
  BY <1>1, <1>2 DEF UserAdd

LEMMA OperatorRewrites ==
  ASSUME LedgerInv, OperatorDecides
  PROVE  Catalogue!CatalogueNext
<1>1. PICK row \in userDb :
        userDb' = (userDb \ {row}) \cup {[row EXCEPT !.enable = ~@]}
  BY DEF OperatorDecides
<1>2. TypeOK /\ row \in DmInfo
  BY DEF LedgerInv, TypeOK
<1>3. /\ [row EXCEPT !.enable = ~@].id = row.id
      /\ Entry([row EXCEPT !.enable = ~@]) = [Entry(row) EXCEPT !.enabled = ~@]
      /\ Entry([row EXCEPT !.enable = ~@]) # Entry(row)
  BY <1>2 DEF Entry, DmInfo
<1>4. /\ Entry(row) \in Book \ Book'
      /\ Book' = (Book \ {Entry(row)}) \cup {[Entry(row) EXCEPT !.enabled = ~@]}
  BY <1>1, <1>2, <1>3, BookRewritten
<1>5. QED
  BY <1>4 DEF Catalogue!Decide, Catalogue!Rewrite, Catalogue!CatalogueNext

LEMMA CatalogueStep ==
  ASSUME LedgerInv, [Next]_vars
  PROVE  Catalogue!CatalogueNext \/ UNCHANGED Book
<1>1. CASE UNCHANGED userDb
  BY <1>1 DEF Book
<1>2. CASE UserAdd
  BY <1>2, UserAddLearns
<1>3. CASE Update
  BY <1>3, UpdateRewrites
<1>4. CASE OperatorDecides
  BY <1>4, OperatorRewrites
<1>5. QED
  BY <1>1, <1>2, <1>3, <1>4 DEF Next, vars, Trigger, RetrieveKnown, RetrieveUnknown, NewAdd,
     FitAdd, Fit, Judge, Add, Crash

-----------------------------------------------------------------------------
(* The theorems.                                                           *)

(* The conjunction is inductive.                                           *)
THEOREM LedgerInvariant == Spec => []LedgerInv
<1>1. Init => LogCovers /\ SloppyBelow /\ AsStored
  BY DEF Init, LogCovers, RowsCoverCount, SloppyBelow, SloppyBelowCount, AsStored, Underway
<1>2. TypeOK' /\ LedgerInv /\ [Next]_vars => LedgerInv'
  BY LogCoversStep, SloppyBelowStep, AsStoredStep DEF LedgerInv
<1>3. QED
  BY <1>1, <1>2, LedgerTypeCorrect, PTL DEF Spec, LedgerInv

(* A code is never counted more often than it was logged or lost, wherever *)
(* and however often the process dies and whichever statements fail.       *)
THEOREM LogCoversCounts == Spec => []RowsCoverCount
<1>1. LedgerInv => RowsCoverCount
  BY DEF LedgerInv, LogCovers
<1>2. QED
  BY <1>1, LedgerInvariant, PTL

(* No code is out of place as often as it was seen: the first observation  *)
(* is never held against it, whatever a crash or a failure leaves behind.  *)
THEOREM SloppyStaysBelow == Spec => []SloppyBelowCount
BY LedgerInvariant, PTL DEF LedgerInv, SloppyBelow

(* As long as the log has refused and evicted none of its rows, the mean   *)
(* of a code is taken over as many observations as it is divided by.       *)
THEOREM FitsHaveTheirRows == Spec => []FitHasItsRows
<1>1. LedgerInv => FitHasItsRows
  <2> SUFFICES ASSUME LedgerInv, pc = "fit", lost[dm.id] = 0,
                      logged[dm.id] = Cardinality(RowsOf(dm.id))
               PROVE  logged[dm.id] >= RepeatNum
    BY DEF FitHasItsRows
  <2>1. dm.id \in Ids /\ logged[dm.id] \in Nat
    BY DEF LedgerInv, TypeOK
  <2>2. dm.cnt = RepeatNum /\ dm.cnt <= logged[dm.id] + lost[dm.id]
    BY DEF LedgerInv, LogCovers
  <2>3. QED
    BY <2>1, <2>2
<1>2. QED
  BY <1>1, LedgerInvariant, PTL

(* The log never outgrows maxrow_selfDb_reserve, and until it has grown to *)
(* it, it holds every row that was ever written.                           *)
THEOREM LogStaysComplete == Spec => []LogIsComplete
<1>1. Init => LogIsComplete
  <2> SUFFICES ASSUME Init PROVE LogIsComplete
    OBVIOUS
  <2>1. Len(selfDb) = 0 /\ \A i \in Ids : RowsOf(i) = {} /\ logged[i] = 0
    BY DEF Init, RowsOf
  <2>2. \A i \in Ids : Cardinality(RowsOf(i)) = logged[i]
    <3>1. Cardinality({}) = 0
      BY FS_EmptySet
    <3>2. QED
      BY <2>1, <3>1
  <2>3. Len(selfDb) <= MaxRow
    BY <2>1, LedgerAssumption
  <2>4. QED
    BY <2>2, <2>3 DEF LogIsComplete
<1>2. QED
  BY <1>1, LogCompleteStep, LedgerTypeCorrect, PTL DEF Spec

(* So as long as the log is not full and has refused none of its rows, the *)
(* mean of a code is taken over as many observations as it is divided by.  *)
THEOREM MeansAreOfObservations ==
  Spec => [](pc = "fit" /\ lost[dm.id] = 0 /\ Len(selfDb) < MaxRow
               => Cardinality(RowsOf(dm.id)) >= RepeatNum)
<1>1. TypeOK /\ LogIsComplete /\ FitHasItsRows
        => (pc = "fit" /\ lost[dm.id] = 0 /\ Len(selfDb) < MaxRow
              => Cardinality(RowsOf(dm.id)) >= RepeatNum)
  BY DEF TypeOK, LogIsComplete, FitHasItsRows
<1>2. QED
  BY <1>1, LedgerTypeCorrect, LogStaysComplete, FitsHaveTheirRows, PTL

(* A row that is enabled after a step has the pose it had before it, even  *)
(* when the operator enables it while main is about to write it back.      *)
THEOREM EnabledPosesStay == Spec => EnabledPoseStays
<1>1. LedgerInv /\ [Next]_vars
        => [\A r \in userDb, s \in userDb' : r.id = s.id /\ s.enable => s.pose = r.pose]_vars
  <2> SUFFICES ASSUME LedgerInv, [Next]_vars,
                      NEW r \in userDb, NEW s \in userDb', r.id = s.id, s.enable
               PROVE  s.pose = r.pose
    OBVIOUS
  <2>0. TypeOK /\ AsStored /\ \A u, v \in userDb : u.id = v.id => u = v
    BY DEF LedgerInv, TypeOK
  <2>1. CASE \E u \in userDb : s = u \/ s = [u EXCEPT !.enable = ~@]
    <3>1. \E u \in userDb : s.id = u.id /\ s.pose = u.pose
      BY <2>0, <2>1 DEF TypeOK, DmInfo
    <3>2. QED
      BY <2>0, <3>1
  <2>2. CASE s = dm /\ pc = "userAdd" /\ \A u \in userDb : u.id # dm.id
    BY <2>2
  <2>3. CASE s = dm /\ pc = "update"
    BY <2>0, <2>3 DEF AsStored, Continues, Underway
  <2>4. QED
    BY <2>0, <2>1, <2>2, <2>3, RowsComeFrom
<1>2. QED
  BY <1>1, LedgerInvariant, PTL DEF Spec, EnabledPoseStays

(* No crash, failure or decision of the operator makes main step over      *)
(* mapping_repeat_num: a code that was retrieved by the recording branch   *)
(* only has a recommended pose once it is counted that often. The number   *)
(* has to be at least 2: the first observation of a code is not compared.  *)
THEOREM CountedGetRecommended ==
  ASSUME MapRepeat >= 2
  PROVE  Spec => []CountedIsRecommended
<1>1. Init => RecommendedInTime
  BY DEF Init, RecommendedInTime, CountedIsRecommended, Underway
<1>2. LedgerInv /\ RecommendedInTime /\ [Next]_vars => RecommendedInTime'
  BY InTimeStep
<1>3. RecommendedInTime => CountedIsRecommended
  BY DEF RecommendedInTime
<1>4. QED
  BY <1>1, <1>2, <1>3, LedgerInvariant, PTL DEF Spec

(* The loop body, its crashes, its failing statements and the operator's   *)
(* edits implement the catalogue the operator reads.                       *)
THEOREM LedgerImplementsCatalogue == Spec => ImplementsCatalogue
<1>1. Init => Catalogue!CatalogueInit
  BY DEF Init, Catalogue!CatalogueInit, Book
<1>2. LedgerInv /\ [Next]_vars => [Catalogue!CatalogueNext]_Book
  BY CatalogueStep
<1>3. QED
  BY <1>1, <1>2, LedgerInvariant, PTL DEF Spec, ImplementsCatalogue, Catalogue!CatalogueSpec

=============================================================================
