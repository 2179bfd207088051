------------------------ MODULE BackupScheduleProofs ------------------------
(***************************************************************************)
(* For every calendar: checkDate lets no backup grow older than a month,   *)
(* unless the copy that config.yaml names was not made, and overwrites no  *)
(* backup before the month is up, unless the year has turned.              *)
(***************************************************************************)
EXTENDS BackupSchedule, TLAPS

(* Every variable keeps its type.                                          *)
THEOREM ScheduleTypeCorrect == Spec => []TypeOK
<1>1. Init => TypeOK
  BY DEF Init, TypeOK
<1>2. TypeOK /\ [Next]_vars => TypeOK'
  BY DEF TypeOK, Next, vars, At, DayPasses, Load, CheckDate, OpenConfig, WriteConfig, CopyDb,
     Stop, Crash
<1>3. QED
  BY <1>1, <1>2, PTL DEF Spec

-----------------------------------------------------------------------------
(* The arithmetic of dates.                                                *)

(* No day is before Never.                                                 *)
LEMMA NeverIsFirst == Never \in Date /\ \A d \in Date : ~Later(Never, d)
BY DEF Never, Date, Later

(* No month is longer than 31 days, and months begin one after the other.  *)
LEMMA MonthLength ==
  ASSUME NEW m \in 1 .. 12, NEW n \in 1 .. 12, m - n <= 1
  PROVE  /\ DaysBefore[m] \in Int /\ DaysBefore[n] \in Int
         /\ m <= n => DaysBefore[m] <= DaysBefore[n]
         /\ m = n + 1 => DaysBefore[m] - DaysBefore[n] <= 31
         /\ m = n + 1 /\ n = 2 => DaysBefore[m] - DaysBefore[n] = 28
BY DEF DaysBefore

(* Days are whole numbers.                                                 *)
LEMMA DayNumberType ==
  ASSUME NEW d \in Date
  PROVE  DayOfYear(d) \in Int /\ NewYear(d.year) \in Int /\ DayNumber(d) \in Int
<1>1. d.year \in Nat /\ d.month \in 1 .. 12 /\ d.day \in 1 .. 31
  BY DEF Date
<1>2. DayOfYear(d) \in Int
  <2>1. DaysBefore[d.month] \in Int
    BY <1>1, MonthLength
  <2>2. (IF Leap(d.year) /\ d.month > 2 THEN 1 ELSE 0) \in Int
    OBVIOUS
  <2>3. QED
    BY <1>1, <2>1, <2>2 DEF DayOfYear
<1>3. NewYear(d.year) \in Int
  BY <1>1 DEF NewYear
<1>4. QED
  BY <1>2, <1>3 DEF DayNumber

(* A leap day and the days of the month do not make up for the difference. *)
LEMMA DayOfYearBound ==
  ASSUME NEW a \in Int, NEW b \in Int, NEW l \in {0, 1}, NEW k \in {0, 1},
         NEW x \in 1 .. 31, NEW y \in 1 .. 31,
         \/ a <= b /\ l <= k
         \/ a - b <= 31 /\ x <= y /\ (l <= k \/ a - b = 28)
  PROVE  (a + l + x) - (b + k + y) <= 31
OBVIOUS

(* A date that checkDate passes over is at most 31 days back.              *)
LEMMA NotDueIsRecent ==
  ASSUME NEW last \in Date, NEW now \in Date, ~Due(last, now)
  PROVE  DayNumber(now) - DayNumber(last) <= 31
<1>1. /\ now.year = last.year
      /\ now.month - last.month <= 1
      /\ now.month = last.month + 1 => now.day <= last.day
      /\ now.month \in 1 .. 12 /\ last.month \in 1 .. 12
      /\ now.day \in 1 .. 31 /\ last.day \in 1 .. 31
  BY DEF Due, Date
<1>2. DayOfYear(now) - DayOfYear(last) <= 31
  <2> DEFINE leapDay(d) == IF Leap(d.year) /\ d.month > 2 THEN 1 ELSE 0
             a == DaysBefore[now.month]
             b == DaysBefore[last.month]
             l == leapDay(now)
             k == leapDay(last)
  <2>1. l \in {0, 1} /\ k \in {0, 1} /\ (l > k => now.month > 2 /\ last.month <= 2)
    BY <1>1
  <2>2. DayOfYear(now) = a + l + now.day /\ DayOfYear(last) = b + k + last.day
    BY DEF DayOfYear
  <2>3. a \in Int /\ b \in Int
    BY <1>1, MonthLength
  <2>4. \/ a <= b /\ l <= k
        \/ a - b <= 31 /\ now.day <= last.day /\ (l <= k \/ a - b = 28)
    <3>1. CASE now.month <= last.month
      <4>1. a <= b
        BY <1>1, <3>1, MonthLength
      <4>2. l <= k
        <5> HIDE DEF l, k
        <5>1. QED
          BY <1>1, <2>1, <3>1
      <4>3. QED
        BY <4>1, <4>2
    <3>2. CASE now.month = last.month + 1
      <4>1. a - b <= 31 /\ (last.month = 2 => a - b = 28)
        BY <1>1, <3>2, MonthLength
      <4>2. l <= k \/ last.month = 2
        <5> HIDE DEF l, k
        <5>1. QED
          BY <1>1, <2>1, <3>2
      <4>3. QED
        BY <1>1, <3>2, <4>1, <4>2
    <3>3. QED
      BY <1>1, <3>1, <3>2
  <2> HIDE DEF a, b, l, k
  <2>5. (a + l + now.day) - (b + k + last.day) <= 31
    BY <1>1, <2>1, <2>3, <2>4, DayOfYearBound
  <2>6. QED
    BY <2>2, <2>5
<1>3. NewYear(now.year) \in Int /\ DayOfYear(now) \in Int /\ DayOfYear(last) \in Int
  BY DayNumberType
<1>4. QED
  BY <1>1, <1>2, <1>3 DEF DayNumber

(* Two months that are not the same are at least 28 days apart, and 59 if  *)
(* there is another one in between.                                        *)
LEMMA MonthsApart ==
  ASSUME NEW m \in 1 .. 12, NEW n \in 1 .. 12, m > n
  PROVE  /\ DaysBefore[m] - DaysBefore[n] >= 28
         /\ m - n > 1 => DaysBefore[m] - DaysBefore[n] >= 59
BY DEF DaysBefore

(* A date of the year that checkDate finds due is at least 29 days back.   *)
LEMMA DueIsLongAgo ==
  ASSUME NEW last \in Date, NEW now \in Date, Due(last, now), now.year = last.year
  PROVE  DayNumber(now) - DayNumber(last) >= 29
<1>1. /\ now.month > last.month
      /\ now.month - last.month > 1 \/ now.day > last.day
      /\ now.month \in 1 .. 12 /\ last.month \in 1 .. 12
      /\ now.day \in 1 .. 31 /\ last.day \in 1 .. 31
  BY DEF Due, Date
<1>2. DayOfYear(now) - DayOfYear(last) >= 29
  <2> DEFINE a == DaysBefore[now.month]
             b == DaysBefore[last.month]
             l == IF Leap(now.year) /\ now.month > 2 THEN 1 ELSE 0
             k == IF Leap(last.year) /\ last.month > 2 THEN 1 ELSE 0
  <2>1. l \in {0, 1} /\ k \in {0, 1} /\ k <= l
    BY <1>1
  <2>2. DayOfYear(now) = a + l + now.day /\ DayOfYear(last) = b + k + last.day
    BY DEF DayOfYear
  <2>3. a \in Int /\ b \in Int
    BY <1>1 DEF DaysBefore
  <2>4. a - b >= 28 /\ (now.month - last.month > 1 => a - b >= 59)
    BY <1>1, MonthsApart
  <2> HIDE DEF a, b, l, k
  <2>5. QED
    BY <1>1, <2>1, <2>2, <2>3, <2>4
<1>3. NewYear(now.year) \in Int /\ DayOfYear(now) \in Int /\ DayOfYear(last) \in Int
  BY DayNumberType
<1>4. QED
  BY <1>2, <1>3 DEF DayNumber

(* What is due by a date is due by every date of the year before it.       *)
LEMMA DueSooner ==
  ASSUME NEW first \in Date, NEW last \in Date, NEW now \in Date,
         ~Later(first, last), ~Later(last, now), Due(last, now), first.year = now.year
  PROVE  Due(first, now)
BY DEF Due, Later, Date

LEMMA LaterOrder ==
  ASSUME NEW first \in Date, NEW last \in Date, NEW now \in Date,
         ~Later(first, last), ~Later(last, now) \/ Later(now, last)
  PROVE  ~Later(first, now) /\ ~Later(last, now) /\ ~Later(first, first)
BY DEF Later, Date

-----------------------------------------------------------------------------

(* A program that has started has a backup no more than a month older than *)
(* its start, unless the copy named in config.yaml was missed.             *)
THEOREM BackupStaysRecent == Spec => []BackupIsRecent
<1>1. Init => DateTellsTheTruth
  BY DEF Init, DateTellsTheTruth, BackupIsRecent
<1>2. TypeOK /\ DateTellsTheTruth /\ [Next]_vars => DateTellsTheTruth'
  <2> SUFFICES ASSUME TypeOK, DateTellsTheTruth, [Next]_vars
               PROVE  DateTellsTheTruth'
    OBVIOUS
  <2>0. {today, written, copied, checked} \subseteq Date
    BY ScheduleAssumption, NeverIsFirst DEF TypeOK
  <2> USE DEF DateTellsTheTruth, BackupIsRecent, At
  <2>1. CASE CheckDate
    <3>1. CASE Due(read, today)
      BY <2>1, <3>1 DEF CheckDate
    <3>2. CASE ~Due(read, today)
      <4>1. named = "made" => DayNumber(today) - DayNumber(copied) <= 31
        BY <2>0, <2>1, <3>2, NotDueIsRecent DEF CheckDate
      <4>2. QED
        BY <2>1, <3>2, <4>1 DEF CheckDate
    <3>3. QED
      BY <3>1, <3>2
  <2>2. CASE CopyDb /\ named' = "missed"
    BY <2>2 DEF CopyDb
  <2>3. CASE CopyDb /\ named' = "made"
    <3>1. copied' = today' /\ checked' = today'
      BY <2>3 DEF CopyDb, TypeOK
    <3>2. today' = today /\ pc' = "running" /\ DayNumber(today) \in Int
      BY <2>0, <2>3, DayNumberType DEF CopyDb
    <3>3. DayNumber(today) - DayNumber(today) <= 31
      BY <3>2
    <3>4. (DayNumber(checked) - DayNumber(copied) <= 31)'
      BY <3>1, <3>2, <3>3
    <3>5. copied' = written'
      BY <2>3, <3>1 DEF CopyDb
    <3>6. QED
      BY <3>2, <3>4, <3>5
  <2>4. CASE Load \/ OpenConfig \/ WriteConfig \/ Stop
    BY <2>4 DEF Load, OpenConfig, WriteConfig, Stop
  <2>5. CASE Crash
    BY <2>5 DEF Crash, TypeOK
  <2>6. CASE DayPasses \/ UNCHANGED vars
    BY <2>6 DEF DayPasses, vars
  <2>7. CopyDb => named' \in {"made", "missed"}
    BY DEF CopyDb
  <2>8. QED
    BY <2>1, <2>2, <2>3, <2>4, <2>5, <2>6, <2>7 DEF Next
<1>3. DateTellsTheTruth => BackupIsRecent
  BY DEF DateTellsTheTruth
<1>4. QED
  BY <1>1, <1>2, <1>3, ScheduleTypeCorrect, PTL DEF Spec

(* The date in config.yaml and the date of the backup move forward, in     *)
(* this order.                                                             *)
LEMMA OrderInvariant == Spec => []DatesInOrder
<1>1. Init => DatesInOrder
  BY ScheduleAssumption, NeverIsFirst DEF Init, DatesInOrder
<1>2. TypeOK /\ DatesInOrder /\ [Next]_vars => DatesInOrder'
  <2> SUFFICES ASSUME TypeOK, DatesInOrder, [Next]_vars
               PROVE  DatesInOrder'
    OBVIOUS
  <2>0. {today, written, read, copied, checked} \subseteq Date
    BY ScheduleAssumption, NeverIsFirst DEF TypeOK
  <2> USE DEF DatesInOrder, At
  <2>1. CASE DayPasses
    <3>1. today' \in Date /\ Later(today', today)
      BY <2>1, ScheduleAssumption DEF DayPasses
    <3>2. ~Later(written, today')
      BY <2>0, <3>1, LaterOrder
    <3>3. QED
      BY <2>1, <3>2 DEF DayPasses
  <2>2. CASE Load
    BY <2>2 DEF Load
  <2>3. CASE CheckDate
    BY <2>3 DEF CheckDate
  <2>4. CASE OpenConfig
    BY <2>4 DEF OpenConfig
  <2>5. CASE WriteConfig
    <3>1. ~Later(copied, today) /\ ~Later(today, today)
      BY <2>0, LaterOrder DEF Later, Date
    <3>2. QED
      BY <2>5, <3>1 DEF WriteConfig
  <2>6. CASE CopyDb
    <3>1. ~Later(today, today)
      BY <2>0 DEF Later, Date
    <3>2. QED
      BY <2>6, <3>1 DEF CopyDb
  <2>7. CASE Stop \/ Crash \/ UNCHANGED vars
    BY <2>7 DEF Stop, Crash, vars
  <2>8. QED
    BY <2>1, <2>2, <2>3, <2>4, <2>5, <2>6, <2>7 DEF Next
<1>3. QED
  BY <1>1, <1>2, ScheduleTypeCorrect, PTL DEF Spec

(* However often the program is started, and whichever of its writes and   *)
(* copies fail: a backup is overwritten no sooner than 29 days after it    *)
(* was made, or when the year has turned.                                  *)
THEOREM BackupsAreKept == Spec => BackupIsKept
<1> DEFINE Kept == \/ DayNumber(today') - DayNumber(copied) >= 29
                   \/ today'.year # copied.year
<1>1. TypeOK /\ DatesInOrder /\ [Next]_vars => [copied # Never /\ copied' # copied => Kept]_vars
  <2> SUFFICES ASSUME TypeOK, DatesInOrder, [Next]_vars, copied' # copied,
                      today'.year = copied.year
               PROVE  DayNumber(today') - DayNumber(copied) >= 29
    OBVIOUS
  <2>1. CopyDb
    BY DEF Next, DayPasses, Load, CheckDate, OpenConfig, WriteConfig, Stop, Crash, vars
  <2>2. {today, read, copied} \subseteq Date
    BY ScheduleAssumption, NeverIsFirst DEF TypeOK
  <2>3. /\ today' = today /\ Due(read, today)
        /\ ~Later(copied, read) /\ ~Later(read, today)
    BY <2>1 DEF CopyDb, At, DatesInOrder
  <2>4. Due(copied, today)
    BY <2>2, <2>3, DueSooner
  <2>5. DayNumber(today) - DayNumber(copied) >= 29
    BY <2>2, <2>3, <2>4, DueIsLongAgo
  <2>6. QED
    BY <2>3, <2>5
<1>2. QED
  BY <1>1, OrderInvariant, ScheduleTypeCorrect, PTL DEF Spec, BackupIsKept

=============================================================================
