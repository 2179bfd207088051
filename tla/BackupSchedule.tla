--------------------------- MODULE BackupSchedule ---------------------------
(***************************************************************************)
(* The start of the program, as far as it touches the files it depends on: *)
(* it reads config.yaml, and when the backup date written there is old     *)
(* enough, first rewrites config.yaml with the date of today and then      *)
(* copies the user database over the backup. config.yaml is emptied when   *)
(* it is opened for writing, and is whole again once it has been written.  *)
(***************************************************************************)
EXTENDS Integers

CONSTANTS
  Dates          (* the days on which something may happen                 *)

Date == [year : Nat, month : 1 .. 12, day : 1 .. 31]

ASSUME ScheduleAssumption == Dates \subseteq Date

Later(d, e) ==
  \/ d.year > e.year
  \/ d.year = e.year /\ d.month > e.month
  \/ d.year = e.year /\ d.month = e.month /\ d.day > e.day

(* Mutant of Due: the year is not looked at.                               *)
DueWithinYear(last, now) ==
  \/ now.month - last.month > 1
  \/ now.month - last.month = 1 /\ now.day > last.day

(* Mutant of Due: the first of the next month is late enough.              *)
DueNextMonth(last, now) ==
  \/ last.year # now.year
  \/ now.month - last.month > 0

(* checkDate: another year, two months on, or one month on and a later day.*)
Due(last, now) ==
  \/ last.year # now.year
  \/ now.month - last.month > 1
  \/ now.month - last.month = 1 /\ now.day > last.day

VARIABLES
  pc,          (* where the start of the program is                        *)
  today,       (* the calendar                                             *)
  written,     (* last_backup_time in config.yaml                          *)
  whole,       (* config.yaml holds its settings: it is not cut to nothing *)
  read,        (* lastBackupDate: what the program read of config.yaml     *)
  checked,     (* nowDate: when the program looked at the calendar         *)
  copied,      (* history: the day the backup was made, or Never           *)
  named        (* history: what became of the copy config.yaml names       *)

vars == <<pc, today, written, whole, read, checked, copied, named>>

(* Before every other day: no backup was made yet.                         *)
Never == [year |-> 0, month |-> 1, day |-> 1]

(* The program as it is installed: config.yaml names a day in the past on  *)
(* which no backup was made.                                               *)
Init ==
  /\ pc = "down"
  /\ today \in Dates
  /\ written \in Dates
  /\ ~Later(written, today)
  /\ whole = TRUE
  /\ read = written
  /\ checked = today
  /\ copied = Never
  /\ named = "missed"

At(from, to) == pc = from /\ pc' = to

(* A start is over within the day: it takes a second or so.                *)
DayPasses ==
  /\ pc \in {"down", "running"}
  /\ today' \in Dates
  /\ Later(today', today)
  /\ UNCHANGED <<pc, written, whole, read, checked, copied, named>>

(* getConfig. Without its settings config.yaml makes it throw.             *)
Load ==
  /\ At("down", "check")
  /\ whole
  /\ read' = written
  /\ UNCHANGED <<today, written, whole, checked, copied, named>>

(* Mutant of CheckDate: tm_mon is not incremented.                         *)
CheckDateMonthFromZero ==
  /\ At("check", IF Due(read, today) THEN "open" ELSE "running")
  /\ checked' = [today EXCEPT !.month = @ - 1]
  /\ UNCHANGED <<today, written, whole, read, copied, named>>

(* The date in config.yaml is compared with the calendar.                  *)
CheckDate ==
  /\ At("check", IF Due(read, today) THEN "open" ELSE "running")
  /\ checked' = today
  /\ UNCHANGED <<today, written, whole, read, copied, named>>

(* The settings are loaded once more, and the file is opened for writing.  *)
OpenConfig ==
  /\ At("open", "write")
  /\ whole' = FALSE
  /\ UNCHANGED <<today, written, read, checked, copied, named>>

WriteConfig ==
  /\ At("write", "copy")
  /\ whole' = TRUE
  /\ written' = checked
  /\ UNCHANGED <<today, read, checked, copied, named>>

(* backupUsrDb: a copy that cannot be made is logged.                      *)
CopyDb ==
  /\ At("copy", "running")
  /\ \/ /\ copied' = today
        /\ named' = "made"
     \/ /\ named' = "missed"
        /\ UNCHANGED copied
  /\ UNCHANGED <<today, written, whole, read, checked>>

Stop ==
  /\ At("running", "down")
  /\ UNCHANGED <<today, written, whole, read, checked, copied, named>>

(* The process dies during its start.                                      *)
Crash ==
  /\ pc \notin {"down", "running"}
  /\ pc' = "down"
  /\ named' = IF pc = "copy" THEN "missed" ELSE named
  /\ UNCHANGED <<today, written, whole, read, checked, copied>>

Next ==
  \/ DayPasses
  \/ Load
  \/ CheckDate
  \/ OpenConfig
  \/ WriteConfig
  \/ CopyDb
  \/ Stop
  \/ Crash

Spec == Init /\ [][Next]_vars

-----------------------------------------------------------------------------
(* Properties.                                                             *)

(* The days since the beginning of the calendar, leap years included.      *)
DaysBefore == <<0, 31, 59, 90, 120, 151, 181, 212, 243, 273, 304, 334>>
Leap(y) == y % 4 = 0 /\ (y % 100 # 0 \/ y % 400 = 0)
NewYear(y) == 365 * y + (y - 1) \div 4 - (y - 1) \div 100 + (y - 1) \div 400
DayOfYear(d) ==
  DaysBefore[d.month] + (IF Leap(d.year) /\ d.month > 2 THEN 1 ELSE 0) + d.day
DayNumber(d) == NewYear(d.year) + DayOfYear(d)

(* Every variable keeps its type.                                          *)
TypeOK ==
  /\ pc \in {"down", "check", "open", "write", "copy", "running"}
  /\ {today, written, read, checked} \subseteq Dates
  /\ copied \in Dates \cup {Never}
  /\ whole \in BOOLEAN
  /\ named \in {"made", "missed"}

(* A program that has started has a backup no more than a month older than *)
(* its start, unless the copy that config.yaml names was not made, because *)
(* it failed or the process died just before it: the comparison of years,  *)
(* months and days finds every date that is more than 31 days back, over   *)
(* any turn of the year or leap day. (checkDate, and the order of its      *)
(* writes and the copy, main_logic.cpp:132-137.)                           *)
BackupIsRecent ==
  pc = "running" /\ named = "made" => DayNumber(checked) - DayNumber(copied) <= 31

(* The inductive invariant behind BackupIsRecent: unless a copy was missed *)
(* the date in config.yaml is the date of the copy, except between the two *)
(* writes.                                                                 *)
DateTellsTheTruth ==
  /\ named = "made" /\ pc # "copy" => copied = written
  /\ pc = "check" => read = written
  /\ pc \in {"open", "write", "copy"} => checked = today
  /\ pc = "copy" => written = checked
  /\ BackupIsRecent

(* The backup is not overwritten before the month is up: only the turn of  *)
(* the year makes a backup due that is less than 29 days old, however many *)
(* starts failed in between (checkDate, and main_logic.cpp:130-137).       *)
BackupIsKept ==
  [][copied # Never /\ copied' # copied =>
       \/ DayNumber(today') - DayNumber(copied) >= 29
       \/ today'.year # copied.year]_vars

(* The inductive invariant behind BackupIsKept: the backup is no younger   *)
(* than the date in config.yaml, no matter which of the two writes failed, *)
(* nor than the date a backup was found due by.                            *)
DatesInOrder ==
  /\ ~Later(copied, written) /\ ~Later(written, today)
  /\ pc = "check" => read = written
  /\ pc \in {"open", "write", "copy"} =>
       /\ checked = today
       /\ Due(read, today)
       /\ ~Later(copied, read) /\ ~Later(read, today)
  /\ pc = "copy" => written = checked

(* Wherever the process dies, it can be started again: config.yaml still   *)
(* holds its settings. (README.md:85: no matter what happens, there is no  *)
(* need to pay attention to this program.)                                 *)
ConfigSurvives == pc = "down" => whole

=============================================================================
