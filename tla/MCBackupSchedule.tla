-------------------------- MODULE MCBackupSchedule --------------------------
(***************************************************************************)
(* The ends of the months of a winter and spring in which they are of      *)
(* every length: the turn of the year, a leap day, and before them the     *)
(* February of a common year.                                              *)
(***************************************************************************)
EXTENDS BackupSchedule

Day(y, m, d) == [year |-> y, month |-> m, day |-> d]

MCDates ==
  {Day(2023, 1, 31), Day(2023, 2, 1), Day(2023, 2, 28),
   Day(2023, 3, 1), Day(2023, 3, 2), Day(2023, 3, 29)}
    \cup {Day(2023, 11, d) : d \in {1, 29, 30}}
    \cup {Day(2023, 12, d) : d \in {1, 2, 30, 31}}
    \cup {Day(2024, 1, d) : d \in {1, 2, 29, 30, 31}}
    \cup {Day(2024, 2, d) : d \in {1, 2, 28, 29}}
    \cup {Day(2024, 3, d) : d \in {1, 2, 29, 30, 31}}
    \cup {Day(2024, 4, d) : d \in {1, 2, 30}}
=============================================================================
