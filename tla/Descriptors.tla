----------------------------- MODULE Descriptors -----------------------------
(***************************************************************************)
(* The file descriptors the threads of the process share. What opens one   *)
(* gets the lowest that is free, so a number that was closed is the next   *)
(* one to be handed out, to whichever thread asks first.                   *)
(***************************************************************************)
EXTENDS Integers

CONSTANT Fds   (* the descriptors that are left for sockets                *)

ASSUME DescriptorAssumption == Fds \subseteq Nat \ {0}

VARIABLES
  table,   (* what each descriptor is open for, or "free"                  *)
  up       (* whether the process runs: an exception that no thread        *)
           (* catches ends it                                              *)

descriptorVars == <<table, up>>

(* Who reads one of ROKIT's binary interfaces: listenMode for as long as   *)
(* it runs (port 9004), and dmTrigger anew for each trigger (9008, 9011).  *)
Clients == {"mode", "pose"}

Uses == {"customer", "diag"} \cup Clients

DescriptorsInit ==
  /\ table = [fd \in Fds |-> "free"]
  /\ up = TRUE

Exhausted == \A fd \in Fds : table[fd] # "free"

Opens(fd, for) ==
  /\ table[fd] = "free"
  /\ \A other \in Fds : table[other] = "free" => fd <= other
  /\ table' = [table EXCEPT ![fd] = for]

Closes(fd) == table' = [table EXCEPT ![fd] = "free"]

DescriptorsTypeOK == table \in [Fds -> Uses \cup {"free"}] /\ up \in BOOLEAN

HeldFor(for) == {fd \in Fds : table[fd] = for}

=============================================================================
