--------------------------- MODULE TriggerMailbox ---------------------------
(***************************************************************************)
(* What the pair recCustomerPack / dmTrigger promises to the rest of the   *)
(* add-on: a one-place mailbox that always holds the latest package of the *)
(* code reader, already turned round, and a doorbell that rings only when  *)
(* somebody stands at the door.                                            *)
(*                                                                         *)
(*   - a package is put in and taken out whole;                            *)
(*   - a later package overwrites an earlier one that nobody has taken;    *)
(*   - a package that is put in while the consumer is busy rings nobody:   *)
(*     it stays in the mailbox, and is taken only if something else wakes  *)
(*     the consumer while it is still there;                               *)
(*   - the consumer may also be woken by nothing at all (C++ allows a      *)
(*     condition variable to wake its waiters spuriously), and then takes  *)
(*     whatever the mailbox holds.                                         *)
(***************************************************************************)
EXTENDS Integers

CONSTANTS
  Ids,         (* the code ids the reader may send                         *)
  Deviations   (* the lens deviations it may send, one number for x, y, a  *)

Package == [dmId : Ids, devi : Deviations]

(* The value-initialised CustomerPackage the program starts with.          *)
ZeroPackage == [dmId |-> 0, devi |-> 0]

(* The three negations: the lens seen from the code becomes the code seen  *)
(* from the lens.                                                          *)
Turned(p) == [p EXCEPT !.devi = -@]

VARIABLES
  slot,      (* what the mailbox holds                                     *)
  consumer,  (* "busy", "armed" (waiting) or "rung" (woken, not yet taken) *)
  taken      (* the packages the consumer is working on: none or one       *)

mailboxVars == <<slot, consumer, taken>>

MailboxInit ==
  /\ slot = ZeroPackage
  /\ consumer = "busy"
  /\ taken = {}

Publish(p) ==
  /\ slot' = Turned(p)
  /\ consumer' = IF consumer = "armed" THEN "rung" ELSE consumer
  /\ UNCHANGED taken

Arm ==
  /\ consumer = "busy"
  /\ taken = {}
  /\ consumer' = "armed"
  /\ UNCHANGED <<slot, taken>>

RingSpuriously ==
  /\ consumer = "armed"
  /\ consumer' = "rung"
  /\ UNCHANGED <<slot, taken>>

Take ==
  /\ consumer = "rung"
  /\ consumer' = "busy"
  /\ taken' = {slot}
  /\ UNCHANGED slot

Finish ==
  /\ taken # {}
  /\ taken' = {}
  /\ UNCHANGED <<slot, consumer>>

MailboxNext ==
  \/ \E p \in Package : Publish(p)
  \/ Arm
  \/ RingSpuriously
  \/ Take
  \/ Finish

MailboxSpec == MailboxInit /\ [][MailboxNext]_mailboxVars

=============================================================================
