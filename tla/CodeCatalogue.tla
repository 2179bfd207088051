---------------------------- MODULE CodeCatalogue ----------------------------
(***************************************************************************)
(* What the add-on promises of the user database to the operator who reads *)
(* it, whatever happens in between: a catalogue of codes in which main and *)
(* the operator take turns. A code is learned once and not forgotten, is   *)
(* counted one observation at a time, keeps its place unless it is         *)
(* recommended a new one while it is not enabled, and keeps its            *)
(* recommendation. What is written may undo the operator's last decision,  *)
(* because it is decided upon earlier than it is written.                  *)
(***************************************************************************)
EXTENDS Integers

CONSTANTS
  Ids,    (* code ids                                                      *)
  Poses   (* places                                                        *)

VARIABLE catalogue   (* a set of entries                                   *)

CatalogueInit == catalogue = {}

(* A code that is not in the catalogue is seen for the first time.         *)
Learn(i, p) ==
  /\ \A entry \in catalogue : entry.id # i
  /\ catalogue' = catalogue \cup
       {[id |-> i, place |-> p, count |-> 1, recommended |-> FALSE, enabled |-> FALSE]}

Rewrite(old, new) == catalogue' = (catalogue \ {old}) \cup {new}

(* What becomes of an entry when its code is observed again.              *)
Again(entry, place, recommended, enabled) ==
  [id |-> entry.id, place |-> place, count |-> entry.count + 1,
   recommended |-> recommended, enabled |-> enabled]

(* Another observation of a code, which stays where it is.                 *)
Observe(entry, recommended, enabled) ==
  /\ entry.recommended => recommended
  /\ Rewrite(entry, Again(entry, entry.place, recommended, enabled))

(* Another observation, on which the code is recommended a place.          *)
Recommend(entry, p) == Rewrite(entry, Again(entry, p, TRUE, FALSE))

(* The operator.                                                           *)
Decide(entry) == Rewrite(entry, [entry EXCEPT !.enabled = ~@])

(* One code at a time: a new entry, or one that is no longer as it was.    *)
CatalogueNext ==
  \/ \E i \in Ids, p \in Poses : Learn(i, p)
  \/ \E entry \in catalogue \ catalogue' :
       \/ \E recommended, enabled \in BOOLEAN : Observe(entry, recommended, enabled)
       \/ \E p \in Poses : Recommend(entry, p)
       \/ Decide(entry)

CatalogueSpec == CatalogueInit /\ [][CatalogueNext]_catalogue

=============================================================================
