------------------------------ MODULE MCUpkeep ------------------------------
(***************************************************************************)
(* Upkeep on small instances: two libraries, of which one may be filled at *)
(* the start, and two texts close enough to merge, as long or not.         *)
(***************************************************************************)
EXTENDS Upkeep

MCText == 1 .. 2
MCEqual == [t \in MCText |-> 10]
MCCosine == [s \in MCText |-> [t \in MCText |-> IF s = t THEN 100 ELSE 98]]

MCKept == {Fresh(None, FALSE), Diverted, [Fresh(None, FALSE) EXCEPT !.archived = TRUE]}

=============================================================================
