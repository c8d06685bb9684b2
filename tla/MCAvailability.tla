--------------------------- MODULE MCAvailability ---------------------------
(* Model values for Availability: two entities, the tick and one command. *)
EXTENDS Availability, TLC

Symmetry == Permutations(Entities)
=============================================================================
