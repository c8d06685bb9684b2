------------------------- MODULE MCRegistryCleanup -------------------------
(* A PelTec II and a BioTec-Plus, each with one representative of every way *)
(* in which a parameter comes to be exposed.  Scheme 43: a buffer, and P1   *)
(* the pump of circuit K1.                                                  *)
EXTENDS RegistryCleanup

Both(a, b) == [peltec2 |-> a, biopl |-> b]

MCMapped == Both({"B_Oxy1", "B_Tk1", "B_bup", "B_P1"}, {"B_razina", "B_Oxy1", "B_P1"})
MCDirect == Both({"B_VER", "B_KONF", "B_STATE"}, {"B_VER", "B_KONF", "B_BRAND"})
MCSynthetic == Both({}, {"Device_Type"})
MCLate == Both({"B_Oxy1"}, {"B_razina"})
MCCommanded == Both({"B_CMD", "B_STATE"}, {"B_CMD", "B_STATE"})

MCReportable == {"B_VER", "B_KONF", "B_bup", "B_P1", "K1B_P", "Errors_History", "PVAL_70_0"}

MCNeeds == Both([name \in MCMapped.peltec2 |-> IF name = "B_bup" THEN {"B_KONF"} ELSE {}],
                [name \in MCMapped.biopl |-> {}])
MCTwins == Both([name \in MCMapped.peltec2 |-> IF name = "B_P1" THEN {"K1B_P"} ELSE {}],
                [name \in MCMapped.biopl |-> {}])
=============================================================================
