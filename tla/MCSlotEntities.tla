--------------------------- MODULE MCSlotEntities ---------------------------
(* An installation with one editable setting or one heating circuit. *)
EXTENDS SlotEntities

MCReadings == [name \in {"value", "minimum", "maximum", "PVAL", "PMIN", "PMAX", "fallback"} |->
                CASE name = "value"          -> {1, 2}
                  [] name = "minimum"        -> {0}
                  [] name = "maximum"        -> {3}
                  [] name = "PVAL"           -> {0, 2, 3}
                  [] name \in {"PMIN", "PMAX"} -> {2}
                  [] name = "fallback"       -> {0, 1}]
=============================================================================
