---------------------------- MODULE MCGuiSession ----------------------------
(* Three Paks, one thread that inspects them, two conflicts to choose in,    *)
(* one of them with a variant in each of two Paks, and a third to read.      *)
EXTENDS GuiSession

CONSTANTS p, q, c, d, e

MCVariants == [k \in {c, d, e} |-> IF k = d THEN {p} ELSE {p, q}]
=============================================================================
