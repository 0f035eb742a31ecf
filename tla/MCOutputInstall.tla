--------------------------- MODULE MCOutputInstall ---------------------------
(* Two launches that share the temporary directory and the output path.     *)
EXTENDS OutputInstall
=============================================================================
