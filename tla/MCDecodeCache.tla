---------------------------- MODULE MCDecodeCache ----------------------------
(* A small and a large entry: one may go to RAM, both may go to disk.       *)
EXTENDS DecodeCache

CONSTANTS small, large

MCSize == [e \in {small, large} |-> IF e = small THEN 1 ELSE 2]
MCDiskSize == [e \in {small, large} |-> IF e = small THEN 2 ELSE 3]
=============================================================================
