--------------------------- MODULE MCOrderedBlocks ---------------------------
(* Two workers, and more blocks than their window holds.                    *)
EXTENDS OrderedBlocks
=============================================================================
