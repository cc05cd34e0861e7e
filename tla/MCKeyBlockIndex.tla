-------------------------- MODULE MCKeyBlockIndex --------------------------
(* A 4-bit seq_no space (16 masterchain blocks), up to three recorded      *)
(* blocks, each key or not, with one of two end_lt values.                 *)
EXTENDS KeyBlockIndex

MCLts == {1, 2}
=============================================================================
