---------------------------- MODULE MCKmemCache -----------------------------
(***************************************************************************)
(* A heap of seven pages, blocks of up to four, and slabs of two slots.      *)
(***************************************************************************)
EXTENDS KmemCache

MaxSlabs == 3

\* Nothing is explored after a fault, once a slab is on two lists, or with more
\* than three slabs.
Sound == failed = "no" /\ ~tangled /\ Cardinality(DOMAIN next) <= MaxSlabs
=============================================================================
