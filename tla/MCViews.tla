------------------------------- MODULE MCViews -------------------------------
(* Every page, with two items in its lists.                                 *)
EXTENDS ViewRun

CONSTANTS i1, i2

ViewDef == LET views == AllViews IN views

Interchangeable == Permutations(Items)
=============================================================================
