----------------------------- MODULE MCSessions -----------------------------
(***************************************************************************)
(* Sessions on small instances.  Tabs, and accounts, are interchangeable.  *)
(***************************************************************************)
EXTENDS Sessions, TLC

Symmetry == Permutations(Tabs) \cup Permutations(Users)
=============================================================================
