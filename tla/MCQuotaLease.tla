---------------------------- MODULE MCQuotaLease ----------------------------
(***************************************************************************)
(* QuotaLease on small instances.                                          *)
(***************************************************************************)
EXTENDS QuotaLease, TLC

Symmetry == Permutations(Edges) \cup Permutations(Slots)

=============================================================================
