-------------------------- MODULE MCCatalogCommit --------------------------
(***************************************************************************)
(* CatalogCommit for three voters, supplied in an order that is not the    *)
(* topology's.                                                             *)
(***************************************************************************)
EXTENDS CatalogCommit

CONSTANTS p, q

MCProposals == {p, q}
MCOrders == {<<3, 1, 2>>}
Symmetry == Permutations(MCProposals)
=============================================================================
