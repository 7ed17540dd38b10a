-------------------------- MODULE MCEndpointRegistry --------------------------
(***************************************************************************)
(* Instances of EndpointRegistry for TLC: three endpoints that may each    *)
(* name any of three Pools.                                                *)
(***************************************************************************)
EXTENDS EndpointRegistry, TLC

CONSTANTS e1, e2, e3, p1, p2, p3, v

MCSpecs == [id : {e1, e2, e3}, pool : {p1, p2, p3}, volume : {v}]

Symmetry == Permutations({e1, e2, e3}) \union Permutations({p1, p2, p3})

=============================================================================
