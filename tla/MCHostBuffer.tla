---------------------------- MODULE MCHostBuffer ----------------------------
(***************************************************************************)
(* Small instances of HostBuffer: buffers and pools are interchangeable.   *)
(***************************************************************************)
EXTENDS HostBuffer, TLC

Symmetry == Permutations(Buffers) \union Permutations(Pools)

=============================================================================
