------------------------------ MODULE MCBuffer ------------------------------
(***************************************************************************)
(* Buffer on a small instance. Buffers, slots and descriptors are          *)
(* interchangeable.                                                        *)
(***************************************************************************)
EXTENDS Buffer, TLC

Interchangeable == Permutations(Bufs) \union Permutations(Fds) \union Permutations(Slots)

=============================================================================
