--------------------------- MODULE MCCallRuntime ---------------------------
(***************************************************************************)
(* The call runtime over two states of the world that nothing tells apart. *)
(***************************************************************************)
EXTENDS CallRuntime

\* Worlds are only saved, restored and compared.
WorldSymmetry == Permutations(Worlds)
=============================================================================
