--------------------------- MODULE MCHttpBoundary ---------------------------
(* Small instances of HttpBoundary for TLC. *)
EXTENDS HttpBoundary, TLC

Interchangeable == Permutations(Workers) \cup Permutations(Minted)

=============================================================================
