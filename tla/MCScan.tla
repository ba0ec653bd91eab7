------------------------------- MODULE MCScan -------------------------------
(* Small instances of Scan for TLC. *)
EXTENDS Scan, TLC

MCLimits == {NoLimit, -1, 0, 1, 3}

Interchangeable == Permutations(Ids)

=============================================================================
