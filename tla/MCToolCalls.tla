---------------------------- MODULE MCToolCalls ----------------------------
(* Small instances of ToolCalls for TLC. *)
EXTENDS ToolCalls, TLC

Interchangeable == Permutations(Invocations)

=============================================================================
