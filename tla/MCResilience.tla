---------------------------- MODULE MCResilience ----------------------------
(* Small instances of Resilience for TLC. *)
EXTENDS Resilience, TLC

\* Two timed phases stand for the four of an exchange: connecting and reading.
MCPhaseTimeout == [p \in 1..NPhases |-> p]

Symmetric == Permutations(Invocations)

=============================================================================
