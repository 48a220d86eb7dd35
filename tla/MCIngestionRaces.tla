--------------------------- MODULE MCIngestionRaces ---------------------------
(* Two sessions: any two transactions on the case may overlap. *)
EXTENDS CaseIngestion, TLC

CONSTANTS pan, s1, s2

OneDoc == {pan}
EmptyOrFull == {{}, {pan}}

\* Sessions are interchangeable, and the run checks no liveness.
TwoSessions == {s1, s2}
Alike == Permutations(TwoSessions)
=============================================================================
