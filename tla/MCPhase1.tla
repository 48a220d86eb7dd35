------------------------------- MODULE MCPhase1 -------------------------------
(* Three steps: the policy gate, a step the verification gate covers, and the  *)
(* synthesis.                                                                  *)
EXTENDS Phase1Decisioning, TLC

CONSTANTS a1, o1, w1, w2

OneWorker == {w1}
TwoWorkers == {w1, w2}
OneApi == {a1}
OneOther == {o1}
MiddleStep == {2}

\* Workers are interchangeable, in runs that check no liveness.
Alike == Permutations(TwoWorkers)
=============================================================================
