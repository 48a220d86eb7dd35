---------------------------- MODULE MCVerification ----------------------------
(* A level that checks two things, and any two transactions at once. *)
EXTENDS VerificationGate, TLC

CONSTANTS s1, s2, address, bureau

TwoSessions == {s1, s2}
TwoSubSteps == {address, bureau}

\* Sessions are interchangeable, and so are sub-steps.
Alike == Permutations(TwoSessions) \cup Permutations(TwoSubSteps)
=============================================================================
