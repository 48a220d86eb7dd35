------------------------------ MODULE LevelRules ------------------------------
(***************************************************************************)
(* What the orchestrators of all verification levels do with the issues    *)
(* their rules fire (the end of each run_level_* function and              *)
(* level_1_address.filter_suppressed_issues).                              *)
(*                                                                         *)
(* A rule returns the severity of the issue it fires, "ok" without one;    *)
(* the issues of a run map its rules to severities.                        *)
(***************************************************************************)
EXTENDS Integers, FiniteSets

Severity == {"ok", "WARNING", "CRITICAL"}
Rank(sev) == CASE sev = "ok" -> 0 [] sev = "WARNING" -> 1 [] sev = "CRITICAL" -> 2

Fired(issues) == {r \in DOMAIN issues : issues[r] # "ok"}

\* Rules the MD has switched off leave no issue.
filter_suppressed_issues(issues, suppressed) ==
    [r \in DOMAIN issues |-> IF r \in suppressed THEN "ok" ELSE issues[r]]

\* One critical issue blocks the level.
LevelVerdict(issues) ==
    IF \E r \in DOMAIN issues : issues[r] = "CRITICAL" THEN "BLOCKED" ELSE "PASSED"

Flag(condition, sev) == IF condition THEN sev ELSE "ok"
=============================================================================
