----------------------------- MODULE AutoRunClient -----------------------------
(***************************************************************************)
(* The browser's driver of one case: the levels one after the other, then  *)
(* Phase 1 (src/frontend/src/components/autorun/AutoRunProvider.tsx).      *)
(* Every tab has a React state of its own and writes all of it to          *)
(* localStorage whenever it changes; a reload loses the runner and keeps   *)
(* what was stored.                                                        *)
(*                                                                         *)
(* What the server did before a closed tab's call was cut off is decided   *)
(* when the tab closes.                                                    *)
(***************************************************************************)
EXTENDS Naturals, Sequences

CONSTANTS Tabs,         \* browser tabs of one user
          Levels,       \* the levels, in the order they are fired
          PhaseOne,     \* the last step, which starts Phase 1
          MaxOpens,     \* bound: tabs opened and reloaded
          MaxClicks     \* bound: runs started, resumed and repeated

VARIABLES server,       \* per step: the latest result the server has
          storage,      \* the run in localStorage
          tabs,         \* per tab: is it open, its run, its runner
          opens, clicks

vars == <<server, storage, tabs, opens, clicks>>

STEP_ORDER == Append(Levels, PhaseOne)
Keys == {STEP_ORDER[i] : i \in DOMAIN STEP_ORDER}

\* A result that can be recovered is blocked for missing data, or a run of Phase 1 that
\* is pending or failed.
Results == {"verdict", "blocked", "recoverable"}
Statuses == {"pending", "running", "done", "failed", "interrupted"}

NoRun == [step |-> << >>, completed |-> FALSE, blocked |-> FALSE]
Fresh == [step |-> [k \in Keys |-> "pending"], completed |-> FALSE, blocked |-> FALSE]
Has(run, status) == \E k \in DOMAIN run.step : run.step[k] = status

\* asking: rerunAll is finding out what needs a re-run.
Idle == [pc |-> "idle", at |-> 1, force |-> FALSE, only |-> {}, l6 |-> FALSE, fired |-> << >>]
Closed == [open |-> FALSE, run |-> NoRun, asking |-> FALSE, runner |-> Idle]

Init ==
    /\ server = [k \in Keys |-> "none"] /\ storage = NoRun
    /\ tabs = [t \in Tabs |-> Closed] /\ opens = 0 /\ clicks = 0

(***************************************************************************)
(* The reducer, and the effect that persists what it returns.  A run that  *)
(* is not there stays away, and nothing is written.                        *)
(***************************************************************************)
Dispatch(tab, t, run) ==
    /\ tabs' = [tabs EXCEPT ![t] = [tab EXCEPT !.run = run]]
    /\ storage' = IF run = tabs[t].run THEN storage ELSE run
Mark(run, S, status) ==
    IF run = NoRun THEN run
    ELSE [run EXCEPT !.step = [k \in Keys |-> IF k \in S THEN status ELSE @[k]]]
RUN_COMPLETE(run) == IF run = NoRun THEN run ELSE [run EXCEPT !.completed = TRUE]
RUN_BLOCKED(run) ==
    IF run = NoRun THEN run ELSE [Fresh EXCEPT !.completed = TRUE, !.blocked = TRUE]

\* Any other change of a tab's state: a modal, another case's run.
Touch(t) ==
    /\ tabs[t].open /\ storage # tabs[t].run /\ storage' = tabs[t].run
    /\ UNCHANGED <<server, tabs, opens, clicks>>

DISMISS(t) ==
    /\ tabs[t].run.completed
    /\ Dispatch(tabs[t], t, NoRun) /\ UNCHANGED <<server, opens, clicks>>

(***************************************************************************)
(* Tabs                                                                    *)
(***************************************************************************)
\* Seeded fault: a step that was running when the page went stays so.
KeptRunning(run) == run
Hydrated(run) == Mark(run, {k \in DOMAIN run.step : run.step[k] = "running"}, "interrupted")

Open(t) ==
    /\ ~tabs[t].open /\ opens < MaxOpens /\ opens' = opens + 1
    /\ storage' = Hydrated(storage)
    /\ tabs' = [tabs EXCEPT ![t] = [Closed EXCEPT !.open = TRUE, !.run = Hydrated(storage)]]
    /\ UNCHANGED <<server, clicks>>

Runner(t) == tabs[t].runner
InFlight(t) == Runner(t).pc # "idle"

Close(t) ==
    /\ tabs[t].open /\ Runner(t).pc # "calling"
    /\ tabs' = [tabs EXCEPT ![t] = Closed]
    /\ UNCHANGED <<server, storage, opens, clicks>>

(***************************************************************************)
(* startAutoRun, resume and rerunAll                                       *)
(***************************************************************************)
Click(t) == tabs[t].open /\ clicks < MaxClicks /\ clicks' = clicks + 1

\* runAll returns at once while a runner of this tab is at work on the case.
Waiting(t, force, only) ==
    IF InFlight(t) THEN Runner(t)
    ELSE [Idle EXCEPT !.pc = "waiting", !.force = force, !.only = only]

\* From the trigger, and after a finalize or a re-ingest, whatever the run's state.
startAutoRun(t) ==
    /\ Click(t)
    /\ Dispatch([tabs[t] EXCEPT !.runner = Waiting(t, FALSE, Keys)], t, Fresh)
    /\ UNCHANGED <<server, opens>>

resume(t) ==
    /\ Click(t) /\ ~tabs[t].run.completed /\ Has(tabs[t].run, "interrupted")
    /\ tabs' = [tabs EXCEPT ![t].runner = Waiting(t, FALSE, Keys)]
    /\ storage' = tabs[t].run
    /\ UNCHANGED <<server, opens>>

rerunAll(t) ==
    /\ Click(t) /\ ~tabs[t].asking /\ tabs[t].run # NoRun
    /\ Dispatch([tabs[t] EXCEPT !.asking = TRUE], t, Fresh)
    /\ UNCHANGED <<server, opens>>

\* Seeded fault: a level that never ran needs no re-run.
OnlyRecoverable == {k \in Keys : server[k] = "recoverable"}
Needed == {k \in Keys : server[k] \in {"none", "recoverable"}}

\* A level whose issues could not be fetched is run again, and so is Phase 1.
identifyStepsNeedingRerun(t, unread) ==
    /\ tabs[t].asking /\ unread \subseteq {k \in Keys : server[k] = "blocked" \/ k = PhaseOne}
    /\ tabs' = [tabs EXCEPT ![t].asking = FALSE,
                            ![t].runner = Waiting(t, TRUE, Needed \cup unread)]
    /\ UNCHANGED <<server, storage, opens, clicks>>

\* Without an overview everything is run again.
NoOverview(t) ==
    /\ tabs[t].asking
    /\ tabs' = [tabs EXCEPT ![t].asking = FALSE, ![t].runner = Waiting(t, TRUE, Keys)]
    /\ UNCHANGED <<server, storage, opens, clicks>>

(***************************************************************************)
(* runAll                                                                  *)
(***************************************************************************)
\* The loop from one call to the next is one turn of the event loop: it sees what was
\* stored before it.  A step that is not among those asked for is passed and counts as
\* done; one that is stored as done is passed and left as this tab has it.
Stored(k) == IF storage = NoRun THEN "none" ELSE storage.step[k]
\* Seeded fault: what has failed is passed as well.
DoneOrFailed(r, k) == k \notin r.only \/ (~r.force /\ Stored(k) \in {"done", "failed"})
Skipped(r, k) == k \notin r.only \/ (~r.force /\ Stored(k) = "done")

Steps == DOMAIN STEP_ORDER
Reached(r) ==
    LET ahead == {i \in Steps : i >= r.at /\ ~Skipped(r, STEP_ORDER[i])}
    IN IF ahead = {} THEN Len(STEP_ORDER) + 1 ELSE CHOOSE i \in ahead : \A j \in ahead : i <= j
PassedBy(r) == {STEP_ORDER[i] : i \in {j \in Steps : r.at <= j /\ j < Reached(r)}}
L6Fired(r) == r.l6 \/ PhaseOne \in PassedBy(r)

\* The step to fire; after the loop, Phase 1 if the loop never came to it.
Due(r) ==
    IF Reached(r) \in Steps THEN STEP_ORDER[Reached(r)]
    ELSE IF r.at <= Len(STEP_ORDER) + 1 /\ ~L6Fired(r) /\ PhaseOne \in r.only
         THEN PhaseOne ELSE "none"

Advance(t, r, run) ==
    LET passed == Mark(run, PassedBy(r) \ r.only, "done")
    IN IF Due(r) = "none"
       THEN Dispatch([tabs[t] EXCEPT !.runner = Idle], t, RUN_COMPLETE(passed))
       ELSE Dispatch([tabs[t] EXCEPT !.runner =
                         [r EXCEPT !.pc = "calling", !.at = Reached(r) + 1, !.l6 = L6Fired(r),
                                   !.fired = Append(@, Due(r))]],
                     t, Mark(passed, {Due(r)}, "running"))

\* waitForCaseReady, of a case whose stage CaseIngestion has.
Ready(t) ==
    /\ Runner(t).pc = "waiting" /\ Advance(t, Runner(t), tabs[t].run)
    /\ UNCHANGED <<server, opens, clicks>>
MissingDocs(t) ==
    /\ Runner(t).pc = "waiting"
    /\ Dispatch([tabs[t] EXCEPT !.runner = Idle], t, RUN_BLOCKED(tabs[t].run))
    /\ UNCHANGED <<server, opens, clicks>>
NeverReady(t) ==
    /\ Runner(t).pc = "waiting"
    /\ Dispatch([tabs[t] EXCEPT !.runner = Idle], t,
                RUN_COMPLETE(Mark(tabs[t].run, Keys, "failed")))
    /\ UNCHANGED <<server, opens, clicks>>

\* The call leaves a result of its own, or the previous one.
Called(t) == Runner(t).fired[Len(Runner(t).fired)]
Served(t, result) ==
    /\ Runner(t).pc = "calling"
    /\ Called(t) = PhaseOne => result # "blocked"
    /\ server' = [server EXCEPT ![Called(t)] = result]
Unserved(t) == Runner(t).pc = "calling" /\ UNCHANGED server

\* Seeded fault: only a start of Phase 1 that succeeds is remembered.
AnsweredIfOk(r, key, ok) == [r EXCEPT !.l6 = @ \/ (key = PhaseOne /\ ok)]
Answered(r, key, ok) == [r EXCEPT !.l6 = @ \/ key = PhaseOne]

Answer(t, ok) ==
    /\ Advance(t, Answered(Runner(t), Called(t), ok),
               Mark(tabs[t].run, {Called(t)}, IF ok THEN "done" ELSE "failed"))
    /\ UNCHANGED <<opens, clicks>>
CutOff(t) ==
    /\ tabs' = [tabs EXCEPT ![t] = Closed] /\ UNCHANGED <<storage, opens, clicks>>

Next ==
    \E t \in Tabs :
        \/ Open(t) \/ Close(t) \/ Touch(t) \/ DISMISS(t)
        \/ startAutoRun(t) \/ resume(t) \/ rerunAll(t)
        \/ \E unread \in SUBSET Keys : identifyStepsNeedingRerun(t, unread)
        \/ NoOverview(t) \/ Ready(t) \/ MissingDocs(t) \/ NeverReady(t)
        \/ \E result \in Results :
              Served(t, result) /\ (Answer(t, TRUE) \/ Answer(t, FALSE) \/ CutOff(t))
        \/ Unserved(t) /\ (Answer(t, FALSE) \/ CutOff(t))

Spec == Init /\ [][Next]_vars

-----------------------------------------------------------------------------
Run == [step : [Keys -> Statuses], completed : BOOLEAN, blocked : BOOLEAN]
TypeOK ==
    /\ server \in [Keys -> Results \cup {"none"}] /\ storage \in Run \cup {NoRun}
    /\ \A t \in Tabs : /\ tabs[t].run \in Run \cup {NoRun}
                       /\ Runner(t).pc \in {"idle", "waiting", "calling"}
                       /\ Runner(t).only \in SUBSET Keys

\* A step that a tab, or the store, shows as done has a result on the server: it was
\* answered once, or the re-run found one.  This survives reloads, other tabs' writes
\* of what they remember, lost answers and a server that has moved on.
DoneWasServed ==
    \A run \in {storage} \cup {tabs[t].run : t \in Tabs}, k \in Keys :
        run # NoRun /\ run.step[k] = "done" => server[k] # "none"

\* Phase 1 is not started before every level was at least tried: fired by the same run,
\* or by whoever gave it the result the server has.
LevelsBeforeDecision ==
    \A t \in Tabs :
        LET fired == Runner(t).fired
            Fired(k) == \E i \in DOMAIN fired : fired[i] = k
        IN Fired(PhaseOne) => \A k \in Keys \ {PhaseOne} : Fired(k) \/ server[k] # "none"

\* One run fires no step twice, Phase 1 least of all, also when its start failed.
FiredOnce ==
    \A t \in Tabs : \A i, j \in DOMAIN Runner(t).fired :
        Runner(t).fired[i] = Runner(t).fired[j] => i = j

\* A run that no runner of its tab drives can be resumed or has ended, wherever the
\* reload or the other tab's write hit it.  (Not so one whose steps are all pending, as
\* while ingestion is awaited: it can be neither resumed, repeated nor dismissed.)
Restartable ==
    \A t \in Tabs : tabs[t].run # NoRun /\ ~InFlight(t) =>
        \/ tabs[t].run.completed \/ Has(tabs[t].run, "interrupted")
        \/ \A k \in Keys : tabs[t].run.step[k] = "pending"
===============================================================================
