----------------------------- MODULE ClientProofs -----------------------------
(***************************************************************************)
(* What a run of the auto-run client does and shows, for any number of     *)
(* tabs and any list of levels.  It fires no step twice: the loop only     *)
(* looks ahead, and the branch after it that starts Phase 1 "if it never   *)
(* ran" finds that the loop has fired it, or passed it.  What it shows as  *)
(* done has a result, Phase 1 comes after the levels, and a run that       *)
(* nobody drives can be resumed or has ended.                              *)
(***************************************************************************)
EXTENDS AutoRunClient, SequenceTheorems, WellFoundedInduction, TLAPS

\* The levels are distinct, and Phase 1 is not one of them.
LevelsDistinct ==
    /\ \E S : Levels \in Seq(S)
    /\ \A i, j \in DOMAIN Levels : Levels[i] = Levels[j] => i = j
    /\ \A i \in DOMAIN Levels : Levels[i] # PhaseOne

Last == Len(STEP_ORDER)

LEMMA StepOrder ==
    ASSUME LevelsDistinct
    PROVE  /\ STEP_ORDER \in Seq(Keys) /\ Last \in Nat \ {0} /\ Steps = 1..Last
           /\ STEP_ORDER[Last] = PhaseOne /\ PhaseOne \in Keys
           /\ \A i, j \in Steps : STEP_ORDER[i] = STEP_ORDER[j] => i = j
           /\ \A i \in Steps : STEP_ORDER[i] \in Keys
<1>1. PICK S : Levels \in Seq(S)
  BY DEF LevelsDistinct
<1> DEFINE T == S \cup {PhaseOne}
<1>2. Levels \in Seq(T) /\ PhaseOne \in T
  BY <1>1, SeqDef
<1>3. /\ STEP_ORDER \in Seq(T) /\ Len(STEP_ORDER) = Len(Levels) + 1
      /\ \A i \in 1..Len(Levels) : STEP_ORDER[i] = Levels[i]
      /\ STEP_ORDER[Len(Levels) + 1] = PhaseOne
  BY <1>2, AppendProperties DEF STEP_ORDER
<1>4. Len(Levels) \in Nat /\ DOMAIN Levels = 1..Len(Levels) /\ Steps = 1..Last
  BY <1>2, <1>3, LenProperties DEF Steps, Last
<1>5. Last = Len(Levels) + 1
  BY <1>3 DEF Last
<1>6. \A i \in Steps : STEP_ORDER[i] \in Keys
  BY DEF Steps, Keys
<1>7. STEP_ORDER \in Seq(Keys)
  BY <1>3, <1>6, SeqDef, LenProperties DEF Steps
<1>8. \A i, j \in Steps : STEP_ORDER[i] = STEP_ORDER[j] => i = j
  <2> SUFFICES ASSUME NEW i \in Steps, NEW j \in Steps, STEP_ORDER[i] = STEP_ORDER[j]
               PROVE  i = j
    OBVIOUS
  <2>1. CASE i \in 1..Len(Levels) /\ j \in 1..Len(Levels)
    BY <1>3, <1>4, <2>1 DEF LevelsDistinct
  <2>2. CASE i = Last \/ j = Last
    BY <1>3, <1>4, <1>5, <2>2 DEF LevelsDistinct
  <2> QED
    BY <1>4, <1>5, <2>1, <2>2
<1> QED
  BY <1>3, <1>4, <1>5, <1>6, <1>7, <1>8 DEF Steps

(***************************************************************************)
(* The inductive invariant.                                                *)
(***************************************************************************)
Runners ==
    [pc : {"idle", "waiting", "calling"}, at : Nat, force : BOOLEAN, only : SUBSET Keys,
     l6 : BOOLEAN, fired : Seq(Keys)]

\* What a runner has fired lies behind it, each step once.
Behind(r) ==
    /\ \A i \in DOMAIN r.fired : \E j \in Steps : j < r.at /\ r.fired[i] = STEP_ORDER[j]
    /\ \A i, j \in DOMAIN r.fired : r.fired[i] = r.fired[j] => i = j

\* At the end of the loop Phase 1 is accounted for: noted, or being called.
Ended(r) == r.at > Last => r.l6
Calling(r) ==
    r.pc = "calling" =>
        /\ Len(r.fired) # 0
        /\ r.at > Last => r.l6 \/ r.fired[Len(r.fired)] = PhaseOne

Sound(r) ==
    /\ r \in Runners /\ Behind(r) /\ Calling(r)
    /\ r.pc # "calling" => Ended(r)

HasRunner(tab) == "runner" \in DOMAIN tab

IInv ==
    /\ DOMAIN tabs = Tabs
    /\ \A t \in Tabs : HasRunner(tabs[t]) /\ Sound(tabs[t].runner)

LEMMA NotBegunSound ==
    ASSUME LevelsDistinct, NEW pc \in {"idle", "waiting"}, NEW force \in BOOLEAN,
           NEW only \in SUBSET Keys
    PROVE  Sound([pc |-> pc, at |-> 1, force |-> force, only |-> only, l6 |-> FALSE,
                  fired |-> << >>])
<1> DEFINE r == [pc |-> pc, at |-> 1, force |-> force, only |-> only, l6 |-> FALSE,
                 fired |-> << >>]
<1>1. r.pc = pc /\ r.at = 1 /\ r.fired = << >> /\ << >> \in Seq(Keys) /\ DOMAIN << >> = {}
  OBVIOUS
<1>2. r \in Runners
  BY <1>1 DEF Runners
<1>3. Behind(r)
  BY <1>1 DEF Behind
<1>4. Calling(r)
  BY <1>1 DEF Calling
<1>5. Ended(r)
  BY <1>1, StepOrder DEF Ended
<1> QED
  BY <1>2, <1>3, <1>4, <1>5 DEF Sound

LEMMA IdleSound == ASSUME LevelsDistinct PROVE Sound(Idle)
BY NotBegunSound DEF Idle

LEMMA WaitingSound ==
    ASSUME LevelsDistinct, IInv, NEW t \in Tabs, NEW force \in BOOLEAN,
           NEW only \in SUBSET Keys
    PROVE  Sound(Waiting(t, force, only))
<1>1. CASE InFlight(t)
  BY <1>1 DEF Waiting, Runner, IInv
<1>2. CASE ~InFlight(t)
  <2>1. Waiting(t, force, only) =
            [pc |-> "waiting", at |-> 1, force |-> force, only |-> only, l6 |-> FALSE,
             fired |-> << >>]
    BY <1>2 DEF Waiting, Idle
  <2> QED
    BY <2>1, NotBegunSound
<1> QED
  BY <1>1, <1>2

LEMMA InitInv == ASSUME LevelsDistinct PROVE Init => IInv
<1> SUFFICES ASSUME Init PROVE IInv
  OBVIOUS
<1>1. DOMAIN tabs = Tabs /\ \A t \in Tabs : tabs[t] = Closed
  BY DEF Init
<1>2. HasRunner(Closed) /\ Closed.runner = Idle
  BY DEF Closed, HasRunner
<1> QED
  BY <1>1, <1>2, IdleSound DEF IInv

\* A step that gives one tab a sound runner keeps the invariant.
LEMMA OneTab ==
    ASSUME IInv, NEW t \in Tabs, NEW tab, tabs' = [tabs EXCEPT ![t] = tab],
           HasRunner(tab), Sound(tab.runner)
    PROVE  IInv'
<1>1. DOMAIN tabs' = Tabs /\ tabs'[t] = tab
  BY DEF IInv
<1>2. \A u \in Tabs \ {t} : tabs'[u] = tabs[u]
  BY DEF IInv
<1>3. \A u \in Tabs : HasRunner(tabs'[u]) /\ Sound(tabs'[u].runner)
  BY <1>1, <1>2 DEF IInv
<1> QED
  BY <1>1, <1>3 DEF IInv

(***************************************************************************)
(* The loop.                                                               *)
(***************************************************************************)
LEMMA LeastOfNats ==
    ASSUME NEW S \in SUBSET Nat, S # {}
    PROVE  \E i \in S : \A j \in S : i <= j
<1> DEFINE R == {p \in Nat \X Nat : p[1] < p[2]}
<1>1. IsWellFoundedOn(R, Nat)
  BY NatLessThanWellFounded DEF OpToRel
<1> HIDE DEF R
<1>2. PICK i \in S : \A j \in S : ~ (<<j, i>> \in R)
  BY <1>1, WFMin
<1>3. \A j \in S : ~ (j < i)
  BY <1>2 DEF R
<1> QED
  BY <1>3

LEMMA ReachedAhead ==
    ASSUME LevelsDistinct, NEW r \in Runners
    PROVE  \/ Reached(r) \in Steps /\ r.at <= Reached(r)
           \/ Reached(r) = Last + 1
<1> DEFINE ahead == {i \in Steps : i >= r.at /\ ~Skipped(r, STEP_ORDER[i])}
<1>1. CASE ahead = {}
  BY <1>1 DEF Reached, Last
<1>2. CASE ahead # {}
  <2>1. \E i \in ahead : \A j \in ahead : i <= j
    <3>1. ahead \in SUBSET Nat
      BY StepOrder
    <3> QED
      BY <1>2, <3>1, LeastOfNats
  <2>2. (CHOOSE i \in ahead : \A j \in ahead : i <= j) \in ahead
    BY <2>1
  <2> QED
    BY <1>2, <2>2, StepOrder DEF Reached, Runners
<1> QED
  BY <1>1, <1>2

\* After the loop nothing is due: Phase 1 was fired in it, or passed.
LEMMA NothingAfterLoop ==
    ASSUME LevelsDistinct, NEW r \in Runners, Ended(r), Reached(r) = Last + 1
    PROVE  Due(r) = "none"
<1>1. Reached(r) \notin Steps
  BY StepOrder
<1>2. r.at <= Last => PhaseOne \in PassedBy(r)
  <2> SUFFICES ASSUME r.at <= Last PROVE PhaseOne \in PassedBy(r)
    OBVIOUS
  <2>1. Last \in Steps /\ r.at <= Last /\ Last < Reached(r)
    BY StepOrder
  <2> QED
    BY <2>1, StepOrder DEF PassedBy
<1>3. L6Fired(r)
  BY <1>2, StepOrder DEF L6Fired, Ended, Runners
<1> QED
  BY <1>1, <1>3 DEF Due

NextRunner(r) ==
    IF Due(r) = "none" THEN Idle
    ELSE [r EXCEPT !.pc = "calling", !.at = Reached(r) + 1, !.l6 = L6Fired(r),
                   !.fired = Append(@, Due(r))]

LEMMA LoopSound ==
    ASSUME LevelsDistinct, NEW r \in Runners, Behind(r), Ended(r)
    PROVE  Sound(NextRunner(r))
<1>1. CASE Due(r) = "none"
  BY <1>1, IdleSound DEF NextRunner
<1>2. CASE Due(r) # "none"
  <2> DEFINE n == NextRunner(r)
             d == STEP_ORDER[Reached(r)]
  <2>1. Reached(r) \in Steps /\ r.at <= Reached(r) /\ Due(r) = d
    BY <1>2, ReachedAhead, NothingAfterLoop DEF Due
  <2>2. d \in Keys /\ Reached(r) \in Nat
    BY <2>1, StepOrder
  <2>3. /\ n.pc = "calling" /\ n.at = Reached(r) + 1 /\ n.fired = Append(r.fired, d)
        /\ n = [pc |-> "calling", at |-> Reached(r) + 1, force |-> r.force, only |-> r.only,
                l6 |-> L6Fired(r), fired |-> Append(r.fired, d)]
    BY <1>2, <2>1 DEF NextRunner, Runners
  <2>4. r.fired \in Seq(Keys) /\ r.at \in Nat
    BY DEF Runners
  <2>5. /\ n.fired \in Seq(Keys) /\ Len(n.fired) = Len(r.fired) + 1
        /\ n.fired[Len(r.fired) + 1] = d
        /\ \A i \in 1..Len(r.fired) : n.fired[i] = r.fired[i]
        /\ DOMAIN r.fired = 1..Len(r.fired) /\ Len(r.fired) \in Nat
        /\ DOMAIN n.fired = 1..(Len(r.fired) + 1)
    <3>1. Append(r.fired, d) \in Seq(Keys) /\ Len(Append(r.fired, d)) = Len(r.fired) + 1
      BY <2>2, <2>4, AppendProperties
    <3> QED
      BY <2>2, <2>3, <2>4, <3>1, AppendProperties, LenProperties
  <2>6. n \in Runners
    <3>1. L6Fired(r) \in BOOLEAN
      BY DEF L6Fired, Runners
    <3>2. r.force \in BOOLEAN /\ r.only \in SUBSET Keys /\ Reached(r) + 1 \in Nat
      BY <2>2 DEF Runners
    <3>3. Append(r.fired, d) \in Seq(Keys)
      BY <2>3, <2>5
    <3> QED
      BY <2>3, <3>1, <3>2, <3>3 DEF Runners
  <2>7. \A i \in DOMAIN n.fired : \E j \in Steps : j < n.at /\ n.fired[i] = STEP_ORDER[j]
    <3> SUFFICES ASSUME NEW i \in DOMAIN n.fired
                 PROVE  \E j \in Steps : j < n.at /\ n.fired[i] = STEP_ORDER[j]
      OBVIOUS
    <3>1. CASE i = Len(r.fired) + 1
      BY <2>1, <2>2, <2>3, <2>5, <3>1
    <3>2. CASE i \in 1..Len(r.fired)
      <4>1. PICK j \in Steps : j < r.at /\ r.fired[i] = STEP_ORDER[j]
        BY <2>5, <3>2 DEF Behind
      <4>2. j \in Nat /\ j < n.at
        BY <2>1, <2>2, <2>3, <2>4, <4>1, StepOrder
      <4> QED
        BY <2>5, <3>2, <4>1, <4>2
    <3> QED
      BY <2>5, <3>1, <3>2
  <2>8. \A i \in DOMAIN r.fired : r.fired[i] # d
    <3> SUFFICES ASSUME NEW i \in DOMAIN r.fired, r.fired[i] = d PROVE FALSE
      OBVIOUS
    <3>1. PICK j \in Steps : j < r.at /\ r.fired[i] = STEP_ORDER[j]
      BY DEF Behind
    <3>2. j = Reached(r)
      BY <2>1, <3>1, StepOrder
    <3> QED
      BY <2>1, <2>2, <2>4, <3>1, <3>2
  <2>9. \A i, j \in DOMAIN n.fired : n.fired[i] = n.fired[j] => i = j
    <3> SUFFICES ASSUME NEW i \in DOMAIN n.fired, NEW j \in DOMAIN n.fired,
                        n.fired[i] = n.fired[j]
                 PROVE  i = j
      OBVIOUS
    <3>1. CASE i \in DOMAIN r.fired /\ j \in DOMAIN r.fired
      BY <2>5, <3>1 DEF Behind
    <3>2. CASE i \notin DOMAIN r.fired
      BY <2>5, <2>8, <3>2
    <3>3. CASE j \notin DOMAIN r.fired
      BY <2>5, <2>8, <3>3
    <3> QED
      BY <3>1, <3>2, <3>3
  <2>10. Calling(n)
    <3>1. Len(n.fired) # 0 /\ n.fired[Len(n.fired)] = d
      BY <2>5
    <3>2. n.at > Last => d = PhaseOne
      BY <2>1, <2>2, <2>3, StepOrder
    <3> QED
      BY <3>1, <3>2 DEF Calling
  <2> QED
    BY <2>3, <2>6, <2>7, <2>9, <2>10 DEF Sound, Behind
<1> QED
  BY <1>1, <1>2

\* A dispatch gives its tab another run and leaves the runner it was given.
LEMMA DispatchNext ==
    ASSUME IInv, NEW t \in Tabs, NEW tab, NEW run, HasRunner(tab), Sound(tab.runner),
           Dispatch(tab, t, run)
    PROVE  IInv'
<1> DEFINE new == [tab EXCEPT !.run = run]
<1>1. HasRunner(new) /\ new.runner = tab.runner
  BY DEF HasRunner
<1>2. tabs' = [tabs EXCEPT ![t] = new]
  BY DEF Dispatch
<1> QED
  BY <1>1, <1>2, OneTab

\* A tab with another runner, whatever else becomes of it.
LEMMA OtherRunner ==
    ASSUME IInv, NEW t \in Tabs, NEW r
    PROVE  /\ HasRunner([tabs[t] EXCEPT !.runner = r])
           /\ [tabs[t] EXCEPT !.runner = r].runner = r
           /\ HasRunner([tabs[t] EXCEPT !.asking = FALSE, !.runner = r])
           /\ [tabs[t] EXCEPT !.asking = FALSE, !.runner = r].runner = r
           /\ HasRunner([tabs[t] EXCEPT !.asking = TRUE])
           /\ [tabs[t] EXCEPT !.asking = TRUE].runner = tabs[t].runner
<1>1. "runner" \in DOMAIN tabs[t]
  BY DEF IInv, HasRunner
<1>2. /\ HasRunner([tabs[t] EXCEPT !.runner = r])
      /\ [tabs[t] EXCEPT !.runner = r].runner = r
  BY <1>1 DEF HasRunner
<1>3. /\ HasRunner([tabs[t] EXCEPT !.asking = FALSE, !.runner = r])
      /\ [tabs[t] EXCEPT !.asking = FALSE, !.runner = r].runner = r
  BY <1>1 DEF HasRunner
<1>4. /\ HasRunner([tabs[t] EXCEPT !.asking = TRUE])
      /\ [tabs[t] EXCEPT !.asking = TRUE].runner = tabs[t].runner
  BY <1>1 DEF HasRunner
<1> QED
  BY <1>2, <1>3, <1>4

LEMMA AdvanceNext ==
    ASSUME LevelsDistinct, IInv, NEW t \in Tabs, NEW run, NEW r \in Runners, Behind(r),
           Ended(r), Advance(t, r, run)
    PROVE  IInv'
<1>1. \E new : Dispatch([tabs[t] EXCEPT !.runner = NextRunner(r)], t, new)
  BY DEF Advance, NextRunner
<1> QED
  BY <1>1, LoopSound, OtherRunner, DispatchNext

\* The answer to a call lets the loop go on: what was called has been noted.
LEMMA AnswerNext ==
    ASSUME LevelsDistinct, IInv, NEW t \in Tabs, NEW ok \in BOOLEAN, Runner(t).pc = "calling",
           Answer(t, ok)
    PROVE  IInv'
<1> DEFINE r == Runner(t)
           a == Answered(r, Called(t), ok)
<1>1. Sound(r)
  BY DEF IInv, Runner
<1>2. a = [pc |-> r.pc, at |-> r.at, force |-> r.force, only |-> r.only,
           l6 |-> (r.l6 \/ Called(t) = PhaseOne), fired |-> r.fired]
  BY <1>1 DEF Answered, Sound, Runners
<1>3. (r.l6 \/ Called(t) = PhaseOne) \in BOOLEAN
  BY <1>1 DEF Sound, Runners
<1>4. a \in Runners
  BY <1>1, <1>2, <1>3 DEF Sound, Runners
<1>5. Behind(a)
  BY <1>1, <1>2 DEF Sound, Behind
<1>6. Ended(a)
  <2>1. r.at > Last => r.l6 \/ Called(t) = PhaseOne
    BY <1>1 DEF Sound, Calling, Called
  <2>2. a.at = r.at /\ a.l6 = (r.l6 \/ Called(t) = PhaseOne)
    BY <1>2
  <2> QED
    BY <2>1, <2>2 DEF Ended
<1>7. \E run : Advance(t, a, run)
  BY DEF Answer
<1> QED
  BY <1>4, <1>5, <1>6, <1>7, AdvanceNext

\* A tab that is opened or closed has no runner.
LEMMA NewTab ==
    ASSUME LevelsDistinct, IInv, NEW t \in Tabs, NEW run,
           \/ tabs' = [tabs EXCEPT ![t] = Closed]
           \/ tabs' = [tabs EXCEPT ![t] = [Closed EXCEPT !.open = TRUE, !.run = run]]
    PROVE  IInv'
<1> DEFINE opened == [Closed EXCEPT !.open = TRUE, !.run = run]
<1>1. HasRunner(Closed) /\ Closed.runner = Idle
  BY DEF Closed, HasRunner
<1>2. HasRunner(opened) /\ opened.runner = Idle
  BY DEF Closed, HasRunner
<1> QED
  BY <1>1, <1>2, IdleSound, OneTab

LEMMA TabStepNext ==
    ASSUME LevelsDistinct, IInv, NEW t \in Tabs,
           \/ Open(t) \/ Close(t) \/ Touch(t) \/ DISMISS(t)
           \/ startAutoRun(t) \/ resume(t) \/ rerunAll(t)
           \/ \E unread \in SUBSET Keys : identifyStepsNeedingRerun(t, unread)
           \/ NoOverview(t) \/ Ready(t) \/ MissingDocs(t) \/ NeverReady(t)
    PROVE  IInv'
<1>0. Sound(Waiting(t, FALSE, Keys)) /\ \A only \in SUBSET Keys : Sound(Waiting(t, TRUE, only))
  <2>1. Keys \in SUBSET Keys /\ FALSE \in BOOLEAN /\ TRUE \in BOOLEAN
    OBVIOUS
  <2> QED
    BY <2>1, WaitingSound
<1>1. CASE Open(t)
  BY <1>1, NewTab DEF Open
<1>2. CASE Close(t)
  BY <1>2, NewTab DEF Close
<1>3. CASE Touch(t)
  BY <1>3 DEF Touch, IInv
<1>4. CASE DISMISS(t)
  BY <1>4, DispatchNext DEF DISMISS, IInv
<1>5. CASE startAutoRun(t)
  <2>1. Dispatch([tabs[t] EXCEPT !.runner = Waiting(t, FALSE, Keys)], t, Fresh)
    BY <1>5 DEF startAutoRun
  <2> QED
    BY <1>0, <2>1, OtherRunner, DispatchNext
<1>6. CASE resume(t)
  <2> DEFINE tab == [tabs[t] EXCEPT !.runner = Waiting(t, FALSE, Keys)]
  <2>1. tabs' = [tabs EXCEPT ![t] = tab]
    BY <1>6 DEF resume
  <2>2. HasRunner(tab) /\ Sound(tab.runner)
    BY <1>0, OtherRunner
  <2> HIDE DEF tab
  <2> QED
    BY <2>1, <2>2, OneTab
<1>7. CASE rerunAll(t)
  <2>1. Dispatch([tabs[t] EXCEPT !.asking = TRUE], t, Fresh)
    BY <1>7 DEF rerunAll
  <2>2. Sound(tabs[t].runner)
    BY DEF IInv
  <2> QED
    BY <2>1, <2>2, OtherRunner, DispatchNext
<1>8. ASSUME NEW only \in SUBSET Keys,
             tabs' = [tabs EXCEPT ![t].asking = FALSE, ![t].runner = Waiting(t, TRUE, only)]
      PROVE  IInv'
  <2> DEFINE tab == [tabs[t] EXCEPT !.asking = FALSE, !.runner = Waiting(t, TRUE, only)]
  <2>1. tabs' = [tabs EXCEPT ![t] = tab]
    BY <1>8 DEF IInv
  <2>2. HasRunner(tab) /\ Sound(tab.runner)
    BY <1>0, OtherRunner
  <2> HIDE DEF tab
  <2> QED
    BY <2>1, <2>2, OneTab
<1>9. CASE \E unread \in SUBSET Keys : identifyStepsNeedingRerun(t, unread)
  <2>1. PICK unread \in SUBSET Keys : identifyStepsNeedingRerun(t, unread)
    BY <1>9
  <2>2. Needed \cup unread \in SUBSET Keys
    BY DEF Needed
  <2> QED
    BY <1>8, <2>1, <2>2 DEF identifyStepsNeedingRerun
<1>10. CASE NoOverview(t)
  BY <1>8, <1>10 DEF NoOverview
<1>11. CASE Ready(t)
  <2>1. Sound(Runner(t)) /\ Runner(t).pc # "calling"
    BY <1>11 DEF Ready, IInv, Runner
  <2> QED
    BY <1>11, <2>1, AdvanceNext DEF Ready, Sound
<1>12. CASE MissingDocs(t) \/ NeverReady(t)
  <2>1. \E run : Dispatch([tabs[t] EXCEPT !.runner = Idle], t, run)
    BY <1>12 DEF MissingDocs, NeverReady
  <2> QED
    BY <2>1, IdleSound, OtherRunner, DispatchNext
<1> QED
  BY <1>1, <1>2, <1>3, <1>4, <1>5, <1>6, <1>7, <1>9, <1>10, <1>11, <1>12

LEMMA InvNext == ASSUME LevelsDistinct PROVE IInv /\ [Next]_vars => IInv'
<1> SUFFICES ASSUME IInv, [Next]_vars PROVE IInv'
  OBVIOUS
<1>1. CASE UNCHANGED vars
  BY <1>1 DEF IInv, vars
<1>2. ASSUME NEW t \in Tabs, NEW ok \in BOOLEAN, Runner(t).pc = "calling", Answer(t, ok)
      PROVE  IInv'
  BY <1>2, AnswerNext
<1>3. ASSUME NEW t \in Tabs, CutOff(t)
      PROVE  IInv'
  BY <1>3, NewTab DEF CutOff
<1> QED
  BY <1>1, <1>2, <1>3, TabStepNext DEF Next, Served, Unserved

(***************************************************************************)
(* What the tabs and the store show.  s is the server's results.           *)
(***************************************************************************)
RunOrNone == Run \cup {NoRun}
Serving == [Keys -> Results \cup {"none"}]
Tab == [open : BOOLEAN, run : RunOrNone, asking : BOOLEAN, runner : Runners]

\* Done is what the server has a result of.
Backed(run, s) == run # NoRun => \A k \in Keys : run.step[k] = "done" => s[k] # "none"

\* A run that can be resumed, has ended or awaits ingestion; or will be, once reloaded.
Restarts(run) ==
    run # NoRun => \/ run.completed \/ \E k \in Keys : run.step[k] = "interrupted"
                   \/ \A k \in Keys : run.step[k] = "pending"
Recovers(run) == Restarts(run) \/ \E k \in Keys : run.step[k] = "running"

RunOK(run, s) == run \in RunOrNone /\ Backed(run, s) /\ Recovers(run)

\* A step the runner was not asked for, or has left behind, has a result or was fired.
Asked(r, s) == r.pc # "idle" => \A k \in Keys \ r.only : s[k] # "none"
Tried(r, s) ==
    \A j \in Steps : j < r.at =>
        (\E i \in DOMAIN r.fired : r.fired[i] = STEP_ORDER[j]) \/ s[STEP_ORDER[j]] # "none"

TabOK(tab, s) ==
    /\ tab \in Tab /\ RunOK(tab.run, s) /\ Asked(tab.runner, s) /\ Tried(tab.runner, s)
    /\ tab.runner.pc = "idle" => Restarts(tab.run)

ShownInv ==
    /\ server \in Serving /\ RunOK(storage, server)
    /\ \A t \in Tabs : TabOK(tabs[t], server)

LEMMA NoRunApart == ASSUME LevelsDistinct PROVE NoRun \notin Run
<1>1. DOMAIN NoRun.step = {}
  BY DEF NoRun
<1>2. \A run \in Run : DOMAIN run.step = Keys
  BY DEF Run
<1> QED
  BY <1>1, <1>2, StepOrder

LEMMA MarkShows ==
    ASSUME LevelsDistinct, NEW run \in RunOrNone, NEW S, NEW status \in Statuses
    PROVE  /\ Mark(run, S, status) \in RunOrNone
           /\ run = NoRun => Mark(run, S, status) = NoRun
           /\ run # NoRun =>
                /\ Mark(run, S, status) # NoRun
                /\ Mark(run, S, status).completed = run.completed
                /\ \A k \in Keys : Mark(run, S, status).step[k] =
                                        IF k \in S THEN status ELSE run.step[k]
<1>1. CASE run = NoRun
  BY <1>1 DEF Mark, RunOrNone
<1>2. CASE run # NoRun
  <2> DEFINE step == [k \in Keys |-> IF k \in S THEN status ELSE run.step[k]]
             m == [step |-> step, completed |-> run.completed, blocked |-> run.blocked]
  <2>1. run \in Run
    BY <1>2 DEF RunOrNone
  <2>2. Mark(run, S, status) = m
    BY <1>2, <2>1 DEF Mark, Run
  <2>3. step \in [Keys -> Statuses]
    BY <2>1 DEF Run
  <2>4. m \in Run
    BY <2>1, <2>3 DEF Run
  <2> QED
    BY <1>2, <2>2, <2>4, NoRunApart DEF RunOrNone
<1> QED
  BY <1>1, <1>2

LEMMA FreshOK ==
    ASSUME LevelsDistinct, NEW s
    PROVE  /\ Fresh \in Run /\ Fresh # NoRun /\ RunOK(Fresh, s) /\ Restarts(Fresh)
           /\ RunOK(NoRun, s) /\ Restarts(NoRun)
<1>1. Fresh \in Run
  BY DEF Fresh, Run, Statuses
<1>2. \A k \in Keys : Fresh.step[k] = "pending"
  BY DEF Fresh
<1> QED
  BY <1>1, <1>2, NoRunApart DEF RunOK, RunOrNone, Backed, Recovers, Restarts

\* What ends a run.
LEMMA EndedOK ==
    ASSUME LevelsDistinct, NEW s, NEW run \in RunOrNone, Backed(run, s)
    PROVE  /\ RunOK(RUN_COMPLETE(run), s) /\ Restarts(RUN_COMPLETE(run))
           /\ RunOK(RUN_BLOCKED(run), s) /\ Restarts(RUN_BLOCKED(run))
<1>1. CASE run = NoRun
  BY <1>1, FreshOK DEF RUN_COMPLETE, RUN_BLOCKED
<1>2. CASE run # NoRun
  <2> DEFINE c == [step |-> run.step, completed |-> TRUE, blocked |-> run.blocked]
             b == [step |-> Fresh.step, completed |-> TRUE, blocked |-> TRUE]
  <2>1. run \in Run
    BY <1>2 DEF RunOrNone
  <2>2. RUN_COMPLETE(run) = c /\ c \in Run
    BY <1>2, <2>1 DEF RUN_COMPLETE, Run
  <2>3. RUN_BLOCKED(run) = b /\ b \in Run
    BY <1>2, FreshOK DEF RUN_BLOCKED, Fresh, Run
  <2>4. c.completed /\ b.completed /\ \A k \in Keys : c.step[k] = run.step[k]
    OBVIOUS
  <2>5. \A k \in Keys : b.step[k] = "pending"
    BY DEF Fresh
  <2> HIDE DEF c, b
  <2>6. RunOK(c, s) /\ Restarts(c)
    BY <1>2, <2>2, <2>4, NoRunApart DEF RunOK, RunOrNone, Backed, Recovers, Restarts
  <2>7. RunOK(b, s) /\ Restarts(b)
    BY <2>3, <2>4, <2>5, NoRunApart DEF RunOK, RunOrNone, Backed, Recovers, Restarts
  <2> QED
    BY <2>2, <2>3, <2>6, <2>7
<1> QED
  BY <1>1, <1>2

\* Results are replaced, never taken away.
LEMMA ServerNext ==
    ASSUME NEW s, NEW n, \A k \in Keys : s[k] # "none" => n[k] # "none", LevelsDistinct
    PROVE  /\ \A run : RunOK(run, s) => RunOK(run, n)
           /\ \A tab : TabOK(tab, s) => TabOK(tab, n)
<1>1. \A i \in Steps : STEP_ORDER[i] \in Keys
  BY StepOrder
<1>2. \A run : RunOK(run, s) => RunOK(run, n)
  BY DEF RunOK, Backed
<1>3. \A r : /\ Asked(r, s) => Asked(r, n)
             /\ Tried(r, s) => Tried(r, n)
  BY <1>1 DEF Asked, Tried
<1> QED
  BY <1>2, <1>3 DEF TabOK

\* A step the loop passes was not asked for, or is stored as done.
LEMMA PassedHasResult ==
    ASSUME LevelsDistinct, NEW s, NEW r \in Runners, r.pc # "idle", Asked(r, s),
           RunOK(storage, s), NEW j \in Steps, r.at <= j, j < Reached(r)
    PROVE  s[STEP_ORDER[j]] # "none"
<1> DEFINE ahead == {i \in Steps : i >= r.at /\ ~Skipped(r, STEP_ORDER[i])}
<1>1. Skipped(r, STEP_ORDER[j])
  <2> SUFFICES ASSUME ~Skipped(r, STEP_ORDER[j]) PROVE FALSE
    OBVIOUS
  <2>1. j \in ahead /\ r.at \in Nat /\ j \in Nat
    BY StepOrder DEF Runners
  <2>2. \E i \in ahead : \A k \in ahead : i <= k
    <3>1. ahead \in SUBSET Nat
      BY StepOrder
    <3> QED
      BY <2>1, <3>1, LeastOfNats
  <2>3. Reached(r) = CHOOSE i \in ahead : \A k \in ahead : i <= k
    BY <2>1 DEF Reached
  <2>4. Reached(r) \in ahead /\ Reached(r) <= j
    BY <2>1, <2>2, <2>3
  <2>5. Reached(r) \in Nat
    BY <2>4, StepOrder
  <2> QED
    BY <2>1, <2>4, <2>5
<1>2. STEP_ORDER[j] \in Keys
  BY StepOrder
<1>3. CASE STEP_ORDER[j] \notin r.only
  BY <1>2, <1>3 DEF Asked
<1>4. CASE Stored(STEP_ORDER[j]) = "done"
  BY <1>2, <1>4 DEF Stored, RunOK, Backed
<1> QED
  BY <1>1, <1>3, <1>4 DEF Skipped

\* The runner after a turn of the loop.
LEMMA LoopTries ==
    ASSUME LevelsDistinct, NEW s, NEW r \in Runners, Behind(r), Ended(r), r.pc # "idle",
           Asked(r, s), Tried(r, s), RunOK(storage, s)
    PROVE  Asked(NextRunner(r), s) /\ Tried(NextRunner(r), s)
<1>1. CASE Due(r) = "none"
  <2>1. NextRunner(r).pc = "idle" /\ NextRunner(r).at = 1
    BY <1>1 DEF NextRunner, Idle
  <2> QED
    BY <2>1, StepOrder DEF Asked, Tried
<1>2. CASE Due(r) # "none"
  <2> DEFINE d == STEP_ORDER[Reached(r)]
             n == NextRunner(r)
  <2>1. Reached(r) \in Steps /\ r.at <= Reached(r) /\ Due(r) = d
    BY <1>2, ReachedAhead, NothingAfterLoop DEF Due
  <2>2. /\ n.only = r.only /\ n.pc = "calling" /\ n.at = Reached(r) + 1
        /\ n.fired = Append(r.fired, d)
    BY <1>2, <2>1 DEF NextRunner, Runners
  <2>3. Asked(n, s)
    BY <2>2 DEF Asked
  <2>4. d \in Keys /\ r.fired \in Seq(Keys) /\ r.at \in Nat /\ Reached(r) \in Nat
    BY <2>1, StepOrder DEF Runners
  <2>5. /\ DOMAIN n.fired = 1..(Len(r.fired) + 1) /\ Len(r.fired) \in Nat
        /\ DOMAIN r.fired = 1..Len(r.fired) /\ n.fired[Len(r.fired) + 1] = d
        /\ \A i \in DOMAIN r.fired : n.fired[i] = r.fired[i]
    BY <2>2, <2>4, AppendProperties, LenProperties
  <2>6. ASSUME NEW j \in Steps, j < n.at
        PROVE  (\E i \in DOMAIN n.fired : n.fired[i] = STEP_ORDER[j]) \/ s[STEP_ORDER[j]] # "none"
    <3>0. j \in Nat
      BY StepOrder
    <3>1. CASE j < r.at
      <4>1. CASE \E i \in DOMAIN r.fired : r.fired[i] = STEP_ORDER[j]
        <5>1. PICK i \in DOMAIN r.fired : r.fired[i] = STEP_ORDER[j]
          BY <4>1
        <5>2. i \in DOMAIN n.fired /\ n.fired[i] = STEP_ORDER[j]
          BY <2>5, <5>1
        <5> QED
          BY <5>2
      <4>2. CASE s[STEP_ORDER[j]] # "none"
        BY <4>2
      <4> QED
        BY <3>1, <4>1, <4>2 DEF Tried
    <3>2. CASE r.at <= j /\ j < Reached(r)
      BY <3>2, PassedHasResult
    <3>3. CASE j = Reached(r)
      <4>1. Len(r.fired) + 1 \in DOMAIN n.fired
        BY <2>5
      <4> QED
        BY <2>5, <3>3, <4>1
    <3> QED
      BY <2>2, <2>4, <2>6, <3>0, <3>1, <3>2, <3>3
  <2> QED
    BY <2>3, <2>6 DEF Tried
<1> QED
  BY <1>1, <1>2

\* A tab with another run or another runner.
LEMMA WithRun ==
    ASSUME NEW tab \in Tab, NEW run \in RunOrNone
    PROVE  /\ [tab EXCEPT !.run = run] \in Tab /\ [tab EXCEPT !.run = run].run = run
           /\ [tab EXCEPT !.run = run].runner = tab.runner
BY DEF Tab

LEMMA WithRunner ==
    ASSUME NEW tab \in Tab, NEW r \in Runners
    PROVE  /\ [tab EXCEPT !.runner = r] \in Tab /\ [tab EXCEPT !.runner = r].run = tab.run
           /\ [tab EXCEPT !.runner = r].runner = r
BY DEF Tab

LEMMA WithAsking ==
    ASSUME NEW tab \in Tab, NEW asking \in BOOLEAN
    PROVE  /\ [tab EXCEPT !.asking = asking] \in Tab
           /\ [tab EXCEPT !.asking = asking].run = tab.run
           /\ [tab EXCEPT !.asking = asking].runner = tab.runner
BY DEF Tab

\* A step that gives one tab what it may have, and leaves the store or copies it there.
LEMMA OneTabShows ==
    ASSUME LevelsDistinct, ShownInv, NEW t \in Tabs, NEW tab,
           DOMAIN tabs = Tabs, tabs' = [tabs EXCEPT ![t] = tab],
           server' \in Serving, \A k \in Keys : server[k] # "none" => server'[k] # "none",
           TabOK(tab, server'), storage' = storage \/ storage' = tab.run
    PROVE  ShownInv'
<1>1. RunOK(storage, server') /\ RunOK(tab.run, server')
  BY ServerNext DEF ShownInv, TabOK
<1>2. RunOK(storage', server')
  BY <1>1
<1>3. \A u \in Tabs : TabOK(tabs[u], server')
  BY ServerNext DEF ShownInv
<1>4. \A u \in Tabs : tabs'[u] = IF u = t THEN tab ELSE tabs[u]
  OBVIOUS
<1>5. \A u \in Tabs : TabOK(tabs'[u], server')
  BY <1>3, <1>4
<1> QED
  BY <1>2, <1>5 DEF ShownInv

LEMMA DispatchShows ==
    ASSUME LevelsDistinct, ShownInv, IInv, NEW t \in Tabs, NEW tab, NEW run,
           Dispatch(tab, t, run), TabOK([tab EXCEPT !.run = run], server'),
           [tab EXCEPT !.run = run].run = run,
           server' \in Serving, \A k \in Keys : server[k] # "none" => server'[k] # "none"
    PROVE  ShownInv'
<1> DEFINE new == [tab EXCEPT !.run = run]
<1>1. tabs' = [tabs EXCEPT ![t] = new] /\ (storage' = storage \/ storage' = new.run)
  BY DEF Dispatch
<1> HIDE DEF new
<1> QED
  BY <1>1, OneTabShows DEF new, IInv

\* A turn of the loop, from a run that shows nothing without a result.
LEMMA AdvanceShows ==
    ASSUME LevelsDistinct, ShownInv, IInv, NEW t \in Tabs, NEW run \in RunOrNone,
           NEW r \in Runners, Behind(r), Ended(r), r.pc # "idle", Advance(t, r, run),
           server' \in Serving, \A k \in Keys : server[k] # "none" => server'[k] # "none",
           Backed(run, server'), Asked(r, server'), Tried(r, server')
    PROVE  ShownInv'
<1> DEFINE passed == Mark(run, PassedBy(r) \ r.only, "done")
<1>1. RunOK(storage, server')
  BY ServerNext DEF ShownInv
<1>2. "done" \in Statuses /\ "running" \in Statuses
  BY DEF Statuses
<1>3. passed \in RunOrNone /\ Backed(passed, server')
  <2>1. \A k \in PassedBy(r) \ r.only : k \in Keys => server'[k] # "none"
    BY DEF Asked
  <2>2. passed \in RunOrNone /\ (run = NoRun => passed = NoRun)
    BY <1>2, MarkShows
  <2>3. ASSUME run # NoRun, NEW k \in Keys, passed.step[k] = "done"
        PROVE  server'[k] # "none"
    <3>1. passed.step[k] = IF k \in PassedBy(r) \ r.only THEN "done" ELSE run.step[k]
      BY <1>2, <2>3, MarkShows
    <3> QED
      BY <2>1, <2>3, <3>1 DEF Backed
  <2> QED
    BY <2>2, <2>3 DEF Backed
<1>4. NextRunner(r) \in Runners /\ Asked(NextRunner(r), server') /\ Tried(NextRunner(r), server')
  BY <1>1, LoopTries, LoopSound DEF Sound
<1>5. tabs[t] \in Tab
  BY DEF ShownInv, TabOK
<1> HIDE DEF passed
<1>6. ASSUME NEW new \in RunOrNone, RunOK(new, server'),
             NextRunner(r).pc = "idle" => Restarts(new),
             Dispatch([tabs[t] EXCEPT !.runner = NextRunner(r)], t, new)
      PROVE  ShownInv'
  <2> DEFINE tab == [tabs[t] EXCEPT !.runner = NextRunner(r)]
  <2>0. tab \in Tab /\ tab.runner = NextRunner(r)
    BY <1>4, <1>5, WithRunner
  <2> HIDE DEF tab
  <2>1. /\ [tab EXCEPT !.run = new] \in Tab /\ [tab EXCEPT !.run = new].run = new
        /\ [tab EXCEPT !.run = new].runner = NextRunner(r)
    BY <2>0, <1>6, WithRun
  <2>2. TabOK([tab EXCEPT !.run = new], server')
    BY <1>4, <1>6, <2>1 DEF TabOK
  <2> QED
    BY <1>6, <2>1, <2>2, DispatchShows DEF tab
<1>7. CASE Due(r) = "none"
  <2>1. Dispatch([tabs[t] EXCEPT !.runner = NextRunner(r)], t, RUN_COMPLETE(passed))
    BY <1>7 DEF Advance, NextRunner, passed
  <2>2. RunOK(RUN_COMPLETE(passed), server') /\ Restarts(RUN_COMPLETE(passed))
    BY <1>3, EndedOK
  <2> QED
    BY <1>6, <2>1, <2>2 DEF RunOK
<1>8. CASE Due(r) # "none"
  <2> DEFINE new == Mark(passed, {Due(r)}, "running")
  <2>1. Dispatch([tabs[t] EXCEPT !.runner = NextRunner(r)], t, new)
    BY <1>8 DEF Advance, NextRunner, passed
  <2>2. NextRunner(r).pc = "calling"
    BY <1>8 DEF NextRunner, Runners
  <2>3. Due(r) \in Keys
    BY <1>8, NothingAfterLoop, ReachedAhead, StepOrder DEF Due
  <2>4. new \in RunOrNone /\ (passed = NoRun => new = NoRun)
    BY <1>2, <1>3, MarkShows
  <2>5. ASSUME passed # NoRun
        PROVE  /\ new.step[Due(r)] = "running"
               /\ \A k \in Keys : new.step[k] = "done" => passed.step[k] = "done"
    BY <1>2, <1>3, <2>3, <2>5, MarkShows
  <2> HIDE DEF new
  <2>6. RunOK(new, server')
    BY <1>3, <2>3, <2>4, <2>5 DEF RunOK, Backed, Recovers, Restarts
  <2> QED
    BY <1>6, <2>1, <2>2, <2>4, <2>6
<1> QED
  BY <1>7, <1>8

LEMMA AnswerShows ==
    ASSUME LevelsDistinct, ShownInv, IInv, NEW t \in Tabs, NEW ok \in BOOLEAN,
           Runner(t).pc = "calling", Answer(t, ok), server' \in Serving,
           \A k \in Keys : server[k] # "none" => server'[k] # "none",
           ok => server'[Called(t)] # "none"
    PROVE  ShownInv'
<1> DEFINE r == Runner(t)
           a == Answered(r, Called(t), ok)
           status == IF ok THEN "done" ELSE "failed"
           run == Mark(tabs[t].run, {Called(t)}, status)
<1>1. Sound(r)
  BY DEF IInv, Runner
<1>2. a = [pc |-> r.pc, at |-> r.at, force |-> r.force, only |-> r.only,
           l6 |-> (r.l6 \/ Called(t) = PhaseOne), fired |-> r.fired]
  BY <1>1 DEF Answered, Sound, Runners
<1>3. a \in Runners /\ Behind(a)
  <2>1. (r.l6 \/ Called(t) = PhaseOne) \in BOOLEAN
    BY <1>1 DEF Sound, Runners
  <2> QED
    BY <1>1, <1>2, <2>1 DEF Sound, Runners, Behind
<1>4. Ended(a)
  <2>1. r.at > Last => r.l6 \/ Called(t) = PhaseOne
    BY <1>1 DEF Sound, Calling, Called
  <2>2. a.at = r.at /\ a.l6 = (r.l6 \/ Called(t) = PhaseOne)
    BY <1>2
  <2> QED
    BY <2>1, <2>2 DEF Ended
<1>5. Asked(r, server') /\ Tried(r, server')
  BY ServerNext DEF ShownInv, TabOK, Runner
<1>6. a.pc = "calling" /\ a.only = r.only /\ a.at = r.at /\ a.fired = r.fired
  BY <1>2
<1>7. Asked(a, server') /\ Tried(a, server')
  BY <1>5, <1>6 DEF Asked, Tried
<1>8. RunOK(tabs[t].run, server')
  BY ServerNext DEF ShownInv, TabOK
<1>9. status \in Statuses
  BY DEF Statuses
<1>10. run \in RunOrNone /\ Backed(run, server')
  <2>1. run \in RunOrNone /\ (tabs[t].run = NoRun => run = NoRun)
    BY <1>8, <1>9, MarkShows DEF RunOK
  <2>2. ASSUME tabs[t].run # NoRun, NEW k \in Keys, run.step[k] = "done"
        PROVE  server'[k] # "none"
    <3>1. run.step[k] = IF k \in {Called(t)} THEN status ELSE tabs[t].run.step[k]
      BY <1>8, <1>9, <2>2, MarkShows DEF RunOK
    <3> QED
      BY <1>8, <2>2, <3>1 DEF RunOK, Backed
  <2> QED
    BY <2>1, <2>2 DEF Backed
<1>11. Advance(t, a, run)
  BY DEF Answer
<1> HIDE DEF a, run
<1> QED
  BY <1>3, <1>4, <1>6, <1>7, <1>10, <1>11, AdvanceShows

LEMMA ServedShows ==
    ASSUME LevelsDistinct, ShownInv, IInv, NEW t \in Tabs,
           (\E result \in Results : Served(t, result)) \/ Unserved(t)
    PROVE  /\ server' \in Serving /\ \A k \in Keys : server[k] # "none" => server'[k] # "none"
           /\ (\E result \in Results : Served(t, result)) => server'[Called(t)] # "none"
<1>1. \A result \in Results : result # "none"
  BY DEF Results
<1>2. Sound(Runner(t))
  BY DEF IInv, Runner
<1>3. Runner(t).pc = "calling" => Called(t) \in Keys
  BY <1>2, LenProperties DEF Sound, Calling, Runners, Called
<1>4. server \in Serving
  BY DEF ShownInv
<1> QED
  BY <1>1, <1>3, <1>4 DEF Served, Unserved, Serving

LEMMA ClosedOK ==
    ASSUME LevelsDistinct, NEW s
    PROVE  /\ Closed \in Tab /\ Closed.run = NoRun /\ Closed.runner = Idle
           /\ Asked(Idle, s) /\ Tried(Idle, s) /\ Idle \in Runners /\ TabOK(Closed, s)
<1>1. Closed = [open |-> FALSE, run |-> NoRun, asking |-> FALSE, runner |-> Idle]
  BY DEF Closed
<1>2. Idle \in Runners
  BY IdleSound DEF Sound
<1>3. Closed \in Tab
  BY <1>1, <1>2 DEF Tab, RunOrNone
<1>4. Asked(Idle, s) /\ Tried(Idle, s)
  BY StepOrder DEF Asked, Tried, Idle
<1> QED
  BY <1>1, <1>2, <1>3, <1>4, FreshOK DEF TabOK

LEMMA OpenedTab ==
    ASSUME NEW tab \in Tab, NEW run \in RunOrNone
    PROVE  /\ [tab EXCEPT !.open = TRUE, !.run = run] \in Tab
           /\ [tab EXCEPT !.open = TRUE, !.run = run].run = run
           /\ [tab EXCEPT !.open = TRUE, !.run = run].runner = tab.runner
BY DEF Tab

\* What a reload finds can be resumed.
LEMMA HydratedRestarts ==
    ASSUME LevelsDistinct, NEW s, RunOK(storage, s)
    PROVE  RunOK(Hydrated(storage), s) /\ Restarts(Hydrated(storage))
<1> DEFINE S == {k \in DOMAIN storage.step : storage.step[k] = "running"}
           h == Mark(storage, S, "interrupted")
<1>1. storage \in RunOrNone /\ "interrupted" \in Statuses
  BY DEF RunOK, Statuses
<1>2. h \in RunOrNone /\ (storage = NoRun => h = NoRun)
  BY <1>1, MarkShows
<1>3. CASE storage = NoRun
  BY <1>2, <1>3, FreshOK DEF Hydrated
<1>4. CASE storage # NoRun
  <2>1. DOMAIN storage.step = Keys
    BY <1>1, <1>4 DEF RunOrNone, Run
  <2>2. \A k \in Keys : k \in S <=> storage.step[k] = "running"
    BY <2>1
  <2>3. /\ h # NoRun /\ h.completed = storage.completed
        /\ \A k \in Keys : h.step[k] = IF k \in S THEN "interrupted" ELSE storage.step[k]
    BY <1>1, <1>4, MarkShows
  <2> HIDE DEF S, h
  <2>4. Backed(h, s)
    BY <1>4, <2>3 DEF RunOK, Backed
  <2>5. Restarts(h)
    BY <1>4, <2>2, <2>3 DEF RunOK, Recovers, Restarts
  <2> QED
    BY <1>2, <2>4, <2>5 DEF Hydrated, S, h, RunOK, Recovers
<1> QED
  BY <1>3, <1>4

LEMMA WaitingTries ==
    ASSUME LevelsDistinct, ShownInv, IInv, NEW t \in Tabs, NEW force \in BOOLEAN,
           NEW only \in SUBSET Keys, \A k \in Keys \ only : server[k] # "none"
    PROVE  /\ Waiting(t, force, only) \in Runners /\ Waiting(t, force, only).pc # "idle"
           /\ Asked(Waiting(t, force, only), server) /\ Tried(Waiting(t, force, only), server)
<1>1. Waiting(t, force, only) \in Runners
  BY WaitingSound DEF Sound
<1>2. CASE InFlight(t)
  BY <1>1, <1>2 DEF Waiting, Runner, InFlight, ShownInv, TabOK
<1>3. CASE ~InFlight(t)
  <2>1. Waiting(t, force, only) =
            [pc |-> "waiting", at |-> 1, force |-> force, only |-> only, l6 |-> FALSE,
             fired |-> << >>]
    BY <1>3 DEF Waiting, Idle
  <2>2. Asked(Waiting(t, force, only), server)
    BY <2>1 DEF Asked
  <2>3. Tried(Waiting(t, force, only), server)
    BY <2>1, StepOrder DEF Tried
  <2> QED
    BY <1>1, <2>1, <2>2, <2>3
<1> QED
  BY <1>2, <1>3

LEMMA TabStepShows ==
    ASSUME LevelsDistinct, ShownInv, IInv, NEW t \in Tabs,
           \/ Open(t) \/ Close(t) \/ Touch(t) \/ DISMISS(t)
           \/ startAutoRun(t) \/ resume(t) \/ rerunAll(t)
           \/ \E unread \in SUBSET Keys : identifyStepsNeedingRerun(t, unread)
           \/ NoOverview(t) \/ Ready(t) \/ MissingDocs(t) \/ NeverReady(t)
    PROVE  ShownInv'
<1>0. /\ UNCHANGED server /\ server' \in Serving /\ DOMAIN tabs = Tabs
      /\ tabs[t] \in Tab /\ TabOK(tabs[t], server) /\ RunOK(storage, server)
      /\ tabs[t].run \in RunOrNone /\ RunOK(tabs[t].run, server) /\ Sound(tabs[t].runner)
  BY DEF Open, Close, Touch, DISMISS, startAutoRun, resume, rerunAll,
         identifyStepsNeedingRerun, NoOverview, Ready, MissingDocs, NeverReady, ShownInv,
         TabOK, RunOK, IInv
<1> DEFINE all == Waiting(t, FALSE, Keys)
<1>a. all \in Runners /\ all.pc # "idle" /\ Asked(all, server) /\ Tried(all, server)
  BY WaitingTries
<1>1. CASE Open(t)
  <2> DEFINE run == Hydrated(storage)
             tab == [Closed EXCEPT !.open = TRUE, !.run = run]
  <2>1. RunOK(run, server) /\ Restarts(run)
    BY <1>0, HydratedRestarts
  <2> HIDE DEF run
  <2>2. run \in RunOrNone /\ Closed \in Tab /\ Closed.runner = Idle
    BY <2>1, ClosedOK DEF RunOK
  <2>3. tab \in Tab /\ tab.run = run /\ tab.runner = Idle
    BY <2>2, OpenedTab
  <2>4. tabs' = [tabs EXCEPT ![t] = tab] /\ storage' = run
    BY <1>1 DEF Open, run
  <2> HIDE DEF tab
  <2>5. TabOK(tab, server')
    BY <1>0, <2>1, <2>3, ClosedOK DEF TabOK
  <2> QED
    BY <1>0, <2>3, <2>4, <2>5, OneTabShows
<1>2. CASE Close(t)
  BY <1>0, <1>2, ClosedOK, OneTabShows DEF Close
<1>3. CASE Touch(t)
  BY <1>0, <1>3 DEF Touch, ShownInv, TabOK
<1>4. CASE DISMISS(t)
  <2>1. /\ [tabs[t] EXCEPT !.run = NoRun] \in Tab /\ [tabs[t] EXCEPT !.run = NoRun].run = NoRun
        /\ [tabs[t] EXCEPT !.run = NoRun].runner = tabs[t].runner
    BY <1>0, WithRun DEF RunOrNone
  <2>2. TabOK([tabs[t] EXCEPT !.run = NoRun], server')
    BY <1>0, <2>1, FreshOK DEF TabOK
  <2> QED
    BY <1>0, <1>4, <2>1, <2>2, DispatchShows DEF DISMISS
<1>5. CASE startAutoRun(t)
  <2> DEFINE tab == [tabs[t] EXCEPT !.runner = all]
  <2>1. Dispatch(tab, t, Fresh)
    BY <1>5 DEF startAutoRun
  <2> HIDE DEF all
  <2>2. RunOK(Fresh, server)
    BY FreshOK
  <2>3. tab \in Tab /\ tab.runner = all
    BY <1>0, <1>a, WithRunner
  <2> HIDE DEF tab
  <2>4. /\ [tab EXCEPT !.run = Fresh] \in Tab /\ [tab EXCEPT !.run = Fresh].run = Fresh
        /\ [tab EXCEPT !.run = Fresh].runner = all
    BY <2>2, <2>3, WithRun DEF RunOK
  <2>5. TabOK([tab EXCEPT !.run = Fresh], server')
    BY <1>0, <1>a, <2>2, <2>4 DEF TabOK
  <2> QED
    BY <1>0, <2>1, <2>4, <2>5, DispatchShows
<1>6. CASE resume(t)
  <2> DEFINE tab == [tabs[t] EXCEPT !.runner = all]
  <2>1. tabs' = [tabs EXCEPT ![t] = tab] /\ storage' = tabs[t].run
    BY <1>6 DEF resume
  <2> HIDE DEF all
  <2>2. tab \in Tab /\ tab.run = tabs[t].run /\ tab.runner = all
    BY <1>0, <1>a, WithRunner
  <2> HIDE DEF tab
  <2>3. TabOK(tab, server')
    BY <1>0, <1>a, <2>2 DEF TabOK
  <2> QED
    BY <1>0, <2>1, <2>2, <2>3, OneTabShows
<1>7. CASE rerunAll(t)
  <2> DEFINE tab == [tabs[t] EXCEPT !.asking = TRUE]
  <2>1. Dispatch(tab, t, Fresh)
    BY <1>7 DEF rerunAll
  <2>2. tab \in Tab /\ tab.runner = tabs[t].runner
    BY <1>0, WithAsking
  <2> HIDE DEF tab
  <2>3. /\ [tab EXCEPT !.run = Fresh] \in Tab /\ [tab EXCEPT !.run = Fresh].run = Fresh
        /\ [tab EXCEPT !.run = Fresh].runner = tabs[t].runner
    BY <2>2, FreshOK, WithRun DEF RunOrNone
  <2>4. TabOK([tab EXCEPT !.run = Fresh], server')
    BY <1>0, <2>3, FreshOK DEF TabOK
  <2> QED
    BY <1>0, <2>1, <2>3, <2>4, DispatchShows
<1>8. ASSUME NEW only \in SUBSET Keys, \A k \in Keys \ only : server[k] # "none",
             UNCHANGED storage,
             tabs' = [tabs EXCEPT ![t].asking = FALSE, ![t].runner = Waiting(t, TRUE, only)]
      PROVE  ShownInv'
  <2> DEFINE w == Waiting(t, TRUE, only)
             a == [tabs[t] EXCEPT !.asking = FALSE]
             tab == [a EXCEPT !.runner = w]
  <2>1. w \in Runners /\ w.pc # "idle" /\ Asked(w, server) /\ Tried(w, server)
    BY <1>8, WaitingTries
  <2>2. tabs' = [tabs EXCEPT ![t] = tab]
    BY <1>0, <1>8
  <2>3. a \in Tab /\ a.run = tabs[t].run
    BY <1>0, WithAsking
  <2> HIDE DEF a, w
  <2>4. tab \in Tab /\ tab.run = tabs[t].run /\ tab.runner = w
    BY <2>1, <2>3, WithRunner
  <2> HIDE DEF tab
  <2>5. TabOK(tab, server')
    BY <1>0, <2>1, <2>4 DEF TabOK
  <2> QED
    BY <1>0, <1>8, <2>2, <2>5, OneTabShows
<1>9. CASE \E unread \in SUBSET Keys : identifyStepsNeedingRerun(t, unread)
  <2>1. PICK unread \in SUBSET Keys : identifyStepsNeedingRerun(t, unread)
    BY <1>9
  <2>2. Needed \cup unread \in SUBSET Keys
    BY DEF Needed
  <2>3. \A k \in Keys \ (Needed \cup unread) : server[k] # "none"
    BY DEF Needed
  <2> QED
    BY <1>8, <2>1, <2>2, <2>3 DEF identifyStepsNeedingRerun
<1>10. CASE NoOverview(t)
  BY <1>8, <1>10 DEF NoOverview
<1>11. CASE Ready(t)
  <2>1. Sound(Runner(t)) /\ Runner(t).pc = "waiting"
    BY <1>0, <1>11 DEF Ready, Runner
  <2>2. Asked(Runner(t), server) /\ Tried(Runner(t), server) /\ Backed(tabs[t].run, server)
    BY <1>0 DEF TabOK, Runner, RunOK
  <2> QED
    BY <1>0, <1>11, <2>1, <2>2, AdvanceShows DEF Ready, Sound
<1>12. CASE MissingDocs(t) \/ NeverReady(t)
  <2>1. PICK run \in RunOrNone :
            /\ RunOK(run, server) /\ Restarts(run)
            /\ Dispatch([tabs[t] EXCEPT !.runner = Idle], t, run)
    <3>1. CASE MissingDocs(t)
      <4>1. RunOK(RUN_BLOCKED(tabs[t].run), server) /\ Restarts(RUN_BLOCKED(tabs[t].run))
        BY <1>0, EndedOK DEF RunOK
      <4> QED
        BY <3>1, <4>1 DEF MissingDocs, RunOK
    <3>2. CASE NeverReady(t)
      <4> DEFINE failed == Mark(tabs[t].run, Keys, "failed")
      <4>1. "failed" \in Statuses
        BY DEF Statuses
      <4>2. failed \in RunOrNone /\ (tabs[t].run = NoRun => failed = NoRun)
        BY <1>0, <4>1, MarkShows
      <4>3. tabs[t].run # NoRun => \A k \in Keys : failed.step[k] = "failed"
        BY <1>0, <4>1, MarkShows
      <4> HIDE DEF failed
      <4>4. Backed(failed, server)
        BY <4>2, <4>3 DEF Backed
      <4>5. RunOK(RUN_COMPLETE(failed), server) /\ Restarts(RUN_COMPLETE(failed))
        BY <4>2, <4>4, EndedOK
      <4> QED
        BY <3>2, <4>5 DEF NeverReady, RunOK, failed
    <3> QED
      BY <1>12, <3>1, <3>2
  <2> DEFINE tab == [tabs[t] EXCEPT !.runner = Idle]
  <2>2. tab \in Tab /\ tab.runner = Idle
    BY <1>0, ClosedOK, WithRunner
  <2>3. Dispatch(tab, t, run)
    BY <2>1
  <2> HIDE DEF tab
  <2>4. /\ [tab EXCEPT !.run = run] \in Tab /\ [tab EXCEPT !.run = run].run = run
        /\ [tab EXCEPT !.run = run].runner = Idle
    BY <2>2, WithRun
  <2>5. TabOK([tab EXCEPT !.run = run], server')
    BY <1>0, <2>1, <2>4, ClosedOK DEF TabOK
  <2> QED
    BY <1>0, <2>3, <2>4, <2>5, DispatchShows
<1> QED
  BY <1>1, <1>2, <1>3, <1>4, <1>5, <1>6, <1>7, <1>9, <1>10, <1>11, <1>12

LEMMA ShownInit == ASSUME LevelsDistinct PROVE Init => ShownInv
BY FreshOK, ClosedOK DEF Init, ShownInv, Serving

LEMMA ShownNext == ASSUME LevelsDistinct PROVE IInv /\ ShownInv /\ [Next]_vars => ShownInv'
<1> SUFFICES ASSUME IInv, ShownInv, [Next]_vars PROVE ShownInv'
  OBVIOUS
<1>1. CASE UNCHANGED vars
  BY <1>1 DEF ShownInv, vars
<1>2. ASSUME NEW t \in Tabs, NEW ok \in BOOLEAN, Answer(t, ok),
             (\E result \in Results : Served(t, result)) \/ (~ok /\ Unserved(t))
      PROVE  ShownInv'
  <2>1. Runner(t).pc = "calling"
    BY <1>2 DEF Served, Unserved
  <2> QED
    BY <1>2, <2>1, ServedShows, AnswerShows
<1>3. ASSUME NEW t \in Tabs, CutOff(t), (\E result \in Results : Served(t, result)) \/ Unserved(t)
      PROVE  ShownInv'
  <2>1. /\ server' \in Serving /\ \A k \in Keys : server[k] # "none" => server'[k] # "none"
    BY <1>3, ServedShows
  <2>2. TabOK(Closed, server') /\ DOMAIN tabs = Tabs
    BY ClosedOK DEF IInv
  <2> QED
    BY <1>3, <2>1, <2>2, OneTabShows DEF CutOff
<1> QED
  BY <1>1, <1>2, <1>3, TabStepShows DEF Next

LEMMA ShownAlways == ASSUME LevelsDistinct PROVE Spec => [](IInv /\ ShownInv)
BY InitInv, InvNext, ShownInit, ShownNext, PTL DEF Spec

\* One run fires no step twice: the loop looks ahead only, and Phase 1 is noted when it
\* is answered, also with an error (runAll in AutoRunProvider.tsx).
THEOREM NoStepTwice ==
    ASSUME LevelsDistinct
    PROVE  Spec => []FiredOnce
<1>1. IInv => FiredOnce
  BY DEF IInv, Sound, Behind, FiredOnce, Runner
<1> QED
  BY <1>1, InitInv, InvNext, PTL DEF Spec

\* The branch after the loop that starts Phase 1 "if it never ran" is never taken.
THEOREM LoopReachesPhaseOne ==
    ASSUME LevelsDistinct, NEW r \in Runners, Ended(r), Due(r) # "none"
    PROVE  Reached(r) \in Steps
BY ReachedAhead, NothingAfterLoop

\* A step shown as done has a result on the server, in every tab and in the store, through
\* reloads, other tabs' writes and lost answers: a step is marked done when its call
\* answered, or when the re-run had found a result and did not ask for it.
THEOREM DoneIsServed ==
    ASSUME LevelsDistinct
    PROVE  Spec => []DoneWasServed
<1>1. ShownInv => DoneWasServed
  BY DEF ShownInv, TabOK, RunOK, Backed, DoneWasServed
<1> QED
  BY <1>1, ShownAlways, PTL

\* Phase 1 is fired after every level was fired by the same run, or has a result.
THEOREM LevelsComeFirst ==
    ASSUME LevelsDistinct
    PROVE  Spec => []LevelsBeforeDecision
<1>1. ASSUME IInv, ShownInv
      PROVE  LevelsBeforeDecision
  <2> SUFFICES ASSUME NEW t \in Tabs, NEW n \in DOMAIN Runner(t).fired,
                      Runner(t).fired[n] = PhaseOne, NEW k \in Keys \ {PhaseOne}
               PROVE  (\E i \in DOMAIN Runner(t).fired : Runner(t).fired[i] = k)
                      \/ server[k] # "none"
    BY DEF LevelsBeforeDecision
  <2>1. PICK j \in Steps : j < Runner(t).at /\ PhaseOne = STEP_ORDER[j]
    BY <1>1 DEF IInv, Sound, Behind, Runner
  <2>2. j = Last /\ Runner(t).at \in Nat
    BY <1>1, <2>1, StepOrder DEF IInv, Sound, Runners, Runner
  <2>3. PICK i \in Steps : STEP_ORDER[i] = k
    BY DEF Keys, Steps
  <2>4. i < Runner(t).at
    BY <2>1, <2>2, <2>3, StepOrder
  <2>5. Tried(Runner(t), server)
    BY <1>1 DEF ShownInv, TabOK, Runner
  <2> QED
    BY <2>3, <2>4, <2>5 DEF Tried
<1> QED
  BY <1>1, ShownAlways, PTL

\* Wherever a reload, a crash of the tab or another tab's write hit a run, it can be
\* resumed, has ended, or awaits ingestion.
THEOREM RunsRestart ==
    ASSUME LevelsDistinct
    PROVE  Spec => []Restartable
<1>1. ASSUME ShownInv
      PROVE  Restartable
  <2> SUFFICES ASSUME NEW t \in Tabs, tabs[t].run # NoRun, ~InFlight(t)
               PROVE  \/ tabs[t].run.completed \/ Has(tabs[t].run, "interrupted")
                      \/ \A k \in Keys : tabs[t].run.step[k] = "pending"
    BY DEF Restartable
  <2>1. tabs[t].run \in Run /\ Restarts(tabs[t].run)
    BY <1>1 DEF ShownInv, TabOK, RunOK, RunOrNone, InFlight, Runner
  <2>2. DOMAIN tabs[t].run.step = Keys
    BY <2>1 DEF Run
  <2> QED
    BY <2>1, <2>2 DEF Restarts, Has
<1> QED
  BY <1>1, ShownAlways, PTL

\* Results, stored runs, tabs and runners have their types.
THEOREM ClientTypeCorrect ==
    ASSUME LevelsDistinct
    PROVE  Spec => []TypeOK
<1>1. ShownInv => TypeOK
  BY DEF ShownInv, Serving, TabOK, RunOK, RunOrNone, Tab, Runners, Runner, TypeOK
<1> QED
  BY <1>1, ShownAlways, PTL
===============================================================================
