------------------------------ MODULE DedupeProofs ------------------------------
(***************************************************************************)
(* What two active customer lists can and cannot do, for any number of     *)
(* uploads at once.                                                        *)
(***************************************************************************)
EXTENDS DedupeSnapshots, FunctionTheorems, FiniteSetTheorems, TLAPS

Row == [at : Nat, done : Nat]
Upload == [pc : {"idle", "storing", "updated"}, at : Nat, off : SUBSET rows]

Typed ==
    /\ clock \in Nat /\ started \in Nat
    /\ rows \in SUBSET Row /\ active \in SUBSET rows
    /\ uploading \in [Sessions -> Upload]
    /\ screened \in SUBSET [known : SUBSET Row, used : SUBSET Row]

\* Everything dated has been dated by now, and a row was committed after its upload began.
Dated ==
    /\ \A r \in rows : r.at <= clock /\ r.done <= clock
    /\ \A s \in Sessions : uploading[s].at <= clock

\* Some list is active as soon as there is one, and every active list was committed
\* after the upload of any other began.
ActiveIsCurrent ==
    /\ rows # {} => active # {}
    /\ \A r \in active, q \in rows : q.at <= r.done

\* An upload that has deactivated what it saw leaves only lists committed since.
LeavesOnlyLater ==
    \A s \in Sessions : uploading[s].pc = "updated" =>
        \A r \in active \ uploading[s].off : uploading[s].at <= r.done

\* Every active list has its session, which deactivates it before it uploads another.
Owners ==
    \E f \in Injection(active, Sessions) :
        \A r \in active : uploading[f[r]].pc = "updated" => r \in uploading[f[r]].off

IInv ==
    Typed /\ Dated /\ ActiveIsCurrent /\ LeavesOnlyLater /\ Owners /\ ScreenedByCurrent

LEMMA InitInv == Init => IInv
<1> SUFFICES ASSUME Init PROVE IInv
  OBVIOUS
<1>1. Typed
  BY DEF Init, Typed, Idle, Upload
<1>2. Dated /\ ActiveIsCurrent /\ LeavesOnlyLater /\ ScreenedByCurrent
  BY DEF Init, Dated, ActiveIsCurrent, LeavesOnlyLater, ScreenedByCurrent, Idle
<1>3. Owners
  <2>1. [r \in {} |-> r] \in Injection(active, Sessions)
    BY DEF Init, Injection, IsInjective
  <2> QED
    BY <2>1 DEF Init, Owners
<1> QED
  BY <1>1, <1>2, <1>3 DEF IInv

(***************************************************************************)
(* The steps, one lemma each.                                              *)
(***************************************************************************)
LEMMA BeginNext ==
    ASSUME IInv, NEW s \in Sessions, UploadBegin(s)
    PROVE  IInv'
<1> USE DEF IInv, Typed
<1>1. clock' = clock + 1 /\ UNCHANGED <<rows, active, screened>>
  BY DEF UploadBegin
<1>2. /\ uploading'[s] = [pc |-> "storing", at |-> clock', off |-> {}]
      /\ \A t \in Sessions \ {s} : uploading'[t] = uploading[t]
      /\ DOMAIN uploading' = Sessions
  BY DEF UploadBegin
<1>3. Typed'
  BY <1>1, <1>2 DEF UploadBegin, Upload
<1>4. Dated'
  BY <1>1, <1>2 DEF Dated, Row, Upload
<1>5. ActiveIsCurrent' /\ ScreenedByCurrent'
  BY <1>1 DEF ActiveIsCurrent, ScreenedByCurrent
<1>6. LeavesOnlyLater'
  BY <1>1, <1>2 DEF LeavesOnlyLater
<1>7. Owners'
  <2>1. PICK f \in Injection(active, Sessions) :
            \A r \in active : uploading[f[r]].pc = "updated" => r \in uploading[f[r]].off
    BY DEF Owners
  <2>2. \A r \in active : f[r] \in Sessions
    BY DEF Injection
  <2> QED
    BY <1>1, <1>2, <2>1, <2>2 DEF Owners
<1> QED
  BY <1>3, <1>4, <1>5, <1>6, <1>7

LEMMA RefusedNext ==
    ASSUME IInv, NEW s \in Sessions, UploadRefused(s)
    PROVE  IInv'
<1> USE DEF IInv, Typed
<1>1. UNCHANGED <<clock, rows, active, started, screened>>
  BY DEF UploadRefused
<1>2. /\ uploading'[s] = Idle
      /\ \A t \in Sessions \ {s} : uploading'[t] = uploading[t]
      /\ DOMAIN uploading' = Sessions
  BY DEF UploadRefused
<1>3. Typed'
  BY <1>1, <1>2 DEF UploadRefused, Upload, Idle
<1>4. Dated'
  BY <1>1, <1>2 DEF Dated, Idle
<1>5. ActiveIsCurrent' /\ ScreenedByCurrent'
  BY <1>1 DEF ActiveIsCurrent, ScreenedByCurrent
<1>6. LeavesOnlyLater'
  BY <1>1, <1>2 DEF LeavesOnlyLater, Idle
<1>7. Owners'
  <2>1. PICK f \in Injection(active, Sessions) :
            \A r \in active : uploading[f[r]].pc = "updated" => r \in uploading[f[r]].off
    BY DEF Owners
  <2>2. \A r \in active : f[r] \in Sessions
    BY DEF Injection
  <2> QED
    BY <1>1, <1>2, <2>1, <2>2 DEF Owners, Idle
<1> QED
  BY <1>3, <1>4, <1>5, <1>6, <1>7

LEMMA DeactivateNext ==
    ASSUME IInv, NEW s \in Sessions, Deactivate(s)
    PROVE  IInv'
<1> USE DEF IInv, Typed
<1>1. UNCHANGED <<clock, rows, active, started, screened>>
  BY DEF Deactivate
<1>2. /\ uploading'[s] = [pc |-> "updated", at |-> uploading[s].at, off |-> active]
      /\ \A t \in Sessions \ {s} : uploading'[t] = uploading[t]
      /\ DOMAIN uploading' = Sessions
  BY DEF Deactivate, Upload
<1>3. Typed'
  <2>1. uploading[s] \in Upload
    OBVIOUS
  <2>2. uploading'[s] \in Upload'
    BY <1>1, <1>2, <2>1 DEF Upload
  <2>3. \A t \in Sessions \ {s} : uploading'[t] \in Upload'
    BY <1>1, <1>2 DEF Upload
  <2>4. uploading' = [t \in Sessions |-> uploading'[t]]
    BY DEF Deactivate
  <2> QED
    BY <1>1, <2>2, <2>3, <2>4
<1>4. Dated'
  BY <1>1, <1>2 DEF Dated
<1>5. ActiveIsCurrent' /\ ScreenedByCurrent'
  BY <1>1 DEF ActiveIsCurrent, ScreenedByCurrent
<1>6. LeavesOnlyLater'
  BY <1>1, <1>2 DEF LeavesOnlyLater
<1>7. Owners'
  <2>1. PICK f \in Injection(active, Sessions) :
            \A r \in active : uploading[f[r]].pc = "updated" => r \in uploading[f[r]].off
    BY DEF Owners
  <2>2. \A r \in active : f[r] \in Sessions
    BY DEF Injection
  <2> QED
    BY <1>1, <1>2, <2>1, <2>2 DEF Owners
<1> QED
  BY <1>3, <1>4, <1>5, <1>6, <1>7

LEMMA CommitNext ==
    ASSUME IInv, NEW s \in Sessions, UploadCommit(s)
    PROVE  IInv'
<1> USE DEF IInv, Typed
<1> DEFINE off == uploading[s].off
           new == [at |-> uploading[s].at, done |-> clock + 1]
<1>1. /\ clock' = clock + 1 /\ rows' = rows \cup {new} /\ active' = (active \ off) \cup {new}
      /\ UNCHANGED <<started, screened>> /\ uploading[s].pc = "updated"
  BY DEF UploadCommit, ActiveAfter
<1>2. /\ uploading'[s] = Idle
      /\ \A t \in Sessions \ {s} : uploading'[t] = uploading[t]
      /\ DOMAIN uploading' = Sessions
  BY DEF UploadCommit
<1>3. uploading[s] \in Upload /\ new \in Row /\ new.at <= clock /\ new.done = clock + 1
  BY DEF Upload, Row, Dated
<1>4. new \notin rows
  BY <1>3 DEF Dated, Row
<1>5. Typed'
  <2>1. uploading'[s] \in Upload'
    BY <1>1, <1>2 DEF Upload, Idle
  <2>2. \A t \in Sessions \ {s} : uploading'[t] \in Upload'
    BY <1>1, <1>2 DEF Upload
  <2>3. uploading' = [t \in Sessions |-> uploading'[t]]
    BY DEF UploadCommit
  <2>4. uploading' \in [Sessions -> Upload']
    BY <2>1, <2>2, <2>3
  <2> QED
    BY <1>1, <1>3, <2>4
<1>6. Dated'
  <2>1. \A r \in rows' : r.at <= clock' /\ r.done <= clock'
    BY <1>1, <1>3 DEF Dated, Row
  <2>2. \A t \in Sessions : uploading'[t].at <= clock'
    BY <1>1, <1>2 DEF Dated, Idle, Upload
  <2> QED
    BY <2>1, <2>2 DEF Dated
<1>7. ActiveIsCurrent'
  <2>1. ASSUME NEW r \in active', NEW q \in rows'
        PROVE  q.at <= r.done
    <3>1. CASE r = new
      BY <1>1, <1>3, <3>1 DEF Dated, Row
    <3>2. CASE r \in active \ off /\ q = new
      BY <1>1, <3>2 DEF LeavesOnlyLater
    <3>3. CASE r \in active \ off /\ q \in rows
      BY <3>3 DEF ActiveIsCurrent
    <3> QED
      BY <1>1, <3>1, <3>2, <3>3
  <2> QED
    BY <1>1, <2>1 DEF ActiveIsCurrent
<1>8. LeavesOnlyLater'
  <2> SUFFICES ASSUME NEW t \in Sessions, uploading'[t].pc = "updated",
                      NEW r \in active' \ uploading'[t].off
               PROVE  uploading'[t].at <= r.done
    BY DEF LeavesOnlyLater
  <2>1. t # s /\ uploading'[t] = uploading[t]
    BY <1>2 DEF Idle
  <2>2. CASE r = new
    BY <1>3, <2>1, <2>2 DEF Dated, Upload
  <2>3. CASE r \in active
    BY <2>1, <2>3 DEF LeavesOnlyLater
  <2> QED
    BY <1>1, <2>2, <2>3
<1>9. Owners'
  <2>1. PICK f \in Injection(active, Sessions) :
            \A r \in active : uploading[f[r]].pc = "updated" => r \in uploading[f[r]].off
    BY DEF Owners
  <2>2. /\ \A r \in active : f[r] \in Sessions
        /\ \A r, q \in active : f[r] = f[q] => r = q
    BY DEF Injection, IsInjective
  <2>3. \A r \in active \ off : f[r] # s
    BY <1>1, <2>1
  <2> DEFINE g == [r \in active' |-> IF r = new THEN s ELSE f[r]]
  <2>4. g \in [active' -> Sessions]
    BY <1>1, <2>2
  <2>5. \A r, q \in active' : g[r] = g[q] => r = q
    BY <1>1, <2>2, <2>3
  <2>6. g \in Injection(active', Sessions)
    BY <2>4, <2>5 DEF Injection, IsInjective
  <2>7. \A r \in active' : uploading'[g[r]].pc = "updated" => r \in uploading'[g[r]].off
    <3> SUFFICES ASSUME NEW r \in active', uploading'[g[r]].pc = "updated"
                 PROVE  r \in uploading'[g[r]].off
      OBVIOUS
    <3>1. r # new /\ g[r] = f[r]
      BY <1>2 DEF Idle
    <3>2. r \in active \ off /\ f[r] # s
      BY <1>1, <2>3, <3>1
    <3>3. uploading'[f[r]] = uploading[f[r]]
      BY <1>2, <2>2, <3>2
    <3> QED
      BY <2>1, <3>1, <3>2, <3>3
  <2> QED
    BY <2>6, <2>7 DEF Owners
<1>10. ScreenedByCurrent'
  BY <1>1 DEF ScreenedByCurrent
<1> QED
  BY <1>5, <1>6, <1>7, <1>8, <1>9, <1>10

LEMMA ScreenNext ==
    ASSUME IInv, Screen \/ ScreenMissed
    PROVE  IInv'
<1> USE DEF IInv, Typed
<1>1. UNCHANGED <<clock, rows, active, uploading, started>>
  BY DEF Screen, ScreenMissed, _run_dedupe
<1>2. PICK used \in SUBSET active :
          screened' = screened \cup {[known |-> rows, used |-> used]}
  <2>1. CASE Screen
    <3>1. PICK r \in active : screened' = screened \cup {[known |-> rows, used |-> {r}]}
      BY <2>1 DEF Screen, ActiveSnapshot, _run_dedupe
    <3>2. {r} \in SUBSET active
      OBVIOUS
    <3> QED
      BY <3>1, <3>2
  <2>2. CASE ScreenMissed
    BY <2>2 DEF ScreenMissed, _run_dedupe
  <2> QED
    BY <2>1, <2>2
<1>3. Typed'
  <2>1. [known |-> rows, used |-> used] \in [known : SUBSET Row, used : SUBSET Row]
    BY <1>2
  <2> QED
    BY <1>1, <1>2, <2>1 DEF Upload
<1>4. Dated' /\ ActiveIsCurrent' /\ LeavesOnlyLater' /\ Owners'
  BY <1>1 DEF Dated, ActiveIsCurrent, LeavesOnlyLater, Owners
<1>5. ScreenedByCurrent'
  BY <1>2 DEF ScreenedByCurrent, ActiveIsCurrent
<1> QED
  BY <1>3, <1>4, <1>5

LEMMA InvNext == IInv /\ [Next]_vars => IInv'
<1> SUFFICES ASSUME IInv, [Next]_vars PROVE IInv'
  OBVIOUS
<1>1. CASE UNCHANGED vars
  BY <1>1
  DEF IInv, Typed, Dated, ActiveIsCurrent, LeavesOnlyLater, Owners, ScreenedByCurrent, Upload,
      vars
<1> QED
  BY <1>1, BeginNext, RefusedNext, DeactivateNext, CommitNext, ScreenNext DEF Next

\* No case is compared with a list that had been replaced (the worker's choice of the
\* active row uploaded last, although nothing keeps two rows from being active).
THEOREM ScreeningIsCurrent == Spec => []ScreenedByCurrent
<1>1. IInv => ScreenedByCurrent
  BY DEF IInv
<1> QED
  BY <1>1, InitInv, InvNext, PTL DEF Spec

\* Some list is active from the first upload on; lists stay active together only if their
\* uploads overlapped, and there are never more of them than sessions: a session
\* deactivates its own earlier list.
THEOREM ActiveListsOverlap ==
    ASSUME IsFiniteSet(Sessions)
    PROVE  Spec => []ActivesOverlap
<1>1. IInv => ActivesOverlap
  <2> SUFFICES ASSUME IInv PROVE ActivesOverlap
    OBVIOUS
  <2>1. /\ rows # {} => active # {}
        /\ \A r, q \in active : q.at <= r.done
    BY DEF IInv, Typed, ActiveIsCurrent
  <2>2. PICK f : f \in Injection(active, Sessions)
    BY DEF IInv, Owners
  <2>3. Cardinality(active) <= Cardinality(Sessions)
    BY <2>2, FS_Injection
  <2> QED
    BY <2>1, <2>3 DEF ActivesOverlap
<1> QED
  BY <1>1, InitInv, InvNext, PTL DEF Spec

(***************************************************************************)
(* The types.  Every upload begins once and commits at most once, so the   *)
(* clock is no further than twice the uploads begun, less those at work.   *)
(***************************************************************************)
AtWork == {s \in Sessions : uploading[s].pc # "idle"}
InTime ==
    /\ started <= MaxUploads /\ clock + Cardinality(AtWork) <= 2 * started
    /\ \A r \in rows : r.at > 0 /\ r.done > 0
    /\ \A s \in AtWork : uploading[s].at > 0
    /\ \A c \in screened : c.known \subseteq rows /\ c.used \subseteq c.known

LEMMA InTimeInit == ASSUME MaxUploads \in Nat PROVE Init => InTime
<1> SUFFICES ASSUME Init PROVE InTime
  OBVIOUS
<1>1. AtWork = {}
  BY DEF Init, AtWork, Idle
<1>2. Cardinality(AtWork) = 0
  BY <1>1, FS_EmptySet
<1> QED
  BY <1>1, <1>2 DEF Init, InTime

LEMMA InTimeNext ==
    ASSUME IsFiniteSet(Sessions), MaxUploads \in Nat, IInv, InTime, [Next]_vars
    PROVE  InTime'
<1> USE DEF IInv, Typed
<1>1. IsFiniteSet(AtWork) /\ Cardinality(AtWork) \in Nat
  <2>1. AtWork \subseteq Sessions
    BY DEF AtWork
  <2> QED
    BY <2>1, FS_Subset, FS_CardinalityType
<1>2. CASE UNCHANGED vars
  BY <1>2 DEF vars, InTime, AtWork
<1>3. ASSUME NEW s \in Sessions, UploadBegin(s)
      PROVE  InTime'
  <2>1. AtWork' = AtWork \cup {s} /\ s \notin AtWork
    BY <1>3 DEF UploadBegin, AtWork
  <2>2. Cardinality(AtWork') = Cardinality(AtWork) + 1
    BY <1>1, <2>1, FS_AddElement
  <2>3. /\ clock' = clock + 1 /\ started' = started + 1 /\ started < MaxUploads
        /\ UNCHANGED <<rows, screened>>
    BY <1>3 DEF UploadBegin
  <2>4. started' <= MaxUploads /\ clock' + Cardinality(AtWork') <= 2 * started'
    BY <1>1, <2>2, <2>3 DEF InTime
  <2>5. \A t \in AtWork' : uploading'[t].at > 0
    BY <1>3, <2>1, <2>3 DEF InTime, UploadBegin
  <2> QED
    BY <2>3, <2>4, <2>5 DEF InTime
<1>4. ASSUME NEW s \in Sessions, UploadRefused(s)
      PROVE  InTime'
  <2>1. AtWork' = AtWork \ {s} /\ s \in AtWork
    BY <1>4 DEF UploadRefused, AtWork, Idle
  <2>2. Cardinality(AtWork') = Cardinality(AtWork) - 1
    BY <1>1, <2>1, FS_RemoveElement
  <2>3. UNCHANGED <<clock, started, rows, screened>>
    BY <1>4 DEF UploadRefused
  <2>4. started' <= MaxUploads /\ clock' + Cardinality(AtWork') <= 2 * started'
    BY <1>1, <2>2, <2>3 DEF InTime
  <2>5. \A t \in AtWork' : uploading'[t].at > 0
    BY <1>4, <2>1 DEF InTime, UploadRefused, AtWork
  <2> QED
    BY <2>3, <2>4, <2>5 DEF InTime
<1>5. ASSUME NEW s \in Sessions, Deactivate(s)
      PROVE  InTime'
  <2>1. /\ AtWork' = AtWork /\ \A t \in Sessions : uploading'[t].at = uploading[t].at
    BY <1>5 DEF Deactivate, AtWork, Upload
  <2>2. UNCHANGED <<clock, started, rows, screened>>
    BY <1>5 DEF Deactivate
  <2>3. \A t \in AtWork' : uploading'[t].at > 0
    BY <2>1 DEF InTime, AtWork
  <2> QED
    BY <2>1, <2>2, <2>3 DEF InTime
<1>6. ASSUME NEW s \in Sessions, UploadCommit(s)
      PROVE  InTime'
  <2> DEFINE new == [at |-> uploading[s].at, done |-> clock + 1]
  <2>1. AtWork' = AtWork \ {s} /\ s \in AtWork
    BY <1>6 DEF UploadCommit, AtWork, Idle
  <2>2. Cardinality(AtWork') = Cardinality(AtWork) - 1
    BY <1>1, <2>1, FS_RemoveElement
  <2>3. clock' = clock + 1 /\ rows' = rows \cup {new} /\ UNCHANGED <<started, screened>>
    BY <1>6 DEF UploadCommit
  <2>4. started' <= MaxUploads /\ clock' + Cardinality(AtWork') <= 2 * started'
    BY <1>1, <2>2, <2>3 DEF InTime
  <2>5. \A t \in AtWork' : uploading'[t].at > 0
    BY <1>6, <2>1 DEF InTime, UploadCommit, AtWork
  <2>6. \A r \in rows' : r.at > 0 /\ r.done > 0
    BY <2>1, <2>3 DEF InTime
  <2>7. \A c \in screened' : c.known \subseteq rows' /\ c.used \subseteq c.known
    BY <2>3 DEF InTime
  <2> QED
    BY <2>4, <2>5, <2>6, <2>7 DEF InTime
<1>7. ASSUME NEW found \in SUBSET active, _run_dedupe(found)
      PROVE  InTime'
  <2>1. UNCHANGED <<clock, started, rows, active, uploading>>
    BY <1>7 DEF _run_dedupe
  <2>2. AtWork' = AtWork
    BY <2>1 DEF AtWork
  <2>3. \A c \in screened' : c.known \subseteq rows /\ c.used \subseteq c.known
    BY <1>7 DEF InTime, _run_dedupe
  <2> QED
    BY <2>1, <2>2, <2>3 DEF InTime
<1> QED
  BY <1>2, <1>3, <1>4, <1>5, <1>6, <1>7 DEF Next, Screen, ScreenMissed, ActiveSnapshot

\* Lists and what cases were screened against are dated within the uploads there may be.
THEOREM DedupeTypeCorrect ==
    ASSUME IsFiniteSet(Sessions), MaxUploads \in Nat
    PROVE  Spec => []TypeOK
<1>1. IInv /\ InTime => TypeOK
  <2> SUFFICES ASSUME IInv, InTime PROVE TypeOK
    OBVIOUS
  <2> USE DEF IInv, Typed
  <2>1. Cardinality(AtWork) \in Nat
    <3>1. AtWork \subseteq Sessions
      BY DEF AtWork
    <3> QED
      BY <3>1, FS_Subset, FS_CardinalityType
  <2>2. clock \in 0..(2 * MaxUploads) /\ started \in 0..MaxUploads
    BY <2>1 DEF InTime
  <2>3. rows \in SUBSET Snapshots
    BY <2>2 DEF InTime, Dated, Row, Snapshots, Instants
  <2>4. \A s \in Sessions : uploading[s].pc \in {"idle", "storing", "updated"}
    BY DEF Upload
  <2>5. \A c \in screened : c.known \in SUBSET Snapshots /\ c.used \in SUBSET c.known
    BY <2>3 DEF InTime
  <2> QED
    BY <2>2, <2>3, <2>4, <2>5 DEF TypeOK
<1>2. Init => InTime
  BY InTimeInit
<1> QED
  BY <1>1, <1>2, InitInv, InvNext, InTimeNext, PTL DEF Spec
===============================================================================
