----------------------------- MODULE AddressLevel -----------------------------
(***************************************************************************)
(* What verification level 1 keeps from one of its runs to the next        *)
(* (run_level_1_address in app/verification/levels/level_1_address.py):    *)
(* the commute it has already judged and the MD's decisions.  The case has *)
(* a ration or electricity bill on file.                                   *)
(***************************************************************************)
EXTENDS AddressRules

CONSTANTS Places,       \* where a photo may have been taken
          MaxHouse,     \* bound: house-visit photos
          MaxBusiness,  \* bound: photos of the business premises
          MaxRuns       \* bound: runs of the level

VARIABLES house, business,  \* the place each photo shows, NoCoords without one
          runs              \* the completed runs, oldest first

vars == <<house, business, runs>>

NoCoords == "no_coords"
Photos(max) == UNION {[1..n -> Places \cup {NoCoords}] : n \in 0..max}
Commutes == {"skipped", "pass", "warn_dm_unavailable", "block_no_route",
             "warn_judge_unavailable", "flag_reviewable", "block_absurd"}

Init ==
    house = << >> /\ business = << >> /\ runs = << >>

(***************************************************************************)
(* Uploads                                                                 *)
(***************************************************************************)
AddHousePhoto(place) ==
    /\ Len(house) < MaxHouse /\ house' = Append(house, place)
    /\ UNCHANGED <<business, runs>>
AddBusinessPhoto(place) ==
    /\ Len(business) < MaxBusiness /\ business' = Append(business, place)
    /\ UNCHANGED <<house, runs>>

(***************************************************************************)
(* Where the photos were taken.  seen: the photos storage returned;        *)
(* named: the house photos a geocoder found an address for.                *)
(***************************************************************************)
Located(photos, seen) == {i \in DOMAIN photos \cap seen : photos[i] # NoCoords}
First(S) == CHOOSE i \in S : \A j \in S : i <= j
Last(S) == CHOOSE i \in S : \A j \in S : i >= j

HouseCoords(seen, named) ==
    LET at == Located(house, seen)
    IN IF at = {} THEN NoCoords
       ELSE house[IF at \cap named # {} THEN First(at \cap named) ELSE Last(at)]
BusinessCoords(seen) ==
    LET at == Located(business, seen) IN IF at = {} THEN NoCoords ELSE business[First(at)]
SomeHouse == {HouseCoords(seen, named) : seen, named \in SUBSET DOMAIN house}
SomeBusiness == {BusinessCoords(seen) : seen \in SUBSET DOMAIN business}

(***************************************************************************)
(* The commute                                                             *)
(***************************************************************************)
Status(run) ==
    LET critical == {r \in DOMAIN run.issues : run.issues[r] = "CRITICAL"}
    IN IF critical = {} THEN "PASSED"
       ELSE IF critical \subseteq run.approved THEN "PASSED_WITH_MD_OVERRIDE" ELSE "BLOCKED"

\* The run whose commute may be reused; an overridden one is not looked at.
PriorRuns == {i \in DOMAIN runs : Status(runs[i]) \in {"PASSED", "BLOCKED"}}
Reusable(h, b) ==
    /\ PriorRuns # {}
    /\ LET prior == runs[Last(PriorRuns)] IN prior.house = h /\ prior.business = b

_compute_commute_sub_step(service) ==
    CASE service.dm = "error" -> "warn_dm_unavailable"
      [] service.dm = "zero_results" -> "block_no_route"
      [] service.dm = "ok" /\ service.minutes = "near" -> "pass"
      [] service.dm = "ok" /\ service.minutes = "far" ->
            (CASE service.judge = "none" -> "warn_judge_unavailable"
               [] service.judge = "CRITICAL" -> "block_absurd"
               [] service.judge = "WARNING" -> "flag_reviewable")

\* Seeded fault: the cached fields are replayed as those of a measured commute.
ReplayAsMeasured(status) ==
    IF status \in {"flag_reviewable", "block_absurd", "warn_judge_unavailable"}
    THEN commute("ok", "far", IF status = "block_absurd" THEN "CRITICAL" ELSE "none")
    ELSE "ok"
_rebuild_issue_from_cached_status(status) ==
    CASE status = "warn_dm_unavailable" -> commute("error", "far", "none")
      [] status = "block_no_route" -> commute("zero_results", "far", "none")
      [] status = "warn_judge_unavailable" -> commute("ok", "far", "none")
      [] status = "flag_reviewable" -> commute("ok", "far", "WARNING")
      [] status = "block_absurd" -> commute("ok", "far", "CRITICAL")
      [] OTHER -> "ok"

(***************************************************************************)
(* The run, with the photos at h and b.  service: what the distance        *)
(* service and the judge say if asked.                                     *)
(***************************************************************************)
Far(judge) == [dm |-> "ok", minutes |-> "far", judge |-> judge]
Services ==
    {Far("none"), Far("WARNING"), Far("CRITICAL"), [Far("none") EXCEPT !.minutes = "near"],
     [Far("none") EXCEPT !.dm = "error"], [Far("none") EXCEPT !.dm = "zero_results"]}

\* carry_forward_prior_decisions, of the approvals: by sub-step, whatever was found.
Carried(issues) ==
    IF runs = << >> THEN {}
    ELSE {r \in runs[Len(runs)].approved : issues[r] # "ok"}

run_level_1_address(h, b, service) ==
    LET located == h # NoCoords /\ b # NoCoords
        reused == located /\ Reusable(h, b)
        status == IF ~located THEN "skipped"
                  ELSE IF reused THEN runs[Last(PriorRuns)].commute
                  ELSE _compute_commute_sub_step(service)
        issues == [commute |-> IF ~located THEN "ok"
                               ELSE IF reused THEN _rebuild_issue_from_cached_status(status)
                               ELSE commute(service.dm, service.minutes, service.judge),
                   business_gps_present |->
                        business_gps_present(Len(business), b # NoCoords)]
    IN /\ Len(runs) < MaxRuns
       /\ runs' = Append(runs, [house |-> h, business |-> b, commute |-> status,
                                issues |-> issues, approved |-> Carried(issues)])
       /\ UNCHANGED <<house, business>>

\* The MD approves an issue of the latest run (VerificationGate has the transaction).
MDApproves(r) ==
    /\ runs # << >>
    /\ LET n == Len(runs)
       IN /\ runs[n].issues[r] # "ok" /\ r \notin runs[n].approved
          /\ runs' = [runs EXCEPT ![n].approved = @ \cup {r}]
    /\ UNCHANGED <<house, business>>

Rules == {"commute", "business_gps_present"}

Next ==
    \/ \E p \in Places \cup {NoCoords} : AddHousePhoto(p) \/ AddBusinessPhoto(p)
    \/ \E h \in SomeHouse, b \in SomeBusiness : \E service \in Services :
          run_level_1_address(h, b, service)
    \/ \E r \in Rules : MDApproves(r)

Spec == Init /\ [][Next]_vars

-----------------------------------------------------------------------------
TypeOK ==
    /\ house \in Photos(MaxHouse) /\ business \in Photos(MaxBusiness)
    /\ \A i \in DOMAIN runs :
          /\ runs[i].house \in Places \cup {NoCoords} /\ runs[i].business \in Places \cup {NoCoords}
          /\ runs[i].commute \in Commutes
          /\ runs[i].issues \in [Rules -> Severity] /\ runs[i].approved \in SUBSET Rules

\* Asking again does not clear a commute.  Once a run has judged a pair of places,
\* the runs that follow it without seeing another pair find the same, whatever the
\* distance service and the judge would answer by then, until an approval of the MD
\* passes a blocked run.
CommuteStands ==
    \A i, j \in DOMAIN runs :
        /\ i < j /\ runs[i].commute # "skipped"
        /\ \A k \in i..j : /\ runs[k].house = runs[i].house /\ runs[k].business = runs[i].business
                           /\ k < j => Status(runs[k]) # "PASSED_WITH_MD_OVERRIDE"
        => runs[j].issues.commute = runs[i].issues.commute
===============================================================================
