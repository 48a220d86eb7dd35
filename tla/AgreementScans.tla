---------------------------- MODULE AgreementScans ----------------------------
(***************************************************************************)
(* How verification level 1 learns who the loan agreement names            *)
(* (_load_or_scan_lagr_parties in app/verification/levels/                 *)
(* level_1_address.py), and what it makes of a bill in the name of the     *)
(* applicant's father, who must be on the loan.                            *)
(***************************************************************************)
EXTENDS AddressRules

CONSTANTS Agreements,   \* the kinds of document that name the parties, preferred first
          MaxRuns       \* bound: runs of the level

VARIABLES onFile,       \* the kinds uploaded as PDF
          cache,        \* per kind: the row of case_extractions for it
          runs          \* per completed run: the document read, whether the father is
                        \* named, whether from the cache, and the bill's finding

vars == <<onFile, cache, runs>>

Kinds == {Agreements[i] : i \in DOMAIN Agreements}
NoRow == [status |-> "none", named |-> FALSE]

\* A scan is complete when it saw the annexure and the clause; whether it names the
\* father is another matter.
Scan(status, named) == [status |-> status, named |-> named]
Scans == {Scan("FAILED", FALSE)} \cup {Scan(st, n) : st \in {"PARTIAL", "SUCCESS"}, n \in BOOLEAN}

Init == onFile = {} /\ cache = [k \in Kinds |-> NoRow] /\ runs = << >>

Upload(k) == k \notin onFile /\ onFile' = onFile \cup {k} /\ UNCHANGED <<cache, runs>>

(***************************************************************************)
(* A run                                                                   *)
(***************************************************************************)
Document ==
    LET filed == {i \in DOMAIN Agreements : Agreements[i] \in onFile}
        preferred == CHOOSE i \in filed : \A j \in filed : i <= j
    IN IF filed = {} THEN "none" ELSE Agreements[preferred]
\* Seeded fault: a complete row is not looked up.
AlwaysScanned == FALSE
Cached == Document # "none" /\ cache[Document].status = "SUCCESS"

\* What the run knows: the cached row, else a scan's, if it did not fail.
Parties(scan) ==
    IF Document = "none" THEN NoRow
    ELSE IF Cached THEN cache[Document]
    ELSE IF scan.status = "FAILED" THEN NoRow ELSE scan

Ravi == [first |-> "ravi", spelt |-> 0, sur |-> "das"]
Om == [first |-> "om", spelt |-> 0, sur |-> "das"]
Bill(named) ==
    [owner |-> Om, via |-> NoName, applicant |-> Ravi, coapp |-> NoName, appFather |-> Om,
     coFather |-> NoName, parties |-> IF named THEN {Om} ELSE {}]

\* Seeded fault: a failed scan is saved like any other.
SavesFailures(scan) ==
    IF Document = "none" \/ Cached THEN cache ELSE [cache EXCEPT ![Document] = scan]
\* A failed scan, or a failed download, leaves the row it found.
Saved(scan) ==
    IF Document = "none" \/ Cached \/ scan.status = "FAILED" THEN cache
    ELSE [cache EXCEPT ![Document] = scan]

_load_or_scan_lagr_parties(scan) ==
    /\ Len(runs) < MaxRuns
    /\ cache' = Saved(scan)
    /\ runs' = Append(runs, [doc |-> Document, complete |-> Parties(scan).status = "SUCCESS",
                             owner |-> ration_owner_rule(Bill(Parties(scan).named))])
    /\ UNCHANGED onFile

Next ==
    \/ \E k \in Kinds : Upload(k)
    \/ \E scan \in Scans : _load_or_scan_lagr_parties(scan)

Spec == Init /\ [][Next]_vars

-----------------------------------------------------------------------------
TypeOK ==
    /\ onFile \in SUBSET Kinds
    /\ cache \in [Kinds -> {NoRow} \cup (Scans \ {Scan("FAILED", FALSE)})]
    /\ \A i \in DOMAIN runs : runs[i].doc \in Kinds \cup {"none"} /\ runs[i].owner \in Severity

\* What a complete scan of a document showed is what every later run of the level finds
\* from that document, however storage and the scanner then fail, and although another
\* document was read in between.  (A partial scan is repeated, and may be lost.)
PartiesStand ==
    \A i, j \in DOMAIN runs :
        i < j /\ runs[i].doc = runs[j].doc /\ runs[i].complete
            => runs[j].owner = runs[i].owner
===============================================================================
