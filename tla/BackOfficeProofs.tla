---------------------------- MODULE BackOfficeProofs ----------------------------
(***************************************************************************)
(* What the parts of the back office state, for every behaviour of the     *)
(* composition: a part that moves is a behaviour of its component, and the *)
(* others stay where they are parked.                                      *)
(*                                                                         *)
(* The levels have their proofs in LevelProofs, of the very variables they *)
(* have here.  The dedupe list, the catalogue and the client have proof    *)
(* modules of their own and two instances here, that of the composition    *)
(* and (with a P) that of its proofs; they differ in name only, as the     *)
(* first lemmas of its section say.  The CAM gate, the register, the       *)
(* bureau reports, the commute and the agreement are proved here, of the   *)
(* composition's instance.                                                 *)
(***************************************************************************)
EXTENDS MCBackOffice, LevelProofs

DedupeP == INSTANCE DedupeProofs WITH rows <- snapshots, started <- uploads
CatalogueP == INSTANCE MrpProofs WITH sess <- editing
ClientP == INSTANCE ClientProofs

(***************************************************************************)
(* The dedupe list                                                         *)
(***************************************************************************)
LEMMA DedupeInit == Dedupe!Init => DedupeP!Init
BY DEF Dedupe!Idle, DedupeP!Idle, Dedupe!Init, DedupeP!Init

LEMMA DedupeNext == Dedupe!Next => DedupeP!Next
BY DEF Dedupe!Idle, DedupeP!Idle, Dedupe!UploadBegin, DedupeP!UploadBegin,
       Dedupe!UploadRefused, DedupeP!UploadRefused, Dedupe!Deactivate,
       DedupeP!Deactivate, Dedupe!ActiveAfter, DedupeP!ActiveAfter, Dedupe!UploadCommit,
       DedupeP!UploadCommit, Dedupe!ActiveSnapshot, DedupeP!ActiveSnapshot,
       Dedupe!_run_dedupe, DedupeP!_run_dedupe, Dedupe!Screen, DedupeP!Screen,
       Dedupe!ScreenMissed, DedupeP!ScreenMissed, Dedupe!Next, DedupeP!Next

LEMMA DedupeScreenedByCurrent == DedupeP!ScreenedByCurrent => Dedupe!ScreenedByCurrent
BY DEF Dedupe!ScreenedByCurrent, DedupeP!ScreenedByCurrent

LEMMA DedupeActivesOverlap == DedupeP!ActivesOverlap => Dedupe!ActivesOverlap
<1>1. \A S : Dedupe!Cardinality(S) = DedupeP!Cardinality(S)
  BY Zenon DEF Dedupe!Cardinality, DedupeP!Cardinality
<1> QED
  BY <1>1 DEF Dedupe!ActivesOverlap, DedupeP!ActivesOverlap

LEMMA DedupeBehaves == PartSpec /\ part = "dedupe" => DedupeP!Spec
<1>1. PartInit /\ part = "dedupe" => DedupeP!Init
  BY DedupeInit DEF PartInit
<1>2. part = "dedupe" /\ [PartNext]_parts
          => [DedupeP!Next]_DedupeP!vars /\ (part = "dedupe")'
  BY DedupeNext DEF PartNext, parts, dedupe, DedupeP!vars
<1> QED
  BY <1>1, <1>2, PTL DEF PartSpec, DedupeP!Spec

LEMMA DedupeParked == PartSpec /\ ~(part = "dedupe") => []~(part = "dedupe")
<1>1. ~(part = "dedupe") /\ [PartNext]_parts => ~(part = "dedupe")'
  BY DEF PartNext, parts
<1> QED
  BY <1>1, PTL DEF PartSpec

\* No case of the composition is compared with a list that had been replaced.
THEOREM CasesScreenedByCurrent == PartSpec => []ScreenedByCurrent
<1>1. DedupeP!Spec => []DedupeP!ScreenedByCurrent
  BY DedupeP!ScreeningIsCurrent
<1>2. ScreenedByCurrent <=> (part = "dedupe" => Dedupe!ScreenedByCurrent)
  BY DEF ScreenedByCurrent
<1>3. DedupeP!ScreenedByCurrent => Dedupe!ScreenedByCurrent
  BY DedupeScreenedByCurrent
<1> QED
  BY <1>1, <1>2, <1>3, DedupeBehaves, DedupeParked, PTL

LEMMA DedupeFinite == DedupeP!IsFiniteSet(Sessions)
BY SessionsAssumption DEF IsFiniteSet, DedupeP!IsFiniteSet

\* From the first upload on some list is active; lists are active together only if their
\* uploads overlapped.
THEOREM OverlapOnly == PartSpec => []ActivesOverlap
<1>1. DedupeP!Spec => []DedupeP!ActivesOverlap
  BY DedupeFinite, DedupeP!ActiveListsOverlap
<1>2. ActivesOverlap <=> (part = "dedupe" => Dedupe!ActivesOverlap)
  BY DEF ActivesOverlap
<1>3. DedupeP!ActivesOverlap => Dedupe!ActivesOverlap
  BY DedupeActivesOverlap
<1> QED
  BY <1>1, <1>2, <1>3, DedupeBehaves, DedupeParked, PTL

(***************************************************************************)
(* The price catalogue                                                     *)
(***************************************************************************)
LEMMA CatalogueInit == Catalogue!Init => CatalogueP!Init
BY Zenon DEF Catalogue!NoRow, CatalogueP!NoRow, Catalogue!Idle, CatalogueP!Idle,
       Catalogue!Init, CatalogueP!Init

LEMMA CatalogueNext == Catalogue!Next => CatalogueP!Next
BY Zenon DEF Catalogue!NoRow, CatalogueP!NoRow, Catalogue!Idle, CatalogueP!Idle,
       Catalogue!Begin, CatalogueP!Begin, Catalogue!End, CatalogueP!End, Catalogue!Busy,
       CatalogueP!Busy, Catalogue!Seen, CatalogueP!Seen, Catalogue!Insert,
       CatalogueP!Insert, Catalogue!EstimateBegin, CatalogueP!EstimateBegin,
       Catalogue!Sighted, CatalogueP!Sighted, Catalogue!EstimateKnown,
       CatalogueP!EstimateKnown, Catalogue!EstimateNew, CatalogueP!EstimateNew,
       Catalogue!EstimateFails, CatalogueP!EstimateFails, Catalogue!create_manual,
       CatalogueP!create_manual, Catalogue!UpdateBegin, CatalogueP!UpdateBegin,
       Catalogue!EditedSource, CatalogueP!EditedSource, Catalogue!Touched,
       CatalogueP!Touched, Catalogue!UpdateCommit, CatalogueP!UpdateCommit,
       Catalogue!UpdateFails, CatalogueP!UpdateFails, Catalogue!delete_entry,
       CatalogueP!delete_entry, Catalogue!Next, CatalogueP!Next

LEMMA CatalogueLabelTellsEditor == CatalogueP!LabelTellsEditor => Catalogue!LabelTellsEditor
BY DEF Catalogue!NoRow, CatalogueP!NoRow, Catalogue!LabelTellsEditor,
       CatalogueP!LabelTellsEditor

LEMMA CataloguePriceMovesByEdit == CatalogueP!PriceMovesByEdit => Catalogue!PriceMovesByEdit
BY DEF Catalogue!NoRow, CatalogueP!NoRow, Catalogue!PriceMovesByEdit,
       CatalogueP!PriceMovesByEdit

LEMMA CatalogueBehaves == PartSpec /\ part = "catalogue" => CatalogueP!Spec
<1>1. PartInit /\ part = "catalogue" => CatalogueP!Init
  BY CatalogueInit DEF PartInit
<1>2. part = "catalogue" /\ [PartNext]_parts
          => [CatalogueP!Next]_CatalogueP!vars /\ (part = "catalogue")'
  BY CatalogueNext DEF PartNext, parts, catalogue, CatalogueP!vars
<1> QED
  BY <1>1, <1>2, PTL DEF PartSpec, CatalogueP!Spec

LEMMA CatalogueParked == PartSpec /\ ~(part = "catalogue") => []~(part = "catalogue")
<1>1. ~(part = "catalogue") /\ [PartNext]_parts => ~(part = "catalogue")'
  BY DEF PartNext, parts
<1> QED
  BY <1>1, PTL DEF PartSpec

\* A price is the estimate of the AI exactly as long as its row says so.
THEOREM LabelTellsTheEditor == PartSpec => []LabelTellsEditor
<1>1. CatalogueP!Spec => []CatalogueP!LabelTellsEditor
  BY CatalogueP!LabelIsTruthful
<1>2. LabelTellsEditor <=> (part = "catalogue" => Catalogue!LabelTellsEditor)
  BY DEF LabelTellsEditor
<1>3. CatalogueP!LabelTellsEditor => Catalogue!LabelTellsEditor
  BY CatalogueLabelTellsEditor
<1> QED
  BY <1>1, <1>2, <1>3, CatalogueBehaves, CatalogueParked, PTL

\* Only an administrator moves a price.
THEOREM PriceMovesByEditOnly == PartSpec => PriceStands
<1>1. CatalogueP!Spec => [][CatalogueP!PriceMovesByEdit]_CatalogueP!vars
  BY CatalogueP!PriceIsEdited DEF CatalogueP!PriceStands
<1>2. part = "catalogue" /\ [PartNext]_parts /\ [CatalogueP!PriceMovesByEdit]_CatalogueP!vars
        => [part = "catalogue" => Catalogue!PriceMovesByEdit]_parts
  <2> SUFFICES ASSUME part = "catalogue", PartNext, CatalogueP!vars' = CatalogueP!vars
               PROVE  UNCHANGED parts \/ Catalogue!PriceMovesByEdit
    BY CataloguePriceMovesByEdit
  <2> QED
    BY DEF CatalogueP!vars, Catalogue!PriceMovesByEdit
<1>3. ~(part = "catalogue") /\ [PartNext]_parts
        => [part = "catalogue" => Catalogue!PriceMovesByEdit]_parts
  OBVIOUS
<1> QED
  BY <1>1, <1>2, <1>3, CatalogueBehaves, CatalogueParked, PTL DEF PartSpec, PriceStands

(***************************************************************************)
(* The CAM gate                                                            *)
(***************************************************************************)
EditRequests == [field : Cam!Fields, status : {"PENDING", "APPROVED", "REJECTED"}]
Settlings ==
    [pc : {"idle", "resolve", "decide", "start"}, field : Cam!Fields \cup {"none"},
     request : Nat, saw : SUBSET Critical]

GateTyped ==
    /\ flags \in SUBSET Cam!Fields /\ resolution \in [Cam!Fields -> Cam!Kinds \cup {"none"}]
    /\ requests \in Seq(EditRequests) /\ starts \in Seq(SUBSET Critical)
    /\ settling \in [Sessions -> Settlings]
    /\ \A s \in Sessions : settling[s].pc = "resolve" => settling[s].field \in Cam!Fields

\* What a start has seen is settled already when it looks, so that it stays settled
\* until the start commits.
SeenReviewed ==
    \A s \in Sessions : settling[s].pc = "start" => settling[s].saw \subseteq Cam!Resolved

GateInv == GateTyped /\ SeenReviewed /\ Cam!StartedReviewed

LEMMA KindsAreSettled == "none" \notin Cam!Kinds
BY DEF Cam!Kinds

\* Nothing but a resolution touches the resolutions, and none goes away.
LEMMA ResolvedGrows ==
    ASSUME GateTyped, Cam!Next
    PROVE  Cam!Resolved \subseteq Cam!Resolved'
<1>1. ASSUME NEW s \in Sessions, NEW kind \in Cam!Kinds, Cam!ResolveCommit(s, kind)
      PROVE  Cam!Resolved \subseteq Cam!Resolved'
  BY <1>1, KindsAreSettled DEF Cam!ResolveCommit, Cam!Resolved, GateTyped
<1>2. ASSUME UNCHANGED resolution
      PROVE  Cam!Resolved \subseteq Cam!Resolved'
  BY <1>2 DEF Cam!Resolved
<1> QED
  BY <1>1, <1>2
  DEF Cam!Next, Cam!Extract, Cam!ResolveBegin, Cam!DecideBegin, Cam!DecideCommit,
      Cam!StartBegin, Cam!StartCommit,
      Cam!Ingested, Cam!Begin

LEMMA GateInit == Cam!Init => GateInv
<1> SUFFICES ASSUME Cam!Init PROVE GateInv
  OBVIOUS
<1>1. GateTyped
  BY DEF Cam!Init, GateTyped, Cam!Idle, Settlings
<1>2. SeenReviewed
  BY DEF Cam!Init, SeenReviewed, Cam!Idle
<1>3. Cam!StartedReviewed
  BY DEF Cam!Init, Cam!StartedReviewed
<1> QED
  BY <1>1, <1>2, <1>3 DEF GateInv

LEMMA GateTypedNext ==
    ASSUME GateTyped, Cam!Next
    PROVE  GateTyped'
<1> USE DEF GateTyped
<1>1. ASSUME NEW now \in SUBSET Cam!Fields, Cam!Extract(now)
      PROVE  GateTyped'
  BY <1>1 DEF Cam!Extract
<1>2. ASSUME NEW s \in Sessions, NEW f \in Cam!Fields, Cam!ResolveBegin(s, f)
      PROVE  GateTyped'
  BY <1>2 DEF Cam!ResolveBegin, Cam!Begin, Cam!Idle, Settlings
<1>3. ASSUME NEW s \in Sessions, NEW kind \in Cam!Kinds, Cam!ResolveCommit(s, kind)
      PROVE  GateTyped'
  <2>1. settling[s].field \in Cam!Fields
    BY <1>3 DEF Cam!ResolveCommit, Cam!Busy
  <2>2. resolution' \in [Cam!Fields -> Cam!Kinds \cup {"none"}]
    BY <1>3 DEF Cam!ResolveCommit
  <2>3. requests' \in Seq(EditRequests)
    <3>1. [field |-> settling[s].field, status |-> "PENDING"] \in EditRequests
      BY <2>1 DEF EditRequests
    <3> QED
      BY <1>3, <3>1, AppendProperties DEF Cam!ResolveCommit
  <2>4. settling' \in [Sessions -> Settlings] /\ Cam!Idle.pc # "resolve"
    BY <1>3 DEF Cam!ResolveCommit, Cam!End, Cam!Idle, Settlings
  <2> QED
    BY <1>3, <2>2, <2>3, <2>4 DEF Cam!ResolveCommit, Cam!End, Cam!Idle
<1>4. ASSUME NEW s \in Sessions, NEW i \in DOMAIN requests, Cam!DecideBegin(s, i)
      PROVE  GateTyped'
  <2>1. i \in Nat
    BY DEF Cam!Pending
  <2> QED
    BY <1>4, <2>1 DEF Cam!DecideBegin, Cam!Begin, Cam!Idle, Settlings
<1>5. ASSUME NEW s \in Sessions, NEW decision \in {"APPROVED", "REJECTED"},
             Cam!DecideCommit(s, decision)
      PROVE  GateTyped'
  <2>1. requests' \in Seq(EditRequests)
    <3> DEFINE i == settling[s].request
    <3>1. CASE i \in DOMAIN requests
      <4>1. requests[i] \in EditRequests
        BY <3>1
      <4>2. [requests[i] EXCEPT !.status = decision] \in EditRequests
        BY <4>1 DEF EditRequests
      <4> QED
        BY <1>5, <3>1, <4>2 DEF Cam!DecideCommit
    <3>2. CASE i \notin DOMAIN requests
      <4>1. requests \in [DOMAIN requests -> EditRequests]
        OBVIOUS
      <4>2. requests' = requests
        BY <1>5, <3>2, <4>1 DEF Cam!DecideCommit
      <4> QED
        BY <4>2
    <3> QED
      BY <3>1, <3>2
  <2>2. settling' \in [Sessions -> Settlings]
    BY <1>5 DEF Cam!DecideCommit, Cam!End, Cam!Idle, Settlings
  <2> QED
    BY <1>5, <2>1, <2>2 DEF Cam!DecideCommit, Cam!End, Cam!Idle
<1>6. ASSUME NEW s \in Sessions, Cam!StartBegin(s)
      PROVE  GateTyped'
  BY <1>6 DEF Cam!StartBegin, Cam!Begin, Cam!Idle, Settlings
<1>7. ASSUME NEW s \in Sessions, Cam!StartCommit(s)
      PROVE  GateTyped'
  <2>1. settling[s].saw \in SUBSET Critical
    BY DEF Settlings
  <2>2. starts' \in Seq(SUBSET Critical)
    BY <1>7, <2>1, AppendProperties DEF Cam!StartCommit
  <2>3. settling' \in [Sessions -> Settlings]
    BY <1>7 DEF Cam!StartCommit, Cam!End, Cam!Idle, Settlings
  <2> QED
    BY <1>7, <2>2, <2>3 DEF Cam!StartCommit, Cam!End, Cam!Idle
<1>8. ASSUME Cam!Ingested
      PROVE  GateTyped'
  BY <1>8 DEF Cam!Ingested
<1> QED
  BY <1>1, <1>2, <1>3, <1>4, <1>5, <1>6, <1>7, <1>8 DEF Cam!Next

LEMMA SeenReviewedNext ==
    ASSUME GateTyped, SeenReviewed, Cam!Next
    PROVE  SeenReviewed'
<1>1. Cam!Resolved \subseteq Cam!Resolved'
  BY ResolvedGrows
<1>2. SUFFICES ASSUME NEW t \in Sessions, settling'[t].pc = "start"
               PROVE  settling'[t].saw \subseteq Cam!Resolved'
  BY DEF SeenReviewed
<1>3. CASE settling'[t] = settling[t]
  BY <1>1, <1>2, <1>3 DEF SeenReviewed
<1>4. CASE \E s \in Sessions : Cam!StartBegin(s)
  <2>1. PICK s \in Sessions : Cam!StartBegin(s)
    BY <1>4
  <2>2. CASE s = t
    BY <1>1, <2>1, <2>2 DEF Cam!StartBegin, Cam!Begin, Cam!Idle, Cam!Blocking, GateTyped
  <2>3. CASE s # t
    BY <1>3, <2>1, <2>3 DEF Cam!StartBegin, Cam!Begin, GateTyped
  <2> QED
    BY <2>2, <2>3
<1>5. ASSUME NEW s \in Sessions, NEW r, r.pc # "start", settling' = [settling EXCEPT ![s] = r]
      PROVE  settling'[t] = settling[t]
  BY <1>2, <1>5 DEF GateTyped
<1>6. ASSUME NEW s \in Sessions, Cam!End(s)
      PROVE  settling'[t] = settling[t]
  BY <1>5, <1>6 DEF Cam!End, Cam!Idle
<1>7. ASSUME NEW s \in Sessions, NEW f \in Cam!Fields, Cam!ResolveBegin(s, f)
      PROVE  settling'[t] = settling[t]
  BY <1>5, <1>7 DEF Cam!ResolveBegin, Cam!Begin, Cam!Idle
<1>8. ASSUME NEW s \in Sessions, NEW i \in DOMAIN requests, Cam!DecideBegin(s, i)
      PROVE  settling'[t] = settling[t]
  BY <1>5, <1>8 DEF Cam!DecideBegin, Cam!Begin, Cam!Idle
<1> QED
  BY <1>3, <1>4, <1>6, <1>7, <1>8
  DEF Cam!Next, Cam!Extract, Cam!ResolveCommit, Cam!DecideCommit, Cam!StartCommit, Cam!Ingested

LEMMA StartedReviewedNext ==
    ASSUME GateTyped, SeenReviewed, Cam!StartedReviewed, Cam!Next
    PROVE  Cam!StartedReviewed'
<1>1. Cam!Resolved \subseteq Cam!Resolved'
  BY ResolvedGrows
<1>2. CASE UNCHANGED starts
  BY <1>1, <1>2 DEF Cam!StartedReviewed
<1>3. ASSUME NEW s \in Sessions, Cam!StartCommit(s)
      PROVE  Cam!StartedReviewed'
  <2>1. starts' = Append(starts, settling[s].saw) /\ settling[s].saw \subseteq Cam!Resolved
    BY <1>3 DEF Cam!StartCommit, Cam!Busy, SeenReviewed
  <2>2. settling[s].saw \in SUBSET Critical
    BY DEF GateTyped, Settlings
  <2>3. \A i \in DOMAIN starts' :
            starts'[i] = IF i \in DOMAIN starts THEN starts[i] ELSE settling[s].saw
    BY <2>1, <2>2, AppendProperties DEF GateTyped
  <2> QED
    BY <1>1, <2>1, <2>3 DEF Cam!StartedReviewed
<1> QED
  BY <1>2, <1>3
  DEF Cam!Next, Cam!Extract, Cam!ResolveBegin, Cam!ResolveCommit, Cam!DecideBegin,
      Cam!DecideCommit, Cam!StartBegin,
      Cam!Ingested, Cam!Begin

LEMMA GateNext == GateInv /\ [Cam!Next]_Cam!vars => GateInv'
<1> SUFFICES ASSUME GateInv, [Cam!Next]_Cam!vars PROVE GateInv'
  OBVIOUS
<1>1. CASE Cam!Next
  BY <1>1, GateTypedNext, SeenReviewedNext, StartedReviewedNext DEF GateInv
<1>2. CASE UNCHANGED Cam!vars
  BY <1>2 DEF GateInv, GateTyped, SeenReviewed, Cam!StartedReviewed, Cam!Resolved, Cam!vars
<1> QED
  BY <1>1, <1>2

\* No start of Phase 1 rests on a critical disagreement without a resolution, then or
\* later (start_phase1's look at get_summary, and every handler that commits meanwhile).
THEOREM StartsAreReviewed == Cam!Spec => []Cam!StartedReviewed
<1>1. GateInv => Cam!StartedReviewed
  BY DEF GateInv
<1> QED
  BY <1>1, GateInit, GateNext, PTL DEF Cam!Spec

\* The types of the rows of a case's CAM and of the transactions on them.
THEOREM GateTypeCorrect == Cam!Spec => []Cam!TypeOK
<1>1. GateInv => Cam!TypeOK
  <2> SUFFICES ASSUME GateInv PROVE Cam!TypeOK
    OBVIOUS
  <2>1. \A i \in DOMAIN requests : requests[i] \in EditRequests
    BY DEF GateInv, GateTyped
  <2>2. \A i \in DOMAIN starts : starts[i] \in SUBSET Critical
    BY DEF GateInv, GateTyped
  <2>3. \A s \in Sessions : settling[s] \in Settlings
    BY DEF GateInv, GateTyped
  <2> QED
    BY <2>1, <2>2, <2>3 DEF GateInv, GateTyped, Cam!TypeOK, EditRequests, Settlings
<1> QED
  BY <1>1, GateInit, GateNext, PTL DEF Cam!Spec

LEMMA CamBehaves == PartSpec /\ part = "cam" => Cam!Spec
<1>1. PartInit /\ part = "cam" => Cam!Init
  BY DEF PartInit
<1>2. part = "cam" /\ [PartNext]_parts => [Cam!Next]_Cam!vars /\ (part = "cam")'
  BY DEF PartNext, parts, cam, Cam!vars
<1> QED
  BY <1>1, <1>2, PTL DEF PartSpec, Cam!Spec

LEMMA CamParked == PartSpec /\ ~(part = "cam") => []~(part = "cam")
<1>1. ~(part = "cam") /\ [PartNext]_parts => ~(part = "cam")'
  BY DEF PartNext, parts
<1> QED
  BY <1>1, PTL DEF PartSpec

\* No start of Phase 1 saw a critical disagreement that nobody settled.
THEOREM NoUnreviewedStart == PartSpec => []StartedReviewed
<1>1. StartedReviewed <=> (part = "cam" => Cam!StartedReviewed)
  BY DEF StartedReviewed
<1> QED
  BY <1>1, StartsAreReviewed, CamBehaves, CamParked, PTL

(***************************************************************************)
(* The loan register                                                       *)
(***************************************************************************)
LEMMA RegisterCounts == \A S : Register!Cardinality(S) = Cardinality(S)
BY Zenon DEF Register!Cardinality, Cardinality

\* Each session has one of the cases in hand, or none.
InHand ==
    DOMAIN filing = Sessions /\ \A s \in Sessions : filing[s].case \in Register!Ids \cup {0}

\* Cases are numbered in the order in which they are opened.
Counts == [approved : Nat, done : Nat]
RegisterTyped ==
    /\ IsFiniteSet(Register!Ids) /\ Register!Ids = 1..Cardinality(Register!Ids)
    /\ cases \in [Register!Ids -> Register!Case] /\ reuploads \in [Register!Ids -> Counts]
    /\ InHand

\* A row counts its re-uploads, each has its archive, and a window that is open is that
\* of an approval still to be used.
RowSound(entry, counts) ==
    /\ entry.reupload_count = counts.done /\ entry.archives = 1..counts.done
    /\ counts.done <= counts.approved
    /\ entry.window => counts.done < counts.approved

\* A version that a session has in hand is the next one, with an approval for it, or taken.
Backed(version, counts) ==
    version \in 1..(counts.done + 1) /\ version <= counts.approved
RegisterInv ==
    /\ RegisterTyped
    /\ \A c \in Register!Ids : RowSound(cases[c], reuploads[c])
    /\ \A s \in Sessions : filing[s].pc = "reupload" =>
          filing[s].case \in Register!Ids /\ Backed(filing[s].version, reuploads[filing[s].case])

LEMMA RegisterInit == Register!Init => RegisterInv
<1> SUFFICES ASSUME Register!Init PROVE RegisterInv
  OBVIOUS
<1>1. Register!Ids = {}
  BY DEF Register!Init, Register!Ids
<1>2. IsFiniteSet({}) /\ Cardinality({}) = 0
  BY FS_EmptySet
<1>3. Register!Ids = 1..Cardinality(Register!Ids)
  BY <1>1, <1>2
<1>4. \A s \in Sessions : filing[s].case = 0 /\ filing[s].pc = "idle"
  BY DEF Register!Init, Register!Idle
<1>5. /\ cases \in [Register!Ids -> Register!Case] /\ reuploads \in [Register!Ids -> Counts]
      /\ DOMAIN filing = Sessions
  BY <1>1 DEF Register!Init
<1> QED
  BY <1>1, <1>2, <1>3, <1>4, <1>5 DEF RegisterInv, RegisterTyped, InHand

\* The number of the case a session has in hand is left, or replaced by an old one.
LEMMA InHandNext ==
    ASSUME RegisterTyped, Register!Next, Register!Ids \subseteq Register!Ids'
    PROVE  InHand'
<1> USE DEF RegisterTyped, InHand
<1>1. ASSUME NEW s \in Sessions, NEW c \in Register!Ids \cup {0}, NEW pc, NEW version,
             filing' = [filing EXCEPT ![s] = [pc |-> pc, case |-> c, version |-> version]]
      PROVE  InHand'
  BY <1>1
<1>2. ASSUME UNCHANGED filing
      PROVE  InHand'
  BY <1>2
<1>3. ASSUME NEW s \in Sessions, Register!End(s)
      PROVE  InHand'
  BY <1>1, <1>3 DEF Register!End, Register!Idle
<1>4. ASSUME NEW s \in Sessions, Register!InitiateNew(s)
      PROVE  InHand'
  BY <1>1, <1>4 DEF Register!InitiateNew, Register!Begin
<1>5. ASSUME NEW s \in Sessions, NEW c \in Register!Ids,
             \/ Register!InitiateReupload(s, c) \/ Register!RequestBegin(s, c)
             \/ Register!ApproveBegin(s, c) \/ Register!RejectBegin(s, c)
      PROVE  InHand'
  BY <1>1, <1>5
  DEF Register!InitiateReupload, Register!RequestBegin, Register!ApproveBegin,
      Register!RejectBegin, Register!Begin
<1> QED
  BY <1>2, <1>3, <1>4, <1>5
  DEF Register!Next, Register!Open, Register!OpenRefused, Register!Reupload,
      Register!ReuploadRefused, Register!RequestCommit, Register!ApproveCommit,
      Register!RejectCommit, Register!approve_reupload, Register!SoftDelete

\* A version stays backed however the counts of its case grow.
LEMMA BackedStays ==
    ASSUME NEW version, NEW h \in Counts, NEW k \in Counts, Backed(version, h),
           h.done <= k.done, h.approved <= k.approved
    PROVE  Backed(version, k)
<1>1. h.done \in Nat /\ h.approved \in Nat /\ k.done \in Nat /\ k.approved \in Nat
  BY DEF Counts
<1>2. version \in 1..(h.done + 1) /\ version <= h.approved
  BY DEF Backed
<1>3. version \in 1..(k.done + 1) /\ version <= k.approved
  BY <1>1, <1>2
<1> QED
  BY <1>3 DEF Backed

\* A step that opens no case, keeps the rows sound and lets no session begin a re-upload.
LEMMA RowsNext ==
    ASSUME RegisterInv, Register!Next,
           cases' \in [Register!Ids -> Register!Case], reuploads' \in [Register!Ids -> Counts],
           \A c \in Register!Ids :
               /\ RowSound(cases'[c], reuploads'[c])
               /\ reuploads[c].done <= reuploads'[c].done
               /\ reuploads[c].approved <= reuploads'[c].approved,
           \A s \in Sessions : filing'[s] = filing[s] \/ filing'[s].pc # "reupload"
    PROVE  RegisterInv'
<1>1. Register!Ids' = Register!Ids
  BY DEF Register!Ids
<1>2. RegisterTyped'
  BY <1>1, InHandNext DEF RegisterInv, RegisterTyped
<1>3. ASSUME NEW s \in Sessions, filing'[s].pc = "reupload"
      PROVE  /\ filing'[s].case \in Register!Ids
             /\ Backed(filing'[s].version, reuploads'[filing'[s].case])
  <2>1. filing'[s] = filing[s]
    BY <1>3
  <2> DEFINE c == filing[s].case
  <2>2. c \in Register!Ids /\ Backed(filing[s].version, reuploads[c])
    BY <1>3, <2>1 DEF RegisterInv
  <2>3. reuploads[c] \in Counts /\ reuploads'[c] \in Counts
    BY <2>2 DEF RegisterInv, RegisterTyped
  <2>4. Backed(filing[s].version, reuploads'[c])
    BY <2>2, <2>3, BackedStays
  <2> QED
    BY <2>1, <2>2, <2>4
<1>4. \A c \in Register!Ids' : RowSound(cases'[c], reuploads'[c])
  BY <1>1
<1> QED
  BY <1>1, <1>2, <1>3, <1>4 DEF RegisterInv, RowSound, Backed

LEMMA OpenNext ==
    ASSUME RegisterInv, Register!Next, NEW s \in Sessions, Register!Open(s)
    PROVE  RegisterInv'
<1> DEFINE n == Cardinality(Register!Ids) + 1
           none == [approved |-> 0, done |-> 0]
<1>1. Cardinality(Register!Ids) \in Nat
  BY FS_CardinalityType DEF RegisterInv, RegisterTyped
<1>2. Register!Ids' = Register!Ids \cup {n} /\ n \notin Register!Ids
  BY <1>1, RegisterCounts DEF RegisterInv, RegisterTyped, Register!Open, Register!Ids
<1>3. IsFiniteSet(Register!Ids') /\ Cardinality(Register!Ids') = n
  BY <1>2, FS_AddElement DEF RegisterInv, RegisterTyped
<1>4. Register!Ids' = 1..Cardinality(Register!Ids')
  BY <1>1, <1>2, <1>3 DEF RegisterInv, RegisterTyped
<1>5. Register!New \in Register!Case /\ none \in Counts
  BY DEF Register!New, Register!Case, Counts
<1>6. /\ cases' = [c \in Register!Ids' |->
                      IF c \in Register!Ids THEN cases[c] ELSE Register!New]
      /\ reuploads' = [c \in Register!Ids' |->
                          IF c \in Register!Ids THEN reuploads[c] ELSE none]
  BY RegisterCounts DEF Register!Open, Register!Ids
<1>7. cases' \in [Register!Ids' -> Register!Case] /\ reuploads' \in [Register!Ids' -> Counts]
  BY <1>2, <1>5, <1>6 DEF RegisterInv, RegisterTyped
<1>8. RegisterTyped'
  BY <1>2, <1>3, <1>4, <1>7, InHandNext DEF RegisterInv, RegisterTyped
<1>9. RowSound(Register!New, none)
  BY DEF RowSound, Register!New
<1>10. \A c \in Register!Ids' : RowSound(cases'[c], reuploads'[c])
  BY <1>2, <1>6, <1>9 DEF RegisterInv
<1>11. ASSUME NEW t \in Sessions, filing'[t].pc = "reupload"
       PROVE  /\ filing'[t].case \in Register!Ids'
              /\ Backed(filing'[t].version, reuploads'[filing'[t].case])
  <2>1. filing'[t] = filing[t]
    BY <1>11 DEF RegisterInv, RegisterTyped, InHand, Register!Open, Register!End, Register!Idle
  <2>2. filing[t].case \in Register!Ids
    BY <1>11, <2>1 DEF RegisterInv
  <2>3. reuploads'[filing[t].case] = reuploads[filing[t].case]
    BY <1>2, <1>6, <2>2
  <2> QED
    BY <1>2, <1>11, <2>1, <2>2, <2>3 DEF RegisterInv
<1> QED
  BY <1>8, <1>10, <1>11 DEF RegisterInv, RowSound, Backed

\* A session that finds the window open has the next version in hand, with its approval.
LEMMA InitiateNext ==
    ASSUME RegisterInv, Register!Next, NEW s \in Sessions, NEW c \in Register!Ids,
           Register!InitiateReupload(s, c)
    PROVE  RegisterInv'
<1>1. /\ cases' = cases /\ reuploads' = reuploads /\ cases[c].window
      /\ filing' = [filing EXCEPT ![s] = [pc |-> "reupload", case |-> c,
                                          version |-> cases[c].reupload_count + 1]]
  BY DEF Register!InitiateReupload, Register!Begin
<1>2. Register!Ids' = Register!Ids
  BY <1>1 DEF Register!Ids
<1>3. RegisterTyped'
  BY <1>1, <1>2, InHandNext DEF RegisterInv, RegisterTyped
<1>4. Backed(cases[c].reupload_count + 1, reuploads[c])
  <2>1. reuploads[c].done \in Nat /\ reuploads[c].approved \in Nat
    BY DEF RegisterInv, RegisterTyped, Counts
  <2>2. cases[c].reupload_count = reuploads[c].done /\ reuploads[c].done < reuploads[c].approved
    BY <1>1 DEF RegisterInv, RowSound
  <2> QED
    BY <2>1, <2>2 DEF Backed
<1>5. /\ filing'[s].case = c /\ filing'[s].version = cases[c].reupload_count + 1
      /\ \A t \in Sessions \ {s} : filing'[t] = filing[t]
  BY <1>1 DEF RegisterInv, RegisterTyped, InHand
<1>6. \A t \in Sessions : filing'[t].pc = "reupload" =>
          /\ filing'[t].case \in Register!Ids
          /\ Backed(filing'[t].version, reuploads[filing'[t].case])
  BY <1>4, <1>5 DEF RegisterInv
<1>7. \A d \in Register!Ids' : RowSound(cases'[d], reuploads'[d])
  BY <1>1, <1>2 DEF RegisterInv
<1> QED
  BY <1>1, <1>2, <1>3, <1>6, <1>7 DEF RegisterInv, RowSound, Backed

LEMMA ArchivedEntry ==
    ASSUME NEW entry \in Register!Case, NEW version \in Nat
    PROVE  /\ Register!Archived(entry, version) \in Register!Case
           /\ ~Register!Archived(entry, version).window
           /\ Register!Archived(entry, version).reupload_count = version
           /\ Register!Archived(entry, version).archives = entry.archives \cup {version}
<1> DEFINE left == entry.archives \cup {version}
<1>1. left \in SUBSET Nat
  BY DEF Register!Case
<1>2. Register!Archived(entry, version) =
          [entry EXCEPT !.window = FALSE, !.reupload_count = version, !.archives = left]
  BY DEF Register!Archived
<1> HIDE DEF left
<1> QED
  BY <1>1, <1>2 DEF Register!Case, left

\* The version in hand is not taken, so it is the next one and an approval is left for it.
LEMMA ReuploadNext ==
    ASSUME RegisterInv, Register!Next, NEW s \in Sessions, Register!Reupload(s)
    PROVE  RegisterInv'
<1> DEFINE c == filing[s].case
           version == filing[s].version
           entry == Register!Archived(cases[c], version)
           counts == [reuploads[c] EXCEPT !.done = @ + 1]
<1>1. /\ filing[s].pc = "reupload" /\ version \notin cases[c].archives
      /\ cases' = [cases EXCEPT ![c] = entry] /\ reuploads' = [reuploads EXCEPT ![c] = counts]
      /\ filing' = [filing EXCEPT ![s] = Register!Idle]
  BY DEF Register!Reupload, Register!Busy, Register!Mine, Register!ArchiveKeyTaken, Register!End
<1>2. c \in Register!Ids /\ Backed(version, reuploads[c]) /\ RowSound(cases[c], reuploads[c])
  BY <1>1 DEF RegisterInv
<1>3. cases[c] \in Register!Case /\ reuploads[c] \in Counts
  BY <1>2 DEF RegisterInv, RegisterTyped
<1>4. reuploads[c].done \in Nat /\ reuploads[c].approved \in Nat
  BY <1>3 DEF Counts
<1>5. version = reuploads[c].done + 1 /\ version <= reuploads[c].approved
  BY <1>1, <1>2, <1>4 DEF Backed, RowSound
<1>6. /\ counts \in Counts /\ counts.done = reuploads[c].done + 1
      /\ counts.approved = reuploads[c].approved
  BY <1>3, <1>4 DEF Counts
<1>7. /\ entry \in Register!Case /\ ~entry.window /\ entry.reupload_count = version
      /\ entry.archives = cases[c].archives \cup {version}
  <2>1. version \in Nat
    BY <1>4, <1>5
  <2> HIDE DEF c, version
  <2> QED
    BY <1>3, <2>1, ArchivedEntry
<1>8. RowSound(entry, counts)
  <2>1. (1..reuploads[c].done) \cup {version} = 1..(reuploads[c].done + 1)
    BY <1>4, <1>5
  <2> QED
    BY <1>2, <1>4, <1>5, <1>6, <1>7, <2>1 DEF RowSound
<1> HIDE DEF entry, counts
<1>9. /\ cases' \in [Register!Ids -> Register!Case] /\ reuploads' \in [Register!Ids -> Counts]
      /\ cases'[c] = entry /\ reuploads'[c] = counts
      /\ \A d \in Register!Ids \ {c} : cases'[d] = cases[d] /\ reuploads'[d] = reuploads[d]
  BY <1>1, <1>2, <1>6, <1>7 DEF RegisterInv, RegisterTyped
<1>10. ASSUME NEW d \in Register!Ids
       PROVE  /\ RowSound(cases'[d], reuploads'[d])
              /\ reuploads[d].done <= reuploads'[d].done
              /\ reuploads[d].approved <= reuploads'[d].approved
  <2>1. CASE d = c
    BY <1>4, <1>6, <1>8, <1>9, <2>1
  <2>2. CASE d # c
    <3>1. reuploads[d].done \in Nat /\ reuploads[d].approved \in Nat
      BY DEF RegisterInv, RegisterTyped, Counts
    <3> QED
      BY <1>9, <2>2, <3>1 DEF RegisterInv
  <2> QED
    BY <2>1, <2>2
<1>11. \A t \in Sessions : filing'[t] = filing[t] \/ filing'[t].pc # "reupload"
  BY <1>1 DEF RegisterInv, RegisterTyped, InHand, Register!Idle
<1> QED
  BY <1>9, <1>10, <1>11, RowsNext

LEMMA ApproveReuploadNext ==
    ASSUME RegisterInv, Register!Next, NEW c \in Register!Ids, Register!approve_reupload(c)
    PROVE  RegisterInv'
<1> DEFINE entry == [cases[c] EXCEPT !.window = TRUE]
           counts == [reuploads[c] EXCEPT !.approved = @ + 1]
<1>1. /\ cases' = [cases EXCEPT ![c] = entry] /\ reuploads' = [reuploads EXCEPT ![c] = counts]
      /\ filing' = filing
  BY DEF Register!approve_reupload
<1>2. cases[c] \in Register!Case /\ reuploads[c] \in Counts /\ RowSound(cases[c], reuploads[c])
  BY DEF RegisterInv, RegisterTyped
<1>3. reuploads[c].done \in Nat /\ reuploads[c].approved \in Nat
  BY <1>2 DEF Counts
<1>4. /\ counts \in Counts /\ counts.done = reuploads[c].done
      /\ counts.approved = reuploads[c].approved + 1
  BY <1>2, <1>3 DEF Counts
<1>5. /\ entry \in Register!Case /\ entry.reupload_count = cases[c].reupload_count
      /\ entry.archives = cases[c].archives
  BY <1>2 DEF Register!Case
<1>6. RowSound(entry, counts)
  BY <1>2, <1>3, <1>4, <1>5 DEF RowSound
<1> HIDE DEF entry, counts
<1>7. /\ cases' \in [Register!Ids -> Register!Case] /\ reuploads' \in [Register!Ids -> Counts]
      /\ cases'[c] = entry /\ reuploads'[c] = counts
      /\ \A d \in Register!Ids \ {c} : cases'[d] = cases[d] /\ reuploads'[d] = reuploads[d]
  BY <1>1, <1>4, <1>5 DEF RegisterInv, RegisterTyped
<1>8. ASSUME NEW d \in Register!Ids
      PROVE  /\ RowSound(cases'[d], reuploads'[d])
             /\ reuploads[d].done <= reuploads'[d].done
             /\ reuploads[d].approved <= reuploads'[d].approved
  <2>1. CASE d = c
    BY <1>3, <1>4, <1>6, <1>7, <2>1
  <2>2. CASE d # c
    <3>1. reuploads[d].done \in Nat /\ reuploads[d].approved \in Nat
      BY DEF RegisterInv, RegisterTyped, Counts
    <3> QED
      BY <1>7, <2>2, <3>1 DEF RegisterInv
  <2> QED
    BY <2>1, <2>2
<1> QED
  BY <1>1, <1>7, <1>8, RowsNext

\* The steps of a deletion, and those that end or begin a transaction that re-uploads
\* nothing, touch neither the count nor the window nor the archives.
LEMMA SameRowsNext ==
    ASSUME RegisterInv, Register!Next, UNCHANGED reuploads,
           cases' \in [Register!Ids -> Register!Case],
           \A c \in Register!Ids :
               /\ cases'[c].window = cases[c].window
               /\ cases'[c].reupload_count = cases[c].reupload_count
               /\ cases'[c].archives = cases[c].archives,
           \A s \in Sessions : filing'[s] = filing[s] \/ filing'[s].pc # "reupload"
    PROVE  RegisterInv'
<1>1. ASSUME NEW c \in Register!Ids
      PROVE  /\ RowSound(cases'[c], reuploads'[c])
             /\ reuploads[c].done <= reuploads'[c].done
             /\ reuploads[c].approved <= reuploads'[c].approved
  <2>1. reuploads[c].done \in Nat /\ reuploads[c].approved \in Nat
    BY DEF RegisterInv, RegisterTyped, Counts
  <2> QED
    BY <2>1 DEF RegisterInv, RowSound
<1>2. reuploads' \in [Register!Ids -> Counts]
  BY DEF RegisterInv, RegisterTyped
<1> QED
  BY <1>1, <1>2, RowsNext

LEMMA RegisterNext == RegisterInv /\ [Register!Next]_Register!vars => RegisterInv'
<1> SUFFICES ASSUME RegisterInv, [Register!Next]_Register!vars PROVE RegisterInv'
  OBVIOUS
<1>1. CASE UNCHANGED Register!vars
  BY <1>1
  DEF RegisterInv, RegisterTyped, InHand, RowSound, Backed, Register!Ids, Register!vars
<1>2. DOMAIN filing = Sessions /\ cases \in [Register!Ids -> Register!Case]
  BY DEF RegisterInv, RegisterTyped, InHand
<1>3. ASSUME NEW s \in Sessions, NEW pc, pc # "reupload", NEW c, NEW version,
             Register!Next, UNCHANGED <<cases, reuploads>>,
             filing' = [filing EXCEPT ![s] = [pc |-> pc, case |-> c, version |-> version]]
      PROVE  RegisterInv'
  <2>1. \A t \in Sessions : filing'[t] = filing[t] \/ filing'[t].pc # "reupload"
    BY <1>2, <1>3
  <2> QED
    BY <1>2, <1>3, <2>1, SameRowsNext
<1>4. ASSUME NEW s \in Sessions, NEW c \in Register!Ids,
             \/ Register!InitiateNew(s) \/ Register!RequestBegin(s, c)
             \/ Register!ApproveBegin(s, c) \/ Register!RejectBegin(s, c)
      PROVE  RegisterInv'
  BY <1>3, <1>4
  DEF Register!InitiateNew, Register!RequestBegin, Register!ApproveBegin,
      Register!RejectBegin, Register!Begin, Register!Next
<1>5. ASSUME NEW s \in Sessions,
             \/ Register!OpenRefused(s) \/ Register!ReuploadRefused(s)
             \/ Register!InitiateNew(s)
      PROVE  RegisterInv'
  BY <1>3, <1>5
  DEF Register!OpenRefused, Register!ReuploadRefused, Register!InitiateNew, Register!Begin,
      Register!End, Register!Idle, Register!Next
<1>6. ASSUME NEW s \in Sessions,
             \/ Register!RequestCommit(s) \/ Register!ApproveCommit(s)
             \/ Register!RejectCommit(s)
      PROVE  RegisterInv'
  <2>1. /\ UNCHANGED reuploads /\ cases' \in [Register!Ids -> Register!Case]
        /\ \A c \in Register!Ids :
               /\ cases'[c].window = cases[c].window
               /\ cases'[c].reupload_count = cases[c].reupload_count
               /\ cases'[c].archives = cases[c].archives
    <3>1. CASE Register!RequestCommit(s)
      BY <1>2, <3>1 DEF Register!RequestCommit, Register!Case
    <3>2. CASE Register!ApproveCommit(s)
      BY <1>2, <3>2 DEF Register!ApproveCommit, Register!Case
    <3>3. CASE Register!RejectCommit(s)
      BY <1>2, <3>3 DEF Register!RejectCommit, Register!Case
    <3> QED
      BY <1>6, <3>1, <3>2, <3>3
  <2>2. Register!Next /\ Register!End(s)
    BY <1>6
    DEF Register!Next, Register!RequestCommit, Register!ApproveCommit, Register!RejectCommit
  <2>3. \A t \in Sessions : filing'[t] = filing[t] \/ filing'[t].pc # "reupload"
    BY <1>2, <2>2 DEF Register!End, Register!Idle
  <2> QED
    BY <2>1, <2>2, <2>3, SameRowsNext
<1>7. ASSUME NEW c \in Register!Ids, Register!SoftDelete(c)
      PROVE  RegisterInv'
  <2>1. /\ UNCHANGED reuploads /\ cases' \in [Register!Ids -> Register!Case]
        /\ filing' = filing
        /\ \A d \in Register!Ids :
               /\ cases'[d].window = cases[d].window
               /\ cases'[d].reupload_count = cases[d].reupload_count
               /\ cases'[d].archives = cases[d].archives
    BY <1>2, <1>7 DEF Register!SoftDelete, Register!Case
  <2> QED
    BY <1>7, <2>1, SameRowsNext DEF Register!Next
<1>8. ASSUME NEW s \in Sessions, Register!Open(s)
      PROVE  RegisterInv'
  BY <1>8, OpenNext DEF Register!Next
<1>9. ASSUME NEW s \in Sessions, Register!Reupload(s)
      PROVE  RegisterInv'
  BY <1>9, ReuploadNext DEF Register!Next
<1>10. ASSUME NEW s \in Sessions, NEW c \in Register!Ids, Register!InitiateReupload(s, c)
       PROVE  RegisterInv'
  BY <1>10, InitiateNext DEF Register!Next
<1>11. ASSUME NEW c \in Register!Ids, Register!approve_reupload(c)
       PROVE  RegisterInv'
  BY <1>11, ApproveReuploadNext DEF Register!Next
<1> QED
  BY <1>1, <1>4, <1>5, <1>6, <1>7, <1>8, <1>9, <1>10, <1>11 DEF Register!Next

LEMMA RegisterParked == PartSpec /\ ~(part = "register") => []~(part = "register")
<1>1. ~(part = "register") /\ [PartNext]_parts => ~(part = "register")'
  BY DEF PartNext, parts
<1> QED
  BY <1>1, PTL DEF PartSpec

LEMMA RegisterAlways ==
    PartSpec /\ part = "register" => [](part = "register" /\ RegisterInv)
<1>1. PartInit /\ part = "register" => RegisterInv
  BY RegisterInit DEF PartInit
<1>2. part = "register" /\ RegisterInv /\ [PartNext]_parts
          => (part = "register" /\ RegisterInv)'
  <2>1. part = "register" /\ [PartNext]_parts
            => [Register!Next]_Register!vars /\ (part = "register")'
    BY DEF PartNext, parts, register, Register!vars
  <2> QED
    BY <2>1, RegisterNext
<1> QED
  BY <1>1, <1>2, PTL DEF PartSpec

\* However approvals, initiates that read the same open window, and deletions interleave,
\* an approval is spent at most once and every re-upload has its archive: the unique key of
\* the archive's row, and the version an initiate took from the count it read.
THEOREM ApprovalsSpentOnce == PartSpec => []ReuploadsApproved
<1>1. RegisterInv => ReuploadsApproved
  BY DEF RegisterInv, RowSound, ReuploadsApproved, Register!ReuploadsApproved
<1>2. ~(part = "register") => ReuploadsApproved
  BY DEF ReuploadsApproved
<1> QED
  BY <1>1, <1>2, RegisterParked, RegisterAlways, PTL

(***************************************************************************)
(* The auto-run client                                                     *)
(***************************************************************************)
LEMMA ClientInit == Client!Init => ClientP!Init
BY Zenon DEF Client!STEP_ORDER, ClientP!STEP_ORDER, Client!Keys, ClientP!Keys, Client!NoRun,
       ClientP!NoRun, Client!Idle, ClientP!Idle, Client!Closed, ClientP!Closed,
       Client!Init, ClientP!Init

LEMMA ClientNext == Client!Next => ClientP!Next
BY Zenon DEF Client!STEP_ORDER, ClientP!STEP_ORDER, Client!Keys, ClientP!Keys, Client!Results,
       ClientP!Results, Client!NoRun, ClientP!NoRun, Client!Fresh, ClientP!Fresh,
       Client!Has, ClientP!Has, Client!Idle, ClientP!Idle, Client!Closed,
       ClientP!Closed, Client!Dispatch, ClientP!Dispatch, Client!Mark, ClientP!Mark,
       Client!RUN_COMPLETE, ClientP!RUN_COMPLETE, Client!RUN_BLOCKED,
       ClientP!RUN_BLOCKED, Client!Touch, ClientP!Touch, Client!DISMISS,
       ClientP!DISMISS, Client!Hydrated, ClientP!Hydrated, Client!Open, ClientP!Open,
       Client!Runner, ClientP!Runner, Client!InFlight, ClientP!InFlight, Client!Close,
       ClientP!Close, Client!Click, ClientP!Click, Client!Waiting, ClientP!Waiting,
       Client!startAutoRun, ClientP!startAutoRun, Client!resume, ClientP!resume,
       Client!rerunAll, ClientP!rerunAll, Client!Needed, ClientP!Needed,
       Client!identifyStepsNeedingRerun, ClientP!identifyStepsNeedingRerun,
       Client!NoOverview, ClientP!NoOverview, Client!Stored, ClientP!Stored,
       Client!Skipped, ClientP!Skipped, Client!Steps, ClientP!Steps, Client!Reached,
       ClientP!Reached, Client!PassedBy, ClientP!PassedBy, Client!L6Fired,
       ClientP!L6Fired, Client!Due, ClientP!Due, Client!Advance, ClientP!Advance,
       Client!Ready, ClientP!Ready, Client!MissingDocs, ClientP!MissingDocs,
       Client!NeverReady, ClientP!NeverReady, Client!Called, ClientP!Called,
       Client!Served, ClientP!Served, Client!Unserved, ClientP!Unserved,
       Client!Answered, ClientP!Answered, Client!Answer, ClientP!Answer, Client!CutOff,
       ClientP!CutOff, Client!Next, ClientP!Next

LEMMA ClientDoneWasServed == ClientP!DoneWasServed => Client!DoneWasServed
BY DEF Client!STEP_ORDER, ClientP!STEP_ORDER, Client!Keys, ClientP!Keys, Client!NoRun,
       ClientP!NoRun, Client!DoneWasServed, ClientP!DoneWasServed

LEMMA ClientLevelsBeforeDecision ==
    ClientP!LevelsBeforeDecision => Client!LevelsBeforeDecision
BY DEF Client!STEP_ORDER, ClientP!STEP_ORDER, Client!Keys, ClientP!Keys, Client!Runner,
       ClientP!Runner, Client!LevelsBeforeDecision, ClientP!LevelsBeforeDecision

LEMMA ClientFiredOnce == ClientP!FiredOnce => Client!FiredOnce
BY DEF Client!Runner, ClientP!Runner, Client!FiredOnce, ClientP!FiredOnce

LEMMA ClientRestartable == ClientP!Restartable => Client!Restartable
BY DEF Client!STEP_ORDER, ClientP!STEP_ORDER, Client!Keys, ClientP!Keys, Client!NoRun,
       ClientP!NoRun, Client!Has, ClientP!Has, Client!Runner, ClientP!Runner,
       Client!InFlight, ClientP!InFlight, Client!Restartable, ClientP!Restartable

LEMMA ClientLevels == ClientP!LevelsDistinct
BY LevelsAssumption DEF ClientP!LevelsDistinct

LEMMA ClientBehaves == PartSpec /\ part = "client" => ClientP!Spec
<1>1. PartInit /\ part = "client" => ClientP!Init
  BY ClientInit DEF PartInit
<1>2. part = "client" /\ [PartNext]_parts
          => [ClientP!Next]_ClientP!vars /\ (part = "client")'
  BY ClientNext DEF PartNext, parts, client, ClientP!vars
<1> QED
  BY <1>1, <1>2, PTL DEF PartSpec, ClientP!Spec

LEMMA ClientParked == PartSpec /\ ~(part = "client") => []~(part = "client")
<1>1. ~(part = "client") /\ [PartNext]_parts => ~(part = "client")'
  BY DEF PartNext, parts
<1> QED
  BY <1>1, PTL DEF PartSpec

\* What is shown as done has a result on the server.
THEOREM ShownDoneWasServed == PartSpec => []DoneWasServed
<1>1. ClientP!Spec => []ClientP!DoneWasServed
  BY ClientLevels, ClientP!DoneIsServed
<1>2. DoneWasServed <=> (part = "client" => Client!DoneWasServed)
  BY DEF DoneWasServed
<1>3. ClientP!DoneWasServed => Client!DoneWasServed
  BY ClientDoneWasServed
<1> QED
  BY <1>1, <1>2, <1>3, ClientBehaves, ClientParked, PTL

\* Phase 1 starts after every level has been tried.
THEOREM DecisionComesLast == PartSpec => []LevelsBeforeDecision
<1>1. ClientP!Spec => []ClientP!LevelsBeforeDecision
  BY ClientLevels, ClientP!LevelsComeFirst
<1>2. LevelsBeforeDecision <=> (part = "client" => Client!LevelsBeforeDecision)
  BY DEF LevelsBeforeDecision
<1>3. ClientP!LevelsBeforeDecision => Client!LevelsBeforeDecision
  BY ClientLevelsBeforeDecision
<1> QED
  BY <1>1, <1>2, <1>3, ClientBehaves, ClientParked, PTL

\* One run fires no step twice.
THEOREM StepsFiredOnce == PartSpec => []FiredOnce
<1>1. ClientP!Spec => []ClientP!FiredOnce
  BY ClientLevels, ClientP!NoStepTwice
<1>2. FiredOnce <=> (part = "client" => Client!FiredOnce)
  BY DEF FiredOnce
<1>3. ClientP!FiredOnce => Client!FiredOnce
  BY ClientFiredOnce
<1> QED
  BY <1>1, <1>2, <1>3, ClientBehaves, ClientParked, PTL

\* A run nobody drives can be resumed or has ended.
THEOREM RunsCanRestart == PartSpec => []Restartable
<1>1. ClientP!Spec => []ClientP!Restartable
  BY ClientLevels, ClientP!RunsRestart
<1>2. Restartable <=> (part = "client" => Client!Restartable)
  BY DEF Restartable
<1>3. ClientP!Restartable => Client!Restartable
  BY ClientRestartable
<1> QED
  BY <1>1, <1>2, <1>3, ClientBehaves, ClientParked, PTL

(***************************************************************************)
(* Level 1.5: whose report is whose.  The model's minima are those of sets *)
(* of positions, so they are in them.                                      *)
(***************************************************************************)
ReportsInv == rows \in Seq(Reports!Reports) /\ coapp \in {CoApplicant, Reports!NoOne}

LEMMA NewestIn ==
    ASSUME NEW S \in SUBSET Nat
    PROVE  /\ S # {} => Reports!Newest(S) \in S
           /\ S = {} => Reports!Newest(S) = 0
<1>1. S # {} => \E i \in S : \A j \in S : i <= j
  BY LeastOfNats
<1> QED
  BY <1>1 DEF Reports!Newest

LEMMA NamedNewest ==
    ASSUME NEW db, NEW S \in SUBSET (Nat \ {0}), NEW name
    PROVE  /\ (\E i \in S : db[i].of = name) =>
                /\ Reports!Named(db, S, name) # {}
                /\ Reports!Newest(Reports!Named(db, S, name)) \in S
                /\ db[Reports!Newest(Reports!Named(db, S, name))].of = name
           /\ (\A i \in S : db[i].of # name) =>
                Reports!Newest(Reports!Named(db, S, name)) = 0
<1> DEFINE mine == {i \in S : db[i].of = name}
           named == Reports!Named(db, S, name)
<1>1. named \in SUBSET mine /\ (mine # {} => named # {})
  BY DEF Reports!Named
<1>2. /\ mine \in SUBSET Nat
      /\ (\E i \in S : db[i].of = name) => mine # {}
      /\ (\A i \in S : db[i].of # name) => mine = {}
      /\ \A i \in mine : i \in S /\ db[i].of = name
  OBVIOUS
<1> HIDE DEF named, mine
<1>3. named \in SUBSET Nat
  BY <1>1, <1>2
<1>4. /\ named # {} => Reports!Newest(named) \in named
      /\ named = {} => Reports!Newest(named) = 0
  BY <1>3, NewestIn
<1>5. /\ mine # {} => named # {} /\ Reports!Newest(named) \in mine
      /\ mine = {} => named = {} /\ Reports!Newest(named) = 0
  BY <1>1, <1>4
<1> QED
  BY <1>2, <1>5 DEF named

LEMMA NamedFound ==
    ASSUME NEW db, NEW S \in SUBSET (Nat \ {0}), NEW name, NEW i \in S, db[i].of = name
    PROVE  /\ Reports!Named(db, S, name) # {}
           /\ Reports!Newest(Reports!Named(db, S, name)) \in S
           /\ db[Reports!Newest(Reports!Named(db, S, name))].of = name
BY NamedNewest

\* Once a hit bears the name, the report chosen is such a hit.
LEMMA PrimaryIsHit ==
    ASSUME NEW db, DOMAIN db \in SUBSET (Nat \ {0}), NEW name,
           NEW i \in {j \in DOMAIN db : db[j].hit}, db[i].of = name
    PROVE  /\ Reports!_pick_primary_equifax(db, name) \in {j \in DOMAIN db : db[j].hit}
           /\ db[Reports!_pick_primary_equifax(db, name)].of = name
<1> DEFINE hits == {j \in DOMAIN db : db[j].hit}
           newest == Reports!Newest(Reports!Named(db, hits, name))
<1>1. hits \in SUBSET (Nat \ {0}) /\ i \in hits
  OBVIOUS
<1>2. Reports!Named(db, hits, name) # {} /\ newest \in hits /\ db[newest].of = name
  <2> HIDE DEF hits
  <2> QED
    BY <1>1, NamedFound
<1>3. Reports!_pick_primary_equifax(db, name) = newest
  BY <1>1, <1>2 DEF Reports!_pick_primary_equifax
<1> QED
  BY <1>2, <1>3

\* Another report that bears the co-applicant's name is chosen as theirs.
LEMMA CoApplicantNamed ==
    ASSUME NEW db, DOMAIN db \in SUBSET (Nat \ {0}), NEW primary, NEW name,
           \E i \in DOMAIN db \ {primary} : db[i].of = name
    PROVE  /\ Reports!_pick_co_applicant_equifax(db, primary, name) \in DOMAIN db
           /\ db[Reports!_pick_co_applicant_equifax(db, primary, name)].of = name
<1> DEFINE others == DOMAIN db \ {primary}
           newest == Reports!Newest(Reports!Named(db, others, name))
<1>1. others \in SUBSET (Nat \ {0}) /\ \E i \in others : db[i].of = name
  OBVIOUS
<1>2. Reports!Named(db, others, name) # {} /\ newest \in others /\ db[newest].of = name
  BY <1>1, NamedNewest
<1> QED
  BY <1>2 DEF Reports!_pick_co_applicant_equifax

LEMMA ReportsPositions ==
    ASSUME ReportsInv PROVE DOMAIN rows \in SUBSET (Nat \ {0})
BY DEF ReportsInv

LEMMA PartiesAreJudged == ASSUME ReportsInv PROVE Reports!PartiesJudged
<1>1. DOMAIN rows \in SUBSET (Nat \ {0})
  BY ReportsPositions
<1>2. ASSUME Reports!Hits(Reports!Of(Applicant)) # {}
      PROVE  Reports!AsApplicant \in Reports!Hits(Reports!Of(Applicant))
  <2>1. PICK i \in Reports!Of(Applicant) : i \in Reports!Hits(Reports!Of(Applicant))
    BY <1>2 DEF Reports!Hits
  <2>2. i \in {j \in DOMAIN rows : rows[j].hit} /\ rows[i].of = Applicant
    BY <2>1 DEF Reports!Hits, Reports!Of
  <2>3. /\ Reports!AsApplicant \in {j \in DOMAIN rows : rows[j].hit}
        /\ rows[Reports!AsApplicant].of = Applicant
    BY <1>1, <2>2, PrimaryIsHit DEF Reports!AsApplicant
  <2> QED
    BY <2>3 DEF Reports!Hits, Reports!Of
<1>3. ASSUME coapp = CoApplicant, Reports!Of(CoApplicant) # {},
             Reports!AsApplicant \notin Reports!Of(CoApplicant)
      PROVE  Reports!AsCoApplicant \in Reports!Of(CoApplicant)
  <2>1. \E i \in DOMAIN rows \ {Reports!AsApplicant} : rows[i].of = coapp
    BY <1>3 DEF Reports!Of
  <2> QED
    BY <1>1, <1>3, <2>1, CoApplicantNamed DEF Reports!Of, Reports!AsCoApplicant
<1> QED
  BY <1>2, <1>3 DEF Reports!PartiesJudged

LEMMA LevelsDoAgree == ASSUME ReportsInv PROVE Reports!LevelsAgree
<1> SUFFICES ASSUME NEW p \in Reports!Bijection(DOMAIN rows, DOMAIN rows),
                    Reports!Hits(Reports!Of(Applicant)) # {}
             PROVE  LET db == Reports!InOrder(p)
                        primary == Reports!ScoredApplicant(db)
                        co == Reports!_pick_coapp_equifax(db, primary,
                                                          Reports!CoName(db, primary))
                    IN /\ db[primary].of = rows[Reports!AsApplicant].of
                       /\ co # 0 /\ coapp # Reports!NoOne =>
                            /\ Reports!AsCoApplicant # 0
                            /\ rows[Reports!AsCoApplicant].of = db[co].of
  BY DEF Reports!LevelsAgree
<1> DEFINE db == Reports!InOrder(p)
           primary == Reports!ScoredApplicant(db)
           co == Reports!_pick_coapp_equifax(db, primary, Reports!CoName(db, primary))
<1>1. DOMAIN rows \in SUBSET (Nat \ {0})
  BY ReportsPositions
<1>2. /\ p \in [DOMAIN rows -> DOMAIN rows]
      /\ \A i \in DOMAIN rows : \E j \in DOMAIN rows : p[j] = i
  BY DEF Reports!Bijection, Reports!Injection, Reports!Surjection
<1>3. /\ DOMAIN db = DOMAIN rows /\ \A i \in DOMAIN rows : db[i] = rows[p[i]]
  BY DEF Reports!InOrder
<1> HIDE DEF db
<1>4. Reports!AsApplicant \in DOMAIN rows /\ rows[Reports!AsApplicant].of = Applicant
  <2>1. PICK i \in {j \in DOMAIN rows : rows[j].hit} : rows[i].of = Applicant
    BY DEF Reports!Hits, Reports!Of
  <2> QED
    BY <1>1, <2>1, PrimaryIsHit DEF Reports!AsApplicant
<1>5. primary \in DOMAIN db /\ db[primary].of = Applicant
  <2>1. PICK i \in DOMAIN rows : rows[i].hit /\ rows[i].of = Applicant
    BY DEF Reports!Hits, Reports!Of
  <2>2. PICK j \in {k \in DOMAIN db : db[k].hit} : db[j].of = Applicant
    BY <1>2, <1>3, <2>1
  <2> QED
    BY <1>1, <1>3, <2>2, PrimaryIsHit DEF Reports!ScoredApplicant
<1> HIDE DEF primary
<1>6. ASSUME co # 0, coapp # Reports!NoOne
      PROVE  Reports!AsCoApplicant # 0 /\ rows[Reports!AsCoApplicant].of = db[co].of
  <2>1. coapp = CoApplicant /\ Reports!CoName(db, primary) = CoApplicant
    BY <1>6 DEF ReportsInv, Reports!CoName
  <2> DEFINE others == DOMAIN db \ {primary}
  <2>2. co = Reports!Newest(Reports!Named(db, others, CoApplicant))
    BY <1>6, <2>1 DEF Reports!_pick_coapp_equifax
  <2>3. others \in SUBSET (Nat \ {0})
    BY <1>1, <1>3
  <2>4. co \in others /\ db[co].of = CoApplicant
    BY <1>6, <2>2, <2>3, NamedNewest
  <2>5. p[co] \in DOMAIN rows /\ rows[p[co]].of = CoApplicant
    BY <1>2, <1>3, <2>4
  <2>6. p[co] # Reports!AsApplicant
    BY <1>4, <2>5, PeopleAssumption
  <2>7. \E i \in DOMAIN rows \ {Reports!AsApplicant} : rows[i].of = coapp
    BY <2>1, <2>5, <2>6
  <2>8. Reports!AsCoApplicant \in DOMAIN rows /\ rows[Reports!AsCoApplicant].of = coapp
    BY <1>1, <2>7, CoApplicantNamed DEF Reports!AsCoApplicant
  <2> QED
    BY <1>1, <2>1, <2>4, <2>8
<1> QED
  BY <1>4, <1>5, <1>6 DEF db, primary

LEMMA ReportsParked == PartSpec /\ ~(part = "reports") => []~(part = "reports")
<1>1. ~(part = "reports") /\ [PartNext]_parts => ~(part = "reports")'
  BY DEF PartNext, parts
<1> QED
  BY <1>1, PTL DEF PartSpec

LEMMA ReportsAlways == PartSpec /\ part = "reports" => [](part = "reports" /\ ReportsInv)
<1>1. PartInit /\ part = "reports" => ReportsInv
  BY DEF PartInit, Reports!Init, ReportsInv
<1>2. part = "reports" /\ ReportsInv /\ [PartNext]_parts
          => (part = "reports" /\ ReportsInv)'
  <2>1. part = "reports" /\ [PartNext]_parts
            => [Reports!Next]_Reports!vars /\ (part = "reports")'
    BY DEF PartNext, parts, reports, Reports!vars
  <2>2. ASSUME ReportsInv, NEW report \in Reports!Reports, Reports!Arrives(report)
        PROVE  ReportsInv'
    <3>1. <<report>> \in Seq(Reports!Reports) /\ rows \in Seq(Reports!Reports)
      BY <2>2 DEF ReportsInv
    <3>2. <<report>> \o rows \in Seq(Reports!Reports)
      BY <3>1, ConcatProperties
    <3> QED
      BY <2>2, <3>2 DEF ReportsInv, Reports!Arrives
  <2>3. ReportsInv /\ UNCHANGED Reports!vars => ReportsInv'
    BY DEF ReportsInv, Reports!vars
  <2>4. ReportsInv /\ [Reports!Next]_Reports!vars => ReportsInv'
    BY <2>2, <2>3 DEF Reports!Next
  <2> QED
    BY <2>1, <2>4
<1> QED
  BY <1>1, <1>2, PTL DEF PartSpec

\* Of whatever reports arrived in whatever order, level 1.5 judges one of the
\* applicant's hits if there is one, and the named co-applicant's report.
THEOREM NoPartyUnread == PartSpec => []PartiesJudged
<1>1. ReportsInv => PartiesJudged
  BY PartiesAreJudged DEF PartiesJudged
<1>2. ~(part = "reports") => PartiesJudged
  BY DEF PartiesJudged
<1> QED
  BY <1>1, <1>2, ReportsParked, ReportsAlways, PTL

\* In whatever order the database returns the rows, level 5 scores the people level 1.5
\* judged.
THEOREM ScoredAreJudged == PartSpec => []LevelsAgree
<1>1. ReportsInv => LevelsAgree
  BY LevelsDoAgree DEF LevelsAgree
<1>2. ~(part = "reports") => LevelsAgree
  BY DEF LevelsAgree
<1> QED
  BY <1>1, <1>2, ReportsParked, ReportsAlways, PTL

(***************************************************************************)
(* Level 1: the commute                                                    *)
(***************************************************************************)
Place == Places \cup {Addresses!NoCoords}
AddressRun ==
    [house : Place, business : Place, commute : Addresses!Commutes,
     issues : [Addresses!Rules -> Addresses!Severity], approved : SUBSET Addresses!Rules]

\* What a run found of the commute is what a replay of its outcome finds.
Replayable(run) ==
    /\ run.issues.commute = Addresses!_rebuild_issue_from_cached_status(run.commute)
    /\ run.commute = "skipped"
          <=> run.house = Addresses!NoCoords \/ run.business = Addresses!NoCoords

AddressInv ==
    /\ house \in Seq(Place) /\ business \in Seq(Place) /\ runs \in Seq(AddressRun)
    /\ \A i \in DOMAIN runs : Replayable(runs[i])
    /\ Addresses!CommuteStands

LEMMA GreatestOf ==
    ASSUME NEW n \in Nat, NEW S \in SUBSET (1..n), S # {}
    PROVE  \E i \in S : \A j \in S : i >= j
<1> DEFINE T == {t \in Nat : \E i \in S : t = n - i}
<1>1. PICK i \in S : TRUE
  OBVIOUS
<1>2. T \in SUBSET Nat /\ n - i \in T
  OBVIOUS
<1> HIDE DEF T
<1>3. PICK t \in T : \A u \in T : t <= u
  BY <1>2, LeastOfNats
<1>4. PICK j \in S : t = n - j
  BY <1>3 DEF T
<1>5. \A k \in S : n - k \in T
  BY DEF T
<1> QED
  BY <1>3, <1>4, <1>5

LEMMA LastIn ==
    ASSUME NEW n \in Nat, NEW S \in SUBSET (1..n), S # {}
    PROVE  /\ Addresses!Last(S) \in S /\ \A j \in S : Addresses!Last(S) >= j
           /\ Addresses!First(S) \in S
<1>1. \E i \in S : \A j \in S : i >= j
  BY GreatestOf
<1>2. \E i \in S : \A j \in S : i <= j
  BY LeastOfNats
<1> QED
  BY <1>1, <1>2 DEF Addresses!Last, Addresses!First

LEMMA CoordsArePlaces ==
    ASSUME house \in Seq(Place), business \in Seq(Place)
    PROVE  Addresses!SomeHouse \subseteq Place /\ Addresses!SomeBusiness \subseteq Place
<1>1. ASSUME NEW seen, NEW named PROVE Addresses!HouseCoords(seen, named) \in Place
  <2> DEFINE at == Addresses!Located(house, seen)
  <2>1. at \in SUBSET (1..Len(house)) /\ Len(house) \in Nat
    BY DEF Addresses!Located
  <2>2. \A i \in at : house[i] \in Place
    BY <2>1
  <2>3. at # {} => Addresses!Last(at) \in at
    BY <2>1, LastIn
  <2>4. at \cap named # {} => Addresses!First(at \cap named) \in at
    <3>1. at \cap named \in SUBSET (1..Len(house))
      BY <2>1
    <3>2. at \cap named # {} => Addresses!First(at \cap named) \in at \cap named
      BY <2>1, <3>1, LastIn
    <3> QED
      BY <3>2
  <2>5. Addresses!NoCoords \in Place
    BY DEF Place
  <2> QED
    BY <2>2, <2>3, <2>4, <2>5 DEF Addresses!HouseCoords
<1>2. ASSUME NEW seen PROVE Addresses!BusinessCoords(seen) \in Place
  <2> DEFINE at == Addresses!Located(business, seen)
  <2>1. at \in SUBSET (1..Len(business)) /\ Len(business) \in Nat
    BY DEF Addresses!Located
  <2>2. at # {} => Addresses!First(at) \in at
    BY <2>1, LastIn
  <2>3. \A i \in at : business[i] \in Place
    BY <2>1
  <2> QED
    BY <2>2, <2>3 DEF Addresses!BusinessCoords, Place
<1> QED
  BY <1>1, <1>2 DEF Addresses!SomeHouse, Addresses!SomeBusiness

LEMMA AddressInit == Addresses!Init => AddressInv
BY DEF Addresses!Init, AddressInv, Addresses!CommuteStands

\* A measured commute is replayed as it was judged.
LEMMA MeasuredReplays ==
    ASSUME NEW service \in Addresses!Services
    PROVE  /\ Addresses!_rebuild_issue_from_cached_status(
                  Addresses!_compute_commute_sub_step(service))
                = Addresses!commute(service.dm, service.minutes, service.judge)
           /\ Addresses!_compute_commute_sub_step(service)
                 \in Addresses!Commutes \ {"skipped"}
BY DEF Addresses!Services, Addresses!Far, Addresses!_compute_commute_sub_step,
       Addresses!_rebuild_issue_from_cached_status, Addresses!commute, Addresses!Commutes

LEMMA ReplayIsSeverity ==
    \A status : Addresses!_rebuild_issue_from_cached_status(status) \in Addresses!Severity
BY DEF Addresses!_rebuild_issue_from_cached_status, Addresses!commute, Addresses!Severity

\* The run of the level, of places that are known.
LEMMA RunNext ==
    ASSUME AddressInv, NEW h \in Place, NEW b \in Place, NEW service \in Addresses!Services,
           Addresses!run_level_1_address(h, b, service)
    PROVE  AddressInv'
<1> DEFINE located == h # Addresses!NoCoords /\ b # Addresses!NoCoords
           reused == located /\ Addresses!Reusable(h, b)
           prior == runs[Addresses!Last(Addresses!PriorRuns)]
           status == IF ~located THEN "skipped"
                     ELSE IF reused THEN prior.commute
                     ELSE Addresses!_compute_commute_sub_step(service)
           issue == IF ~located THEN "ok"
                    ELSE IF reused
                    THEN Addresses!_rebuild_issue_from_cached_status(status)
                    ELSE Addresses!commute(service.dm, service.minutes, service.judge)
           issues == [commute |-> issue,
                      business_gps_present |->
                         Addresses!business_gps_present(Len(business),
                                                        b # Addresses!NoCoords)]
           run == [house |-> h, business |-> b, commute |-> status, issues |-> issues,
                   approved |-> Addresses!Carried(issues)]
           n == Len(runs)
<1>1. runs' = Append(runs, run) /\ UNCHANGED <<house, business>>
  BY DEF Addresses!run_level_1_address
<1>2. n \in Nat /\ DOMAIN runs = 1..n /\ \A i \in 1..n : runs[i] \in AddressRun
  BY DEF AddressInv
<1>3. reused => Addresses!Last(Addresses!PriorRuns) \in Addresses!PriorRuns
  <2>1. Addresses!PriorRuns \in SUBSET (1..n)
    BY <1>2 DEF Addresses!PriorRuns
  <2> QED
    BY <1>2, <2>1, LastIn DEF Addresses!Reusable
<1>4. reused => prior \in AddressRun /\ Replayable(prior)
  BY <1>2, <1>3 DEF Addresses!PriorRuns, AddressInv
<1>5. status \in Addresses!Commutes
  BY <1>4, MeasuredReplays DEF AddressRun, Addresses!Commutes
<1>6. issue = Addresses!_rebuild_issue_from_cached_status(status)
  BY MeasuredReplays DEF Addresses!_rebuild_issue_from_cached_status
<1>7. issues \in [Addresses!Rules -> Addresses!Severity] /\ issues.commute = issue
  <2>1. issue \in Addresses!Severity
    BY <1>6, ReplayIsSeverity
  <2>2. Addresses!business_gps_present(Len(business), b # Addresses!NoCoords)
            \in Addresses!Severity
    BY DEF Addresses!business_gps_present, Addresses!Severity
  <2> HIDE DEF issue
  <2> QED
    BY <2>1, <2>2 DEF Addresses!Rules
<1>8. Addresses!Carried(issues) \in SUBSET Addresses!Rules
  BY <1>2 DEF Addresses!Carried, AddressRun
<1>9. status = "skipped" <=> ~located
  BY <1>4, MeasuredReplays DEF Replayable, Addresses!Reusable
<1>10. reused /\ n \in Addresses!PriorRuns => prior = runs[n]
  <2>1. Addresses!PriorRuns \in SUBSET (1..n)
    BY <1>2 DEF Addresses!PriorRuns
  <2>2. n \in Addresses!PriorRuns =>
          /\ Addresses!Last(Addresses!PriorRuns) \in 1..n
          /\ Addresses!Last(Addresses!PriorRuns) >= n
    BY <1>2, <2>1, LastIn
  <2> QED
    BY <1>2, <2>2
\* A run that follows one of the same places which nobody overrode finds the same.
<1>11. ASSUME n > 0, runs[n].house = h, runs[n].business = b, runs[n].commute # "skipped",
              Addresses!Status(runs[n]) # "PASSED_WITH_MD_OVERRIDE"
       PROVE  issue = runs[n].issues.commute /\ located
  <2>1. n \in Addresses!PriorRuns
    BY <1>2, <1>11 DEF Addresses!PriorRuns, Addresses!Status
  <2>2. Replayable(runs[n])
    BY <1>2, <1>11 DEF AddressInv
  <2>3. located
    BY <1>11, <2>2 DEF Replayable
  <2>4. Addresses!Last(Addresses!PriorRuns) = n
    <3>1. Addresses!PriorRuns \in SUBSET (1..n)
      BY <1>2 DEF Addresses!PriorRuns
    <3>2. /\ Addresses!Last(Addresses!PriorRuns) \in 1..n
          /\ Addresses!Last(Addresses!PriorRuns) >= n
      BY <1>2, <2>1, <3>1, LastIn
    <3> QED
      BY <1>2, <3>2
  <2>5. reused
    BY <1>11, <2>1, <2>3, <2>4 DEF Addresses!Reusable
  <2>6. status = runs[n].commute
    BY <2>3, <2>4, <2>5
  <2> QED
    BY <1>6, <2>2, <2>3, <2>6 DEF Replayable
<1> HIDE DEF located, reused, prior, status, issue, issues
<1>12. run \in AddressRun /\ Replayable(run)
  BY <1>5, <1>6, <1>7, <1>8, <1>9 DEF AddressRun, Replayable, located
<1> DEFINE r == run
<1>13. /\ r.house = h /\ r.business = b /\ r.commute = status /\ r.issues.commute = issue
  BY <1>7
<1> HIDE DEF r
<1>14. /\ runs' \in Seq(AddressRun) /\ DOMAIN runs' = 1..(n+1) /\ runs'[n + 1] = r
       /\ \A i \in 1..n : runs'[i] = runs[i]
  BY <1>1, <1>2, <1>12 DEF AddressInv, r
<1>15. \A i \in DOMAIN runs' : Replayable(runs'[i])
  BY <1>2, <1>12, <1>14 DEF AddressInv, r
<1>16. Addresses!CommuteStands'
  <2> SUFFICES ASSUME NEW i \in 1..(n+1), NEW j \in 1..(n+1), i < j,
                      runs'[i].commute # "skipped",
                      \A k \in i..j :
                         /\ runs'[k].house = runs'[i].house
                         /\ runs'[k].business = runs'[i].business
                         /\ k < j => Addresses!Status(runs'[k]) # "PASSED_WITH_MD_OVERRIDE"
               PROVE  runs'[j].issues.commute = runs'[i].issues.commute
    BY Zenon, <1>14 DEF Addresses!CommuteStands
  <2>1. CASE j \in 1..n
    <3>1. \A k \in i..j : runs'[k] = runs[k] /\ k \in 1..n
      BY <1>2, <1>14, <2>1
    <3>2. i \in i..j /\ j \in i..j /\ i \in DOMAIN runs /\ j \in DOMAIN runs
      BY <1>2, <2>1
    <3>3. /\ runs[i].commute # "skipped"
          /\ \A k \in i..j :
                /\ runs[k].house = runs[i].house /\ runs[k].business = runs[i].business
                /\ k < j => Addresses!Status(runs[k]) # "PASSED_WITH_MD_OVERRIDE"
      BY Zenon, <3>1, <3>2
    <3>4. Addresses!CommuteStands
      BY DEF AddressInv
    <3>5. runs[j].issues.commute = runs[i].issues.commute
      BY Zenon, <3>2, <3>3, <3>4 DEF Addresses!CommuteStands
    <3> QED
      BY Zenon, <3>1, <3>2, <3>5
  <2>2. CASE j = n + 1
    <3>1. /\ n > 0 /\ n \in i..j /\ n < j /\ i \in 1..n /\ n \in 1..n
          /\ \A k \in i..n : k \in 1..n /\ k \in i..j
      BY <1>2, <2>2
    <3>2. /\ runs[n].house = runs[i].house /\ runs[n].business = runs[i].business
          /\ r.house = runs[i].house /\ r.business = runs[i].business
          /\ Addresses!Status(runs[n]) # "PASSED_WITH_MD_OVERRIDE"
      <4>1. j \in i..j
        BY <1>2
      <4> QED
        BY <1>14, <2>2, <3>1, <4>1
    <3>3. runs[i].commute # "skipped" /\ Replayable(runs[i])
      BY <1>2, <1>14, <3>1 DEF AddressInv
    <3>4. runs[n].issues.commute = runs[i].issues.commute
      <4>1. CASE i = n
        BY <4>1
      <4>2. CASE i < n
        <5>1. \A k \in i..n :
                  /\ runs[k].house = runs[i].house /\ runs[k].business = runs[i].business
                  /\ k < n => Addresses!Status(runs[k]) # "PASSED_WITH_MD_OVERRIDE"
          BY <1>2, <1>14, <2>2, <3>1
        <5>2. i \in DOMAIN runs /\ n \in DOMAIN runs /\ Addresses!CommuteStands
          BY <1>2, <3>1 DEF AddressInv
        <5> QED
          BY Zenon, <3>3, <4>2, <5>1, <5>2 DEF Addresses!CommuteStands
      <4>3. i = n \/ i < n
        <5>1. n \in Nat /\ i \in 1..n
          BY <1>2, <3>1
        <5> HIDE DEF n
        <5> QED
          BY <5>1
      <4> QED
        BY Zenon, <4>1, <4>2, <4>3
    <3>5. runs[n].commute # "skipped"
      BY <1>2, <1>13, <3>1, <3>2, <3>3, <3>4 DEF AddressInv, Replayable
    <3> QED
      BY <1>11, <1>13, <1>14, <2>2, <3>1, <3>2, <3>4, <3>5
  <2> QED
    BY <1>2, <2>1, <2>2
<1> QED
  BY <1>1, <1>14, <1>15, <1>16 DEF AddressInv

\* An approval touches the latest run alone, and not what it found.
LEMMA ApprovalNext ==
    ASSUME AddressInv, NEW r \in Addresses!Rules, Addresses!MDApproves(r)
    PROVE  AddressInv'
<1> DEFINE n == Len(runs)
           run == [runs[n] EXCEPT !.approved = @ \cup {r}]
<1>1. n \in Nat /\ DOMAIN runs = 1..n /\ \A i \in 1..n : runs[i] \in AddressRun
  BY DEF AddressInv
<1>2. n \in 1..n
  BY <1>1 DEF Addresses!MDApproves, AddressInv
<1>3. runs' = [runs EXCEPT ![n] = run] /\ UNCHANGED <<house, business>>
  BY DEF Addresses!MDApproves
<1>4. /\ run \in AddressRun /\ run.house = runs[n].house
      /\ run.business = runs[n].business /\ run.commute = runs[n].commute
      /\ run.issues = runs[n].issues
  BY <1>1, <1>2 DEF AddressRun
<1> HIDE DEF run, n
<1>5. /\ runs' \in Seq(AddressRun) /\ DOMAIN runs' = 1..n /\ runs'[n] = run
      /\ \A i \in 1..n : i # n => runs'[i] = runs[i]
  BY <1>1, <1>2, <1>3, <1>4 DEF AddressInv
<1>6. \A i \in 1..n : /\ runs'[i].house = runs[i].house
                      /\ runs'[i].business = runs[i].business
                      /\ runs'[i].commute = runs[i].commute
                      /\ runs'[i].issues = runs[i].issues
  BY <1>4, <1>5
<1>7. \A i \in 1..n : Replayable(runs'[i])
  BY <1>1, <1>6 DEF AddressInv, Replayable
<1>8. ASSUME NEW i \in 1..n, NEW j \in 1..n, i < j,
             runs'[i].commute # "skipped",
             \A k \in i..j :
                /\ runs'[k].house = runs'[i].house
                /\ runs'[k].business = runs'[i].business
                /\ k < j => Addresses!Status(runs'[k]) # "PASSED_WITH_MD_OVERRIDE"
      PROVE  runs'[j].issues.commute = runs'[i].issues.commute
  <2>1. \A k \in i..j : k \in 1..n /\ (k < j => k # n)
    BY <1>1
  <2>2. \A k \in i..j :
            /\ runs[k].house = runs[i].house /\ runs[k].business = runs[i].business
            /\ k < j => Addresses!Status(runs[k]) # "PASSED_WITH_MD_OVERRIDE"
    BY <1>5, <1>6, <1>8, <2>1
  <2>3. /\ i \in DOMAIN runs /\ j \in DOMAIN runs /\ runs[i].commute # "skipped"
        /\ Addresses!CommuteStands
    BY <1>1, <1>6, <1>8 DEF AddressInv
  <2>4. runs[j].issues.commute = runs[i].issues.commute
    BY Zenon, <1>8, <2>2, <2>3 DEF Addresses!CommuteStands
  <2> QED
    BY <1>6, <2>4
<1>9. Addresses!CommuteStands'
  BY Zenon, <1>5, <1>8 DEF Addresses!CommuteStands
<1> QED
  BY <1>3, <1>5, <1>7, <1>9 DEF AddressInv

LEMMA AddressNext ==
    AddressInv /\ [Addresses!Next]_Addresses!vars => AddressInv'
<1> SUFFICES ASSUME AddressInv, [Addresses!Next]_Addresses!vars
             PROVE  AddressInv'
  OBVIOUS
<1>1. CASE UNCHANGED Addresses!vars
  BY <1>1 DEF Addresses!vars, AddressInv, Addresses!CommuteStands
<1>2. ASSUME NEW p \in Place, Addresses!AddHousePhoto(p) \/ Addresses!AddBusinessPhoto(p)
      PROVE  AddressInv'
  <2>1. house \in Seq(Place) /\ business \in Seq(Place)
    BY DEF AddressInv
  <2>2. Append(house, p) \in Seq(Place) /\ Append(business, p) \in Seq(Place)
    BY <1>2, <2>1
  <2>3. house' \in Seq(Place) /\ business' \in Seq(Place) /\ UNCHANGED runs
    BY <1>2, <2>1, <2>2 DEF Addresses!AddHousePhoto, Addresses!AddBusinessPhoto
  <2>4. Addresses!CommuteStands'
    <3>1. Addresses!CommuteStands /\ runs' = runs
      BY <2>3 DEF AddressInv
    <3> QED
      BY <3>1 DEF Addresses!CommuteStands
  <2> QED
    BY <2>3, <2>4 DEF AddressInv
<1>3. ASSUME NEW h \in Addresses!SomeHouse, NEW b \in Addresses!SomeBusiness,
             NEW service \in Addresses!Services,
             Addresses!run_level_1_address(h, b, service)
      PROVE  AddressInv'
  <2>1. h \in Place /\ b \in Place
    BY CoordsArePlaces DEF AddressInv
  <2> QED
    BY <1>3, <2>1, RunNext
<1>4. ASSUME NEW r \in Addresses!Rules, Addresses!MDApproves(r)
      PROVE  AddressInv'
  BY <1>4, ApprovalNext
<1> QED
  BY <1>1, <1>2, <1>3, <1>4 DEF Addresses!Next, Place

LEMMA AddressesParked == PartSpec /\ ~(part = "addresses") => []~(part = "addresses")
<1>1. ~(part = "addresses") /\ [PartNext]_parts => ~(part = "addresses")'
  BY DEF PartNext, parts
<1> QED
  BY <1>1, PTL DEF PartSpec

LEMMA AddressesAlways ==
    PartSpec /\ part = "addresses" => [](part = "addresses" /\ AddressInv)
<1>1. PartInit /\ part = "addresses" => AddressInv
  BY AddressInit DEF PartInit
<1>2. part = "addresses" /\ AddressInv /\ [PartNext]_parts
          => (part = "addresses" /\ AddressInv)'
  <2>1. part = "addresses" /\ [PartNext]_parts
            => [Addresses!Next]_Addresses!vars /\ (part = "addresses")'
    BY DEF PartNext, parts, addresses, Addresses!vars
  <2> QED
    BY <2>1, AddressNext
<1> QED
  BY <1>1, <1>2, PTL DEF PartSpec

\* Asking again does not clear a commute: until an override passes a run, the runs that
\* follow it at the same two places replay what it judged (level 1's carried commute).
THEOREM CommuteIsNotCleared == PartSpec => []CommuteStands
<1>1. AddressInv => CommuteStands
  BY DEF AddressInv, CommuteStands
<1>2. ~(part = "addresses") => CommuteStands
  BY DEF CommuteStands
<1> QED
  BY <1>1, <1>2, AddressesParked, AddressesAlways, PTL

(***************************************************************************)
(* Level 1: the parties of the agreement                                   *)
(***************************************************************************)
Finding(named) == Scanned!ration_owner_rule(Scanned!Bill(named))
ScanRow == [status : {"none", "PARTIAL", "SUCCESS"}, named : BOOLEAN]
ScanRun ==
    [doc : Scanned!Kinds \cup {"none"}, complete : BOOLEAN,
     owner : {Finding(TRUE), Finding(FALSE)}]

\* A complete run is the one its document's row still repeats.
Repeated(run) ==
    run.complete => /\ run.doc \in Scanned!Kinds \ {"none"}
                    /\ cache[run.doc].status = "SUCCESS"
                    /\ run.owner = Finding(cache[run.doc].named)

ScansInv ==
    /\ cache \in [Scanned!Kinds -> ScanRow] /\ scans \in Seq(ScanRun)
    /\ \A i \in DOMAIN scans : Repeated(scans[i])
    /\ Scanned!PartiesStand

LEMMA DocumentOnFile == Scanned!Document \in Scanned!Kinds \cup {"none"}
<1> DEFINE filed == {i \in DOMAIN Agreements : Agreements[i] \in onFile}
           preferred == CHOOSE i \in filed : \A j \in filed : i <= j
<1>1. filed \in SUBSET Nat
  BY AgreementsAssumption
<1>2. filed # {} => preferred \in filed
  BY <1>1, LeastOfNats
<1> QED
  BY <1>2 DEF Scanned!Document, Scanned!Kinds

LEMMA ScansInit == Scanned!Init => ScansInv
<1> SUFFICES ASSUME Scanned!Init PROVE ScansInv
  OBVIOUS
<1>1. cache \in [Scanned!Kinds -> ScanRow]
  BY DEF Scanned!Init, Scanned!NoRow, ScanRow
<1> QED
  BY <1>1 DEF Scanned!Init, ScansInv, Scanned!PartiesStand

\* A run answers from the row, or fills it; a complete row is never written again.
LEMMA ScanNext ==
    ASSUME ScansInv, NEW scan \in Scanned!Scans, Scanned!_load_or_scan_lagr_parties(scan)
    PROVE  ScansInv'
<1> DEFINE n == Len(scans)
           doc == Scanned!Document
           parties == Scanned!Parties(scan)
           run == [doc |-> doc, complete |-> parties.status = "SUCCESS",
                   owner |-> Finding(parties.named)]
<1>1. scans' = Append(scans, run) /\ cache' = Scanned!Saved(scan)
  BY DEF Scanned!_load_or_scan_lagr_parties, Finding
<1>2. /\ n \in Nat /\ DOMAIN scans = 1..n /\ cache \in [Scanned!Kinds -> ScanRow]
      /\ \A i \in 1..n : scans[i] \in ScanRun /\ Repeated(scans[i])
  BY DEF ScansInv
<1>3. doc \in Scanned!Kinds \cup {"none"}
  BY DocumentOnFile
<1>4. /\ scan.status \in {"FAILED", "PARTIAL", "SUCCESS"} /\ scan.named \in BOOLEAN
      /\ scan.status # "FAILED" => scan \in ScanRow
  <2>1. CASE scan = Scanned!Scan("FAILED", FALSE)
    BY <2>1 DEF Scanned!Scan, ScanRow
  <2>2. ASSUME NEW st \in {"PARTIAL", "SUCCESS"}, NEW b \in BOOLEAN,
               scan = Scanned!Scan(st, b)
        PROVE  scan \in ScanRow /\ scan.status = st
    BY <2>2 DEF Scanned!Scan, ScanRow
  <2>3. \A x \in ScanRow : x.named \in BOOLEAN
    BY DEF ScanRow
  <2>4. \/ scan = Scanned!Scan("FAILED", FALSE)
        \/ \E st \in {"PARTIAL", "SUCCESS"}, b \in BOOLEAN : scan = Scanned!Scan(st, b)
    BY DEF Scanned!Scans, Scanned!Scan
  <2>5. CASE \E st \in {"PARTIAL", "SUCCESS"}, b \in BOOLEAN : scan = Scanned!Scan(st, b)
    <3>1. PICK st \in {"PARTIAL", "SUCCESS"}, b \in BOOLEAN : scan = Scanned!Scan(st, b)
      BY <2>5
    <3>2. scan \in ScanRow /\ scan.status = st
      BY <2>2, <3>1
    <3> QED
      BY <2>3, <3>2
  <2> QED
    BY <2>1, <2>4, <2>5
<1> HIDE DEF doc
<1>5. parties \in ScanRow
  BY <1>2, <1>3, <1>4 DEF Scanned!Parties, Scanned!NoRow, Scanned!Cached, ScanRow, doc
<1>6. cache' \in [Scanned!Kinds -> ScanRow]
  BY <1>1, <1>2, <1>4 DEF Scanned!Saved
<1>7. \A k \in Scanned!Kinds : cache[k].status = "SUCCESS" => cache'[k] = cache[k]
  BY <1>1, <1>2 DEF Scanned!Saved, Scanned!Cached
<1>8. run \in ScanRun
  BY <1>3, <1>5 DEF ScanRun, ScanRow
<1>9. parties.status = "SUCCESS"
         => /\ doc \in Scanned!Kinds \ {"none"} /\ cache'[doc].status = "SUCCESS"
            /\ cache'[doc].named = parties.named
  BY <1>1, <1>2, <1>3, <1>4
  DEF Scanned!Parties, Scanned!Saved, Scanned!NoRow, Scanned!Cached, doc
\* What a complete run found of this document is found again.
<1>10. ASSUME doc \in Scanned!Kinds \ {"none"}, cache[doc].status = "SUCCESS"
       PROVE  parties = cache[doc]
  BY <1>10 DEF Scanned!Parties, Scanned!Cached, doc
<1> HIDE DEF parties
<1>11. /\ run.doc = doc /\ run.owner = Finding(parties.named)
       /\ run.complete <=> parties.status = "SUCCESS"
  OBVIOUS
<1> DEFINE r == run
<1> HIDE DEF r
<1>12. /\ scans' \in Seq(ScanRun) /\ DOMAIN scans' = 1..(n + 1) /\ scans'[n + 1] = r
       /\ \A i \in 1..n : scans'[i] = scans[i]
  BY <1>1, <1>2, <1>8 DEF ScansInv, r
<1>13. \A i \in 1..n : Repeated(scans[i])'
  <2> SUFFICES ASSUME NEW i \in 1..n PROVE Repeated(scans[i])'
    OBVIOUS
  <2>1. scans'[i] = scans[i] /\ Repeated(scans[i])
    BY <1>2, <1>12
  <2> QED
    BY <1>7, <2>1 DEF Repeated
<1>14. ASSUME NEW i, i = n + 1 PROVE Repeated(scans[i])'
  <2>1. scans'[i] = r
    BY <1>12, <1>14
  <2> QED
    BY <1>9, <1>11, <2>1 DEF Repeated, r
<1>15. Scanned!PartiesStand'
  <2> SUFFICES ASSUME NEW i \in 1..(n + 1), NEW j \in 1..(n + 1), i < j,
                      scans'[i].doc = scans'[j].doc, scans'[i].complete
               PROVE  scans'[j].owner = scans'[i].owner
    BY <1>12 DEF Scanned!PartiesStand
  <2>1. i \in 1..n /\ (j \in 1..n \/ j = n + 1)
    BY <1>2
  <2>2. scans'[i] = scans[i] /\ Repeated(scans[i])
    BY <1>2, <1>12, <2>1
  <2>3. CASE j \in 1..n
    BY <1>2, <1>12, <2>1, <2>3 DEF ScansInv, Scanned!PartiesStand
  <2>4. CASE j = n + 1
    <3>1. scans[i].doc = doc /\ cache[doc].status = "SUCCESS"
          /\ doc \in Scanned!Kinds \ {"none"}
      BY <1>11, <1>12, <2>2, <2>4 DEF Repeated, r
    <3> QED
      BY <1>10, <1>11, <1>12, <2>2, <2>4, <3>1 DEF Repeated, r
  <2> QED
    BY <2>1, <2>3, <2>4
<1>16. \A i \in 1..(n + 1) : i \in 1..n \/ i = n + 1
  BY <1>2
<1> QED
  BY <1>6, <1>12, <1>13, <1>14, <1>15, <1>16 DEF ScansInv

LEMMA ScansNext == ScansInv /\ [Scanned!Next]_Scanned!vars => ScansInv'
<1> SUFFICES ASSUME ScansInv, [Scanned!Next]_Scanned!vars PROVE ScansInv'
  OBVIOUS
<1>1. ASSUME UNCHANGED <<cache, scans>> PROVE ScansInv'
  <2>1. ScansInv /\ cache' = cache /\ scans' = scans
    BY <1>1
  <2>2. Scanned!PartiesStand'
    BY <2>1 DEF ScansInv, Scanned!PartiesStand
  <2>3. \A i \in DOMAIN scans' : Repeated(scans[i])'
    BY <2>1 DEF ScansInv, Repeated
  <2> QED
    BY <2>1, <2>2, <2>3 DEF ScansInv
<1>2. ASSUME NEW scan \in Scanned!Scans, Scanned!_load_or_scan_lagr_parties(scan)
      PROVE  ScansInv'
  BY <1>2, ScanNext
<1> QED
  BY <1>1, <1>2 DEF Scanned!Next, Scanned!Upload, Scanned!vars

LEMMA AgreementsParked == PartSpec /\ ~(part = "agreements") => []~(part = "agreements")
<1>1. ~(part = "agreements") /\ [PartNext]_parts => ~(part = "agreements")'
  BY DEF PartNext, parts
<1> QED
  BY <1>1, PTL DEF PartSpec

LEMMA AgreementsAlways ==
    PartSpec /\ part = "agreements" => [](part = "agreements" /\ ScansInv)
<1>1. PartInit /\ part = "agreements" => ScansInv
  BY ScansInit DEF PartInit
<1>2. part = "agreements" /\ ScansInv /\ [PartNext]_parts
          => (part = "agreements" /\ ScansInv)'
  <2>1. part = "agreements" /\ [PartNext]_parts
            => [Scanned!Next]_Scanned!vars /\ (part = "agreements")'
    BY DEF PartNext, parts, agreements, Scanned!vars
  <2> QED
    BY <2>1, ScansNext
<1> QED
  BY <1>1, <1>2, PTL DEF PartSpec

\* What a complete scan of an agreement showed, every later run of level 1 that reads
\* the same document finds: its row is only ever written by a scan that had none.
THEOREM ScannedPartiesStand == PartSpec => []PartiesStand
<1>1. ScansInv => PartiesStand
  BY DEF ScansInv, PartiesStand
<1>2. ~(part = "agreements") => PartiesStand
  BY DEF PartiesStand
<1> QED
  BY <1>1, <1>2, AgreementsParked, AgreementsAlways, PTL

(***************************************************************************)
(* The types of the parts                                                  *)
(***************************************************************************)
LEMMA DedupeTyped == PartSpec /\ part = "dedupe" => []Dedupe!TypeOK
<1>1. DedupeP!Spec => []DedupeP!TypeOK
  BY DedupeFinite, BoundsAssumption, DedupeP!DedupeTypeCorrect
<1>2. DedupeP!TypeOK => Dedupe!TypeOK
  BY DEF DedupeP!TypeOK, Dedupe!TypeOK, DedupeP!Snapshots, Dedupe!Snapshots,
         DedupeP!Instants, Dedupe!Instants
<1> QED
  BY <1>1, <1>2, DedupeBehaves, PTL

LEMMA CatalogueTyped == PartSpec /\ part = "catalogue" => []Catalogue!TypeOK
<1>1. CatalogueP!Spec => []CatalogueP!TypeOK
  BY BoundsAssumption, CatalogueP!CatalogueTypeCorrect
<1>2. CatalogueP!TypeOK => Catalogue!TypeOK
  BY Zenon DEF CatalogueP!TypeOK, Catalogue!TypeOK, CatalogueP!Rows, Catalogue!Rows,
         CatalogueP!Sources, Catalogue!Sources, CatalogueP!NoRow, Catalogue!NoRow
<1> QED
  BY <1>1, <1>2, CatalogueBehaves, PTL

LEMMA CamTyped == PartSpec /\ part = "cam" => []Cam!TypeOK
BY GateTypeCorrect, CamBehaves, PTL

LEMMA ClientTyped == PartSpec /\ part = "client" => []Client!TypeOK
<1>1. ClientP!Spec => []ClientP!TypeOK
  BY ClientLevels, ClientP!ClientTypeCorrect
<1>2. ClientP!TypeOK => Client!TypeOK
  BY Zenon DEF ClientP!TypeOK, Client!TypeOK, ClientP!STEP_ORDER, Client!STEP_ORDER,
         ClientP!Keys, Client!Keys, ClientP!Results, Client!Results, ClientP!Statuses,
         Client!Statuses, ClientP!Run, Client!Run,
         ClientP!NoRun, Client!NoRun, ClientP!Runner, Client!Runner
<1> QED
  BY <1>1, <1>2, ClientBehaves, PTL

LEMMA RegisterIsTyped == PartSpec /\ part = "register" => []Register!TypeOK
<1>1. RegisterInv => Register!TypeOK
  BY RegisterCounts DEF RegisterInv, RegisterTyped, InHand, Counts, Register!TypeOK
<1> QED
  BY <1>1, RegisterAlways, PTL

LEMMA ReportsTyped == PartSpec /\ part = "reports" => []Reports!TypeOK
<1> DEFINE Few == Len(rows) <= MaxReports
<1>1. PartInit /\ part = "reports" => Few
  BY BoundsAssumption DEF PartInit, Reports!Init
<1>2. part = "reports" /\ ReportsInv /\ Few /\ [PartNext]_parts => Few'
  <2>1. part = "reports" /\ [PartNext]_parts => [Reports!Next]_Reports!vars
    BY DEF PartNext, parts, reports, Reports!vars
  <2>2. ASSUME ReportsInv, Few, NEW report \in Reports!Reports, Reports!Arrives(report)
        PROVE  Few'
    <3>1. <<report>> \in Seq(Reports!Reports) /\ rows \in Seq(Reports!Reports)
      BY <2>2 DEF ReportsInv
    <3>2. Len(rows') = 1 + Len(rows) /\ Len(rows) \in Nat /\ Len(rows) < MaxReports
      BY <2>2, <3>1, ConcatProperties DEF Reports!Arrives
    <3> QED
      BY <3>2, BoundsAssumption
  <2>3. Few /\ UNCHANGED Reports!vars => Few'
    BY DEF Reports!vars
  <2> QED
    BY <2>1, <2>2, <2>3 DEF Reports!Next
<1>3. ReportsInv /\ Few => Reports!TypeOK
  <2> SUFFICES ASSUME ReportsInv, Few PROVE Reports!TypeOK
    OBVIOUS
  <2>1. Len(rows) \in 0..MaxReports /\ rows \in [1..Len(rows) -> Reports!Reports]
    BY BoundsAssumption DEF ReportsInv
  <2> QED
    BY <2>1 DEF ReportsInv, Reports!TypeOK
<1> QED
  BY <1>1, <1>2, <1>3, ReportsAlways, PTL DEF PartSpec

LEMMA AddressesTyped == PartSpec /\ part = "addresses" => []Addresses!TypeOK
<1> DEFINE Few == Len(house) <= MaxHouse /\ Len(business) <= MaxBusiness
<1>1. PartInit /\ part = "addresses" => Few
  BY BoundsAssumption DEF PartInit, Addresses!Init
<1>2. part = "addresses" /\ AddressInv /\ Few /\ [PartNext]_parts => Few'
  <2>1. part = "addresses" /\ [PartNext]_parts => [Addresses!Next]_Addresses!vars
    BY DEF PartNext, parts, addresses, Addresses!vars
  <2>2. ASSUME AddressInv, Few, NEW p \in Place, Addresses!AddHousePhoto(p)
        PROVE  Few'
    BY <2>2, BoundsAssumption DEF AddressInv, Addresses!AddHousePhoto
  <2>3. ASSUME AddressInv, Few, NEW p \in Place, Addresses!AddBusinessPhoto(p)
        PROVE  Few'
    BY <2>3, BoundsAssumption DEF AddressInv, Addresses!AddBusinessPhoto
  <2>4. Few /\ UNCHANGED <<house, business>> => Few'
    OBVIOUS
  <2> QED
    BY <2>1, <2>2, <2>3, <2>4
    DEF Addresses!Next, Place, Addresses!run_level_1_address, Addresses!MDApproves,
        Addresses!vars
<1>3. AddressInv /\ Few => Addresses!TypeOK
  <2> SUFFICES ASSUME AddressInv, Few PROVE Addresses!TypeOK
    OBVIOUS
  <2>1. Len(house) \in 0..MaxHouse /\ Len(business) \in 0..MaxBusiness
    BY BoundsAssumption DEF AddressInv
  <2>2. house \in [1..Len(house) -> Place] /\ business \in [1..Len(business) -> Place]
    BY DEF AddressInv
  <2>3. house \in Addresses!Photos(MaxHouse) /\ business \in Addresses!Photos(MaxBusiness)
    BY <2>1, <2>2 DEF Addresses!Photos, Place
  <2>4. \A i \in DOMAIN runs : runs[i] \in AddressRun
    BY DEF AddressInv
  <2> QED
    BY <2>3, <2>4 DEF Addresses!TypeOK, AddressRun, Place
<1> QED
  BY <1>1, <1>2, <1>3, AddressesAlways, PTL DEF PartSpec

LEMMA FindingsAreSeverities == \A named : Finding(named) \in Scanned!Severity
BY DEF Finding, Scanned!ration_owner_rule, Scanned!Severity

LEMMA AgreementsTyped == PartSpec /\ part = "agreements" => []Scanned!TypeOK
<1> DEFINE Row == {Scanned!NoRow} \cup (Scanned!Scans \ {Scanned!Scan("FAILED", FALSE)})
           Held == onFile \in SUBSET Scanned!Kinds /\ cache \in [Scanned!Kinds -> Row]
<1>1. PartInit /\ part = "agreements" => Held
  BY DEF PartInit, Scanned!Init
<1>2. part = "agreements" /\ Held /\ [PartNext]_parts => Held'
  <2>1. part = "agreements" /\ [PartNext]_parts => [Scanned!Next]_Scanned!vars
    BY DEF PartNext, parts, agreements, Scanned!vars
  <2>2. ASSUME Held, NEW scan \in Scanned!Scans, Scanned!_load_or_scan_lagr_parties(scan)
        PROVE  Held'
    <3>1. scan.status # "FAILED" => scan \in Row
      BY DEF Scanned!Scan
    <3> QED
      BY <2>2, <3>1 DEF Scanned!_load_or_scan_lagr_parties, Scanned!Saved
  <2>3. ASSUME Held, NEW k \in Scanned!Kinds, Scanned!Upload(k)
        PROVE  Held'
    BY <2>3 DEF Scanned!Upload
  <2>4. Held /\ UNCHANGED <<onFile, cache>> => Held'
    OBVIOUS
  <2> QED
    BY <2>1, <2>2, <2>3, <2>4 DEF Scanned!Next, Scanned!vars
<1>3. ScansInv /\ Held => Scanned!TypeOK
  <2> SUFFICES ASSUME ScansInv, Held PROVE Scanned!TypeOK
    OBVIOUS
  <2>1. \A i \in DOMAIN scans : scans[i] \in ScanRun
    BY DEF ScansInv
  <2>2. \A i \in DOMAIN scans : scans[i].doc \in Scanned!Kinds \cup {"none"}
                                /\ scans[i].owner \in Scanned!Severity
    BY <2>1, FindingsAreSeverities DEF ScanRun
  <2> QED
    BY <2>2 DEF Scanned!TypeOK
<1> QED
  BY <1>1, <1>2, <1>3, AgreementsAlways, PTL DEF PartSpec

(***************************************************************************)
(* The runs of the levels                                                  *)
(***************************************************************************)
LEMMA LevelsBehave == PartSpec /\ part = "levels" => Spec
<1>1. PartInit /\ part = "levels" => Init
  BY DEF PartInit
<1>2. part = "levels" /\ [PartNext]_parts => [Next]_vars /\ (part = "levels")'
  BY DEF PartNext, parts, levels, vars
<1> QED
  BY <1>1, <1>2, PTL DEF PartSpec, Spec

LEMMA LevelsParked ==
    PartSpec /\ ~(part = "levels")
        => [](~(part = "levels") /\ level = "cam" /\ verdict = "PASSED")
<1>1. PartInit /\ ~(part = "levels") => level = "cam" /\ verdict = "PASSED"
  BY DEF PartInit, NoLevels
<1>2. ~(part = "levels") /\ level = "cam" /\ verdict = "PASSED" /\ [PartNext]_parts
          => (~(part = "levels") /\ level = "cam" /\ verdict = "PASSED")'
  BY DEF PartNext, parts, levels
<1> QED
  BY <1>1, <1>2, PTL DEF PartSpec

LEMMA LevelsTyped == PartSpec /\ part = "levels" => []TypeOK
BY LevelsBehave, LevelsTypeCorrect, PTL

\* No file earns a section of level 5 more than the section's points.
THEOREM SectionsWithinMaximum == PartSpec => []SectionWithinMaximum
<1>1. level = "cam" => SectionWithinMaximum
  BY DEF SectionWithinMaximum
<1> QED
  BY <1>1, LevelsBehave, SectionsAreBounded, LevelsParked, PTL

\* At no level does a file with worse evidence pass where the better one was blocked.
THEOREM WorseFileStaysBlocked == PartSpec => WorseFileNoBetter
<1>1. PartSpec /\ part = "levels" => WorseFileNoBetter
  BY LevelsBehave, WorseningNeverPasses
<1>2. ~(part = "levels") /\ [PartNext]_parts => [WorseningKeepsBlocked]_vars
  BY DEF PartNext, parts, levels, vars
<1> QED
  BY <1>1, <1>2, LevelsParked, PTL DEF PartSpec, WorseFileNoBetter

\* A file with nothing against it passes every level and Phase 1, whatever is overridden.
THEOREM CleanFilesPass == PartSpec => []CleanFilePasses
<1>1. verdict = "PASSED" => CleanFilePasses
  BY DEF CleanFilePasses
<1> QED
  BY <1>1, LevelsBehave, CleanFilesPassed, LevelsParked, PTL

\* What the assessor sees as passed had something to judge by, but for the exceptions the
\* code makes, and a rule among it that did fire is switched off.
THEOREM ShownIsBacked == PartSpec => []EvidenceBacked
BY EvidenceIsBacked, PTL

(***************************************************************************)
(* The type of the composition                                             *)
(***************************************************************************)
LEMMA PartStays == [PartNext]_parts => part' = part
BY DEF PartNext, parts

\* Every variable of the part that moves keeps its type, for all values of the constants.
THEOREM PartsTyped == PartSpec => []PartTypeOK
<1>1. PartInit => part \in Parts
  BY DEF PartInit
<1>2. /\ part = "levels" /\ TypeOK => PartTypeOK
      /\ part = "reports" /\ Reports!TypeOK => PartTypeOK
      /\ part = "addresses" /\ Addresses!TypeOK => PartTypeOK
      /\ part = "agreements" /\ Scanned!TypeOK => PartTypeOK
      /\ part = "dedupe" /\ Dedupe!TypeOK => PartTypeOK
      /\ part = "catalogue" /\ Catalogue!TypeOK => PartTypeOK
      /\ part = "cam" /\ Cam!TypeOK => PartTypeOK
      /\ part = "register" /\ Register!TypeOK => PartTypeOK
      /\ part = "client" /\ Client!TypeOK => PartTypeOK
  BY Zenon DEF PartTypeOK
<1>3. PartSpec /\ part = "levels" => []PartTypeOK
  <2>1. part = "levels" /\ [PartNext]_parts => (part = "levels")'
    BY PartStays
  <2> QED
    BY <1>2, <2>1, LevelsTyped, PTL DEF PartSpec
<1>4. PartSpec /\ part = "reports" => []PartTypeOK
  <2>1. part = "reports" /\ [PartNext]_parts => (part = "reports")'
    BY PartStays
  <2> QED
    BY <1>2, <2>1, ReportsTyped, PTL DEF PartSpec
<1>5. PartSpec /\ part = "addresses" => []PartTypeOK
  <2>1. part = "addresses" /\ [PartNext]_parts => (part = "addresses")'
    BY PartStays
  <2> QED
    BY <1>2, <2>1, AddressesTyped, PTL DEF PartSpec
<1>6. PartSpec /\ part = "agreements" => []PartTypeOK
  <2>1. part = "agreements" /\ [PartNext]_parts => (part = "agreements")'
    BY PartStays
  <2> QED
    BY <1>2, <2>1, AgreementsTyped, PTL DEF PartSpec
<1>7. PartSpec /\ part = "dedupe" => []PartTypeOK
  <2>1. part = "dedupe" /\ [PartNext]_parts => (part = "dedupe")'
    BY PartStays
  <2> QED
    BY <1>2, <2>1, DedupeTyped, PTL DEF PartSpec
<1>8. PartSpec /\ part = "catalogue" => []PartTypeOK
  <2>1. part = "catalogue" /\ [PartNext]_parts => (part = "catalogue")'
    BY PartStays
  <2> QED
    BY <1>2, <2>1, CatalogueTyped, PTL DEF PartSpec
<1>9. PartSpec /\ part = "cam" => []PartTypeOK
  <2>1. part = "cam" /\ [PartNext]_parts => (part = "cam")'
    BY PartStays
  <2> QED
    BY <1>2, <2>1, CamTyped, PTL DEF PartSpec
<1>10. PartSpec /\ part = "register" => []PartTypeOK
  <2>1. part = "register" /\ [PartNext]_parts => (part = "register")'
    BY PartStays
  <2> QED
    BY <1>2, <2>1, RegisterIsTyped, PTL DEF PartSpec
<1>11. PartSpec /\ part = "client" => []PartTypeOK
  <2>1. part = "client" /\ [PartNext]_parts => (part = "client")'
    BY PartStays
  <2> QED
    BY <1>2, <2>1, ClientTyped, PTL DEF PartSpec
<1>12. part \in Parts
         => \/ part = "levels" \/ part = "reports" \/ part = "addresses"
            \/ part = "agreements" \/ part = "dedupe" \/ part = "catalogue"
            \/ part = "cam" \/ part = "register" \/ part = "client"
  BY DEF Parts
<1> QED
  BY <1>1, <1>3, <1>4, <1>5, <1>6, <1>7, <1>8, <1>9, <1>10, <1>11, <1>12, PTL DEF PartSpec

===============================================================================
