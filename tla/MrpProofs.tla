------------------------------- MODULE MrpProofs -------------------------------
(***************************************************************************)
(* The label and the price of a catalogue item, for any number of sessions *)
(* and any prices.  What makes both hold is that an id is never used       *)
(* twice, so that a write by id reaches the row that was read, and that a  *)
(* row once written by an administrator never says AI_ESTIMATED again.     *)
(***************************************************************************)
EXTENDS MrpCatalogue, TLAPS

Item == [id : Nat \ {0}, price : Prices, source : Sources, editor : BOOLEAN]
Read == Item \cup {NoRow}

Typed ==
    /\ row \in Read /\ inserted \in Nat
    /\ sess \in [Sessions -> [pc : {"idle", "estimate", "update"}, seen : Read]]

\* Every id in use has been given out, and an edit is of a row that was there.
IdsGivenOut ==
    /\ row.id <= inserted
    /\ \A s \in Sessions : /\ sess[s].seen.id <= inserted
                           /\ sess[s].pc = "update" => sess[s].seen # NoRow

\* A row that did not say AI_ESTIMATED when it was read still does not.
LabelStays ==
    \A s \in Sessions :
        sess[s].seen # NoRow /\ sess[s].seen.id = row.id /\ sess[s].seen.source # "AI_ESTIMATED"
            => row.source # "AI_ESTIMATED"

IInv == Typed /\ IdsGivenOut /\ LabelStays /\ LabelTellsEditor

LEMMA NoRowHasIdZero ==
    ASSUME NEW r \in Read
    PROVE  r = NoRow <=> r.id = 0
BY DEF Read, Item, NoRow

LEMMA InitInv == Init => IInv
BY DEF Init, IInv, Typed, IdsGivenOut, LabelStays, LabelTellsEditor, Idle, Read, NoRow

(***************************************************************************)
(* The steps.                                                              *)
(***************************************************************************)
LEMMA BeginNext ==
    ASSUME IInv, NEW s \in Sessions, NEW pc \in {"estimate", "update"}, Begin(s, pc),
           pc = "update" => row # NoRow
    PROVE  IInv'
<1> USE DEF IInv, Typed
<1>1. UNCHANGED <<row, inserted>>
  BY DEF Begin
<1>2. /\ sess'[s] = [pc |-> pc, seen |-> row]
      /\ \A t \in Sessions \ {s} : sess'[t] = sess[t]
  BY DEF Begin
<1>3. Typed'
  BY <1>1 DEF Begin
<1>4. IdsGivenOut'
  BY <1>1, <1>2 DEF IdsGivenOut
<1>5. LabelStays'
  BY <1>1, <1>2 DEF LabelStays
<1>6. LabelTellsEditor'
  BY <1>1 DEF LabelTellsEditor
<1> QED
  BY <1>3, <1>4, <1>5, <1>6

\* A transaction that ends, or that no session holds, leaves the reads of the others.
LEMMA EndNext ==
    ASSUME IInv, UNCHANGED sess \/ \E s \in Sessions : End(s)
    PROVE  /\ sess' \in [Sessions -> [pc : {"idle", "estimate", "update"}, seen : Read]]
           /\ \A t \in Sessions : sess'[t] = sess[t] \/ sess'[t] = Idle
BY DEF IInv, Typed, End, Idle, Read

LEMMA FailsNext ==
    ASSUME IInv, NEW s \in Sessions, End(s), UNCHANGED <<row, inserted>>
    PROVE  IInv'
<1> USE DEF IInv
<1>1. Typed'
  BY EndNext DEF Typed
<1>2. IdsGivenOut'
  BY EndNext DEF Typed, IdsGivenOut, Idle, NoRow
<1>3. LabelStays'
  BY EndNext DEF Typed, LabelStays, Idle
<1>4. LabelTellsEditor'
  BY DEF LabelTellsEditor
<1> QED
  BY <1>1, <1>2, <1>3, <1>4

LEMMA InsertNext ==
    ASSUME IInv, UNCHANGED sess \/ \E s \in Sessions : End(s),
           NEW price \in Prices, NEW source \in Sources, NEW editor \in BOOLEAN,
           source = "AI_ESTIMATED" <=> ~editor,
           Insert(price, source, editor)
    PROVE  IInv'
<1> USE DEF IInv
<1>1. /\ inserted' = inserted + 1
      /\ row' = [id |-> inserted + 1, price |-> price, source |-> source, editor |-> editor]
  BY DEF Insert
<1>2. row' \in Item
  BY <1>1 DEF Item, Typed
<1>3. Typed'
  BY <1>1, <1>2, EndNext DEF Typed, Read
<1>4. \A t \in Sessions : sess[t].seen.id \in Nat /\ sess[t].seen.id <= inserted
  <2>1. \A t \in Sessions : sess[t].seen \in Read
    BY DEF Typed
  <2> QED
    BY <2>1 DEF IdsGivenOut, Read, Item, NoRow
<1>5. IdsGivenOut'
  <2>1. row'.id <= inserted'
    BY <1>1 DEF Typed
  <2>2. \A t \in Sessions : sess'[t].seen.id <= inserted'
    BY <1>1, <1>4, EndNext DEF Typed, Idle, NoRow
  <2>3. \A t \in Sessions : sess'[t].pc = "update" => sess'[t].seen # NoRow
    BY EndNext DEF IdsGivenOut, Idle
  <2> QED
    BY <2>1, <2>2, <2>3 DEF IdsGivenOut
<1>6. LabelStays'
  <2>1. \A t \in Sessions : sess'[t] = Idle \/ sess'[t].seen.id # row'.id
    BY <1>1, <1>4, EndNext DEF Typed
  <2> QED
    BY <2>1 DEF LabelStays, Idle
<1>7. LabelTellsEditor'
  BY <1>1 DEF LabelTellsEditor
<1> QED
  BY <1>3, <1>5, <1>6, <1>7

\* What a committed edit makes of the row.
LEMMA EditedRow ==
    ASSUME IInv, NEW s \in Sessions, NEW price \in Prices, NEW text \in BOOLEAN,
           UpdateCommit(s, price, text)
    PROVE  /\ row # NoRow /\ row' \in Item /\ row'.id = row.id
           /\ row' = row \/ (row'.editor /\ row'.source # "AI_ESTIMATED")
           /\ row.source # "AI_ESTIMATED" => row'.source # "AI_ESTIMATED"
<1> USE DEF IInv
<1>1. row \in Read /\ sess[s].seen \in Read /\ sess[s].seen # NoRow /\ row.id = sess[s].seen.id
  BY DEF Typed, IdsGivenOut, UpdateCommit, Busy, Seen
<1>2. row \in Item /\ row # NoRow
  BY <1>1, NoRowHasIdZero DEF Read
<1>3. sess[s].seen.source # "AI_ESTIMATED" => row.source # "AI_ESTIMATED"
  BY <1>1 DEF LabelStays
<1>4. CASE ~Touched(s, price, text)
  <2>1. row' = row
    BY <1>4 DEF UpdateCommit
  <2> QED
    BY <1>2, <2>1
<1>5. CASE Touched(s, price, text)
  <2> DEFINE newPrice == IF price # sess[s].seen.price THEN price ELSE row.price
             newSource == IF sess[s].seen.source = "AI_ESTIMATED" THEN "OVERRIDDEN_FROM_AI"
                          ELSE row.source
  <2>1. row' = [id |-> row.id, price |-> newPrice, source |-> newSource, editor |-> TRUE]
    BY <1>2, <1>5 DEF UpdateCommit, EditedSource, Seen, Item
  <2>2. newPrice \in Prices /\ newSource \in Sources /\ row.id \in Nat \ {0}
    BY <1>2 DEF Item, Sources
  <2>3. row' \in Item
    BY <2>1, <2>2 DEF Item
  <2>4. newSource # "AI_ESTIMATED"
    BY <1>3
  <2> QED
    BY <1>2, <2>1, <2>3, <2>4
<1> QED
  BY <1>4, <1>5

LEMMA UpdateNext ==
    ASSUME IInv, NEW s \in Sessions, NEW price \in Prices, NEW text \in BOOLEAN,
           UpdateCommit(s, price, text)
    PROVE  IInv'
<1> USE DEF IInv
<1>1. End(s) /\ UNCHANGED inserted
  BY DEF UpdateCommit
<1>2. /\ row # NoRow /\ row' \in Item /\ row'.id = row.id
      /\ row' = row \/ (row'.editor /\ row'.source # "AI_ESTIMATED")
      /\ row.source # "AI_ESTIMATED" => row'.source # "AI_ESTIMATED"
  BY EditedRow
<1>3. Typed'
  BY <1>1, <1>2, EndNext DEF Typed, Read
<1>4. IdsGivenOut'
  BY <1>1, <1>2, EndNext DEF Typed, IdsGivenOut, Idle, NoRow
<1>5. LabelStays'
  BY <1>1, <1>2, EndNext DEF LabelStays, Idle
<1>6. LabelTellsEditor'
  BY <1>2 DEF LabelTellsEditor
<1> QED
  BY <1>3, <1>4, <1>5, <1>6

LEMMA DeleteNext ==
    ASSUME IInv, delete_entry
    PROVE  IInv'
<1> USE DEF IInv
<1>1. row' = NoRow /\ UNCHANGED <<inserted, sess>>
  BY DEF delete_entry
<1>2. Typed'
  BY <1>1 DEF Typed, Read
<1>3. IdsGivenOut'
  BY <1>1 DEF Typed, IdsGivenOut, NoRow
<1>4. LabelStays'
  <2>1. \A s \in Sessions : sess[s].seen # NoRow => sess[s].seen.id # row'.id
    BY <1>1, NoRowHasIdZero DEF Typed, NoRow
  <2> QED
    BY <1>1, <2>1 DEF LabelStays
<1>5. LabelTellsEditor'
  BY <1>1 DEF LabelTellsEditor
<1> QED
  BY <1>2, <1>3, <1>4, <1>5

LEMMA InvNext == IInv /\ [Next]_vars => IInv'
<1> SUFFICES ASSUME IInv, [Next]_vars PROVE IInv'
  OBVIOUS
<1>1. CASE UNCHANGED vars
  BY <1>1 DEF IInv, Typed, IdsGivenOut, LabelStays, LabelTellsEditor, vars
<1>2. ASSUME NEW s \in Sessions, EstimateBegin(s) \/ UpdateBegin(s)
      PROVE  IInv'
  BY <1>2, BeginNext DEF EstimateBegin, UpdateBegin
<1>3. ASSUME NEW s \in Sessions, EstimateFails(s) \/ UpdateFails(s)
      PROVE  IInv'
  BY <1>3, FailsNext DEF EstimateFails, UpdateFails
<1>4. ASSUME NEW s \in Sessions, NEW price \in Prices, EstimateKnown(s, price)
      PROVE  IInv'
  BY <1>4, FailsNext DEF EstimateKnown, Sighted
<1>5. ASSUME NEW s \in Sessions, NEW price \in Prices, EstimateNew(s, price)
      PROVE  IInv'
  BY <1>5, InsertNext DEF EstimateNew, Sources
<1>6. ASSUME NEW price \in Prices, create_manual(price)
      PROVE  IInv'
  <2>1. Insert(price, "MANUAL", TRUE) /\ UNCHANGED sess
    BY <1>6 DEF create_manual
  <2> QED
    BY <2>1, InsertNext DEF Sources
<1>7. ASSUME NEW s \in Sessions, NEW price \in Prices, NEW text \in BOOLEAN,
             UpdateCommit(s, price, text)
      PROVE  IInv'
  BY <1>7, UpdateNext
<1>8. CASE delete_entry
  BY <1>8, DeleteNext
<1> QED
  BY <1>1, <1>2, <1>3, <1>4, <1>5, <1>6, <1>7, <1>8 DEF Next

\* A row says AI_ESTIMATED exactly as long as no administrator has written to it,
\* however runs of level 3 and edits overlap (upsert_from_ai and update in
\* app/services/mrp_catalogue.py).
THEOREM LabelIsTruthful == Spec => []LabelTellsEditor
<1>1. IInv => LabelTellsEditor
  BY DEF IInv
<1> QED
  BY <1>1, InitInv, InvNext, PTL DEF Spec

\* Only an administrator's edit moves the price of a row.
THEOREM PriceIsEdited == Spec => PriceStands
<1>1. IInv /\ [Next]_vars => [PriceMovesByEdit]_vars
  <2> SUFFICES ASSUME IInv, Next PROVE PriceMovesByEdit
    OBVIOUS
  <2>1. ASSUME row' = row \/ row' = NoRow \/ row = NoRow
        PROVE  PriceMovesByEdit
    <3>1. row' = NoRow /\ row # NoRow => row'.id # row.id
      BY NoRowHasIdZero DEF IInv, Typed, NoRow
    <3> QED
      BY <2>1, <3>1 DEF PriceMovesByEdit
  <2>2. ASSUME NEW s \in Sessions, NEW price \in Prices, NEW text \in BOOLEAN,
               UpdateCommit(s, price, text)
        PROVE  PriceMovesByEdit
    BY <2>2, EditedRow DEF PriceMovesByEdit
  <2>3. \/ row' = row \/ row' = NoRow \/ row = NoRow
        \/ \E s \in Sessions, price \in Prices, text \in BOOLEAN : UpdateCommit(s, price, text)
    BY DEF Next, EstimateBegin, UpdateBegin, Begin, EstimateFails, UpdateFails, EstimateKnown,
           Sighted, EstimateNew, create_manual, Insert, delete_entry
  <2> QED
    BY <2>1, <2>2, <2>3
<1> QED
  BY <1>1, InitInv, InvNext, PTL DEF Spec, PriceStands

\* A row has one of the ids there may be, and a transaction the row it has read.
THEOREM CatalogueTypeCorrect ==
    ASSUME MaxRows \in Nat
    PROVE  Spec => []TypeOK
<1> DEFINE Bounded == inserted <= MaxRows
<1>1. Init => Bounded
  BY DEF Init
<1>2. IInv /\ Bounded /\ [Next]_vars => Bounded'
  <2> SUFFICES ASSUME IInv, Bounded, [Next]_vars PROVE inserted' <= MaxRows
    OBVIOUS
  <2>1. ASSUME NEW s \in Sessions, NEW price \in Prices, EstimateNew(s, price)
        PROVE  inserted < MaxRows /\ inserted' = inserted + 1
    BY <2>1 DEF EstimateNew, Insert
  <2>2. ASSUME NEW s \in Sessions, NEW price \in Prices,
               EstimateKnown(s, price) \/ \E text \in BOOLEAN : UpdateCommit(s, price, text)
        PROVE  inserted' = inserted
    BY <2>2 DEF EstimateKnown, UpdateCommit
  <2>3. ASSUME NEW s \in Sessions,
               EstimateBegin(s) \/ EstimateFails(s) \/ UpdateBegin(s) \/ UpdateFails(s)
        PROVE  inserted' = inserted
    BY <2>3 DEF EstimateBegin, EstimateFails, UpdateBegin, UpdateFails, Begin
  <2>4. ASSUME NEW price \in Prices, create_manual(price)
        PROVE  inserted < MaxRows /\ inserted' = inserted + 1
    BY <2>4 DEF create_manual, Insert
  <2>5. inserted' = inserted \/ (inserted < MaxRows /\ inserted' = inserted + 1)
    BY <2>1, <2>2, <2>3, <2>4 DEF Next, delete_entry, vars
  <2> QED
    BY <2>5 DEF IInv, Typed
<1>3. IInv /\ Bounded => TypeOK
  <2> SUFFICES ASSUME IInv, Bounded PROVE TypeOK
    OBVIOUS
  <2>1. inserted \in 0..MaxRows
    BY DEF IInv, Typed
  <2>2. ASSUME NEW r \in Read, r.id <= inserted
        PROVE  r \in Rows \cup {NoRow}
    BY <2>1, <2>2 DEF Read, Item, Rows
  <2>3. row \in Rows \cup {NoRow}
    BY <2>2 DEF IInv, Typed, IdsGivenOut
  <2>4. ASSUME NEW s \in Sessions
        PROVE  /\ sess[s].pc \in {"idle", "estimate", "update"}
               /\ sess[s].seen \in Rows \cup {NoRow}
    BY <2>2 DEF IInv, Typed, IdsGivenOut
  <2> QED
    BY <2>1, <2>3, <2>4 DEF TypeOK
<1> QED
  BY <1>1, <1>2, <1>3, InitInv, InvNext, PTL DEF Spec
===============================================================================
