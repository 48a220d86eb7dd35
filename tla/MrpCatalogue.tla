----------------------------- MODULE MrpCatalogue -----------------------------
(***************************************************************************)
(* One item of the price catalogue: runs of level 3 record what the AI     *)
(* estimated, administrators price, edit and delete                        *)
(* (app/services/mrp_catalogue.py, app/api/routers/mrp_catalogue.py and    *)
(* the upsert in app/verification/levels/level_3_vision.py).               *)
(*                                                                         *)
(* A session reads the row, and later writes the columns it has changed.   *)
(* A row that has gone by then, or come by then under its unique key,      *)
(* makes the write fail, and the transaction with it.                      *)
(***************************************************************************)
EXTENDS Naturals

CONSTANTS Sessions,     \* database sessions
          Prices,       \* what the item may be said to cost
          MaxRows       \* bound: rows ever inserted for the item

VARIABLES row,          \* the item's row, NoRow without one
          inserted,     \* rows inserted so far; a row's number is its id
          sess          \* the transaction each session is in

vars == <<row, inserted, sess>>

Sources == {"AI_ESTIMATED", "MANUAL", "OVERRIDDEN_FROM_AI"}
NoRow == [id |-> 0, price |-> 0, source |-> "none", editor |-> FALSE]
Rows == [id : 1..MaxRows, price : Prices, source : Sources, editor : BOOLEAN]

Idle == [pc |-> "idle", seen |-> NoRow]
Begin(s, pc) ==
    /\ sess[s].pc = "idle"
    /\ sess' = [sess EXCEPT ![s] = [pc |-> pc, seen |-> row]]
    /\ UNCHANGED <<row, inserted>>
End(s) == sess' = [sess EXCEPT ![s] = Idle]
Busy(s, pc) == sess[s].pc = pc
Seen(s) == sess[s].seen

Init ==
    /\ row = NoRow /\ inserted = 0
    /\ sess = [s \in Sessions |-> Idle]

Insert(price, source, editor) ==
    /\ row = NoRow /\ inserted < MaxRows
    /\ inserted' = inserted + 1
    /\ row' = [id |-> inserted + 1, price |-> price, source |-> source, editor |-> editor]

(***************************************************************************)
(* Level 3: upsert_from_ai                                                 *)
(***************************************************************************)
EstimateBegin(s) == Begin(s, "estimate")

\* Seeded fault: a newer estimate replaces the price.
Reestimated(seen, price) == [row EXCEPT !.price = price]
Sighted(seen, price) == row

\* The item is known: its count goes up, its price is kept.
EstimateKnown(s, price) ==
    /\ Busy(s, "estimate") /\ Seen(s) # NoRow /\ row.id = Seen(s).id
    /\ row' = Sighted(Seen(s), price)
    /\ End(s) /\ UNCHANGED inserted

EstimateNew(s, price) ==
    /\ Busy(s, "estimate") /\ Seen(s) = NoRow
    /\ Insert(price, "AI_ESTIMATED", FALSE)
    /\ End(s)

\* The row was inserted, or deleted, in between: the run fails.
EstimateFails(s) ==
    /\ Busy(s, "estimate") /\ row.id # Seen(s).id
    /\ End(s) /\ UNCHANGED <<row, inserted>>

(***************************************************************************)
(* The administrators                                                      *)
(***************************************************************************)
\* create_manual does not look first; a taken key is an error.
create_manual(price) == Insert(price, "MANUAL", TRUE) /\ UNCHANGED sess

UpdateBegin(s) == row # NoRow /\ Begin(s, "update")

\* Seeded fault: the source is kept.
KeptSource(source) == source
EditedSource(source) == IF source = "AI_ESTIMATED" THEN "OVERRIDDEN_FROM_AI" ELSE source

\* A price equal to the one read is no change; another field may be.
Touched(s, price, text) == price # Seen(s).price \/ text
UpdateCommit(s, price, text) ==
    /\ Busy(s, "update") /\ row.id = Seen(s).id
    /\ row' = IF ~Touched(s, price, text) THEN row
              ELSE [row EXCEPT !.price = IF price # Seen(s).price THEN price ELSE @,
                               !.source = IF EditedSource(Seen(s).source) # Seen(s).source
                                          THEN EditedSource(Seen(s).source) ELSE @,
                               !.editor = TRUE]
    /\ End(s) /\ UNCHANGED inserted
UpdateFails(s) ==
    /\ Busy(s, "update") /\ row.id # Seen(s).id
    /\ End(s) /\ UNCHANGED <<row, inserted>>

delete_entry == row # NoRow /\ row' = NoRow /\ UNCHANGED <<inserted, sess>>

Next ==
    \/ \E s \in Sessions :
          \/ EstimateBegin(s) \/ EstimateFails(s) \/ UpdateBegin(s) \/ UpdateFails(s)
          \/ \E price \in Prices :
                \/ EstimateKnown(s, price) \/ EstimateNew(s, price)
                \/ \E text \in BOOLEAN : UpdateCommit(s, price, text)
    \/ \E price \in Prices : create_manual(price)
    \/ delete_entry

Spec == Init /\ [][Next]_vars

-----------------------------------------------------------------------------
TypeOK ==
    /\ row \in Rows \cup {NoRow} /\ inserted \in 0..MaxRows
    /\ \A s \in Sessions : /\ sess[s].pc \in {"idle", "estimate", "update"}
                           /\ sess[s].seen \in Rows \cup {NoRow}

\* A row says AI_ESTIMATED exactly as long as no administrator has written to it, and
\* the price it has is then the first estimate: of concurrent runs and edits, in any
\* order, none leaves an edited row with the AI's label or the reverse.
LabelTellsEditor == row # NoRow => (row.source = "AI_ESTIMATED" <=> ~row.editor)

\* While a row exists its price changes only by an administrator's edit: a run of level
\* 3, which may have read it long before, never moves it.
PriceMovesByEdit ==
    row # NoRow /\ row'.id = row.id /\ row'.price # row.price
        => row'.editor /\ row'.source # "AI_ESTIMATED"
PriceStands == [][PriceMovesByEdit]_vars
===============================================================================
