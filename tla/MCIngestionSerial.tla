-------------------------- MODULE MCIngestionSerial --------------------------
(* One session: transactions on the case do not overlap. *)
EXTENDS CaseIngestion

CONSTANTS pan, photos

TwoDocs == {pan, photos}
HalfOrFull == {{pan}, {pan, photos}}
=============================================================================
