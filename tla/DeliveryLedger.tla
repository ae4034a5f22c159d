--------------------------- MODULE DeliveryLedger ---------------------------
(***************************************************************************)
(* What the transactional queue of bus v3 promises one agent, whichever    *)
(* and however many of its processes call it: at most one batch is out at  *)
(* any time, a batch that is out is neither changed nor withdrawn, it is   *)
(* closed at most once and then all of it is handled, and no event whose   *)
(* handling is still remembered is put into a batch.                       *)
(***************************************************************************)
EXTENDS Naturals

CONSTANTS Event, NoBatch

VARIABLES
  revision,    \* how many batches have been closed
  batch,       \* the events that are out, or NoBatch
  handled,     \* every event that some closed batch held
  remembered   \* the handled events the ledger still knows of

ledgerVars == <<revision, batch, handled, remembered>>

LedgerInit ==
  /\ revision = 0
  /\ batch = NoBatch
  /\ handled \in SUBSET Event
  /\ remembered \subseteq handled

Open ==
  /\ batch = NoBatch
  /\ batch' # NoBatch
  /\ batch' \subseteq Event \ remembered
  /\ UNCHANGED <<revision, handled, remembered>>

Close ==
  /\ batch # NoBatch
  /\ batch' = NoBatch
  /\ revision' = revision + 1
  /\ handled' = handled \cup batch
  /\ remembered' \subseteq remembered \cup batch

LedgerNext == Open \/ Close

LedgerSpec == LedgerInit /\ [][LedgerNext]_ledgerVars
=============================================================================
