---------------------------- MODULE QueueCursor ----------------------------
(***************************************************************************)
(* The transactional read of the bus v3 queue (cursor schema 2): `queue`   *)
(* stages a delivery into the agent's durable cursor, `queue commit`       *)
(* advances coverage with the token of that delivery.  Several processes   *)
(* of the same agent (wakes) run both verbs at the same time; any of them  *)
(* may die between two calls, and the reply of a compare-and-swap that     *)
(* landed may be lost.                                                     *)
(*                                                                         *)
(* The cursor document is one value; a compare-and-swap compares it whole, *)
(* as the code compares its exact bytes.  The list `handled` inside the    *)
(* document repeats seen_ids with an outcome per id; it is represented by  *)
(* the history variable ledger, which is never truncated.                  *)
(***************************************************************************)
EXTENDS RecordTrack, CappedList

CONSTANTS
  Wake,         \* processes that read and commit the agent's queue
  Skew,         \* CURSOR_SKEW_SECONDS: windows overlap backwards by this much
  Lookback,     \* DEFAULT_LOOKBACK_SECONDS: the window of a first read
  SeenCap,      \* SEEN_IDS_CAP
  TokenCap,     \* COMMITTED_TOKENS_CAP
  MaxRevision,  \* bound: no delivery is staged at this revision
  MaxCrash,     \* bound on the number of processes that die
  RecheckMayFail, \* whether the read after a lost commit reply can fail too
  None          \* an absent document, delivery, time or token

ASSUME CursorAssumption ==
  /\ Skew \in Nat /\ MaxLag <= Skew
  /\ Lookback \in Nat
  /\ SeenCap \in Nat \ {0} /\ TokenCap \in Nat \ {0}

VARIABLES
  legacy,    \* the schema-1 cursor that seeds the first schema-2 cursor
  cursor,    \* the durable schema-2 cursor document
  pc,        \* per wake: where it is
  snap,      \* per wake: the document it loaded, the CAS precondition
  now,       \* per wake: its clock reading, the end of its window
  plan,      \* per wake: the delivery it wants to stage
  held,      \* per wake: the token of the delivery it was shown
  reply,     \* per wake: the last answer of `queue commit`
  ledger,    \* history: every id whose handling was committed, in order
  history,   \* history: every token that advanced the cursor, in order
  floor,     \* history: where the coverage claim of the cursor begins
  crashes    \* how many processes have died

local == <<pc, snap, now, plan, held, reply>>
hist == <<ledger, history, floor>>
vars == <<track, legacy, cursor, local, hist, crashes>>

-----------------------------------------------------------------------------
(* Cursor documents.                                                       *)

Time == Int \cup {None}

(* delivery_token: a digest of everything that names a delivery; distinct  *)
(* material gives distinct tokens.                                         *)
delivery_token(base, start, end, events) == <<base, start, end, events>>

Token == Nat \X Int \X Int \X Seq(Event)

Delivery ==
  [token: Token, base_revision: Nat, window_start: Int, window_end: Int,
   events: Seq(Event)]

Cursor ==
  [revision: Nat, last_read: Time, seen_ids: Seq(Event),
   committed_tokens: Seq(Token), pending: Delivery \cup {None}]

Legacy == [last_read: Int, seen_ids: Seq(Event)]

ASSUME NoneAssumption ==
  /\ None \notin Int
  /\ None \notin Token
  /\ None \notin Delivery
  /\ None \notin Cursor
  /\ None \notin Legacy
  /\ None \notin {"committed", "idempotent", "stale", "unclassified"}
  /\ \A S \in SUBSET Event : S # None

(* initial_v2_cursor: a first document, seeded once from the schema-1      *)
(* cursor of the agent when there is one.                                  *)
initial_v2_cursor ==
  [revision |-> 0,
   last_read |-> IF legacy = None THEN None ELSE legacy.last_read,
   seen_ids |-> IF legacy = None THEN << >>
                ELSE LastN(legacy.seen_ids, SeenCap),
   committed_tokens |-> << >>,
   pending |-> None]

(* The document a wake works on: what it loaded, or the initial one.       *)
Base(raw) == IF raw = None THEN initial_v2_cursor ELSE raw

(* The document the rest of the system sees.                               *)
Current == Base(cursor)

IsPending == cursor # None /\ cursor.pending # None

(* Mutant: windows do not overlap.                                         *)
WindowAtCursor(doc, end) ==
  IF doc.last_read = None THEN end - Lookback ELSE doc.last_read

(* The start of the window that reads from a document.                     *)
WindowStart(doc, end) ==
  IF doc.last_read = None THEN end - Lookback ELSE doc.last_read - Skew

(* Mutant: the delivery names the revision it will lead to.                *)
StagedForNext(doc, end, events) ==
  LET start == WindowStart(doc, end) IN
  [token |-> delivery_token(doc.revision, start, end, events),
   base_revision |-> doc.revision + 1, window_start |-> start,
   window_end |-> end, events |-> events]

(* stage_v2_delivery: what is put into the document.                       *)
StagedDelivery(doc, end, events) ==
  LET start == WindowStart(doc, end) IN
  [token |-> delivery_token(doc.revision, start, end, events),
   base_revision |-> doc.revision, window_start |-> start,
   window_end |-> end, events |-> events]

(* Mutants of the commit: the revision counts down, coverage stops at the  *)
(* start of the window, and only the last batch is remembered.             *)
CommitCountsDown(doc) ==
  [doc EXCEPT !.revision = @ - 1, !.last_read = doc.pending.window_end,
              !.pending = None]

CommitToWindowStart(doc) ==
  [doc EXCEPT !.revision = @ + 1, !.last_read = doc.pending.window_start,
              !.seen_ids = LastN(@ \o doc.pending.events, SeenCap),
              !.committed_tokens = LastN(Append(@, doc.pending.token), TokenCap),
              !.pending = None]

CommitForgets(doc) ==
  [doc EXCEPT !.revision = @ + 1, !.last_read = doc.pending.window_end,
              !.seen_ids = LastN(doc.pending.events, SeenCap),
              !.committed_tokens = LastN(Append(@, doc.pending.token), TokenCap),
              !.pending = None]

(* commit_v2_delivery: the document that closes its pending delivery.      *)
CommittedCursor(doc) ==
  LET p == doc.pending IN
  [revision |-> doc.revision + 1,
   last_read |-> p.window_end,
   seen_ids |-> LastN(doc.seen_ids \o p.events, SeenCap),
   committed_tokens |-> LastN(Append(doc.committed_tokens, p.token), TokenCap),
   pending |-> None]

-----------------------------------------------------------------------------
Init ==
  /\ TrackInit
  /\ \/ legacy = None
     \/ \E S \in SUBSET visible : \E s \in NewestLast(S) :
          legacy = [last_read |-> clock, seen_ids |-> s]
  /\ cursor = None
  /\ pc = [w \in Wake |-> "idle"]
  /\ snap = [w \in Wake |-> None]
  /\ now = [w \in Wake |-> None]
  /\ plan = [w \in Wake |-> None]
  /\ held = [w \in Wake |-> None]
  /\ reply = [w \in Wake |-> None]
  /\ ledger = IF legacy = None THEN << >> ELSE legacy.seen_ids
  /\ history = << >>
  /\ floor = IF legacy = None THEN None ELSE legacy.last_read - Skew
  /\ crashes = 0

(* The wake w goes to `to` having been shown the token t.                  *)
Shown(w, t) ==
  /\ pc' = [pc EXCEPT ![w] = "held"]
  /\ held' = [held EXCEPT ![w] = t]
  /\ snap' = [snap EXCEPT ![w] = None]
  /\ now' = [now EXCEPT ![w] = None]
  /\ plan' = [plan EXCEPT ![w] = None]
  /\ reply' = [reply EXCEPT ![w] = None]

(* The process of the wake w is over; it keeps nothing.                    *)
Gone(w) ==
  /\ pc' = [pc EXCEPT ![w] = "idle"]
  /\ held' = [held EXCEPT ![w] = None]
  /\ snap' = [snap EXCEPT ![w] = None]
  /\ now' = [now EXCEPT ![w] = None]
  /\ plan' = [plan EXCEPT ![w] = None]
  /\ reply' = [reply EXCEPT ![w] = None]

(* `queue commit` answers r to the wake w, which may call it again.        *)
Answered(w, r) ==
  /\ pc' = [pc EXCEPT ![w] = "answered"]
  /\ reply' = [reply EXCEPT ![w] = r]
  /\ snap' = [snap EXCEPT ![w] = None]
  /\ UNCHANGED <<now, plan, held>>

(* Mutant: a pending delivery is withheld.                                 *)
ReplayWithheld(w) ==
  /\ pc[w] = "idle"
  /\ IsPending
  /\ UNCHANGED vars

(* queue: load the cursor.  A pending delivery is shown again; nothing is  *)
(* staged.                                                                 *)
Replay(w) ==
  /\ pc[w] = "idle"
  /\ IsPending
  /\ Shown(w, cursor.pending.token)
  /\ UNCHANGED <<track, legacy, cursor, hist, crashes>>

(* queue: load a cursor without a pending delivery, or none at all.        *)
LoadCursor(w) ==
  /\ pc[w] = "idle"
  /\ ~IsPending
  /\ Current.revision < MaxRevision
  /\ pc' = [pc EXCEPT ![w] = "loaded"]
  /\ snap' = [snap EXCEPT ![w] = cursor]
  /\ UNCHANGED <<track, legacy, cursor, now, plan, held, reply, hist, crashes>>

(* queue: now = _now(), which ends the window.                             *)
TakeNow(w) ==
  /\ pc[w] = "loaded"
  /\ pc' = [pc EXCEPT ![w] = "timed"]
  /\ now' = [now EXCEPT ![w] = clock]
  /\ UNCHANGED <<track, legacy, cursor, snap, plan, held, reply, hist, crashes>>

(* Mutant: nothing is suppressed.                                          *)
WholeWindow(w) ==
  Window(WindowStart(Base(snap[w]), now[w]), now[w])

(* queue: the events of the window that the loaded cursor does not know.   *)
Fresh(w) ==
  LET doc == Base(snap[w]) IN
  Window(WindowStart(doc, now[w]), now[w]) \ Elements(doc.seen_ids)

(* queue: read the window and decide what to stage, an empty batch too.    *)
ReadWindow(w) ==
  /\ pc[w] = "timed"
  /\ \E events \in NewestLast(Fresh(w)) :
       plan' = [plan EXCEPT ![w] =
                  StagedDelivery(Base(snap[w]), now[w], events)]
  /\ pc' = [pc EXCEPT ![w] = "staging"]
  /\ UNCHANGED <<track, legacy, cursor, snap, now, held, reply, hist, crashes>>

(* queue: the window read failed (UNKNOWN); coverage is left alone.        *)
WindowUnknown(w) ==
  /\ pc[w] = "timed"
  /\ Gone(w)
  /\ UNCHANGED <<track, legacy, cursor, hist, crashes>>

(* Mutant: the last writer wins.                                           *)
AlwaysMatches(w) == TRUE

(* _cas: the document is replaced iff it still is the one that was loaded. *)
CasMatches(w) == cursor = snap[w]

(* stage_v2_delivery: the swap lands; the wake learns it or it does not.   *)
StageWins(w) ==
  /\ pc[w] = "staging"
  /\ CasMatches(w)
  /\ cursor' = [Base(snap[w]) EXCEPT !.pending = plan[w]]
  /\ \/ Shown(w, plan[w].token)
     \/ /\ pc' = [pc EXCEPT ![w] = "stage-lost"]
        /\ UNCHANGED <<snap, now, plan, held, reply>>
  /\ UNCHANGED <<track, legacy, hist, crashes>>

(* stage_v2_delivery: another wake was first.                              *)
StageLoses(w) ==
  /\ pc[w] = "staging"
  /\ ~CasMatches(w)
  /\ pc' = [pc EXCEPT ![w] = "stage-lost"]
  /\ UNCHANGED <<track, legacy, cursor, snap, now, plan, held, reply, hist, crashes>>

(* queue: after a lost stage only the delivery that is staged is shown; if *)
(* there is none, or the cursor cannot be read, the command fails.         *)
ShowWinner(w) ==
  /\ pc[w] = "stage-lost"
  /\ \/ IsPending /\ Shown(w, cursor.pending.token)
     \/ Gone(w)
  /\ UNCHANGED <<track, legacy, cursor, hist, crashes>>

(* The wake can call `queue commit` with the token it was shown.           *)
CanCommit(w) == pc[w] \in {"held", "answered"} /\ cursor # None

(* commit_v2_delivery: the token has advanced the cursor already.          *)
CommitIdempotent(w) ==
  /\ CanCommit(w)
  /\ held[w] \in Elements(cursor.committed_tokens)
  /\ Answered(w, "idempotent")
  /\ UNCHANGED <<track, legacy, cursor, hist, crashes>>

(* commit_v2_delivery: the token is not the one of the pending delivery.   *)
CommitStale(w) ==
  /\ CanCommit(w)
  /\ held[w] \notin Elements(cursor.committed_tokens)
  /\ ~(IsPending /\ cursor.pending.token = held[w])
  /\ Answered(w, "stale")
  /\ UNCHANGED <<track, legacy, cursor, hist, crashes>>

(* commit_v2_delivery: the token matches; classified is the set of ids the *)
(* caller gave an outcome.                                                 *)
CommitLoad(w, classified) ==
  /\ CanCommit(w)
  /\ held[w] \notin Elements(cursor.committed_tokens)
  /\ IsPending /\ cursor.pending.token = held[w]
  /\ IF classified = Elements(cursor.pending.events)
     THEN /\ pc' = [pc EXCEPT ![w] = "committing"]
          /\ snap' = [snap EXCEPT ![w] = cursor]
          /\ reply' = [reply EXCEPT ![w] = None]
          /\ UNCHANGED <<now, plan, held>>
     ELSE Answered(w, "unclassified")
  /\ UNCHANGED <<track, legacy, cursor, hist, crashes>>

(* commit_v2_delivery: the swap lands; the wake learns it or it does not.  *)
CommitWins(w) ==
  /\ pc[w] = "committing"
  /\ CasMatches(w)
  /\ cursor' = CommittedCursor(snap[w])
  /\ ledger' = ledger \o snap[w].pending.events
  /\ history' = Append(history, held[w])
  /\ floor' = IF snap[w].last_read = None
              THEN snap[w].pending.window_start ELSE floor
  /\ \/ Answered(w, "committed")
     \/ /\ pc' = [pc EXCEPT ![w] = "commit-lost"]
        /\ UNCHANGED <<snap, now, plan, held, reply>>
  /\ UNCHANGED <<track, legacy, crashes>>

(* commit_v2_delivery: another wake was first.                             *)
CommitLoses(w) ==
  /\ pc[w] = "committing"
  /\ ~CasMatches(w)
  /\ pc' = [pc EXCEPT ![w] = "commit-lost"]
  /\ UNCHANGED <<track, legacy, cursor, snap, now, plan, held, reply, hist, crashes>>

(* Mutant: a lost reply is taken for a lost race.                          *)
LostMeansStale(w) ==
  /\ pc[w] = "commit-lost"
  /\ Answered(w, "stale")
  /\ UNCHANGED <<track, legacy, cursor, hist, crashes>>

(* commit_v2_delivery: a lost reply and a lost race look the same; the     *)
(* tokens in the document tell them apart.                                 *)
CommitRecheck(w) ==
  /\ pc[w] = "commit-lost"
  /\ Answered(w, IF held[w] \in Elements(Current.committed_tokens)
                 THEN "idempotent" ELSE "stale")
  /\ UNCHANGED <<track, legacy, cursor, hist, crashes>>

(* commit_v2_delivery: the read after a lost reply fails as well; that is  *)
(* answered like a lost race.                                              *)
CommitRecheckFails(w) ==
  /\ RecheckMayFail
  /\ pc[w] = "commit-lost"
  /\ Answered(w, "stale")
  /\ UNCHANGED <<track, legacy, cursor, hist, crashes>>

(* The agent is done with an answer and will wake again.                   *)
WakeEnds(w) ==
  /\ pc[w] = "answered"
  /\ Gone(w)
  /\ UNCHANGED <<track, legacy, cursor, hist, crashes>>

(* A process dies and forgets its token.                                   *)
Crash(w) ==
  /\ pc[w] # "idle"
  /\ crashes < MaxCrash
  /\ crashes' = crashes + 1
  /\ Gone(w)
  /\ UNCHANGED <<track, legacy, cursor, hist>>

(* queue --peek, and a read whose cursor is unreadable: nothing changes.   *)
Peek(w) ==
  /\ pc[w] = "idle"
  /\ UNCHANGED vars

WakeStep(w) ==
  \/ Replay(w) \/ LoadCursor(w) \/ TakeNow(w) \/ ReadWindow(w)
  \/ StageWins(w) \/ StageLoses(w) \/ ShowWinner(w)
  \/ CommitIdempotent(w) \/ CommitStale(w)
  \/ \E classified \in SUBSET Event : CommitLoad(w, classified)
  \/ CommitWins(w) \/ CommitLoses(w) \/ CommitRecheck(w) \/ WakeEnds(w)

TrackStep == TrackNext /\ UNCHANGED <<legacy, cursor, local, hist, crashes>>

Next ==
  \/ TrackStep
  \/ \E w \in Wake :
       \/ WakeStep(w) \/ WindowUnknown(w) \/ CommitRecheckFails(w)
       \/ Crash(w) \/ Peek(w)

Spec == Init /\ [][Next]_vars

(* The commit that names an outcome for every event of the delivery.       *)
CommitAll(w) == IsPending /\ CommitLoad(w, Elements(cursor.pending.events))

(* An agent's duty loop keeps waking and every call it makes returns; an   *)
(* agent that is shown a delivery over and over names all the outcomes     *)
(* eventually, as the delivery envelope tells it to.                       *)
FairSpec ==
  /\ Spec
  /\ \A w \in Wake : WF_vars(WakeStep(w)) /\ SF_vars(CommitAll(w))

-----------------------------------------------------------------------------
(* Properties.                                                             *)

LocalTypeOK ==
  /\ pc \in [Wake -> {"idle", "loaded", "timed", "staging", "stage-lost",
                      "held", "committing", "commit-lost", "answered"}]
  /\ snap \in [Wake -> Cursor \cup {None}]
  /\ now \in [Wake -> Time]
  /\ plan \in [Wake -> Delivery \cup {None}]
  /\ held \in [Wake -> Token \cup {None}]
  /\ reply \in [Wake -> {None, "committed", "idempotent", "stale",
                         "unclassified"}]

TypeOK ==
  /\ TrackTypeOK
  /\ LocalTypeOK
  /\ legacy \in Legacy \cup {None}
  /\ cursor \in Cursor \cup {None}
  /\ ledger \in Seq(Event)
  /\ history \in Seq(Token)
  /\ floor \in Time
  /\ crashes \in Nat

(* Whatever the wakes do, the document in the store passes the checks of   *)
(* _parse_v2_cursor: a delivery that is pending belongs to the revision    *)
(* of the document.  A document that fails them is INVALID and stops every *)
(* later read of the agent for good.                                       *)
CursorParses ==
  IsPending => cursor.pending.base_revision = cursor.revision

(* Coverage advances once per token: the k-th commit closed the delivery   *)
(* staged at revision k-1, so no token ever advances the cursor twice, a   *)
(* retried commit and a commit raced by another wake included.             *)
CommittedOnce ==
  /\ \A k \in 1..Len(history) : history[k][1] = k - 1
  /\ Current.revision = Len(history)

(* The window rule: an event dated inside the coverage claim of the cursor *)
(* has been handled, or the next window still begins early enough to find  *)
(* it, however late the record became visible.                             *)
NoEventLost ==
  Current.last_read # None =>
    \A e \in sent :
      at[e] >= floor =>
        e \in Elements(ledger) \/ at[e] >= Current.last_read - Skew

(* An event is put into a second delivery only after its id fell out of    *)
(* the bounded seen_ids.                                                   *)
RedeliveredOnlyIfForgotten ==
  IsPending =>
    /\ Elements(cursor.pending.events) \cap Elements(cursor.seen_ids) = {}
    /\ Elements(cursor.seen_ids) \subseteq Elements(ledger)

(* No event is handled twice as long as seen_ids holds at least the events *)
(* dated within the overlap of consecutive windows.                        *)
HandledOnce ==
  \A i, j \in 1..Len(ledger) : i # j => ledger[i] # ledger[j]

(* The place of a token among the commits, 0 if there is none.             *)
CommitIndex(t) ==
  IF t \in Elements(history)
  THEN CHOOSE k \in 1..Len(history) : history[k] = t ELSE 0

(* The answer of `queue commit` is the truth: a commit that is said to     *)
(* have landed has.  A token that a wake was shown and that is rejected as *)
(* stale is not an unhandled delivery turned away: it has advanced the     *)
(* cursor, and TokenCap later commits have pushed it out of the document.  *)
AnswersAreTrue ==
  \A w \in Wake :
    /\ reply[w] \in {"committed", "idempotent"} => CommitIndex(held[w]) > 0
    /\ reply[w] = "stale" =>
         /\ CommitIndex(held[w]) > 0
         /\ Len(history) - CommitIndex(held[w]) >= TokenCap

(* Coverage only moves forward: no wake, however old the document it read, *)
(* ever takes the cursor back or skips a revision.                         *)
CoverageAdvances ==
  [][/\ Current'.revision \in {Current.revision, Current.revision + 1}
     /\ Current.last_read # None =>
          Current'.last_read # None /\ Current'.last_read >= Current.last_read
    ]_vars

(* The cursor implements the ledger of DeliveryLedger.                     *)
Ledger == INSTANCE DeliveryLedger WITH
  NoBatch <- None,
  revision <- Current.revision,
  batch <- IF IsPending THEN Elements(cursor.pending.events) ELSE None,
  handled <- Elements(ledger),
  remembered <- Elements(Current.seen_ids)

(* Every delivery that is staged is committed at last, whichever wakes die *)
(* and whichever replies get lost.                                         *)
StagedIsCommitted ==
  \A r \in 0..MaxRevision :
    IsPending /\ cursor.revision = r ~> cursor # None /\ cursor.revision > r
-----------------------------------------------------------------------------
(* The inductive invariant behind NoEventLost, CommittedOnce and the       *)
(* refinement.  It says of a document what makes closing its delivery      *)
(* safe, and of a wake that its plan is right for the document it loaded,  *)
(* which is all a compare-and-swap needs.                                  *)

(* The window of the delivery p continues the coverage of the document     *)
(* doc, and every event older than the next overlap is in p or is known.   *)
Continues(p, doc) ==
  /\ p.window_start = WindowStart(doc, p.window_end)
  /\ p.window_end <= clock
  /\ doc.last_read # None => doc.last_read <= p.window_end
  /\ \A e \in sent :
       p.window_start <= at[e] /\ at[e] < p.window_end - Skew =>
         e \in Elements(p.events) \cup Elements(doc.seen_ids)

(* The delivery p may be staged into the document doc.                     *)
FitsRevision(p, doc) ==
  /\ p.base_revision = doc.revision
  /\ p.token[1] = doc.revision
  /\ Elements(p.events) \cap Elements(doc.seen_ids) = {}

WakeInv(w) ==
  /\ pc[w] \in {"loaded", "timed", "staging"} => Base(snap[w]).pending = None
  /\ pc[w] = "timed" => now[w] # None
  /\ pc[w] = "staging" =>
       plan[w] # None /\ FitsRevision(plan[w], Base(snap[w]))
  /\ pc[w] = "committing" =>
       /\ snap[w] # None
       /\ snap[w].pending # None
       /\ held[w] = snap[w].pending.token
  /\ pc[w] \in {"held", "answered", "committing", "commit-lost"} =>
       held[w] # None

RevisionInv ==
  /\ IsPending => FitsRevision(cursor.pending, cursor)
  /\ CommittedOnce
  /\ Elements(Current.seen_ids) \subseteq Elements(ledger)
  /\ \A w \in Wake : WakeInv(w)

WakeClockInv(w) ==
  LET doc == Base(snap[w]) IN
  /\ pc[w] = "loaded" => (doc.last_read # None => doc.last_read <= clock)
  /\ pc[w] = "timed" =>
       /\ now[w] <= clock
       /\ doc.last_read # None => doc.last_read <= now[w]
  /\ pc[w] = "staging" => Continues(plan[w], doc)

ClockInv ==
  /\ \A e \in sent \ visible : clock <= at[e] + MaxLag
  /\ Current.last_read # None => floor # None /\ Current.last_read <= clock
  /\ IsPending => Continues(cursor.pending, cursor)
  /\ NoEventLost
  /\ \A w \in Wake : WakeClockInv(w)

-----------------------------------------------------------------------------
(* The inductive invariant behind AnswersAreTrue.                          *)

(* The document remembers the last TokenCap tokens that advanced it.       *)
TokensInv == Current.committed_tokens = LastN(history, TokenCap)

(* The token t has advanced the cursor, TokenCap commits ago or earlier.   *)
PushedOut(t) ==
  \E k \in 1..Len(history) : history[k] = t /\ Len(history) - k >= TokenCap

(* A token that a wake was shown stays the pending one until it has        *)
(* advanced the cursor; a commit loses its race only to a commit of the    *)
(* same token.                                                             *)
AnswerInv(w) ==
  /\ held[w] # None =>
       \/ held[w] \in Elements(history)
       \/ IsPending /\ cursor.pending.token = held[w]
  /\ pc[w] = "committing" => snap[w] = cursor \/ held[w] \in Elements(history)
  /\ pc[w] = "commit-lost" => held[w] \in Elements(history)
  /\ reply[w] \in {"committed", "idempotent"} => held[w] \in Elements(history)
  /\ reply[w] = "stale" => PushedOut(held[w])

AnswersInv == TokensInv /\ \A w \in Wake : AnswerInv(w)

-----------------------------------------------------------------------------
(* The inductive invariant behind HandledOnce.                             *)

(* The write rate: events whose dates are all less than Burst apart are at *)
(* most BurstCap.                                                          *)
RateInv ==
  \A S \in SUBSET sent :
    (\A e, f \in S : at[e] - at[f] < Burst) => Cardinality(S) <= BurstCap

(* The events of a delivery are distinct, in the order of their dates, and *)
(* dated within its window.                                                *)
BatchInv(p) ==
  /\ Elements(p.events) \subseteq sent
  /\ \A i, j \in 1..Len(p.events) :
       i < j => p.events[i] # p.events[j] /\ at[p.events[i]] <= at[p.events[j]]
  /\ \A i \in 1..Len(p.events) :
       p.window_start <= at[p.events[i]] /\ at[p.events[i]] <= p.window_end

(* Handled events are dated within the coverage, and an event handled      *)
(* after another one is older by at most the overlap.                      *)
LedgerInv ==
  /\ Current.seen_ids = LastN(ledger, SeenCap)
  /\ Elements(ledger) \subseteq sent
  /\ \A i \in 1..Len(ledger) :
       Current.last_read # None /\ at[ledger[i]] <= Current.last_read
  /\ \A i, j \in 1..Len(ledger) :
       i < j => ledger[i] # ledger[j] /\ at[ledger[i]] - Skew <= at[ledger[j]]

MemoryInv ==
  /\ RateInv
  /\ LedgerInv
  /\ IsPending => BatchInv(cursor.pending)
  /\ \A w \in Wake : pc[w] = "staging" => BatchInv(plan[w])
=============================================================================
