------------------------- MODULE QueueCursorProofs -------------------------
(***************************************************************************)
(* Proofs about QueueCursor, for any number of wakes, events and           *)
(* revisions and any caps: the document is well typed and always parses,   *)
(* coverage advances once per token, no event is lost, the cursor          *)
(* implements DeliveryLedger, commits are answered truthfully and, within  *)
(* a bound on the write rate, no event is handled twice.                   *)
(***************************************************************************)
EXTENDS QueueCursor, TrackLemmas

-----------------------------------------------------------------------------
(* Documents have their types.                                             *)

(* The first document of an agent is well typed and nothing is pending.    *)
LEMMA InitialCursorType ==
  ASSUME legacy \in Legacy \cup {None}
  PROVE  initial_v2_cursor \in Cursor /\ initial_v2_cursor.pending = None
<1>1. CASE legacy = None
  BY <1>1 DEF initial_v2_cursor, Cursor, Time
<1>2. CASE legacy \in Legacy
  <2>1. legacy # None
    BY <1>2, NoneAssumption
  <2>2. legacy.last_read \in Int /\ legacy.seen_ids \in Seq(Event)
    BY <1>2 DEF Legacy
  <2>3. LastN(legacy.seen_ids, SeenCap) \in Seq(Event)
    BY <2>2, LastNForgets, CursorAssumption
  <2> QED BY <2>1, <2>2, <2>3 DEF initial_v2_cursor, Cursor, Time
<1> QED BY <1>1, <1>2

(* The document a wake works on is well typed.                             *)
LEMMA BaseType ==
  ASSUME legacy \in Legacy \cup {None}, NEW raw \in Cursor \cup {None}
  PROVE  Base(raw) \in Cursor
BY InitialCursorType DEF Base

(* What a wake stages is a delivery that fits the document it loaded.      *)
LEMMA StagedDeliveryFits ==
  ASSUME NEW doc \in Cursor, NEW end \in Int, NEW events \in Seq(Event),
         Elements(events) \cap Elements(doc.seen_ids) = {}
  PROVE  /\ StagedDelivery(doc, end, events) \in Delivery
         /\ FitsRevision(StagedDelivery(doc, end, events), doc)
<1> DEFINE start == WindowStart(doc, end)
<1>1. doc.revision \in Nat /\ doc.last_read \in Int \cup {None}
  BY DEF Cursor, Time
<1>2. start \in Int
  BY <1>1, CursorAssumption, NoneAssumption DEF WindowStart
<1> HIDE DEF start
<1>3. StagedDelivery(doc, end, events) =
        [token |-> <<doc.revision, start, end, events>>,
         base_revision |-> doc.revision, window_start |-> start,
         window_end |-> end, events |-> events]
  BY DEF StagedDelivery, delivery_token, start
<1>4. <<doc.revision, start, end, events>> \in Token
  BY <1>1, <1>2 DEF Token
<1>5. StagedDelivery(doc, end, events) \in Delivery
  BY <1>1, <1>2, <1>3, <1>4 DEF Delivery
<1>6. FitsRevision(StagedDelivery(doc, end, events), doc)
  BY <1>3 DEF FitsRevision
<1> QED BY <1>5, <1>6

(* Closing a pending delivery makes a document again.                      *)
LEMMA CommittedCursorType ==
  ASSUME NEW doc \in Cursor, doc.pending \in Delivery
  PROVE  /\ CommittedCursor(doc) \in Cursor
         /\ CommittedCursor(doc).pending = None
         /\ CommittedCursor(doc).revision = doc.revision + 1
         /\ CommittedCursor(doc).last_read = doc.pending.window_end
         /\ Elements(CommittedCursor(doc).seen_ids)
              \subseteq Elements(doc.seen_ids) \cup Elements(doc.pending.events)
<1>1. /\ doc.revision \in Nat
      /\ doc.seen_ids \in Seq(Event)
      /\ doc.committed_tokens \in Seq(Token)
  BY DEF Cursor
<1>2. /\ doc.pending.token \in Token
      /\ doc.pending.window_end \in Int
      /\ doc.pending.events \in Seq(Event)
  BY DEF Delivery
<1> DEFINE seen == LastN(doc.seen_ids \o doc.pending.events, SeenCap)
           toks == LastN(Append(doc.committed_tokens, doc.pending.token), TokenCap)
<1>3. /\ seen \in Seq(Event)
      /\ Elements(seen)
           \subseteq Elements(doc.seen_ids) \cup Elements(doc.pending.events)
  <2>1. doc.seen_ids \o doc.pending.events \in Seq(Event)
    BY <1>1, <1>2
  <2>2. /\ seen \in Seq(Event)
        /\ Elements(seen) \subseteq Elements(doc.seen_ids \o doc.pending.events)
    BY <2>1, LastNForgets, CursorAssumption
  <2>3. Elements(doc.seen_ids \o doc.pending.events)
          = Elements(doc.seen_ids) \cup Elements(doc.pending.events)
    BY <1>1, <1>2, ElementsOfConcat
  <2> HIDE DEF seen
  <2> QED BY <2>2, <2>3
<1>4. toks \in Seq(Token)
  <2>1. Append(doc.committed_tokens, doc.pending.token) \in Seq(Token)
    BY <1>1, <1>2
  <2> QED BY <2>1, LastNForgets, CursorAssumption
<1> HIDE DEF seen, toks
<1>5. CommittedCursor(doc) =
        [revision |-> doc.revision + 1, last_read |-> doc.pending.window_end,
         seen_ids |-> seen, committed_tokens |-> toks, pending |-> None]
  BY DEF CommittedCursor, seen, toks
<1> QED BY <1>1, <1>2, <1>3, <1>4, <1>5 DEF Cursor, Time
-----------------------------------------------------------------------------
(* RevisionInv is inductive.                                               *)

(* The variables that only the two compare-and-swaps change.               *)
durable == <<legacy, cursor, ledger, history, floor>>

(* The step leaves every wake but w alone.                                 *)
OnlyWake(w) ==
  \A v \in Wake \ {w} :
    /\ pc'[v] = pc[v] /\ snap'[v] = snap[v] /\ now'[v] = now[v]
    /\ plan'[v] = plan[v] /\ held'[v] = held[v] /\ reply'[v] = reply[v]

(* A step that leaves the durable state alone changes no document and      *)
(* preserves what RevisionInv says of the durable state.                   *)
LEMMA DurableUntouched ==
  ASSUME RevisionInv, UNCHANGED durable
  PROVE  /\ initial_v2_cursor' = initial_v2_cursor
         /\ Current' = Current
         /\ IsPending' = IsPending
         /\ (IsPending => FitsRevision(cursor.pending, cursor))'
         /\ CommittedOnce'
         /\ (Elements(Current.seen_ids) \subseteq Elements(ledger))'
<1>1. initial_v2_cursor' = initial_v2_cursor
  BY DEF initial_v2_cursor, durable
<1>2. Current' = Current /\ IsPending' = IsPending
  BY <1>1 DEF Current, IsPending, Base, durable
<1>4. CommittedOnce'
  BY <1>2 DEF CommittedOnce, RevisionInv, durable
<1>5. (IsPending => FitsRevision(cursor.pending, cursor))'
  BY <1>2 DEF FitsRevision, RevisionInv, durable
<1>6. (Elements(Current.seen_ids) \subseteq Elements(ledger))'
  BY <1>2 DEF RevisionInv, durable, Elements
<1> QED BY <1>1, <1>2, <1>4, <1>5, <1>6

(* A step that leaves the durable state and the other wakes alone          *)
(* preserves RevisionInv if it preserves the invariant of its own wake.    *)
LEMMA LocalStep ==
  ASSUME RevisionInv, UNCHANGED durable,
         NEW w \in Wake, OnlyWake(w), WakeInv(w)'
  PROVE  RevisionInv'
<1>1. ASSUME NEW v \in Wake \ {w} PROVE WakeInv(v)'
  <2>1. Base(snap[v])' = Base(snap[v])
    BY DurableUntouched DEF OnlyWake, Base
  <2> QED BY <2>1 DEF OnlyWake, WakeInv, RevisionInv, FitsRevision
<1> QED BY <1>1, DurableUntouched DEF RevisionInv

(* The initial states satisfy the invariant.                               *)
LEMMA InitRevision == Init => TypeOK /\ RevisionInv
<1> SUFFICES ASSUME Init PROVE TypeOK /\ RevisionInv
  OBVIOUS
<1>1. legacy \in Legacy \cup {None} /\ ledger \in Seq(Event) /\ floor \in Time
  <2>1. CASE legacy = None
    BY <2>1 DEF Init, Time
  <2>2. CASE legacy # None
    <3>0. PICK S \in SUBSET visible : \E q \in NewestLast(S) :
            legacy = [last_read |-> clock, seen_ids |-> q]
      BY <2>2 DEF Init
    <3>1. PICK q \in NewestLast(S) :
            legacy = [last_read |-> clock, seen_ids |-> q]
      BY <3>0
    <3>2. q \in Seq(Event)
      BY <3>1, ListingOfSet DEF Init, TrackInit
    <3> QED BY <2>2, <3>1, <3>2, CursorAssumption DEF Init, TrackInit, Legacy, Time
  <2> QED BY <2>1, <2>2
<1>2. TypeOK
  <2>1. TrackTypeOK
    BY DEF Init, TrackInit, TrackTypeOK
  <2> QED BY <1>1, <2>1 DEF Init, TypeOK, LocalTypeOK, Time
<1>3. Current = initial_v2_cursor /\ ~IsPending
  BY DEF Init, Current, Base, IsPending
<1>4. Current.revision = 0
  BY <1>3 DEF initial_v2_cursor
<1>5. CommittedOnce
  BY <1>4 DEF Init, CommittedOnce
<1>6. Elements(Current.seen_ids) \subseteq Elements(ledger)
  <2>1. CASE legacy = None
    BY <1>3, <2>1 DEF Init, initial_v2_cursor, Elements
  <2>2. CASE legacy # None
    <3>1. legacy.seen_ids \in Seq(Event) /\ ledger = legacy.seen_ids
      BY <1>1, <2>2 DEF Init, Legacy
    <3>2. Current.seen_ids = LastN(legacy.seen_ids, SeenCap)
      BY <1>3, <2>2 DEF initial_v2_cursor
    <3> QED BY <3>1, <3>2, LastNForgets, CursorAssumption
  <2> QED BY <2>1, <2>2
<1>7. \A w \in Wake : WakeInv(w)
  BY DEF Init, WakeInv
<1> QED BY <1>2, <1>3, <1>5, <1>6, <1>7 DEF RevisionInv

(* The steps of the record track do not touch the cursor.                  *)
LEMMA TrackStepRevision ==
  ASSUME TypeOK, RevisionInv, TrackStep
  PROVE  TypeOK' /\ RevisionInv'
<1>1. TrackTypeOK'
  <2>1. CASE Tick
    BY <2>1 DEF Tick, TypeOK, TrackTypeOK
  <2>2. ASSUME NEW e \in Event, Index(e) PROVE TrackTypeOK'
    BY <2>2 DEF Index, TypeOK, TrackTypeOK
  <2>3. ASSUME NEW e \in Event, NEW d \in Leads, Emit(e, d) PROVE TrackTypeOK'
    <3>1. clock + d \in Int
      BY TrackAssumption DEF TypeOK, TrackTypeOK
    <3> QED BY <2>3, <3>1 DEF Emit, TypeOK, TrackTypeOK
  <2> QED BY <2>1, <2>2, <2>3 DEF TrackStep, TrackNext
<1>2. TypeOK'
  BY <1>1 DEF TypeOK, LocalTypeOK, TrackStep, local, hist
<1>3. UNCHANGED durable
  BY DEF durable, TrackStep, hist
<1>4. \A v \in Wake : WakeInv(v)'
  <2> SUFFICES ASSUME NEW v \in Wake PROVE WakeInv(v)'
    OBVIOUS
  <2>1. Base(snap[v])' = Base(snap[v])
    BY <1>3, DurableUntouched DEF Base, TrackStep, local
  <2> QED BY <2>1 DEF WakeInv, RevisionInv, FitsRevision, TrackStep, local
<1> QED BY <1>2, <1>3, <1>4, DurableUntouched DEF RevisionInv

(* The steps of a wake that do not change the document.                    *)
Quiet(w) ==
  \/ Replay(w) \/ LoadCursor(w) \/ TakeNow(w) \/ ReadWindow(w)
  \/ StageLoses(w) \/ ShowWinner(w)
  \/ CommitIdempotent(w) \/ CommitStale(w)
  \/ \E classified \in SUBSET Event : CommitLoad(w, classified)
  \/ CommitLoses(w) \/ CommitRecheck(w) \/ CommitRecheckFails(w)
  \/ WakeEnds(w) \/ WindowUnknown(w) \/ Crash(w)

(* The token of the pending delivery is a token.                           *)
LEMMA PendingTyped ==
  ASSUME TypeOK, IsPending
  PROVE  /\ cursor \in Cursor
         /\ cursor.pending \in Delivery
         /\ cursor.pending.token \in Token
         /\ cursor.pending.token # None
<1>1. cursor \in Cursor
  BY DEF TypeOK, IsPending
<1>2. cursor.pending \in Delivery
  BY <1>1 DEF Cursor, IsPending
<1> QED BY <1>1, <1>2, NoneAssumption DEF Delivery

(* Whoever is shown a delivery holds its token and works on nothing else.  *)
LEMMA ShownStep ==
  ASSUME LocalTypeOK, NEW w \in Wake, NEW t \in Token, Shown(w, t)
  PROVE  OnlyWake(w) /\ WakeInv(w)' /\ LocalTypeOK'
<1>1. OnlyWake(w)
  BY DEF Shown, OnlyWake, LocalTypeOK
<1>2. pc'[w] = "held" /\ held'[w] = t
  BY DEF Shown, LocalTypeOK
<1>3. WakeInv(w)'
  BY <1>2, NoneAssumption DEF WakeInv
<1> QED BY <1>1, <1>3 DEF Shown, LocalTypeOK, Time

(* A wake that is over holds nothing.                                      *)
LEMMA GoneStep ==
  ASSUME LocalTypeOK, NEW w \in Wake, Gone(w)
  PROVE  OnlyWake(w) /\ WakeInv(w)' /\ LocalTypeOK'
<1>1. OnlyWake(w)
  BY DEF Gone, OnlyWake, LocalTypeOK
<1>2. pc'[w] = "idle"
  BY DEF Gone, LocalTypeOK
<1>3. WakeInv(w)'
  BY <1>2 DEF WakeInv
<1> QED BY <1>1, <1>3 DEF Gone, LocalTypeOK, Time

(* A wake that is answered still holds its token.                          *)
LEMMA AnsweredStep ==
  ASSUME LocalTypeOK, NEW w \in Wake, held[w] # None,
         NEW r \in {"committed", "idempotent", "stale", "unclassified"},
         Answered(w, r)
  PROVE  OnlyWake(w) /\ WakeInv(w)' /\ LocalTypeOK'
<1>1. OnlyWake(w)
  BY DEF Answered, OnlyWake, LocalTypeOK
<1>2. pc'[w] = "answered" /\ held'[w] = held[w]
  BY DEF Answered, LocalTypeOK
<1>3. WakeInv(w)'
  BY <1>2 DEF WakeInv
<1> QED BY <1>1, <1>3 DEF Answered, LocalTypeOK

(* A wake that can commit holds a token.                                   *)
LEMMA HoldsToken ==
  ASSUME RevisionInv, NEW w \in Wake,
         pc[w] \in {"held", "answered", "committing", "commit-lost"}
  PROVE  held[w] # None
BY DEF RevisionInv, WakeInv

(* What a wake has planned is a delivery that fits what it loaded.         *)
LEMMA ReadWindowStep ==
  ASSUME TypeOK, RevisionInv, NEW w \in Wake, ReadWindow(w)
  PROVE  OnlyWake(w) /\ WakeInv(w)' /\ LocalTypeOK'
<1> DEFINE doc == Base(snap[w])
<1>1. doc \in Cursor /\ doc.pending = None
  BY BaseType DEF TypeOK, LocalTypeOK, ReadWindow, RevisionInv, WakeInv
<1>2. now[w] \in Int
  BY DEF TypeOK, LocalTypeOK, ReadWindow, RevisionInv, WakeInv, Time
<1>3. Fresh(w) \in SUBSET Event /\ Fresh(w) \cap Elements(doc.seen_ids) = {}
  BY DEF Fresh, Window, TypeOK, TrackTypeOK
<1>4. PICK events \in NewestLast(Fresh(w)) :
        plan' = [plan EXCEPT ![w] = StagedDelivery(doc, now[w], events)]
  BY DEF ReadWindow
<1>5. events \in Seq(Event) /\ Elements(events) = Fresh(w)
  BY <1>3, ListingOfSet
<1> DEFINE p == StagedDelivery(doc, now[w], events)
<1>6. p \in Delivery /\ FitsRevision(p, doc)
  BY <1>1, <1>2, <1>3, <1>5, StagedDeliveryFits
<1> HIDE DEF p, doc
<1>7. plan' = [plan EXCEPT ![w] = p]
  BY <1>4 DEF p
<1>8. LocalTypeOK' /\ OnlyWake(w)
  BY <1>6, <1>7 DEF ReadWindow, TypeOK, LocalTypeOK, OnlyWake
<1>9. /\ pc'[w] = "staging" /\ plan'[w] = p /\ Base(snap[w])' = doc
  BY <1>7 DEF ReadWindow, TypeOK, LocalTypeOK, Base, initial_v2_cursor, doc
<1>10. FitsRevision(plan[w], Base(snap[w]))'
  BY <1>6, <1>9 DEF FitsRevision
<1>11. WakeInv(w)'
  BY <1>1, <1>6, <1>9, <1>10, NoneAssumption DEF WakeInv
<1> QED BY <1>8, <1>11

(* The steps that do not change the document preserve the invariant.       *)
LEMMA QuietStep ==
  ASSUME TypeOK, RevisionInv, NEW w \in Wake, Quiet(w)
  PROVE  TypeOK' /\ RevisionInv'
<1> SUFFICES OnlyWake(w) /\ WakeInv(w)' /\ LocalTypeOK'
  <2>1. UNCHANGED durable /\ UNCHANGED track /\ crashes' \in Nat
    BY DEF Quiet, durable, hist, TypeOK, Replay, LoadCursor, TakeNow, ReadWindow,
      StageLoses, ShowWinner, CommitIdempotent, CommitStale, CommitLoad,
      CommitLoses, CommitRecheck, CommitRecheckFails, WakeEnds, WindowUnknown,
      Crash
  <2>2. RevisionInv'
    BY <2>1, LocalStep
  <2> QED BY <2>1, <2>2 DEF TypeOK, TrackTypeOK, track, durable
<1>0. LocalTypeOK
  BY DEF TypeOK
<1>1. CASE Replay(w)
  BY <1>0, <1>1, PendingTyped, ShownStep DEF Replay
<1>2. CASE LoadCursor(w)
  <2>1. LocalTypeOK' /\ OnlyWake(w) /\ pc'[w] = "loaded" /\ snap'[w] = cursor
    BY <1>2 DEF LoadCursor, TypeOK, LocalTypeOK, OnlyWake
  <2>2. Base(snap[w])' = Current
    BY <1>2, <2>1 DEF LoadCursor, Base, Current, initial_v2_cursor
  <2>3. Current.pending = None
    BY <1>2, InitialCursorType DEF LoadCursor, IsPending, Current, Base, TypeOK
  <2> QED BY <2>1, <2>2, <2>3 DEF WakeInv
<1>3. CASE TakeNow(w)
  <2>1. LocalTypeOK' /\ OnlyWake(w)
    BY <1>3 DEF TakeNow, TypeOK, TrackTypeOK, LocalTypeOK, OnlyWake, Time
  <2>2. pc'[w] = "timed" /\ now'[w] = clock /\ Base(snap[w])' = Base(snap[w])
    BY <1>3 DEF TakeNow, TypeOK, LocalTypeOK, Base, initial_v2_cursor
  <2>3. clock # None /\ Base(snap[w]).pending = None
    BY <1>3, NoneAssumption DEF TakeNow, TypeOK, TrackTypeOK, RevisionInv, WakeInv
  <2> QED BY <2>1, <2>2, <2>3 DEF WakeInv
<1>4. CASE ReadWindow(w)
  BY <1>4, ReadWindowStep
<1>5. CASE StageLoses(w)
  BY <1>5 DEF StageLoses, TypeOK, LocalTypeOK, OnlyWake, WakeInv
<1>6. CASE ShowWinner(w)
  BY <1>0, <1>6, PendingTyped, ShownStep, GoneStep DEF ShowWinner
<1>7. CASE CommitIdempotent(w)
  BY <1>0, <1>7, AnsweredStep, HoldsToken DEF CommitIdempotent, CanCommit
<1>8. CASE CommitStale(w)
  BY <1>0, <1>8, AnsweredStep, HoldsToken DEF CommitStale, CanCommit
<1>9. ASSUME NEW classified \in SUBSET Event, CommitLoad(w, classified)
      PROVE  OnlyWake(w) /\ WakeInv(w)' /\ LocalTypeOK'
  <2>1. CASE classified = Elements(cursor.pending.events)
    BY <1>9, <2>1, HoldsToken DEF CommitLoad, CanCommit, IsPending, TypeOK,
       LocalTypeOK, OnlyWake, WakeInv
  <2>2. CASE classified # Elements(cursor.pending.events)
    BY <1>0, <1>9, <2>2, AnsweredStep, HoldsToken DEF CommitLoad, CanCommit
  <2> QED BY <2>1, <2>2
<1>10. CASE CommitLoses(w)
  BY <1>10, HoldsToken DEF CommitLoses, TypeOK, LocalTypeOK, OnlyWake, WakeInv
<1>11. CASE CommitRecheck(w)
  BY <1>0, <1>11, AnsweredStep, HoldsToken DEF CommitRecheck
<1>12. CASE CommitRecheckFails(w)
  BY <1>0, <1>12, AnsweredStep, HoldsToken DEF CommitRecheckFails
<1>13. CASE WakeEnds(w) \/ WindowUnknown(w) \/ Crash(w)
  BY <1>0, <1>13, GoneStep DEF WakeEnds, WindowUnknown, Crash
<1> QED BY <1>1, <1>2, <1>3, <1>4, <1>5, <1>6, <1>7, <1>8, <1>9, <1>10, <1>11,
           <1>12, <1>13 DEF Quiet

(* The invariants of the other wakes survive a change of the document.     *)
LEMMA OtherWakes ==
  ASSUME RevisionInv, legacy' = legacy, NEW w \in Wake, OnlyWake(w), WakeInv(w)'
  PROVE  \A v \in Wake : WakeInv(v)'
<1>1. ASSUME NEW v \in Wake \ {w} PROVE WakeInv(v)'
  <2>1. Base(snap[v])' = Base(snap[v])
    BY DEF OnlyWake, Base, initial_v2_cursor
  <2> QED BY <2>1 DEF OnlyWake, WakeInv, RevisionInv, FitsRevision
<1> QED BY <1>1

(* What a wake that stages has loaded and planned, and what it leaves.     *)
LEMMA StageWinsFacts ==
  ASSUME TypeOK, RevisionInv, NEW w \in Wake, StageWins(w)
  PROVE  /\ Current = Base(snap[w]) /\ Current \in Cursor
         /\ Current.pending = None /\ ~IsPending
         /\ plan[w] \in Delivery /\ FitsRevision(plan[w], Current)
         /\ cursor' = [Current EXCEPT !.pending = plan[w]]
         /\ cursor' \in Cursor /\ Current' = cursor' /\ IsPending'
         /\ cursor'.pending = plan[w]
         /\ cursor'.revision = Current.revision
         /\ cursor'.seen_ids = Current.seen_ids
         /\ cursor'.last_read = Current.last_read
         /\ OnlyWake(w) /\ WakeInv(w)' /\ LocalTypeOK'
<1>1. Current = Base(snap[w])
  BY DEF StageWins, CasMatches, Current
<1>2. Current \in Cursor
  BY BaseType DEF Current, TypeOK
<1>3. Current.pending = None
  BY <1>1 DEF StageWins, RevisionInv, WakeInv
<1>4. ~IsPending
  BY <1>3 DEF IsPending, Current, Base
<1>5. plan[w] \in Delivery /\ FitsRevision(plan[w], Current)
  BY <1>1 DEF StageWins, RevisionInv, WakeInv, TypeOK, LocalTypeOK
<1>6. cursor' = [Current EXCEPT !.pending = plan[w]]
  BY <1>1 DEF StageWins
<1>7. /\ cursor' \in Cursor
      /\ cursor'.pending = plan[w]
      /\ cursor'.revision = Current.revision
      /\ cursor'.seen_ids = Current.seen_ids
      /\ cursor'.last_read = Current.last_read
  BY <1>2, <1>5, <1>6 DEF Cursor
<1>8. Current' = cursor' /\ IsPending'
  BY <1>5, <1>7, NoneAssumption DEF Current, Base, IsPending
<1>9. OnlyWake(w) /\ WakeInv(w)' /\ LocalTypeOK'
  <2>1. plan[w].token \in Token
    BY <1>5 DEF Delivery
  <2>2. CASE Shown(w, plan[w].token)
    BY <2>1, <2>2, ShownStep DEF TypeOK
  <2>3. CASE pc' = [pc EXCEPT ![w] = "stage-lost"]
                /\ UNCHANGED <<snap, now, plan, held, reply>>
    BY <2>3 DEF TypeOK, LocalTypeOK, OnlyWake, WakeInv
  <2> QED BY <2>2, <2>3 DEF StageWins
<1> QED BY <1>1, <1>2, <1>3, <1>4, <1>5, <1>6, <1>7, <1>8, <1>9

(* Staging preserves the invariant.                                        *)
LEMMA StageWinsStep ==
  ASSUME TypeOK, RevisionInv, NEW w \in Wake, StageWins(w)
  PROVE  TypeOK' /\ RevisionInv'
<1>1. legacy' = legacy /\ UNCHANGED <<ledger, history, floor, crashes>>
      /\ UNCHANGED track
  BY DEF StageWins, hist
<1>2. TypeOK'
  BY <1>1, StageWinsFacts DEF TypeOK, TrackTypeOK, track
<1>3. (IsPending => FitsRevision(cursor.pending, cursor))'
  BY StageWinsFacts DEF FitsRevision
<1>4. CommittedOnce'
  BY <1>1, StageWinsFacts DEF CommittedOnce, RevisionInv
<1>5. (Elements(Current.seen_ids) \subseteq Elements(ledger))'
  BY <1>1, StageWinsFacts DEF RevisionInv, Elements
<1>6. \A v \in Wake : WakeInv(v)'
  BY <1>1, StageWinsFacts, OtherWakes
<1> QED BY <1>2, <1>3, <1>4, <1>5, <1>6 DEF RevisionInv

(* What a wake that commits has loaded, and what it leaves.                *)
LEMMA CommitWinsFacts ==
  ASSUME TypeOK, RevisionInv, NEW w \in Wake, CommitWins(w)
  PROVE  /\ IsPending /\ snap[w] = cursor /\ cursor \in Cursor
         /\ Current = cursor
         /\ cursor.pending \in Delivery
         /\ held[w] = cursor.pending.token /\ held[w] \in Token
         /\ FitsRevision(cursor.pending, cursor)
         /\ cursor' = CommittedCursor(cursor)
         /\ cursor' \in Cursor /\ Current' = cursor' /\ ~IsPending'
         /\ ledger' = ledger \o cursor.pending.events /\ ledger' \in Seq(Event)
         /\ Elements(ledger') = Elements(ledger) \cup Elements(cursor.pending.events)
         /\ OnlyWake(w) /\ WakeInv(w)' /\ LocalTypeOK'
<1>1. snap[w] = cursor /\ cursor # None /\ IsPending
      /\ held[w] = cursor.pending.token
  BY DEF CommitWins, CasMatches, RevisionInv, WakeInv, IsPending
<1>2. /\ cursor \in Cursor /\ cursor.pending \in Delivery
      /\ held[w] \in Token /\ held[w] # None
  BY <1>1, PendingTyped
<1>3. Current = cursor /\ FitsRevision(cursor.pending, cursor)
  BY <1>1 DEF Current, Base, RevisionInv
<1>4. cursor' = CommittedCursor(cursor)
  BY <1>1 DEF CommitWins
<1>5. cursor' \in Cursor /\ cursor'.pending = None
  BY <1>2, <1>4, CommittedCursorType
<1>6. Current' = cursor' /\ ~IsPending'
  BY <1>5, NoneAssumption DEF Current, Base, IsPending
<1>7. /\ ledger' = ledger \o cursor.pending.events /\ ledger' \in Seq(Event)
      /\ Elements(ledger') = Elements(ledger) \cup Elements(cursor.pending.events)
  <2>1. cursor.pending.events \in Seq(Event) /\ ledger \in Seq(Event)
    BY <1>2 DEF Delivery, TypeOK
  <2>2. ledger' = ledger \o cursor.pending.events
    BY <1>1 DEF CommitWins
  <2> QED BY <2>1, <2>2, ElementsOfConcat
<1>8. OnlyWake(w) /\ WakeInv(w)' /\ LocalTypeOK'
  <2>1. CASE Answered(w, "committed")
    BY <1>2, <2>1, AnsweredStep DEF TypeOK
  <2>2. CASE pc' = [pc EXCEPT ![w] = "commit-lost"]
                /\ UNCHANGED <<snap, now, plan, held, reply>>
    BY <1>2, <2>2 DEF TypeOK, LocalTypeOK, OnlyWake, WakeInv
  <2> QED BY <2>1, <2>2 DEF CommitWins
<1> QED BY <1>1, <1>2, <1>3, <1>4, <1>5, <1>6, <1>7, <1>8

(* Committing preserves the invariant.                                     *)
LEMMA CommitWinsStep ==
  ASSUME TypeOK, RevisionInv, NEW w \in Wake, CommitWins(w)
  PROVE  TypeOK' /\ RevisionInv'
<1> USE CommitWinsFacts
<1>1. /\ legacy' = legacy /\ crashes' = crashes /\ UNCHANGED track
      /\ history' = Append(history, held[w])
      /\ floor' = IF cursor.last_read = None
                  THEN cursor.pending.window_start ELSE floor
  BY DEF CommitWins
<1>2. history' \in Seq(Token) /\ Len(history') = Len(history) + 1
      /\ history'[Len(history) + 1] = held[w]
      /\ \A k \in 1..Len(history) : history'[k] = history[k]
  BY <1>1 DEF TypeOK
<1>3. floor' \in Time
  BY <1>1 DEF TypeOK, Time, Delivery
<1>4. TypeOK'
  BY <1>1, <1>2, <1>3 DEF TypeOK, TrackTypeOK, track
<1>5. /\ Current'.revision = Current.revision + 1
      /\ Elements(Current'.seen_ids)
           \subseteq Elements(Current.seen_ids) \cup Elements(cursor.pending.events)
  BY CommittedCursorType
<1>6. CommittedOnce'
  <2>1. /\ held[w][1] = Len(history) /\ Current'.revision = Len(history')
        /\ Len(history) \in Nat
    BY <1>2, <1>5 DEF FitsRevision, RevisionInv, CommittedOnce, TypeOK
  <2>2. ASSUME NEW k \in 1..Len(history') PROVE history'[k][1] = k - 1
    <3>1. CASE k = Len(history) + 1
      BY <1>2, <2>1, <3>1
    <3>2. CASE k # Len(history) + 1
      <4>1. k \in 1..Len(history)
        BY <1>2, <2>1, <3>2
      <4> QED BY <1>2, <4>1 DEF RevisionInv, CommittedOnce
    <3> QED BY <3>1, <3>2
  <2> QED BY <2>1, <2>2 DEF CommittedOnce
<1>7. Elements(Current'.seen_ids) \subseteq Elements(ledger')
  BY <1>5 DEF RevisionInv
<1>8. \A v \in Wake : WakeInv(v)'
  BY <1>1, OtherWakes
<1>9. (Elements(Current.seen_ids) \subseteq Elements(ledger))'
  BY <1>7 DEF Elements
<1> QED BY <1>4, <1>6, <1>8, <1>9 DEF RevisionInv

(* Every step preserves the invariant.                                     *)
LEMMA NextRevision == TypeOK /\ RevisionInv /\ [Next]_vars => TypeOK' /\ RevisionInv'
<1> SUFFICES ASSUME TypeOK, RevisionInv, [Next]_vars PROVE TypeOK' /\ RevisionInv'
  OBVIOUS
<1>1. CASE TrackStep
  BY <1>1, TrackStepRevision
<1>2. ASSUME NEW w \in Wake, Quiet(w) PROVE TypeOK' /\ RevisionInv'
  BY <1>2, QuietStep
<1>3. ASSUME NEW w \in Wake, StageWins(w) PROVE TypeOK' /\ RevisionInv'
  BY <1>3, StageWinsStep
<1>4. ASSUME NEW w \in Wake, CommitWins(w) PROVE TypeOK' /\ RevisionInv'
  BY <1>4, CommitWinsStep
<1>5. CASE UNCHANGED vars
  <2>1. TypeOK'
    BY <1>5 DEF vars, track, local, hist, TypeOK, TrackTypeOK, LocalTypeOK
  <2>2. UNCHANGED durable /\ legacy' = legacy
    BY <1>5 DEF vars, durable, hist
  <2>3. \A v \in Wake : WakeInv(v)'
    <3> SUFFICES ASSUME NEW v \in Wake PROVE WakeInv(v)'
      OBVIOUS
    <3>1. Base(snap[v])' = Base(snap[v])
      BY <1>5, <2>2, DurableUntouched DEF Base, vars, local
    <3> QED BY <1>5, <3>1 DEF WakeInv, RevisionInv, FitsRevision, vars, local
  <2> QED BY <2>1, <2>2, <2>3, DurableUntouched DEF RevisionInv
<1> QED BY <1>1, <1>2, <1>3, <1>4, <1>5 DEF Next, WakeStep, Quiet, Peek

(* Every value of every variable has its type.                             *)
THEOREM TypeCorrect == Spec => []TypeOK
<1>1. Init => TypeOK /\ RevisionInv
  BY InitRevision
<1>2. TypeOK /\ RevisionInv /\ [Next]_vars => TypeOK' /\ RevisionInv'
  BY NextRevision
<1> QED BY <1>1, <1>2, PTL DEF Spec

(* The invariant of the document and the wakes holds in every state.       *)
THEOREM RevisionInvariant == Spec => [](TypeOK /\ RevisionInv)
<1>1. Init => TypeOK /\ RevisionInv
  BY InitRevision
<1>2. TypeOK /\ RevisionInv /\ [Next]_vars => TypeOK' /\ RevisionInv'
  BY NextRevision
<1> QED BY <1>1, <1>2, PTL DEF Spec

(* The document in the store always passes _parse_v2_cursor.               *)
THEOREM CursorAlwaysParses == Spec => []CursorParses
<1>1. TypeOK /\ RevisionInv => CursorParses
  BY DEF RevisionInv, FitsRevision, CursorParses
<1> QED BY <1>1, RevisionInvariant, PTL

(* commit_v2_delivery advances coverage once per token.                    *)
THEOREM TokenCommitsOnce == Spec => []CommittedOnce
<1>1. TypeOK /\ RevisionInv => CommittedOnce
  BY DEF RevisionInv
<1> QED BY <1>1, RevisionInvariant, PTL

(* A second delivery of an event needs its id to be forgotten.             *)
THEOREM RedeliveryNeedsForgetting == Spec => []RedeliveredOnlyIfForgotten
<1>1. TypeOK /\ RevisionInv => RedeliveredOnlyIfForgotten
  BY DEF RevisionInv, FitsRevision, RedeliveredOnlyIfForgotten, Current, Base, IsPending
<1> QED BY <1>1, RevisionInvariant, PTL

-----------------------------------------------------------------------------
(* ClockInv is inductive when no record is dated in the past.              *)

(* The documents hold times.                                               *)
LEMMA TimesTyped ==
  ASSUME TypeOK
  PROVE  /\ Current.last_read \in Int \cup {None}
         /\ \A w \in Wake : Base(snap[w]).last_read \in Int \cup {None}
         /\ \A w \in Wake : Base(snap[w]) \in Cursor
         /\ \A w \in Wake : plan[w] # None => /\ plan[w].window_end \in Int
                                             /\ plan[w].window_start \in Int
         /\ IsPending => /\ cursor.pending.window_end \in Int
                         /\ cursor.pending.window_start \in Int
<1>1. Current \in Cursor
  BY BaseType DEF Current, TypeOK
<1>2. ASSUME NEW w \in Wake PROVE Base(snap[w]) \in Cursor
  BY BaseType DEF TypeOK, LocalTypeOK
<1>3. IsPending => cursor.pending \in Delivery
  BY PendingTyped
<1>4. ASSUME NEW w \in Wake, plan[w] # None PROVE plan[w] \in Delivery
  BY <1>4 DEF TypeOK, LocalTypeOK
<1>5. \A doc \in Cursor : doc.last_read \in Int \cup {None}
  BY DEF Cursor, Time
<1>6. \A p \in Delivery : p.window_end \in Int /\ p.window_start \in Int
  BY DEF Delivery
<1> QED BY <1>1, <1>2, <1>3, <1>4, <1>5, <1>6

(* Time passing and records arriving keep a delivery in continuation of    *)
(* its document.                                                           *)
LEMMA ContinuesOverTime ==
  ASSUME TypeOK, Leads \subseteq Nat, TrackNext,
         NEW p, NEW doc, p.window_end \in Int, p.window_start \in Int,
         Continues(p, doc)
  PROVE  /\ p.window_start = WindowStart(doc, p.window_end)
         /\ p.window_end <= clock'
         /\ doc.last_read # None => doc.last_read <= p.window_end
         /\ \A e \in sent' :
              p.window_start <= at'[e] /\ at'[e] < p.window_end - Skew =>
                e \in Elements(p.events) \cup Elements(doc.seen_ids)
<1>1. CASE Tick
  BY <1>1 DEF Tick, Continues, TypeOK, TrackTypeOK
<1>2. ASSUME NEW e \in Event, Index(e) PROVE clock' = clock /\ at' = at /\ sent' = sent
  BY <1>2 DEF Index
<1>3. ASSUME NEW e \in Event, NEW d \in Leads, Emit(e, d)
      PROVE  /\ clock' = clock /\ sent' = sent \cup {e}
             /\ \A f \in sent : at'[f] = at[f]
             /\ at'[e] >= clock
  BY <1>3 DEF Emit, TypeOK, TrackTypeOK
<1>4. p.window_end <= clock /\ clock \in Int
  BY DEF Continues, TypeOK, TrackTypeOK
<1>5. ASSUME NEW e \in Event, NEW d \in Leads, Emit(e, d)
      PROVE  ~(at'[e] < p.window_end - Skew)
  <2>1. at'[e] >= clock /\ at'[e] \in Int
    BY <1>5 DEF Emit, TypeOK, TrackTypeOK
  <2> QED BY <1>4, <2>1, CursorAssumption
<1> QED BY <1>1, <1>2, <1>3, <1>4, <1>5 DEF Continues, TrackNext

(* The clock never goes back.                                              *)
LEMMA ClockMonotone ==
  ASSUME TypeOK, TrackNext
  PROVE  clock' \in Nat /\ clock <= clock'
BY DEF TrackNext, Tick, Emit, Index, TypeOK, TrackTypeOK

(* The steps of the record track.                                          *)
LEMMA TrackStepClock ==
  ASSUME TypeOK, RevisionInv, ClockInv, Leads \subseteq Nat, TrackStep
  PROVE  ClockInv'
<1>0. TrackNext /\ UNCHANGED durable /\ UNCHANGED local
  BY DEF TrackStep, durable, hist
<1>1. Current' = Current /\ IsPending' = IsPending
      /\ initial_v2_cursor' = initial_v2_cursor
  BY <1>0, DurableUntouched
<1>2. clock \in Nat /\ clock' \in Nat /\ clock <= clock'
  BY <1>0, ClockMonotone DEF TypeOK, TrackTypeOK
<1>3. \A e \in sent' \ visible' : clock' <= at'[e] + MaxLag
  <2>1. CASE Tick
    BY <2>1, TrackAssumption DEF Tick, TypeOK, TrackTypeOK
  <2>2. ASSUME NEW e \in Event, Index(e)
        PROVE  \A f \in sent' \ visible' : clock' <= at'[f] + MaxLag
    BY <2>2 DEF Index, ClockInv
  <2>3. ASSUME NEW e \in Event, NEW d \in Leads, Emit(e, d)
        PROVE  \A f \in sent' \ visible' : clock' <= at'[f] + MaxLag
    <3>1. at'[e] = clock + d /\ d \in Nat /\ \A f \in sent : at'[f] = at[f]
      BY <2>3 DEF Emit, TypeOK, TrackTypeOK
    <3>2. sent' = sent \cup {e} /\ visible' = visible /\ clock' = clock
      BY <2>3 DEF Emit
    <3> QED BY <1>2, <3>1, <3>2, TrackAssumption DEF ClockInv
  <2> QED BY <1>0, <2>1, <2>2, <2>3 DEF TrackNext
<1>4. (Current.last_read # None => floor # None /\ Current.last_read <= clock)'
  BY <1>0, <1>1, <1>2, TimesTyped DEF ClockInv, durable
<1>5. (IsPending => Continues(cursor.pending, cursor))'
  <2> SUFFICES ASSUME IsPending' PROVE Continues(cursor.pending, cursor)'
    OBVIOUS
  <2>1. cursor' = cursor /\ Continues(cursor.pending, cursor)
    BY <1>0, <1>1 DEF ClockInv, durable
  <2>2. cursor.pending.window_end \in Int /\ cursor.pending.window_start \in Int
    BY <1>1, TimesTyped
  <2> QED BY <1>0, <2>1, <2>2, ContinuesOverTime DEF Continues
<1>6. NoEventLost'
  <2> SUFFICES ASSUME Current'.last_read # None, NEW e \in sent', at'[e] >= floor'
               PROVE  e \in Elements(ledger)' \/ at'[e] >= Current'.last_read - Skew
    BY DEF NoEventLost
  <2>1. /\ Current'.last_read = Current.last_read /\ ledger' = ledger
        /\ floor' = floor /\ Elements(ledger)' = Elements(ledger)
    BY <1>0, <1>1 DEF durable, Elements
  <2>2. CASE e \in sent /\ at'[e] = at[e]
    BY <2>1, <2>2 DEF ClockInv, NoEventLost
  <2>3. CASE at'[e] >= clock /\ at'[e] \in Int
    <3>1. Current.last_read \in Int /\ Current.last_read <= clock
      BY <2>1, TimesTyped DEF ClockInv
    <3> QED BY <1>2, <2>1, <2>3, <3>1, CursorAssumption
  <2>4. CASE Tick
    BY <2>2, <2>4 DEF Tick
  <2>5. ASSUME NEW f \in Event, Index(f) PROVE e \in sent /\ at'[e] = at[e]
    BY <2>5 DEF Index
  <2>6. ASSUME NEW f \in Event, NEW d \in Leads, Emit(f, d)
        PROVE  \/ e \in sent /\ at'[e] = at[e]
               \/ at'[e] >= clock /\ at'[e] \in Int
    BY <2>6 DEF Emit, TypeOK, TrackTypeOK
  <2> QED BY <1>0, <2>2, <2>3, <2>4, <2>5, <2>6 DEF TrackNext
<1>7. \A w \in Wake : WakeClockInv(w)'
  <2> SUFFICES ASSUME NEW w \in Wake PROVE WakeClockInv(w)'
    OBVIOUS
  <2> DEFINE doc == Base(snap[w])
  <2>1. /\ pc'[w] = pc[w] /\ now'[w] = now[w] /\ plan'[w] = plan[w]
        /\ Base(snap[w])' = doc
    BY <1>0, <1>1 DEF local, Base
  <2>2. WakeClockInv(w) /\ WakeInv(w)
    BY DEF ClockInv, RevisionInv
  <2>3. doc.last_read \in Int \cup {None}
    BY TimesTyped
  <2>4. now[w] \in Int \cup {None}
    BY DEF TypeOK, LocalTypeOK, Time
  <2>5. pc[w] = "staging" => Continues(plan[w], Base(snap[w]))'
    <3> SUFFICES ASSUME pc[w] = "staging" PROVE Continues(plan[w], Base(snap[w]))'
      OBVIOUS
    <3>1. plan[w].window_end \in Int /\ plan[w].window_start \in Int
      BY <2>2, TimesTyped DEF WakeInv
    <3>2. Continues(plan[w], doc)
      BY <2>2 DEF WakeClockInv
    <3> HIDE DEF doc
    <3> QED BY <1>0, <2>1, <3>1, <3>2, ContinuesOverTime DEF Continues
  <2>6. pc[w] = "timed" => now[w] \in Int
    BY <2>2, <2>4 DEF WakeInv
  <2> QED BY <1>2, <2>1, <2>2, <2>3, <2>5, <2>6 DEF WakeClockInv
<1> QED BY <1>3, <1>4, <1>5, <1>6, <1>7 DEF ClockInv

(* A step of one wake that leaves track and document alone preserves       *)
(* ClockInv if it preserves the part of its own wake.                      *)
LEMMA LocalStepClock ==
  ASSUME RevisionInv, ClockInv, UNCHANGED durable, UNCHANGED track,
         NEW w \in Wake, OnlyWake(w), WakeClockInv(w)'
  PROVE  ClockInv'
<1>1. Current' = Current /\ IsPending' = IsPending
      /\ initial_v2_cursor' = initial_v2_cursor
  BY DurableUntouched
<1>2. /\ clock' = clock /\ sent' = sent /\ at' = at /\ visible' = visible
      /\ cursor' = cursor /\ floor' = floor /\ ledger' = ledger
  BY DEF durable, track
<1>3. ASSUME NEW v \in Wake \ {w} PROVE WakeClockInv(v)'
  <2>1. Base(snap[v])' = Base(snap[v])
    BY <1>1 DEF OnlyWake, Base
  <2> QED BY <1>2, <2>1 DEF OnlyWake, WakeClockInv, ClockInv, Continues
<1>4. NoEventLost'
  BY <1>1, <1>2 DEF NoEventLost, ClockInv, Elements
<1>5. (IsPending => Continues(cursor.pending, cursor))'
  BY <1>1, <1>2 DEF ClockInv, Continues
<1>6. (\A e \in sent \ visible : clock <= at[e] + MaxLag)'
  BY <1>2 DEF ClockInv
<1>7. (Current.last_read # None => floor # None /\ Current.last_read <= clock)'
  BY <1>1, <1>2 DEF ClockInv
<1> QED BY <1>3, <1>4, <1>5, <1>6, <1>7 DEF ClockInv

(* The window a wake reads continues the document it loaded: an event that *)
(* is not visible yet is too young to be older than the next overlap.      *)
LEMMA ReadWindowClock ==
  ASSUME TypeOK, RevisionInv, ClockInv, NEW w \in Wake, ReadWindow(w)
  PROVE  WakeClockInv(w)'
<1> DEFINE doc == Base(snap[w])
<1>1. doc \in Cursor /\ doc.last_read \in Int \cup {None}
  BY TimesTyped
<1>2. now[w] \in Int /\ now[w] <= clock
      /\ (doc.last_read # None => doc.last_read <= now[w])
  BY DEF TypeOK, LocalTypeOK, ReadWindow, RevisionInv, WakeInv, Time, ClockInv,
     WakeClockInv
<1>3. PICK events \in NewestLast(Fresh(w)) :
        plan' = [plan EXCEPT ![w] = StagedDelivery(doc, now[w], events)]
  BY DEF ReadWindow
<1>4. Fresh(w) \in SUBSET Event
  BY DEF Fresh, Window, TypeOK, TrackTypeOK
<1>5. events \in Seq(Event) /\ Elements(events) = Fresh(w)
  BY <1>4, ListingOfSet
<1> DEFINE p == StagedDelivery(doc, now[w], events)
<1>6. /\ p.window_end = now[w] /\ p.events = events
      /\ p.window_start = WindowStart(doc, now[w])
  BY DEF StagedDelivery
<1>7. ASSUME NEW e \in sent, WindowStart(doc, now[w]) <= at[e],
             at[e] < now[w] - Skew
      PROVE  e \in Elements(events) \cup Elements(doc.seen_ids)
  <2>1. at[e] \in Int /\ clock \in Int
    BY DEF TypeOK, TrackTypeOK
  <2>2. at[e] + MaxLag < clock
    BY <1>2, <1>7, <2>1, CursorAssumption, TrackAssumption
  <2>3. e \in visible
    BY <2>1, <2>2, TrackAssumption DEF ClockInv
  <2>4. e \in Window(WindowStart(doc, now[w]), now[w])
    BY <1>2, <1>7, <2>1, <2>3, CursorAssumption DEF Window
  <2> QED BY <1>5, <2>4 DEF Fresh
<1>8. /\ pc'[w] = "staging" /\ plan'[w] = p /\ Base(snap[w])' = doc
      /\ clock' = clock /\ sent' = sent /\ at' = at
  <2> HIDE DEF p
  <2> QED BY <1>3 DEF ReadWindow, TypeOK, LocalTypeOK, Base, initial_v2_cursor,
                      track, p
<1> HIDE DEF p, doc
<1>9. Continues(plan[w], Base(snap[w]))'
  BY <1>2, <1>6, <1>7, <1>8 DEF Continues
<1> QED BY <1>8, <1>9 DEF WakeClockInv

(* The steps of a wake that do not change the document.                    *)
LEMMA QuietStepClock ==
  ASSUME TypeOK, RevisionInv, ClockInv, NEW w \in Wake, Quiet(w)
  PROVE  ClockInv'
<1>1. UNCHANGED durable /\ UNCHANGED track
  BY DEF Quiet, durable, hist, Replay, LoadCursor, TakeNow, ReadWindow,
    StageLoses, ShowWinner, CommitIdempotent, CommitStale, CommitLoad,
    CommitLoses, CommitRecheck, CommitRecheckFails, WakeEnds, WindowUnknown, Crash
<1>2. OnlyWake(w)
  BY DEF Quiet, OnlyWake, Replay, LoadCursor, TakeNow, ReadWindow,
    StageLoses, ShowWinner, CommitIdempotent, CommitStale, CommitLoad,
    CommitLoses, CommitRecheck, CommitRecheckFails, WakeEnds, WindowUnknown,
    Crash, Shown, Gone, Answered, TypeOK, LocalTypeOK
<1> SUFFICES WakeClockInv(w)'
  BY <1>1, <1>2, LocalStepClock
<1>3. CASE LoadCursor(w)
  <2>1. pc'[w] = "loaded" /\ snap'[w] = cursor /\ clock' = clock
    BY <1>3 DEF LoadCursor, TypeOK, LocalTypeOK, track
  <2>2. Base(snap[w])' = Current
    BY <1>3, <2>1 DEF LoadCursor, Base, Current, initial_v2_cursor
  <2> QED BY <2>1, <2>2 DEF WakeClockInv, ClockInv
<1>4. CASE TakeNow(w)
  <2>1. /\ pc[w] = "loaded" /\ pc'[w] = "timed" /\ now'[w] = clock
        /\ Base(snap[w])' = Base(snap[w]) /\ clock' = clock /\ clock \in Nat
    BY <1>4 DEF TakeNow, TypeOK, TrackTypeOK, LocalTypeOK, Base,
       initial_v2_cursor, track
  <2>2. WakeClockInv(w)
    BY DEF ClockInv
  <2> QED BY <2>1, <2>2 DEF WakeClockInv
<1>5. CASE ReadWindow(w)
  BY <1>5, ReadWindowClock
<1>6. CASE ~(LoadCursor(w) \/ TakeNow(w) \/ ReadWindow(w))
  <2>1. pc'[w] \in {"idle", "held", "stage-lost", "committing", "commit-lost",
                    "answered"}
    BY <1>6 DEF Quiet, Replay, StageLoses, ShowWinner, CommitIdempotent,
      CommitStale, CommitLoad, CommitLoses, CommitRecheck, CommitRecheckFails,
      WakeEnds, WindowUnknown, Crash, Shown, Gone, Answered, TypeOK, LocalTypeOK
  <2> QED BY <2>1 DEF WakeClockInv
<1> QED BY <1>3, <1>4, <1>5, <1>6

(* The other wakes when the document changes under them.                   *)
LEMMA OtherWakesClock ==
  ASSUME ClockInv, legacy' = legacy, UNCHANGED track, NEW w \in Wake,
         OnlyWake(w), WakeClockInv(w)'
  PROVE  \A v \in Wake : WakeClockInv(v)'
<1>1. ASSUME NEW v \in Wake \ {w} PROVE WakeClockInv(v)'
  <2>1. Base(snap[v])' = Base(snap[v])
    BY DEF OnlyWake, Base, initial_v2_cursor
  <2> QED BY <2>1 DEF OnlyWake, WakeClockInv, ClockInv, Continues, track
<1> QED BY <1>1

(* Staging preserves ClockInv.                                             *)
LEMMA StageWinsClock ==
  ASSUME TypeOK, RevisionInv, ClockInv, NEW w \in Wake, StageWins(w)
  PROVE  ClockInv'
<1> USE StageWinsFacts
<1>1. legacy' = legacy /\ ledger' = ledger /\ floor' = floor /\ UNCHANGED track
  BY DEF StageWins, hist
<1>2. clock' = clock /\ sent' = sent /\ at' = at /\ visible' = visible
  BY <1>1 DEF track
<1>3. Continues(plan[w], Current)
  BY DEF StageWins, ClockInv, WakeClockInv
<1>4. (IsPending => Continues(cursor.pending, cursor))'
  BY <1>2, <1>3 DEF Continues, WindowStart
<1>5. NoEventLost'
  BY <1>1, <1>2 DEF NoEventLost, ClockInv, Elements
<1>6. pc'[w] \in {"held", "stage-lost"}
  BY DEF StageWins, Shown, TypeOK, LocalTypeOK
<1>7. \A v \in Wake : WakeClockInv(v)'
  BY <1>1, <1>6, OtherWakesClock DEF WakeClockInv
<1>8. (\A e \in sent \ visible : clock <= at[e] + MaxLag)'
  BY <1>2 DEF ClockInv
<1>9. (Current.last_read # None => floor # None /\ Current.last_read <= clock)'
  BY <1>1, <1>2 DEF ClockInv
<1> QED BY <1>4, <1>5, <1>7, <1>8, <1>9 DEF ClockInv

(* Committing preserves ClockInv: what the new overlap does not reach is   *)
(* handled by this delivery or was handled before.                         *)
LEMMA CommitWinsClock ==
  ASSUME TypeOK, RevisionInv, ClockInv, NEW w \in Wake, CommitWins(w)
  PROVE  ClockInv'
<1> USE CommitWinsFacts
<1> DEFINE p == cursor.pending
<1>1. /\ legacy' = legacy /\ UNCHANGED track
      /\ floor' = IF cursor.last_read = None THEN p.window_start ELSE floor
  BY DEF CommitWins
<1>2. clock' = clock /\ sent' = sent /\ at' = at /\ visible' = visible
  BY <1>1 DEF track
<1>3. /\ p.window_end \in Int /\ p.window_start \in Int
      /\ cursor.last_read \in Int \cup {None}
  BY TimesTyped
<1>4. Continues(p, cursor)
  BY DEF ClockInv
<1>5. Current'.last_read = p.window_end /\ ~IsPending'
  BY CommittedCursorType
<1>6. (Current.last_read # None => floor # None /\ Current.last_read <= clock)'
  BY <1>1, <1>2, <1>3, <1>4, <1>5, NoneAssumption DEF ClockInv, Continues
<1>7. NoEventLost'
  <2> SUFFICES ASSUME NEW e \in sent, at[e] >= floor', at[e] < p.window_end - Skew
               PROVE  e \in Elements(ledger')
    <3>1. \A e \in sent : at[e] \in Int
      BY DEF TypeOK, TrackTypeOK
    <3>2. \A e \in sent : at[e] < p.window_end - Skew
                          \/ at[e] >= p.window_end - Skew
      BY <1>3, <3>1, CursorAssumption
    <3> QED BY <1>2, <1>5, <3>2 DEF NoEventLost, Elements
  <2>1. at[e] \in Int
    BY DEF TypeOK, TrackTypeOK
  <2>2. CASE p.window_start <= at[e]
    BY <1>4, <2>2 DEF Continues, RevisionInv
  <2>3. CASE ~(p.window_start <= at[e])
    <3>1. cursor.last_read # None
      BY <1>1, <1>3, <2>1, <2>3
    <3>2. p.window_start = cursor.last_read - Skew /\ floor' = floor
      BY <1>1, <1>4, <3>1 DEF Continues, WindowStart
    <3>3. ~(at[e] >= cursor.last_read - Skew)
      BY <1>3, <2>1, <2>3, <3>1, <3>2, CursorAssumption
    <3> QED BY <3>1, <3>2, <3>3 DEF ClockInv, NoEventLost
  <2> QED BY <2>2, <2>3
<1>8. pc'[w] \in {"answered", "commit-lost"}
  BY DEF CommitWins, Answered, TypeOK, LocalTypeOK
<1>9. \A v \in Wake : WakeClockInv(v)'
  BY <1>1, <1>8, OtherWakesClock DEF WakeClockInv
<1>10. (\A e \in sent \ visible : clock <= at[e] + MaxLag)'
  BY <1>2 DEF ClockInv
<1> QED BY <1>5, <1>6, <1>7, <1>9, <1>10 DEF ClockInv

(* The initial states satisfy ClockInv.                                    *)
LEMMA InitClock == Init => ClockInv
<1> SUFFICES ASSUME Init PROVE ClockInv
  OBVIOUS
<1>1. clock = 0 /\ \A e \in Event : at[e] = 0
  BY DEF Init, TrackInit
<1>2. sent \subseteq Event
  BY DEF Init, TrackInit
<1>3. Current = initial_v2_cursor /\ ~IsPending
  BY DEF Init, Current, Base, IsPending
<1>4. Current.last_read # None => Current.last_read = 0 /\ floor # None
  <2>1. CASE legacy = None
    BY <1>3, <2>1 DEF initial_v2_cursor
  <2>2. CASE legacy # None
    <3>1. legacy.last_read = 0
      BY <1>1, <2>2 DEF Init
    <3>2. Current.last_read = 0 /\ floor = 0 - Skew
      BY <1>3, <2>2, <3>1 DEF initial_v2_cursor, Init
    <3> QED BY <3>2, CursorAssumption, NoneAssumption
  <2> QED BY <2>1, <2>2
<1>5. NoEventLost
  BY <1>1, <1>2, <1>4, CursorAssumption DEF NoEventLost
<1>6. \A w \in Wake : WakeClockInv(w)
  BY DEF Init, WakeClockInv
<1> QED BY <1>1, <1>2, <1>3, <1>4, <1>5, <1>6, TrackAssumption DEF ClockInv

(* Every step preserves ClockInv.                                          *)
LEMMA NextClock ==
  ASSUME Leads \subseteq Nat
  PROVE  TypeOK /\ RevisionInv /\ ClockInv /\ [Next]_vars => ClockInv'
<1> SUFFICES ASSUME TypeOK, RevisionInv, ClockInv, [Next]_vars PROVE ClockInv'
  OBVIOUS
<1>1. CASE TrackStep
  BY <1>1, TrackStepClock
<1>2. ASSUME NEW w \in Wake, Quiet(w) PROVE ClockInv'
  BY <1>2, QuietStepClock
<1>3. ASSUME NEW w \in Wake, StageWins(w) PROVE ClockInv'
  BY <1>3, StageWinsClock
<1>4. ASSUME NEW w \in Wake, CommitWins(w) PROVE ClockInv'
  BY <1>4, CommitWinsClock
<1>5. CASE UNCHANGED vars
  <2>1. UNCHANGED durable /\ UNCHANGED track /\ UNCHANGED local
    BY <1>5 DEF vars, durable, hist
  <2>2. CASE Wake = {}
    <3>1. Current' = Current /\ IsPending' = IsPending
      BY <2>1, DurableUntouched
    <3>2. NoEventLost'
      BY <2>1, <3>1 DEF NoEventLost, ClockInv, Elements, track, durable
    <3> QED BY <2>1, <2>2, <3>1, <3>2 DEF ClockInv, Continues, track, durable
  <2>3. ASSUME NEW w \in Wake PROVE ClockInv'
    <3>1. OnlyWake(w) /\ pc'[w] = pc[w] /\ now'[w] = now[w] /\ plan'[w] = plan[w]
          /\ snap'[w] = snap[w]
      BY <2>1 DEF OnlyWake, local
    <3>2. Base(snap[w])' = Base(snap[w])
      BY <2>1, <3>1, DurableUntouched DEF Base
    <3>3. WakeClockInv(w)'
      BY <2>1, <3>1, <3>2 DEF WakeClockInv, ClockInv, Continues, track
    <3> QED BY <2>1, <3>1, <3>3, LocalStepClock
  <2> QED BY <2>2, <2>3
<1> QED BY <1>1, <1>2, <1>3, <1>4, <1>5 DEF Next, WakeStep, Quiet, Peek

(* The window rule holds: no event dated inside the coverage of the cursor *)
(* is ever passed over, provided that no record is dated in the past and   *)
(* the overlap of the windows is at least the visibility lag.              *)
THEOREM CoverageLosesNothing ==
  ASSUME Leads \subseteq Nat
  PROVE  Spec => []NoEventLost
<1>1. Init => ClockInv
  BY InitClock
<1>2. TypeOK /\ RevisionInv /\ ClockInv /\ [Next]_vars => ClockInv'
  BY NextClock
<1>3. ClockInv => NoEventLost
  BY DEF ClockInv
<1> QED BY <1>1, <1>2, <1>3, RevisionInvariant, PTL DEF Spec

-----------------------------------------------------------------------------
(* The cursor implements DeliveryLedger.                                   *)

(* A quiet step, a step of the track and a stutter leave the ledger alone. *)
LEMMA LedgerUntouched ==
  ASSUME RevisionInv, UNCHANGED durable
  PROVE  UNCHANGED Ledger!ledgerVars
<1>1. Current' = Current /\ IsPending' = IsPending
  BY DurableUntouched
<1>2. cursor' = cursor /\ ledger' = ledger
  BY DEF durable
<1> QED BY <1>1, <1>2 DEF Ledger!ledgerVars, Elements

(* Staging opens a batch of events the document does not remember.         *)
LEMMA StageOpens ==
  ASSUME TypeOK, RevisionInv, NEW w \in Wake, StageWins(w)
  PROVE  Ledger!Open
<1> USE StageWinsFacts
<1>1. plan[w].events \in Seq(Event)
  BY DEF Delivery
<1>2. Elements(plan[w].events) \subseteq Event
  BY <1>1, ElementsInSet
<1>3. Elements(plan[w].events) # None
  BY <1>2, NoneAssumption
<1>4. Elements(plan[w].events) \cap Elements(Current.seen_ids) = {}
  BY DEF FitsRevision
<1>5. Elements(cursor.pending.events)' = Elements(plan[w].events)
  BY DEF Elements
<1>6. /\ Elements(ledger)' = Elements(ledger)
      /\ Elements(Current.seen_ids)' = Elements(Current.seen_ids)
  <2>1. ledger' = ledger
    BY DEF StageWins, hist
  <2>2. Current'.seen_ids = Current.seen_ids
    OBVIOUS
  <2> QED BY <2>1, <2>2 DEF Elements
<1> QED BY <1>2, <1>3, <1>4, <1>5, <1>6 DEF Ledger!Open

(* Committing closes the batch that is out and handles all of it.          *)
LEMMA CommitCloses ==
  ASSUME TypeOK, RevisionInv, NEW w \in Wake, CommitWins(w)
  PROVE  Ledger!Close
<1> USE CommitWinsFacts
<1>1. Elements(cursor.pending.events) # None
  <2>1. cursor.pending.events \in Seq(Event)
    BY DEF Delivery
  <2>2. Elements(cursor.pending.events) \subseteq Event
    BY <2>1, ElementsInSet
  <2> QED BY <2>2, NoneAssumption
<1>2. /\ Current'.revision = Current.revision + 1
      /\ Elements(Current'.seen_ids)
           \subseteq Elements(Current.seen_ids) \cup Elements(cursor.pending.events)
  BY CommittedCursorType
<1>3. Elements(Current.seen_ids)' = Elements(Current'.seen_ids)
      /\ Elements(ledger)' = Elements(ledger')
  BY DEF Elements
<1> QED BY <1>1, <1>2, <1>3 DEF Ledger!Close

(* stage_v2_delivery and commit_v2_delivery, as any number of processes    *)
(* call them, implement the ledger: one batch at a time, never replaced,   *)
(* closed once.                                                            *)
THEOREM ImplementsLedger == Spec => Ledger!LedgerSpec
<1>1. Init => Ledger!LedgerInit
  <2> SUFFICES ASSUME Init PROVE Ledger!LedgerInit
    OBVIOUS
  <2>1. TypeOK /\ RevisionInv
    BY InitRevision
  <2>2. Current = initial_v2_cursor /\ ~IsPending
    BY DEF Init, Current, Base, IsPending
  <2>3. Current.revision = 0
    BY <2>2 DEF initial_v2_cursor
  <2>4. Elements(ledger) \subseteq Event
    BY <2>1, ElementsInSet DEF TypeOK
  <2> QED BY <2>1, <2>2, <2>3, <2>4 DEF Ledger!LedgerInit, RevisionInv
<1>2. TypeOK /\ RevisionInv /\ [Next]_vars
        => [Ledger!LedgerNext]_(Ledger!ledgerVars)
  <2> SUFFICES ASSUME TypeOK, RevisionInv, [Next]_vars
               PROVE  Ledger!LedgerNext \/ UNCHANGED Ledger!ledgerVars
    OBVIOUS
  <2>1. CASE TrackStep \/ UNCHANGED vars
    <3>1. UNCHANGED durable
      BY <2>1 DEF TrackStep, vars, durable, hist
    <3> QED BY <3>1, LedgerUntouched
  <2>2. ASSUME NEW w \in Wake, Quiet(w) PROVE UNCHANGED Ledger!ledgerVars
    <3>1. UNCHANGED durable
      BY <2>2 DEF Quiet, durable, hist, Replay, LoadCursor, TakeNow, ReadWindow,
        StageLoses, ShowWinner, CommitIdempotent, CommitStale, CommitLoad,
        CommitLoses, CommitRecheck, CommitRecheckFails, WakeEnds, WindowUnknown,
        Crash
    <3> QED BY <3>1, LedgerUntouched
  <2>3. ASSUME NEW w \in Wake, StageWins(w) PROVE Ledger!Open
    BY <2>3, StageOpens
  <2>4. ASSUME NEW w \in Wake, CommitWins(w) PROVE Ledger!Close
    BY <2>4, CommitCloses
  <2> QED BY <2>1, <2>2, <2>3, <2>4
          DEF Next, WakeStep, Quiet, Peek, Ledger!LedgerNext
<1> QED BY <1>1, <1>2, RevisionInvariant, PTL DEF Spec, Ledger!LedgerSpec

-----------------------------------------------------------------------------
(* Coverage only moves forward.                                            *)

(* No step takes the cursor back or skips a revision: a wake that is late  *)
(* with an old document fails its compare-and-swap.                        *)
THEOREM CoverageMovesForward ==
  ASSUME Leads \subseteq Nat
  PROVE  Spec => CoverageAdvances
<1> DEFINE Forward ==
      /\ Current'.revision \in {Current.revision, Current.revision + 1}
      /\ Current.last_read # None =>
           Current'.last_read # None /\ Current'.last_read >= Current.last_read
<1>1. TypeOK /\ RevisionInv /\ ClockInv /\ [Next]_vars => [Forward]_vars
  <2> SUFFICES ASSUME TypeOK, RevisionInv, ClockInv, [Next]_vars PROVE Forward
    OBVIOUS
  <2>0. Current.last_read \in Int \cup {None}
    BY TimesTyped
  <2>1. CASE Current' = Current
    BY <2>0, <2>1
  <2>2. CASE TrackStep \/ UNCHANGED vars
    <3>1. UNCHANGED durable
      BY <2>2 DEF TrackStep, vars, durable, hist
    <3> QED BY <2>1, <3>1, DurableUntouched
  <2>3. ASSUME NEW w \in Wake, Quiet(w) PROVE Forward
    <3>1. UNCHANGED durable
      BY <2>3 DEF Quiet, durable, hist, Replay, LoadCursor, TakeNow, ReadWindow,
        StageLoses, ShowWinner, CommitIdempotent, CommitStale, CommitLoad,
        CommitLoses, CommitRecheck, CommitRecheckFails, WakeEnds, WindowUnknown,
        Crash
    <3> QED BY <2>1, <3>1, DurableUntouched
  <2>4. ASSUME NEW w \in Wake, StageWins(w) PROVE Forward
    <3>1. Current'.revision = Current.revision /\ Current'.last_read = Current.last_read
      BY <2>4, StageWinsFacts
    <3> QED BY <2>0, <3>1
  <2>5. ASSUME NEW w \in Wake, CommitWins(w) PROVE Forward
    <3>1. /\ Current'.revision = Current.revision + 1
          /\ Current'.last_read = cursor.pending.window_end
          /\ IsPending /\ Current = cursor
      BY <2>5, CommitWinsFacts, CommittedCursorType
    <3>2. cursor.pending.window_end \in Int
      BY <3>1, TimesTyped
    <3>3. cursor.last_read # None => cursor.last_read <= cursor.pending.window_end
      BY <3>1 DEF ClockInv, Continues
    <3> QED BY <2>0, <3>1, <3>2, <3>3, NoneAssumption
  <2> QED BY <2>2, <2>3, <2>4, <2>5 DEF Next, WakeStep, Quiet, Peek
<1>2. Init => ClockInv
  BY InitClock
<1>3. TypeOK /\ RevisionInv /\ ClockInv /\ [Next]_vars => ClockInv'
  BY NextClock
<1> QED BY <1>1, <1>2, <1>3, RevisionInvariant, PTL DEF Spec, CoverageAdvances

-----------------------------------------------------------------------------
(* The answers of `queue commit` are true.                                 *)

(* What the document's tokens say about the commits.                       *)
LEMMA TokensTell ==
  ASSUME TypeOK, TokensInv, NEW t
  PROVE  /\ t \in Elements(Current.committed_tokens) => t \in Elements(history)
         /\ t \in Elements(history) /\ t \notin Elements(Current.committed_tokens)
              => PushedOut(t)
<1>1. history \in Seq(Token) /\ TokenCap \in Nat
  BY CursorAssumption DEF TypeOK
<1>2. Elements(LastN(history, TokenCap)) \subseteq Elements(history)
  BY <1>1, LastNForgets
<1>3. ASSUME t \in Elements(history), t \notin Elements(LastN(history, TokenCap))
      PROVE  PushedOut(t)
  <2>1. PICK k \in 1..Len(history) : history[k] = t
    BY <1>1, <1>3 DEF Elements
  <2>2. ~(Len(history) - k < TokenCap)
    BY <1>1, <1>3, <2>1, LastNRemembers
  <2>3. Len(history) - k >= TokenCap
    BY <1>1, <2>2
  <2> QED BY <2>1, <2>3 DEF PushedOut
<1> QED BY <1>2, <1>3 DEF TokensInv

(* A step that leaves the durable state and the other wakes alone.         *)
LEMMA LocalAnswers ==
  ASSUME RevisionInv, AnswersInv, UNCHANGED durable,
         NEW w \in Wake, OnlyWake(w), AnswerInv(w)'
  PROVE  AnswersInv'
<1>1. Current' = Current /\ IsPending' = IsPending
  BY DurableUntouched
<1>2. UNCHANGED <<history, cursor>>
  BY DEF durable
<1>3. TokensInv'
  BY <1>1, <1>2 DEF AnswersInv, TokensInv
<1>4. ASSUME NEW v \in Wake \ {w} PROVE AnswerInv(v)'
  BY <1>1, <1>2 DEF AnswersInv, AnswerInv, OnlyWake, PushedOut
<1> QED BY <1>3, <1>4 DEF AnswersInv

(* Whoever is shown the pending delivery.                                  *)
LEMMA ShownAnswer ==
  ASSUME LocalTypeOK, NEW w \in Wake, NEW t, Shown(w, t), IsPending',
         cursor'.pending.token = t
  PROVE  AnswerInv(w)'
<1>1. pc'[w] = "held" /\ held'[w] = t /\ reply'[w] = None
  BY DEF Shown, LocalTypeOK
<1>2. reply'[w] \notin {"committed", "idempotent", "stale"}
  BY <1>1, NoneAssumption
<1> QED BY <1>1, <1>2 DEF AnswerInv
(* A wake that is over holds nothing and waits for no answer.              *)
LEMMA GoneAnswer ==
  ASSUME LocalTypeOK, NEW w \in Wake, Gone(w)
  PROVE  AnswerInv(w)'
<1>1. pc'[w] = "idle" /\ held'[w] = None /\ reply'[w] = None
  BY DEF Gone, LocalTypeOK
<1>2. reply'[w] \notin {"committed", "idempotent", "stale"}
  BY <1>1, NoneAssumption
<1> QED BY <1>1, <1>2 DEF AnswerInv

(* An answer that is true when it is given.                                *)
LEMMA TrueAnswer ==
  ASSUME LocalTypeOK, RevisionInv, AnswersInv, UNCHANGED durable,
         NEW w \in Wake,
         NEW r \in {"committed", "idempotent", "stale", "unclassified"},
         Answered(w, r),
         r \in {"committed", "idempotent"} => held[w] \in Elements(history),
         r = "stale" => PushedOut(held[w])
  PROVE  AnswerInv(w)'
<1>1. pc'[w] = "answered" /\ held'[w] = held[w] /\ reply'[w] = r
  BY DEF Answered, LocalTypeOK
<1>2. IsPending' = IsPending /\ history' = history /\ cursor' = cursor
  BY DurableUntouched DEF durable
<1>3. AnswerInv(w)
  BY DEF AnswersInv
<1> QED BY <1>1, <1>2, <1>3 DEF AnswerInv, PushedOut

(* A token that is neither pending nor remembered was pushed out.          *)
LEMMA NeitherPendingNorRemembered ==
  ASSUME TypeOK, RevisionInv, AnswersInv, NEW w \in Wake, held[w] # None,
         held[w] \notin Elements(Current.committed_tokens),
         held[w] \in Elements(history) \/ ~(IsPending /\ cursor.pending.token = held[w])
  PROVE  PushedOut(held[w])
<1>1. held[w] \in Elements(history)
  BY DEF AnswersInv, AnswerInv
<1> QED BY <1>1, TokensTell DEF AnswersInv

(* The steps of a wake that do not change the document, as long as the     *)
(* read after a lost reply succeeds.                                       *)
LEMMA QuietAnswers ==
  ASSUME ~RecheckMayFail, TypeOK, RevisionInv, AnswersInv, NEW w \in Wake, Quiet(w)
  PROVE  AnswersInv'
<1>0. /\ UNCHANGED durable /\ LocalTypeOK /\ AnswerInv(w)
      /\ UNCHANGED <<cursor, history>>
  BY DEF Quiet, durable, hist, Replay, LoadCursor, TakeNow, ReadWindow, StageLoses,
    ShowWinner, CommitIdempotent, CommitStale, CommitLoad, CommitLoses, CommitRecheck,
    CommitRecheckFails, WakeEnds, WindowUnknown, Crash, TypeOK, AnswersInv
<1>1. OnlyWake(w)
  BY DEF Quiet, OnlyWake, Replay, LoadCursor, TakeNow, ReadWindow,
    StageLoses, ShowWinner, CommitIdempotent, CommitStale, CommitLoad,
    CommitLoses, CommitRecheck, CommitRecheckFails, WakeEnds, WindowUnknown,
    Crash, Shown, Gone, Answered, TypeOK, LocalTypeOK
<1>2. IsPending' = IsPending /\ Current' = Current
  BY <1>0, DurableUntouched
<1>3. cursor # None => Current = cursor
  BY DEF Current, Base
<1> SUFFICES AnswerInv(w)'
  BY <1>0, <1>1, LocalAnswers
<1>4. ASSUME IsPending, Shown(w, cursor.pending.token) PROVE AnswerInv(w)'
  BY <1>0, <1>2, <1>4, ShownAnswer
<1>5. CASE Replay(w) \/ ShowWinner(w) \/ WakeEnds(w) \/ WindowUnknown(w) \/ Crash(w)
  BY <1>0, <1>4, <1>5, GoneAnswer DEF Replay, ShowWinner, WakeEnds, WindowUnknown, Crash
<1>6. CASE LoadCursor(w) \/ TakeNow(w) \/ ReadWindow(w) \/ StageLoses(w)
  <2>1. /\ held' = held /\ reply' = reply
        /\ pc'[w] \in {"loaded", "timed", "staging", "stage-lost"}
    BY <1>6 DEF LoadCursor, TakeNow, ReadWindow, StageLoses, TypeOK, LocalTypeOK
  <2> QED BY <1>0, <1>2, <2>1 DEF AnswerInv, PushedOut
<1>7. CASE CommitIdempotent(w)
  <2>1. held[w] \in Elements(history)
    BY <1>3, <1>7, TokensTell DEF CommitIdempotent, CanCommit, AnswersInv
  <2> QED BY <1>0, <1>7, <2>1, TrueAnswer DEF CommitIdempotent
<1>8. CASE CommitStale(w)
  <2>1. held[w] # None /\ Current = cursor
    BY <1>3, <1>8, HoldsToken DEF CommitStale, CanCommit
  <2>2. PushedOut(held[w])
    BY <1>8, <2>1, NeitherPendingNorRemembered DEF CommitStale
  <2> QED BY <1>0, <1>8, <2>2, TrueAnswer DEF CommitStale
<1>9. ASSUME NEW classified \in SUBSET Event, CommitLoad(w, classified)
      PROVE  AnswerInv(w)'
  <2>1. CASE Answered(w, "unclassified")
    BY <1>0, <2>1, TrueAnswer
  <2>2. CASE ~Answered(w, "unclassified")
    <3>1. /\ pc'[w] = "committing" /\ snap'[w] = cursor /\ held' = held
          /\ reply'[w] = None
      BY <1>9, <2>2 DEF CommitLoad, TypeOK, LocalTypeOK
    <3>2. reply'[w] \notin {"committed", "idempotent", "stale"}
      BY <3>1, NoneAssumption
    <3> QED BY <1>0, <1>2, <3>1, <3>2 DEF AnswerInv
  <2> QED BY <2>1, <2>2
<1>10. CASE CommitLoses(w)
  <2>1. held[w] \in Elements(history)
    BY <1>0, <1>10 DEF CommitLoses, CasMatches, AnswerInv
  <2>2. held' = held /\ reply' = reply /\ pc'[w] = "commit-lost"
    BY <1>10 DEF CommitLoses, TypeOK, LocalTypeOK
  <2> QED BY <1>0, <1>2, <2>1, <2>2 DEF AnswerInv, PushedOut
<1>11. CASE CommitRecheck(w)
  <2>1. held[w] # None /\ held[w] \in Elements(history)
    BY <1>0, <1>11, HoldsToken DEF CommitRecheck, AnswerInv
  <2>2. CASE held[w] \in Elements(Current.committed_tokens)
    BY <1>0, <1>11, <2>1, <2>2, TrueAnswer DEF CommitRecheck
  <2>3. CASE held[w] \notin Elements(Current.committed_tokens)
    <3>1. PushedOut(held[w])
      BY <2>1, <2>3, NeitherPendingNorRemembered
    <3> QED BY <1>0, <1>11, <2>3, <3>1, TrueAnswer DEF CommitRecheck
  <2> QED BY <2>2, <2>3
<1>12. ~CommitRecheckFails(w)
  BY DEF CommitRecheckFails
<1> QED BY <1>5, <1>6, <1>7, <1>8, <1>9, <1>10, <1>11, <1>12 DEF Quiet

(* Staging: nothing was pending, so every token that is held by now has    *)
(* advanced the cursor.                                                    *)
LEMMA StageWinsAnswers ==
  ASSUME TypeOK, RevisionInv, AnswersInv, NEW w \in Wake, StageWins(w)
  PROVE  AnswersInv'
<1> USE StageWinsFacts
<1>0. history' = history /\ LocalTypeOK
  BY DEF StageWins, hist, TypeOK
<1>1. TokensInv'
  <2>1. Current'.committed_tokens = Current.committed_tokens
    BY DEF Cursor
  <2> QED BY <1>0, <2>1 DEF AnswersInv, TokensInv
<1>2. ASSUME NEW v \in Wake
      PROVE  /\ held[v] # None => held[v] \in Elements(history)
             /\ pc[v] = "committing" => held[v] \in Elements(history)
  BY DEF AnswersInv, AnswerInv, RevisionInv, WakeInv, IsPending
<1>3. ASSUME NEW v \in Wake, held'[v] = held[v], reply'[v] = reply[v],
             pc'[v] = pc[v] \/ pc'[v] = "stage-lost"
      PROVE  AnswerInv(v)'
  BY <1>0, <1>2, <1>3 DEF AnswersInv, AnswerInv, PushedOut
<1>4. AnswerInv(w)'
  <2>1. CASE Shown(w, plan[w].token)
    BY <1>0, <2>1, ShownAnswer
  <2>2. CASE ~Shown(w, plan[w].token)
    <3>1. held'[w] = held[w] /\ reply'[w] = reply[w] /\ pc'[w] = "stage-lost"
      BY <2>2 DEF StageWins, TypeOK, LocalTypeOK
    <3> QED BY <1>3, <3>1
  <2> QED BY <2>1, <2>2
<1>5. \A v \in Wake : AnswerInv(v)'
  BY <1>3, <1>4 DEF OnlyWake
<1> QED BY <1>1, <1>5 DEF AnswersInv

(* Committing: whoever held the pending token holds one that has advanced  *)
(* the cursor now, and the document remembers it.                          *)
LEMMA CommitWinsAnswers ==
  ASSUME TypeOK, RevisionInv, AnswersInv, NEW w \in Wake, CommitWins(w)
  PROVE  AnswersInv'
<1> USE CommitWinsFacts
<1>0. /\ history' = Append(history, held[w]) /\ history \in Seq(Token)
      /\ LocalTypeOK /\ TokenCap \in Nat \ {0}
  BY CursorAssumption DEF CommitWins, TypeOK
<1>1. TokensInv'
  <2>1. Current'.committed_tokens
          = LastN(Append(Current.committed_tokens, held[w]), TokenCap)
    BY DEF CommittedCursor
  <2>2. LastN(Append(LastN(history, TokenCap), held[w]), TokenCap)
          = LastN(Append(history, held[w]), TokenCap)
    BY <1>0, LastNOfAppend
  <2> QED BY <1>0, <2>1, <2>2 DEF AnswersInv, TokensInv
<1>2. /\ Len(history') = Len(history) + 1 /\ Len(history) \in Nat
      /\ history' \in Seq(Token)
      /\ history'[Len(history) + 1] = held[w]
      /\ \A k \in 1..Len(history) : history'[k] = history[k]
  BY <1>0
<1>3. \A t : t \in Elements(history) \cup {held[w]} => t \in Elements(history)'
  BY <1>0, <1>2 DEF Elements
<1>4. ASSUME NEW t, PushedOut(t) PROVE PushedOut(t)'
  <2>1. PICK k \in 1..Len(history) : history[k] = t /\ Len(history) - k >= TokenCap
    BY <1>4 DEF PushedOut
  <2>2. /\ k \in 1..Len(history') /\ history'[k] = t
        /\ Len(history') - k >= TokenCap
    BY <1>0, <1>2, <2>1
  <2> QED BY <2>2 DEF PushedOut
<1>5. ASSUME NEW v \in Wake
      PROVE  /\ held[v] # None => held[v] \in Elements(history)'
             /\ pc[v] = "committing" => held[v] \in Elements(history)'
             /\ pc[v] = "commit-lost" => held[v] \in Elements(history)'
             /\ reply[v] \in {"committed", "idempotent"} =>
                  held[v] \in Elements(history)'
  BY <1>3 DEF AnswersInv, AnswerInv, RevisionInv, WakeInv
<1>6. ASSUME NEW v \in Wake, held'[v] = held[v], reply'[v] = reply[v],
             pc'[v] = pc[v] \/ (pc'[v] = "commit-lost" /\ v = w)
      PROVE  AnswerInv(v)'
  <2>1. PICK t : t = held[v]
    OBVIOUS
  <2>2. reply[v] = "stale" => PushedOut(t)'
    BY <1>4, <2>1 DEF AnswersInv, AnswerInv
  <2> QED BY <1>3, <1>5, <1>6, <2>1, <2>2 DEF AnswerInv
<1>7. AnswerInv(w)'
  <2>1. CASE Answered(w, "committed")
    <3>1. pc'[w] = "answered" /\ held'[w] = held[w] /\ reply'[w] = "committed"
      BY <1>0, <2>1 DEF Answered, LocalTypeOK
    <3> QED BY <1>3, <3>1 DEF AnswerInv
  <2>2. CASE ~Answered(w, "committed")
    <3>1. held'[w] = held[w] /\ reply'[w] = reply[w] /\ pc'[w] = "commit-lost"
      BY <2>2 DEF CommitWins, TypeOK, LocalTypeOK
    <3> QED BY <1>6, <3>1
  <2> QED BY <2>1, <2>2
<1>8. \A v \in Wake : AnswerInv(v)'
  BY <1>6, <1>7 DEF OnlyWake
<1> QED BY <1>1, <1>8 DEF AnswersInv

(* Every step preserves the invariant.                                     *)
LEMMA NextAnswers ==
  ASSUME ~RecheckMayFail
  PROVE  TypeOK /\ RevisionInv /\ AnswersInv /\ [Next]_vars => AnswersInv'
<1> SUFFICES ASSUME TypeOK, RevisionInv, AnswersInv, [Next]_vars PROVE AnswersInv'
  OBVIOUS
<1>1. CASE TrackStep \/ UNCHANGED vars
  <2>1. UNCHANGED durable /\ UNCHANGED <<pc, snap, held, reply, cursor, history>>
    BY <1>1 DEF TrackStep, vars, local, hist, durable
  <2>2. Current' = Current /\ IsPending' = IsPending
    BY <2>1, DurableUntouched
  <2> QED BY <2>1, <2>2 DEF AnswersInv, TokensInv, AnswerInv, PushedOut
<1>2. ASSUME NEW w \in Wake, Quiet(w) PROVE AnswersInv'
  BY <1>2, QuietAnswers
<1>3. ASSUME NEW w \in Wake, StageWins(w) PROVE AnswersInv'
  BY <1>3, StageWinsAnswers
<1>4. ASSUME NEW w \in Wake, CommitWins(w) PROVE AnswersInv'
  BY <1>4, CommitWinsAnswers
<1> QED BY <1>1, <1>2, <1>3, <1>4 DEF Next, WakeStep, Quiet, Peek

(* The initial states satisfy it: no token, no answer.                     *)
LEMMA InitAnswers == Init => AnswersInv
<1> SUFFICES ASSUME Init PROVE AnswersInv
  OBVIOUS
<1>1. Current.committed_tokens = << >> /\ history = << >>
  BY DEF Init, Current, Base, initial_v2_cursor
<1>2. LastN(<< >>, TokenCap) = << >>
  BY CursorAssumption DEF LastN
<1>3. \A w \in Wake : held[w] = None /\ pc[w] = "idle" /\ reply[w] = None
  BY DEF Init
<1>4. None \notin {"committed", "idempotent", "stale"}
  BY NoneAssumption
<1> QED BY <1>1, <1>2, <1>3, <1>4 DEF AnswersInv, TokensInv, AnswerInv

(* The invariant says that the answers are true: a token stands at one     *)
(* place among the commits only.                                           *)
LEMMA AnswersFollow ==
  ASSUME TypeOK, CommittedOnce, AnswersInv
  PROVE  AnswersAreTrue
<1>0. history \in Seq(Token) /\ Len(history) \in Nat
  BY DEF TypeOK
<1>1. ASSUME NEW t, NEW k \in 1..Len(history), history[k] = t
      PROVE  CommitIndex(t) = k
  <2>1. t \in Elements(history)
    BY <1>0, <1>1 DEF Elements
  <2>2. PICK j : j = CommitIndex(t)
    OBVIOUS
  <2>3. j \in 1..Len(history) /\ history[j] = t
    BY <1>1, <2>1, <2>2 DEF CommitIndex
  <2>4. j - 1 = k - 1
    BY <1>1, <2>3 DEF CommittedOnce
  <2> QED BY <2>2, <2>3, <2>4
<1>2. ASSUME NEW t \in Elements(history) PROVE CommitIndex(t) > 0
  <2>1. PICK k \in 1..Len(history) : history[k] = t
    BY <1>0, <1>2 DEF Elements
  <2> QED BY <1>1, <2>1
<1>3. ASSUME NEW t, PushedOut(t)
      PROVE  CommitIndex(t) > 0 /\ Len(history) - CommitIndex(t) >= TokenCap
  <2>1. PICK k \in 1..Len(history) : history[k] = t /\ Len(history) - k >= TokenCap
    BY <1>3 DEF PushedOut
  <2>2. CommitIndex(t) = k
    BY <1>1, <2>1
  <2> QED BY <2>1, <2>2
<1> QED BY <1>2, <1>3 DEF AnswersInv, AnswerInv, AnswersAreTrue

(* The answers of `queue commit` are true, for any number of wakes that    *)
(* race, die and lose replies, and any caps, as long as the read that      *)
(* follows a lost reply succeeds (when it fails as well,                   *)
(* commit_v2_delivery answers like a lost race, and that may be wrong).    *)
THEOREM CommitAnswersAreTrue ==
  ASSUME ~RecheckMayFail
  PROVE  Spec => []AnswersAreTrue
<1>1. Init => TypeOK /\ RevisionInv /\ AnswersInv
  BY InitRevision, InitAnswers
<1>2. TypeOK /\ RevisionInv /\ AnswersInv /\ [Next]_vars
        => TypeOK' /\ RevisionInv' /\ AnswersInv'
  BY NextRevision, NextAnswers
<1>3. TypeOK /\ RevisionInv /\ AnswersInv => AnswersAreTrue
  BY AnswersFollow DEF RevisionInv
<1> QED BY <1>1, <1>2, <1>3, PTL DEF Spec

-----------------------------------------------------------------------------
(* No event is handled twice while the memory holds what the windows       *)
(* overlap on.                                                             *)

(* The write rate stays bounded: a new event finds fewer than BurstCap     *)
(* others less than Burst away from its date.                              *)
LEMMA RateStays ==
  ASSUME TypeOK, RateInv, TrackNext
  PROVE  RateInv' /\ sent \subseteq sent' /\ \A e \in sent : at'[e] = at[e]
<1>0. /\ sent \subseteq Event /\ at \in [Event -> Int] /\ clock \in Nat
      /\ Burst \in Nat /\ BurstCap \in Nat
  BY TrackAssumption DEF TypeOK, TrackTypeOK
<1>1. CASE UNCHANGED <<sent, at>>
  BY <1>1 DEF RateInv
<1>2. ASSUME NEW e \in Event, NEW d \in Leads, Emit(e, d)
      PROVE  RateInv' /\ sent \subseteq sent' /\ \A f \in sent : at'[f] = at[f]
  <2>1. PICK date \in Int : date = clock + d
    BY <1>0, TrackAssumption
  <2>2. /\ e \notin sent /\ sent' = sent \cup {e} /\ at' = [at EXCEPT ![e] = date]
        /\ Cardinality(Crowd(date)) < BurstCap
    BY <1>2, <2>1 DEF Emit
  <2>3. at'[e] = date /\ \A f \in sent : at'[f] = at[f] /\ at[f] \in Int
    BY <1>0, <2>2
  <2>4. ASSUME NEW S \in SUBSET sent', \A f, g \in S : at'[f] - at'[g] < Burst
        PROVE  Cardinality(S) <= BurstCap
    <3>1. CASE e \notin S
      <4>1. S \in SUBSET sent
        BY <2>2, <3>1
      <4>2. \A f, g \in S : at[f] - at[g] < Burst
        BY <2>3, <2>4, <4>1
      <4> QED BY <4>1, <4>2 DEF RateInv
    <3>2. CASE e \in S
      <4> DEFINE T == S \ {e}
      <4>1. T \subseteq sent /\ \A f \in T : at'[f] = at[f] /\ at[f] \in Int
        BY <2>2, <2>3
      <4>2. \A f \in T : date - at[f] < Burst /\ at[f] - date < Burst
        BY <2>3, <2>4, <3>2, <4>1
      <4>3. \A f \in T : at[f] > date - Burst /\ at[f] < date + Burst
        BY <1>0, <4>1, <4>2
      <4>4. T \subseteq Crowd(date)
        BY <4>1, <4>3 DEF Crowd
      <4>5. IsFiniteSet(Event) /\ Crowd(date) \subseteq Event /\ S \subseteq Event
        BY <1>0, <2>2, TrackAssumption DEF Crowd
      <4>6. IsFiniteSet(Crowd(date)) /\ IsFiniteSet(S) /\ Cardinality(S) \in Nat
            /\ Cardinality(Crowd(date)) \in Nat
        BY <4>5, FS_Subset, FS_CardinalityType
      <4>7. Cardinality(T) <= Cardinality(Crowd(date))
        BY <4>4, <4>6, FS_Subset
      <4>8. Cardinality(T) = Cardinality(S) - 1
        BY <3>2, <4>6, FS_RemoveElement
      <4> QED BY <1>0, <2>2, <4>6, <4>7, <4>8
    <3> QED BY <3>1, <3>2
  <2>5. RateInv'
    BY <2>4 DEF RateInv
  <2> QED BY <2>2, <2>3, <2>5
<1>3. CASE ~\E e \in Event : \E d \in Leads : Emit(e, d)
  BY <1>1, <1>3 DEF TrackNext, Tick, Index
<1> QED BY <1>2, <1>3

(* What is said of the events of a delivery stays true: dates do not       *)
(* change.                                                                 *)
LEMMA BatchStays ==
  ASSUME NEW p \in Delivery, BatchInv(p), sent \subseteq sent',
         \A e \in sent : at'[e] = at[e]
  PROVE  BatchInv(p)'
<1>1. p.events \in Seq(Event)
  BY DEF Delivery
<1>2. \A i \in 1..Len(p.events) : p.events[i] \in sent
  BY <1>1 DEF BatchInv, Elements
<1>3. \A i \in 1..Len(p.events) : at'[p.events[i]] = at[p.events[i]]
  BY <1>2
<1>4. (Elements(p.events) \subseteq sent)'
  BY DEF BatchInv, Elements
<1>5. \A i, j \in 1..Len(p.events) :
        i < j => p.events[i] # p.events[j] /\ at'[p.events[i]] <= at'[p.events[j]]
  BY <1>3 DEF BatchInv
<1>6. \A i \in 1..Len(p.events) :
        p.window_start <= at'[p.events[i]] /\ at'[p.events[i]] <= p.window_end
  BY <1>3 DEF BatchInv
<1> QED BY <1>4, <1>5, <1>6 DEF BatchInv

(* What is said of the ledger stays true while document and ledger stay.   *)
LEMMA LedgerStays ==
  ASSUME TypeOK, LedgerInv, ledger' = ledger,
         Current'.seen_ids = Current.seen_ids, Current'.last_read = Current.last_read,
         sent \subseteq sent', \A e \in sent : at'[e] = at[e]
  PROVE  LedgerInv'
<1>1. \A i \in 1..Len(ledger) : ledger[i] \in sent
  BY DEF LedgerInv, Elements, TypeOK
<1>2. \A i \in 1..Len(ledger) : at'[ledger[i]] = at[ledger[i]]
  BY <1>1
<1>3. (Elements(ledger) \subseteq sent)'
  BY DEF LedgerInv, Elements
<1>4. \A i \in 1..Len(ledger) :
        Current'.last_read # None /\ at'[ledger[i]] <= Current'.last_read
  BY <1>2 DEF LedgerInv
<1>5. \A i, j \in 1..Len(ledger) :
        i < j => ledger[i] # ledger[j] /\ at'[ledger[i]] - Skew <= at'[ledger[j]]
  BY <1>2 DEF LedgerInv
<1> QED BY <1>3, <1>4, <1>5 DEF LedgerInv

(* The deliveries that are pending or planned, while dates do not change.  *)
LEMMA PlansStay ==
  ASSUME TypeOK, RevisionInv, MemoryInv, sent \subseteq sent',
         \A e \in sent : at'[e] = at[e]
  PROVE  /\ IsPending /\ cursor'.pending = cursor.pending => BatchInv(cursor.pending)'
         /\ \A w \in Wake : pc[w] = "staging" /\ plan'[w] = plan[w] =>
              BatchInv(plan[w])'
<1>1. ASSUME IsPending, cursor'.pending = cursor.pending
      PROVE  BatchInv(cursor.pending)'
  <2>1. PICK p : p = cursor.pending
    OBVIOUS
  <2>2. p \in Delivery /\ BatchInv(p)
    BY <1>1, <2>1, PendingTyped DEF MemoryInv
  <2>3. BatchInv(p)'
    BY <2>2, BatchStays
  <2> QED BY <1>1, <2>1, <2>3
<1>2. ASSUME NEW w \in Wake, pc[w] = "staging", plan'[w] = plan[w]
      PROVE  BatchInv(plan[w])'
  <2>1. PICK p : p = plan[w]
    OBVIOUS
  <2>2. p \in Delivery /\ BatchInv(p)
    BY <1>2, <2>1 DEF MemoryInv, RevisionInv, WakeInv, TypeOK, LocalTypeOK
  <2>3. BatchInv(p)'
    BY <2>2, BatchStays
  <2> QED BY <1>2, <2>1, <2>3
<1> QED BY <1>1, <1>2

(* A window read lists distinct events of the window, oldest first.        *)
LEMMA ReadWindowBatch ==
  ASSUME TypeOK, RevisionInv, NEW w \in Wake, ReadWindow(w)
  PROVE  BatchInv(plan[w])'
<1> DEFINE doc == Base(snap[w])
<1>1. PICK events \in NewestLast(Fresh(w)) :
        plan' = [plan EXCEPT ![w] = StagedDelivery(doc, now[w], events)]
  BY DEF ReadWindow
<1>2. /\ Fresh(w) \in SUBSET Event /\ Fresh(w) \subseteq sent
      /\ \A e \in Fresh(w) : WindowStart(doc, now[w]) <= at[e] /\ at[e] <= now[w]
  BY DEF Fresh, Window, TypeOK, TrackTypeOK
<1>3. events \in Seq(Event) /\ Elements(events) = Fresh(w)
  BY <1>2, ListingOfSet
<1>4. DOMAIN events = 1..Len(events)
  BY <1>3
<1>5. \A i, j \in 1..Len(events) :
        i < j => events[i] # events[j] /\ at[events[i]] <= at[events[j]]
  BY <1>4 DEF NewestLast
<1>6. \A i \in 1..Len(events) : events[i] \in Fresh(w)
  BY <1>3, <1>4 DEF Elements
<1> DEFINE p == StagedDelivery(doc, now[w], events)
<1>7. /\ p.window_end = now[w] /\ p.events = events
      /\ p.window_start = WindowStart(doc, now[w])
  BY DEF StagedDelivery
<1>8. plan'[w] = p /\ sent' = sent /\ at' = at
  <2> HIDE DEF p
  <2> QED BY <1>1 DEF ReadWindow, TypeOK, LocalTypeOK, track, p
<1> HIDE DEF p, doc
<1>9. BatchInv(p)
  BY <1>2, <1>3, <1>5, <1>6, <1>7 DEF BatchInv
<1> QED BY <1>8, <1>9 DEF BatchInv, Elements

(* The steps of a wake that do not change the document.                    *)
LEMMA QuietMemory ==
  ASSUME TypeOK, RevisionInv, MemoryInv, NEW w \in Wake, Quiet(w)
  PROVE  MemoryInv'
<1>1. UNCHANGED durable /\ UNCHANGED track
  BY DEF Quiet, durable, hist, Replay, LoadCursor, TakeNow, ReadWindow,
    StageLoses, ShowWinner, CommitIdempotent, CommitStale, CommitLoad,
    CommitLoses, CommitRecheck, CommitRecheckFails, WakeEnds, WindowUnknown, Crash
<1>2. OnlyWake(w)
  BY DEF Quiet, OnlyWake, Replay, LoadCursor, TakeNow, ReadWindow,
    StageLoses, ShowWinner, CommitIdempotent, CommitStale, CommitLoad,
    CommitLoses, CommitRecheck, CommitRecheckFails, WakeEnds, WindowUnknown,
    Crash, Shown, Gone, Answered, TypeOK, LocalTypeOK
<1>3. /\ Current' = Current /\ IsPending' = IsPending
      /\ UNCHANGED <<cursor, ledger, sent, at>>
  BY <1>1, DurableUntouched DEF durable, track
<1>4. RateInv' /\ LedgerInv'
  BY <1>3, LedgerStays DEF MemoryInv, RateInv
<1>5. /\ (IsPending => BatchInv(cursor.pending))'
      /\ \A v \in Wake : pc[v] = "staging" /\ plan'[v] = plan[v] => BatchInv(plan[v])'
  BY <1>3, PlansStay
<1>6. ASSUME pc'[w] = "staging" PROVE BatchInv(plan[w])'
  <2>1. CASE ReadWindow(w)
    BY <2>1, ReadWindowBatch
  <2>2. CASE ~ReadWindow(w)
    BY <1>6, <2>2 DEF Quiet, Replay, LoadCursor, TakeNow, StageLoses, ShowWinner,
      CommitIdempotent, CommitStale, CommitLoad, CommitLoses, CommitRecheck,
      CommitRecheckFails, WakeEnds, WindowUnknown, Crash, Shown, Gone, Answered,
      TypeOK, LocalTypeOK
  <2> QED BY <2>1, <2>2
<1>7. \A v \in Wake : pc'[v] = "staging" => BatchInv(plan[v])'
  BY <1>2, <1>5, <1>6 DEF OnlyWake
<1> QED BY <1>4, <1>5, <1>7 DEF MemoryInv

(* Staging puts the planned delivery into the document.                    *)
LEMMA StageWinsMemory ==
  ASSUME TypeOK, RevisionInv, MemoryInv, NEW w \in Wake, StageWins(w)
  PROVE  MemoryInv'
<1> USE StageWinsFacts
<1>1. UNCHANGED <<ledger, sent, at>> /\ pc[w] = "staging"
  BY DEF StageWins, hist, track
<1>2. RateInv' /\ LedgerInv'
  BY <1>1, LedgerStays DEF MemoryInv, RateInv
<1>3. BatchInv(cursor.pending)'
  <2>1. PICK p : p = plan[w]
    OBVIOUS
  <2>2. BatchInv(p)
    BY <1>1, <2>1 DEF MemoryInv
  <2>3. BatchInv(p)'
    BY <1>1, <2>1, <2>2, BatchStays
  <2> QED BY <2>1, <2>3
<1>4. pc'[w] # "staging"
  BY DEF StageWins, Shown, TypeOK, LocalTypeOK
<1>5. \A v \in Wake : pc'[v] = "staging" => BatchInv(plan[v])'
  BY <1>1, <1>4, PlansStay DEF OnlyWake
<1> QED BY <1>2, <1>3, <1>5 DEF MemoryInv

(* The heart of it: an event that was handled is not in the pending        *)
(* delivery.  It would have been forgotten, so SeenCap events were handled *)
(* after it; all of them are dated within the overlap on either side of    *)
(* it, which are more than the write rate allows.                          *)
LEMMA NotAgain ==
  ASSUME BurstCap <= SeenCap, 2 * Skew < Burst,
         TypeOK, RevisionInv, ClockInv, MemoryInv, IsPending,
         NEW i \in 1..Len(ledger)
  PROVE  ledger[i] \notin Elements(cursor.pending.events)
<1> SUFFICES ASSUME ledger[i] \in Elements(cursor.pending.events) PROVE FALSE
  OBVIOUS
<1>1. PICK n \in Nat : n = Len(ledger) /\ ledger \in Seq(Event)
  BY DEF TypeOK
<1>2. PICK e : e = ledger[i]
  OBVIOUS
<1>3. PICK p : p = cursor.pending
  OBVIOUS
<1>4. /\ Skew \in Nat /\ SeenCap \in Nat /\ Burst \in Nat /\ BurstCap \in Nat
      /\ at \in [Event -> Int] /\ sent \subseteq Event /\ IsFiniteSet(Event)
      /\ IsFiniteSet(sent)
  BY CursorAssumption, TrackAssumption, FS_Subset DEF TypeOK, TrackTypeOK
<1>5. Current = cursor
  BY DEF Current, Base, IsPending
<1>6. \A j \in 1..n : ledger[j] \in sent /\ at[ledger[j]] \in Int
  BY <1>1, <1>4 DEF MemoryInv, LedgerInv, Elements
<1>7. e \notin Elements(LastN(ledger, SeenCap))
  BY <1>2, <1>5 DEF RevisionInv, FitsRevision, MemoryInv, LedgerInv
<1>8. n - i >= SeenCap
  <2>1. ~(Len(ledger) - i < SeenCap)
    BY <1>1, <1>2, <1>4, <1>7, LastNRemembers
  <2> QED BY <1>1, <1>4, <2>1
<1>9. cursor.last_read \in Int /\ \A j \in 1..n : at[ledger[j]] <= cursor.last_read
  <2>1. cursor.last_read # None /\ \A j \in 1..n : at[ledger[j]] <= cursor.last_read
    BY <1>1, <1>5 DEF MemoryInv, LedgerInv
  <2> QED BY <1>5, <2>1, TimesTyped
<1>10. p.window_start = cursor.last_read - Skew
  BY <1>3, <1>9, NoneAssumption DEF ClockInv, Continues, WindowStart
<1>11. at[e] \in Int /\ cursor.last_read - Skew <= at[e]
  <2>1. p.events \in Seq(Event)
    BY <1>3, PendingTyped DEF Delivery
  <2>2. PICK k \in 1..Len(p.events) : p.events[k] = e
    BY <1>2, <1>3, <2>1 DEF Elements
  <2>3. p.window_start <= at[e]
    BY <1>3, <2>2 DEF MemoryInv, BatchInv
  <2> QED BY <1>1, <1>2, <1>6, <1>10, <2>3
<1>12. \A j \in i..n : at[e] - Skew <= at[ledger[j]] /\ at[ledger[j]] <= at[e] + Skew
  <2> SUFFICES ASSUME NEW j \in i..n
               PROVE  at[e] - Skew <= at[ledger[j]] /\ at[ledger[j]] <= at[e] + Skew
    OBVIOUS
  <2>1. j \in 1..n /\ (j = i \/ i < j)
    BY <1>1
  <2>2. at[e] - Skew <= at[ledger[j]]
    <3>1. CASE j = i
      BY <1>2, <1>4, <1>11, <3>1
    <3>2. CASE i < j
      BY <1>1, <1>2, <2>1, <3>2 DEF MemoryInv, LedgerInv
    <3> QED BY <2>1, <3>1, <3>2
  <2>3. at[ledger[j]] <= at[e] + Skew
    BY <1>4, <1>6, <1>9, <1>11, <2>1
  <2> QED BY <2>2, <2>3
<1> DEFINE T == {ledger[j] : j \in i..n}
<1>13. T \in SUBSET sent
  BY <1>1, <1>6
<1>14. \A f \in T : at[f] \in Int /\ at[e] - Skew <= at[f] /\ at[f] <= at[e] + Skew
  BY <1>1, <1>6, <1>12
<1>15. \A j, k \in 1..Len(ledger) : j < k => ledger[j] # ledger[k]
  BY DEF MemoryInv, LedgerInv
<1>16. Cardinality(T) \in Nat /\ Cardinality(T) >= n - i + 1
  <2>1. T = {ledger[j] : j \in i..Len(ledger)}
    BY <1>1
  <2> HIDE DEF T
  <2> QED BY <1>1, <1>4, <1>15, <2>1, DistinctElements
<1> HIDE DEF T
<1>17. \A f, g \in T : at[f] - at[g] < Burst
  BY <1>4, <1>11, <1>14
<1>18. Cardinality(T) <= BurstCap
  BY <1>13, <1>17 DEF MemoryInv, RateInv
<1> QED BY <1>1, <1>4, <1>8, <1>16, <1>18

(* A date less the overlap is not later than what the date is not later    *)
(* than.                                                                   *)
LEMMA LessTheOverlap ==
  ASSUME NEW a \in Int, NEW b \in Int, NEW skew \in Nat, a <= b
  PROVE  a - skew <= b
OBVIOUS

(* Committing appends the pending delivery to the ledger.                  *)
LEMMA CommitWinsMemory ==
  ASSUME BurstCap <= SeenCap, 2 * Skew < Burst,
         TypeOK, RevisionInv, ClockInv, MemoryInv, NEW w \in Wake, CommitWins(w)
  PROVE  MemoryInv'
<1> USE CommitWinsFacts
<1>1. UNCHANGED <<sent, at>>
  BY DEF CommitWins, track
<1>2. PICK p : p = cursor.pending
  OBVIOUS
<1>3. PICK n \in Nat, m \in Nat : n = Len(ledger) /\ m = Len(p.events)
      /\ ledger \in Seq(Event) /\ p.events \in Seq(Event)
  <2>1. ledger \in Seq(Event) /\ p.events \in Seq(Event)
    BY <1>2 DEF TypeOK, Delivery
  <2> QED BY <2>1
<1>4. /\ ledger' \in Seq(Event) /\ Len(ledger') = n + m
      /\ \A i \in 1..(n + m) :
           ledger'[i] = IF i <= n THEN ledger[i] ELSE p.events[i - n]
  BY <1>2, <1>3, ConcatProperties
<1>5. /\ Skew \in Nat /\ SeenCap \in Nat /\ at \in [Event -> Int]
      /\ sent \subseteq Event /\ p.window_start \in Int /\ p.window_end \in Int
      /\ cursor.last_read \in Int \cup {None}
  BY <1>2, CursorAssumption, TimesTyped DEF TypeOK, TrackTypeOK
<1>6. /\ Current'.last_read = p.window_end
      /\ Current'.seen_ids = LastN(cursor.seen_ids \o p.events, SeenCap)
  BY <1>2 DEF CommittedCursor
<1>7. \A i \in 1..n : /\ ledger[i] \in sent /\ at[ledger[i]] \in Int
                      /\ cursor.last_read \in Int /\ at[ledger[i]] <= cursor.last_read
  <2>1. Elements(ledger) \subseteq sent /\ DOMAIN ledger = 1..n
    BY <1>3 DEF MemoryInv, LedgerInv
  <2>2. \A i \in 1..n : ledger[i] \in sent
    BY <2>1 DEF Elements
  <2>3. \A i \in 1..n : cursor.last_read # None /\ at[ledger[i]] <= cursor.last_read
    BY <1>3 DEF MemoryInv, LedgerInv
  <2> QED BY <1>5, <2>2, <2>3
<1>8. \A i \in 1..m : /\ p.events[i] \in sent /\ at[p.events[i]] \in Int
                      /\ p.window_start <= at[p.events[i]]
                      /\ at[p.events[i]] <= p.window_end
  <2>1. BatchInv(p) /\ DOMAIN p.events = 1..m
    BY <1>2, <1>3 DEF MemoryInv
  <2>2. \A i \in 1..m : p.events[i] \in sent
    BY <2>1 DEF BatchInv, Elements
  <2> QED BY <1>3, <1>5, <2>1, <2>2 DEF BatchInv
<1>9. cursor.last_read \in Int =>
        cursor.last_read <= p.window_end /\ p.window_start = cursor.last_read - Skew
  BY <1>2, NoneAssumption DEF ClockInv, Continues, WindowStart
<1>10. ASSUME NEW i \in 1..(n + m)
       PROVE  IF i <= n THEN i \in 1..n /\ ledger'[i] = ledger[i]
              ELSE i - n \in 1..m /\ ledger'[i] = p.events[i - n]
  BY <1>3, <1>4
<1>11. Current'.seen_ids = LastN(ledger', SeenCap)
  <2>1. cursor.seen_ids = LastN(ledger, SeenCap)
    BY DEF MemoryInv, LedgerInv
  <2>2. LastN(LastN(ledger, SeenCap) \o p.events, SeenCap)
          = LastN(ledger \o p.events, SeenCap)
    BY <1>3, <1>5, LastNOfConcat
  <2> QED BY <1>2, <1>6, <2>1, <2>2
<1>12. ASSUME NEW i \in 1..(n + m)
       PROVE  ledger'[i] \in sent /\ at[ledger'[i]] <= p.window_end
  <2>1. CASE i <= n
    BY <1>5, <1>7, <1>9, <1>10, <2>1
  <2>2. CASE ~(i <= n)
    BY <1>8, <1>10, <2>2
  <2> QED BY <2>1, <2>2
<1>13. ASSUME NEW i \in 1..(n + m), NEW j \in 1..(n + m), i < j
       PROVE  ledger'[i] # ledger'[j] /\ at[ledger'[i]] - Skew <= at[ledger'[j]]
  <2>1. CASE j <= n
    <3>1. i \in 1..n /\ j \in 1..n
      BY <1>3, <1>13, <2>1
    <3>2. ledger'[i] = ledger[i] /\ ledger'[j] = ledger[j]
      BY <1>10, <3>1
    <3> QED BY <1>3, <1>13, <3>1, <3>2 DEF MemoryInv, LedgerInv
  <2>2. CASE i <= n /\ ~(j <= n)
    <3>1. /\ i \in 1..n /\ ledger'[i] = ledger[i]
          /\ j - n \in 1..m /\ ledger'[j] = p.events[j - n]
      BY <1>10, <2>2
    <3>2. ledger[i] # p.events[j - n]
      <4>1. ledger[i] \notin Elements(p.events)
        BY <1>2, <1>3, <3>1, NotAgain
      <4> QED BY <1>3, <3>1, <4>1 DEF Elements
    <3>3. /\ at[ledger[i]] \in Int /\ cursor.last_read \in Int
          /\ at[ledger[i]] <= cursor.last_read
      BY <1>7, <3>1
    <3>4. p.window_start <= at[p.events[j - n]] /\ at[p.events[j - n]] \in Int
      BY <1>8, <3>1
    <3>5. at[ledger[i]] - Skew <= at[p.events[j - n]]
      BY <1>5, <1>9, <3>3, <3>4
    <3> QED BY <3>1, <3>2, <3>5
  <2>3. CASE ~(i <= n)
    <3>1. ~(j <= n)
      BY <1>3, <1>13, <2>3
    <3>2. /\ i - n \in 1..m /\ ledger'[i] = p.events[i - n]
          /\ j - n \in 1..m /\ ledger'[j] = p.events[j - n] /\ i - n < j - n
      BY <1>3, <1>10, <1>13, <2>3, <3>1
    <3>3. /\ p.events[i - n] # p.events[j - n]
          /\ at[p.events[i - n]] <= at[p.events[j - n]]
      <4>1. \A k, l \in 1..m : k < l => p.events[k] # p.events[l]
                                      /\ at[p.events[k]] <= at[p.events[l]]
        BY <1>2, <1>3 DEF MemoryInv, BatchInv
      <4> QED BY <3>2, <4>1
    <3>4. at[p.events[i - n]] \in Int /\ at[p.events[j - n]] \in Int
      BY <1>8, <3>2
    <3>5. at[p.events[i - n]] - Skew <= at[p.events[j - n]]
      BY <1>5, <3>3, <3>4, LessTheOverlap
    <3> QED BY <3>2, <3>3, <3>5
  <2> QED BY <2>1, <2>2, <2>3
<1>14. LedgerInv'
  <2>1. (Elements(ledger) \subseteq sent)'
    BY <1>1, <1>4, <1>12 DEF Elements
  <2>2. p.window_end # None
    BY <1>5, NoneAssumption
  <2> QED BY <1>1, <1>4, <1>6, <1>11, <1>12, <1>13, <2>1, <2>2 DEF LedgerInv
<1>15. RateInv'
  BY <1>1 DEF MemoryInv, RateInv
<1>16. pc'[w] # "staging"
  BY DEF CommitWins, Answered, TypeOK, LocalTypeOK
<1>17. \A v \in Wake : pc'[v] = "staging" => BatchInv(plan[v])'
  BY <1>1, <1>16, PlansStay DEF OnlyWake
<1> QED BY <1>14, <1>15, <1>17 DEF MemoryInv

(* Every step preserves the invariant.                                     *)
LEMMA NextMemory ==
  ASSUME BurstCap <= SeenCap, 2 * Skew < Burst
  PROVE  TypeOK /\ RevisionInv /\ ClockInv /\ MemoryInv /\ [Next]_vars => MemoryInv'
<1> SUFFICES ASSUME TypeOK, RevisionInv, ClockInv, MemoryInv, [Next]_vars
             PROVE  MemoryInv'
  OBVIOUS
<1>1. CASE TrackStep \/ UNCHANGED vars
  <2>1. UNCHANGED durable /\ UNCHANGED <<pc, plan, cursor, ledger>>
    BY <1>1 DEF TrackStep, vars, local, hist, durable
  <2>2. Current' = Current /\ IsPending' = IsPending
    BY <2>1, DurableUntouched
  <2>3. RateInv' /\ sent \subseteq sent' /\ \A e \in sent : at'[e] = at[e]
    <3>1. CASE TrackStep
      BY <3>1, RateStays DEF TrackStep, MemoryInv
    <3>2. CASE UNCHANGED vars
      BY <3>2 DEF vars, track, MemoryInv, RateInv
    <3> QED BY <1>1, <3>1, <3>2
  <2>4. LedgerInv'
    BY <2>1, <2>2, <2>3, LedgerStays DEF MemoryInv
  <2> QED BY <2>1, <2>2, <2>3, <2>4, PlansStay DEF MemoryInv
<1>2. ASSUME NEW w \in Wake, Quiet(w) PROVE MemoryInv'
  BY <1>2, QuietMemory
<1>3. ASSUME NEW w \in Wake, StageWins(w) PROVE MemoryInv'
  BY <1>3, StageWinsMemory
<1>4. ASSUME NEW w \in Wake, CommitWins(w) PROVE MemoryInv'
  BY <1>4, CommitWinsMemory
<1> QED BY <1>1, <1>2, <1>3, <1>4 DEF Next, WakeStep, Quiet, Peek

(* The initial states satisfy it: what the schema-1 cursor has seen is     *)
(* dated 0, like its last_read.                                            *)
LEMMA InitMemory == Init => MemoryInv
<1> SUFFICES ASSUME Init PROVE MemoryInv
  OBVIOUS
<1>0. /\ clock = 0 /\ at = [e \in Event |-> 0] /\ sent \in SUBSET Event
      /\ visible \in SUBSET sent /\ Cardinality(sent) <= BurstCap
      /\ Skew \in Nat /\ SeenCap \in Nat /\ BurstCap \in Nat /\ IsFiniteSet(Event)
  BY CursorAssumption, TrackAssumption DEF Init, TrackInit
<1>1. RateInv
  <2> SUFFICES ASSUME NEW S \in SUBSET sent PROVE Cardinality(S) <= BurstCap
    BY DEF RateInv
  <2>1. IsFiniteSet(sent) /\ IsFiniteSet(S)
    BY <1>0, FS_Subset
  <2>2. /\ Cardinality(S) <= Cardinality(sent)
        /\ Cardinality(S) \in Nat /\ Cardinality(sent) \in Nat
    BY <2>1, FS_Subset, FS_CardinalityType
  <2> QED BY <1>0, <2>2
<1>2. Current = initial_v2_cursor /\ ~IsPending
      /\ \A w \in Wake : pc[w] # "staging"
  BY DEF Init, Current, Base, IsPending
<1>3. LedgerInv
  <2>1. CASE legacy = None
    <3>1. ledger = << >> /\ Current.seen_ids = << >>
      BY <1>2, <2>1 DEF Init, initial_v2_cursor
    <3>2. LastN(<< >>, SeenCap) = << >> /\ Elements(<< >>) = {}
      BY <1>0 DEF LastN, Elements
    <3> QED BY <3>1, <3>2 DEF LedgerInv
  <2>2. CASE legacy # None
    <3>1. PICK S \in SUBSET visible : \E s \in NewestLast(S) :
            legacy = [last_read |-> clock, seen_ids |-> s]
      BY <2>2 DEF Init
    <3>2. PICK s \in NewestLast(S) : legacy = [last_read |-> clock, seen_ids |-> s]
      BY <3>1
    <3>3. S \in SUBSET Event /\ S \subseteq sent
      BY <1>0, <3>1
    <3>4. s \in Seq(Event) /\ Elements(s) = S
      BY <3>3, ListingOfSet
    <3>5. DOMAIN s = 1..Len(s) /\ \A i \in 1..Len(s) : s[i] \in Event
      BY <3>4
    <3>6. \A i, j \in 1..Len(s) : i < j => s[i] # s[j]
      BY <3>5 DEF NewestLast
    <3>7. \A i \in 1..Len(s) : at[s[i]] = 0
      BY <1>0, <3>5
    <3>8. /\ ledger = s /\ Current.last_read = 0
          /\ Current.seen_ids = LastN(s, SeenCap)
      BY <1>0, <1>2, <2>2, <3>2 DEF Init, initial_v2_cursor
    <3>9. 0 # None
      BY NoneAssumption
    <3>10. \A i, j \in 1..Len(s) : i < j => at[s[i]] - Skew <= at[s[j]]
      BY <1>0, <3>7
    <3> QED BY <3>3, <3>4, <3>6, <3>7, <3>8, <3>9, <3>10 DEF LedgerInv
  <2> QED BY <2>1, <2>2
<1> QED BY <1>1, <1>2, <1>3 DEF MemoryInv

(* No event is handled twice, for any number of wakes that race and die:   *)
(* no record is dated in the past (what CoverageLosesNothing needs too),   *)
(* and at most SEEN_IDS_CAP events are dated within any stretch of twice   *)
(* the overlap of the windows (2 * Skew < Burst and BurstCap <= SeenCap).  *)
THEOREM NothingHandledTwice ==
  ASSUME Leads \subseteq Nat, BurstCap <= SeenCap, 2 * Skew < Burst
  PROVE  Spec => []HandledOnce
<1>1. Init => TypeOK /\ RevisionInv /\ ClockInv /\ MemoryInv
  BY InitRevision, InitClock, InitMemory
<1>2. TypeOK /\ RevisionInv /\ ClockInv /\ MemoryInv /\ [Next]_vars
        => TypeOK' /\ RevisionInv' /\ ClockInv' /\ MemoryInv'
  BY NextRevision, NextClock, NextMemory
<1>3. TypeOK /\ MemoryInv => HandledOnce
  <2> SUFFICES ASSUME TypeOK, MemoryInv, NEW i \in 1..Len(ledger),
                      NEW j \in 1..Len(ledger), i # j
               PROVE  ledger[i] # ledger[j]
    BY DEF HandledOnce
  <2>1. i < j \/ j < i
    BY DEF TypeOK
  <2> QED BY <2>1 DEF MemoryInv, LedgerInv
<1> QED BY <1>1, <1>2, <1>3, PTL DEF Spec
=============================================================================
