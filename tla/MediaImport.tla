---------------------------- MODULE MediaImport ----------------------------
(***************************************************************************)
(* FulcraClient.run_import: importers that run at the same time, as        *)
(* workers of fulcra-collect, and must not record a play twice nor lose    *)
(* one.                                                                    *)
(*                                                                         *)
(* An event has a deterministic id of its own and content fingerprints it  *)
(* shares with the reports of the same play by other importers (its twins) *)
(* and with a quick replay.  Fulcra accepts duplicates, stores a record    *)
(* some time after it has accepted it, and drops some without a word.      *)
(* Against duplicates an importer reads back what is stored and claims the *)
(* keys of an event in state.db before it posts it; against loss it gives  *)
(* back the claims of what does not turn up.                               *)
(*                                                                         *)
(* A run fetches what its service reports from the importer's watermark on *)
(* less a rewind, as one chunk, and moves the watermark to the newest      *)
(* event it has fetched, whatever has become of the others.                *)
(***************************************************************************)
EXTENDS Integers, FiniteSets, FiniteSetsExt

CONSTANTS
  Importer,
  Event,      \* start times; they stand for the deterministic ids as well
  Fingerprint,  \* content fingerprints
  Owner,      \* the importer of an event
  Prints,     \* extra_source_ids of an event
  Rewind,     \* per importer: how far behind the watermark a run fetches
  MaxMoves    \* bound on the number of things that go wrong

ASSUME ImportAssumption ==
  /\ Event \subseteq Nat /\ Fingerprint \cap Event = {}
  /\ Owner \in [Event -> Importer] /\ Prints \in [Event -> SUBSET Fingerprint]
  /\ Rewind \in [Importer -> Nat] /\ MaxMoves \in Nat

VARIABLES
  published,  \* the events that the services report
  claims,     \* forwarded_events of state.db
  queued,     \* records that Fulcra has accepted and not stored yet
  stored,     \* records that queries return
  run,        \* per importer: the run it is in
  watermark,  \* per importer: of its state row, 0 when there is none
  moves,
  lagged,     \* history: keys given back while a record with them was queued
  excused,    \* history: keys of events that were given up knowingly
  stray,      \* history: fingerprints that failed claims have left behind
  overtaken   \* history: events not taken that are too old to be fetched

history == <<lagged, excused, stray>>
marks == <<watermark, overtaken>>
vars == <<published, claims, queued, stored, run, moves, history, marks>>

Key == Event \cup Fingerprint

(* What an event is known by, when only some of its fingerprints are used. *)
Keys(e, prints) == {e} \cup prints

(* A record on Fulcra; nth tells apart the copies of one.                  *)
Record == [event: Event, prints: SUBSET Fingerprint, nth: 1..(MaxMoves + 1)]

RecordKeys(r) == Keys(r.event, r.prints)

(* todo: the events yet to be claimed; batch: those claimed; prints: the   *)
(* fingerprints each is to be recorded with; missing: posted, not seen;    *)
(* newest: of the events fetched; kept: those of them not let go of.       *)
Run ==
  [pc: {"idle", "claim", "post", "after", "verify", "heal"},
   todo: SUBSET Event, batch: SUBSET Event,
   prints: [Event -> SUBSET Fingerprint], missing: SUBSET Event,
   newest: Event \cup {0}, kept: SUBSET Event]

IdleRun ==
  [pc |-> "idle", todo |-> {}, batch |-> {}, missing |-> {},
   prints |-> [e \in Event |-> {}], newest |-> 0, kept |-> {}]

TypeOK ==
  /\ published \subseteq Event
  /\ claims \subseteq Key
  /\ queued \subseteq Record /\ stored \subseteq Record
  /\ run \in [Importer -> Run]
  /\ \A i \in Importer : \A e \in run[i].todo \cup run[i].batch : Owner[e] = i
  /\ moves \in 0..MaxMoves
  /\ watermark \in [Importer -> Event \cup {0}]
  /\ lagged \subseteq Key /\ excused \subseteq Key /\ stray \subseteq Fingerprint
  /\ overtaken \subseteq Event

Init ==
  /\ published = {} /\ claims = {} /\ queued = {} /\ stored = {}
  /\ run = [i \in Importer |-> IdleRun]
  /\ watermark = [i \in Importer |-> 0]
  /\ moves = 0
  /\ lagged = {} /\ excused = {} /\ stray = {} /\ overtaken = {}

Move == moves < MaxMoves /\ moves' = moves + 1

Accepted == queued \cup stored

-----------------------------------------------------------------------------
(* The services and Fulcra.                                                *)

(* A service reports an event, at times after younger ones.                *)
Publish(e) ==
  /\ e \notin published
  /\ published' = published \cup {e}
  /\ overtaken' = overtaken \cup
       {d \in {e} : d + Rewind[Owner[d]] < watermark[Owner[d]]}
  /\ UNCHANGED <<claims, queued, stored, run, watermark, moves, history>>

Stores(r) ==
  /\ r \in queued
  /\ queued' = queued \ {r}
  /\ stored' = stored \cup {r}
  /\ UNCHANGED <<published, claims, run, moves, history, marks>>

(* Whether a query returns a record of the event.                          *)
Visible(e) == \E r \in stored : r.event = e

-----------------------------------------------------------------------------
(* One importer.                                                           *)

(* The claims of a batch, of a part of it.                                 *)
ClaimsOf(i, es) == UNION {Keys(e, run[i].prints[e]) : e \in es}

Mine(i) == {e \in published : Owner[e] = i}

(* What the service returns: everything since the watermark less the       *)
(* rewind.                                                                 *)
Window(i) == {e \in Mine(i) : e + Rewind[i] >= watermark[i]}

(* run_import returns: the run ends and moves the watermark to the newest  *)
(* event it has fetched.  What it has let go of and what was published     *)
(* since it fetched may be too old now to be fetched again.                *)
Returns(i, newest, kept) ==
  /\ run' = [run EXCEPT ![i] = IdleRun]
  /\ watermark' = [watermark EXCEPT ![i] = newest]
  /\ overtaken' = overtaken \cup
       {e \in Window(i) \ kept : e + Rewind[i] < newest}

(* The readback.  The gate before it, which skips it when nothing has been *)
(* processed since, skips it only when it returns nothing.                 *)
Matched(e) == {f \in Prints[e] : \E r \in stored : f \in r.prints}

(* Mutant: an event is dropped whatever has its fingerprint.               *)
AnyMatch(i, prints) == prints = {}

(* Every record with one of these fingerprints is this importer's own: the *)
(* event is a replay, not a twin.                                          *)
SameSource(i, prints) ==
  \A r \in stored : r.prints \cap prints # {} => Owner[r.event] = i

(* Mutant: whatever is not on Fulcra is new, whoever reports it.           *)
AllEvents(i) == {e \in published : ~Visible(e)}

NewEvents(i) ==
  {e \in Window(i) : ~Visible(e) /\ SameSource(i, Matched(e))}

(* A run that finds something new.                                         *)
Begun(i, newest) ==
  [IdleRun EXCEPT
     !.pc = "claim", !.todo = NewEvents(i), !.newest = newest, !.kept = Window(i),
     !.prints = [e \in Event |->
        IF e \in NewEvents(i) THEN Prints[e] \ Matched(e) ELSE {}]]

Readback(i) ==
  /\ run[i].pc = "idle"
  /\ \E newest \in Window(i) :
       /\ \A e \in Window(i) : e <= newest
       /\ IF NewEvents(i) = {} THEN Returns(i, newest, Window(i))
          ELSE /\ run' = [run EXCEPT ![i] = Begun(i, newest)]
               /\ UNCHANGED marks
  /\ UNCHANGED <<published, claims, queued, stored, moves, history>>

(* The next event, without the fingerprints the run has claimed itself.    *)
Head(i) == Min(run[i].todo)

HeadPrints(i) == run[i].prints[Head(i)] \ ClaimsOf(i, run[i].batch)

(* Mutant: only the deterministic id is claimed.                           *)
HeadOnly(i) == {Head(i)}

(* The key set that is claimed.                                            *)
HeadKeys(i) == Keys(Head(i), HeadPrints(i))

(* The run goes on to the next event, to the POST or, with nothing to      *)
(* post, to its end.                                                       *)
Passed(i, batch, kept) ==
  LET todo == run[i].todo \ {Head(i)} IN
  IF todo = {} /\ batch = {} THEN Returns(i, run[i].newest, kept)
  ELSE /\ run' = [run EXCEPT ![i] = [run[i] EXCEPT
            !.todo = todo, !.batch = batch, !.kept = kept,
            !.pc = IF todo = {} THEN "post" ELSE "claim",
            !.prints[Head(i)] = IF Head(i) \in batch THEN HeadPrints(i)
                                ELSE {}]]
       /\ UNCHANGED marks

(* Claimed, to be posted; or let go of.                                    *)
Takes(i) == Passed(i, run[i].batch \cup {Head(i)}, run[i].kept)
LetsGo(i) == Passed(i, run[i].batch, run[i].kept \ {Head(i)})

(* claim_dedup_keys: the keys that were free are claimed in any case.      *)
Claimed(keys) == claims \cup keys

Claim(i) ==
  /\ run[i].pc = "claim"
  /\ claims' = Claimed(HeadKeys(i))
  /\ IF HeadKeys(i) \cap claims = {}
     THEN /\ Takes(i)
          /\ UNCHANGED history
     ELSE /\ LetsGo(i)
          /\ stray' = stray \cup (HeadPrints(i) \ claims)
             \* a replay of a play that was not stored yet is given up
          /\ excused' = excused \cup
               {e \in {Head(i)} : \E r \in Accepted :
                  Owner[r.event] = i /\ r.prints \cap HeadPrints(i) # {}}
          /\ UNCHANGED lagged
  /\ UNCHANGED <<published, queued, stored, moves>>

(* The database is unavailable: not claimed, not posted.                   *)
CannotClaim(i) ==
  /\ run[i].pc = "claim"
  /\ LetsGo(i)
  /\ Move
  /\ UNCHANGED <<published, claims, queued, stored, history>>

NewRecord(i, e) ==
  [event |-> e, prints |-> run[i].prints[e],
   nth |-> 1 + Cardinality({r \in Accepted : r.event = e})]

Queues(i, es) == queued' = queued \cup {NewRecord(i, e) : e \in es}

(* Events whose records Fulcra has not accepted, of a batch.               *)
Gone(es) == {e \in es : \A r \in Accepted : r.event # e}

(* Keys that no record has: when their claims stay, nobody is to have them. *)
Unrecorded(keys) == {k \in keys : \A r \in Accepted : k \notin RecordKeys(r)}

(* 201: the batch is accepted.  Lines may get lost; that is a fault.  When *)
(* it is the line of a second copy, nobody misses it.                      *)
Post(i, lost) ==
  /\ run[i].pc = "post"
  /\ lost \subseteq run[i].batch
  /\ Queues(i, run[i].batch \ lost)
  /\ run' = [run EXCEPT ![i].pc = "after"]
  /\ excused' = excused \cup Unrecorded(ClaimsOf(i, lost \ Gone(lost)))
  /\ IF lost = {} THEN UNCHANGED moves ELSE Move
  /\ UNCHANGED <<published, claims, stored, lagged, stray, marks>>

(* Mutant: claims are for good.                                            *)
NotUnclaimed(keys) == claims

(* The claims that are given back.                                         *)
Unclaimed(keys) == claims \ keys

(* The POST raises, whether or not Fulcra has got it; the claims are given *)
(* back, unless that fails as well.                                        *)
PostRaises(i, arrived, unclaims) ==
  LET keys == ClaimsOf(i, run[i].batch) IN
  /\ run[i].pc = "post"
  /\ IF arrived THEN Queues(i, run[i].batch) ELSE UNCHANGED queued
  /\ claims' = IF unclaims THEN Unclaimed(keys) ELSE claims
  /\ lagged' = IF arrived /\ unclaims THEN lagged \cup keys ELSE lagged
  /\ excused' = IF unclaims \/ arrived THEN excused ELSE excused \cup keys
  /\ run' = [run EXCEPT ![i] = IdleRun]
  /\ Move
  /\ UNCHANGED <<published, stored, stray, marks>>

(* The run ends when nothing is missing.                                   *)
LooksFor(i, missing, next) ==
  IF missing = {} THEN Returns(i, run[i].newest, run[i].kept)
  ELSE /\ run' = [run EXCEPT ![i] =
            [run[i] EXCEPT !.pc = next, !.missing = missing]]
       /\ UNCHANGED marks

(* What is not stored right after the POST is checked again.               *)
After(i) ==
  LET missing == {e \in run[i].batch : ~Visible(e)} IN
  /\ run[i].pc = "after"
  /\ LooksFor(i, missing, "verify")
  /\ UNCHANGED <<published, claims, queued, stored, moves, history>>

(* The last look, up to two minutes later.  A record that Fulcra takes     *)
(* longer to store is a fault.                                             *)
Verify(i) ==
  LET missing == {e \in run[i].missing : ~Visible(e)} IN
  /\ run[i].pc = "verify"
  /\ LooksFor(i, missing, "heal")
  /\ IF missing \subseteq Gone(missing) THEN UNCHANGED moves ELSE Move
  /\ UNCHANGED <<published, claims, queued, stored, history>>

(* The readback fails: the claims stay.  The first one ends the run with   *)
(* its exception, the last one is only reported.                           *)
CannotVerify(i) ==
  /\ \/ /\ run[i].pc = "after"
        /\ run' = [run EXCEPT ![i] = IdleRun]
        /\ UNCHANGED marks
     \/ run[i].pc = "verify" /\ Returns(i, run[i].newest, run[i].kept)
  /\ excused' = excused \cup Unrecorded(ClaimsOf(i, run[i].batch))
  /\ Move
  /\ UNCHANGED <<published, claims, queued, stored, lagged, stray>>

(* What is still missing is given back, for the next run if that fetches   *)
(* it.  When giving it back fails the claims stay, as with a worker killed *)
(* here.                                                                   *)
Heal(i) ==
  LET keys == ClaimsOf(i, run[i].missing) IN
  /\ run[i].pc = "heal"
  /\ claims' = Unclaimed(keys)
  /\ lagged' = lagged \cup ClaimsOf(i, run[i].missing \ Gone(run[i].missing))
  /\ Returns(i, run[i].newest, run[i].kept \ run[i].missing)
  /\ UNCHANGED <<published, queued, stored, moves, excused, stray>>

(* The runner kills a worker that takes too long, wherever it is; a POST   *)
(* under way may have arrived.                                             *)
Killed(i, arrived) ==
  /\ run[i].pc # "idle"
  /\ arrived => run[i].pc = "post"
  /\ IF arrived THEN Queues(i, run[i].batch) /\ UNCHANGED excused
     ELSE /\ excused' = excused \cup Unrecorded(ClaimsOf(i, run[i].batch))
          /\ UNCHANGED queued
  /\ run' = [run EXCEPT ![i] = IdleRun]
  /\ Move
  /\ UNCHANGED <<published, claims, stored, lagged, stray, marks>>

-----------------------------------------------------------------------------
ImportStep(i) ==
  \/ Readback(i) \/ Claim(i) \/ Post(i, {}) \/ After(i) \/ Verify(i)
  \/ Heal(i)

Misfortune(i) ==
  \/ CannotClaim(i) \/ CannotVerify(i)
  \/ \E lost \in SUBSET run[i].batch \ {{}} : Post(i, lost)
  \/ \E arrived \in BOOLEAN :
       \/ Killed(i, arrived)
       \/ \E unclaims \in BOOLEAN : PostRaises(i, arrived, unclaims)

Next ==
  \/ \E e \in Event : Publish(e)
  \/ \E r \in queued : Stores(r)
  \/ \E i \in Importer : ImportStep(i) \/ Misfortune(i)

Spec == Init /\ [][Next]_vars

(* Fulcra gets round to what it has accepted, a worker goes on, and the    *)
(* scheduler starts the next run.                                          *)
FairSpec ==
  /\ Spec
  /\ WF_vars(\E r \in queued : Stores(r))
  /\ \A i \in Importer : WF_vars(ImportStep(i))
-----------------------------------------------------------------------------
(* Two records share a key only if one was still on its way when its keys  *)
(* were given back: a POST that failed after it had arrived, or an event   *)
(* that took longer than the last look.  Whatever runs at the same time,   *)
(* twins are not recorded twice, and a replay is no twin.                  *)
NoDuplicates ==
  \A r, s \in Accepted :
    r # s => RecordKeys(r) \cap RecordKeys(s) \subseteq lagged

(* The play is on Fulcra: as this event, or as a twin of it.  A replay is   *)
(* a play of its own: the record of its original does not count.           *)
Recorded(e) ==
  \E r \in Accepted :
    \/ r.event = e
    \/ Owner[r.event] # Owner[e] /\ r.prints \cap Prints[e] # {}

GivenUp(e, keys) == keys \cap Keys(e, Prints[e]) # {}

(* Every play, replays included, is recorded in the end, but for events    *)
(* that were given up where the code says so (a worker killed between      *)
(* claim and POST, a lost line whose check failed, a replay on the heels   *)
(* of its original), those whose fingerprint a failed claim has left       *)
(* behind, and those the watermark has overtaken: published too late, or   *)
(* let go of by a run that went on to move it.                             *)
LossesHaveReasons ==
  []<>(\A e \in published :
         \/ Recorded(e) \/ e \in overtaken
         \/ GivenUp(e, excused) \/ GivenUp(e, stray))

(* db.unclaim_dedup_keys: "on the next run those events pass the claim     *)
(* again and get retried".                                                 *)
FailedAreRetried ==
  \A e \in Event :
    e \in published ~> Recorded(e) \/ e \in overtaken \/ GivenUp(e, excused)
=============================================================================
