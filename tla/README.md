# fulcra-tools: TLA+ models, model checks and proofs

This directory specifies the parts of fulcra-tools in which several processes share durable state and
in which ordering, crashes and lost replies decide whether work gets lost. Every module is
translated from the source under `packages/`; `PROJECT.json` names, for every definition, the lines
it stands for.

## 1. The system

fulcra-tools is a workspace of about thirty packages in three groups.

**The coordination bus.** Agents (long-running or scheduled processes, on many hosts) exchange work
through two planes of the Fulcra API: *records* (a shared, append-only, time-indexed log; writes
become visible after a lag) and *files* (documents; plain uploads are last-writer-wins, some
transports offer a compare-and-swap).

| part | state | operations | hard because |
|---|---|---|---|
| record track (`coord_engine/records.py`, `transport.py`) | the log | `emit_event`, `records` window reads | visibility lag, equal dates, future-dated timers, lost write replies |
| queue, schema 2 (`records.py`, `cli.py`) | one cursor document per agent: revision, coverage, remembered ids and tokens, one pending delivery | `queue` (load, window, stage, show), `queue commit` | several wakes of one agent; crash between any two calls; lost replies of a compare-and-swap; bounded memories |
| queue, schema 1 (`records.py`, `cli.py`) | one last-writer-wins cursor per agent, audit documents | `queue`, `--peek`, `--consume` | overlapping reads; death between save and print; foreign readers |
| coord-fold (`packages/coord-fold`) | one checkpoint per agent: cursor, open obligations, remembered ids, generation | `fold`, `emit`, `claim`, `release`, `close`, `status` | racing passes with a re-read instead of a compare-and-swap; records later than its overlap; dates in the future; the cap on events per pass |
| stream fold, obligations, mirror to bus v4 | checkpoints, derived sets | fold, `dual_emit.mirror` | two planes that must agree |
| reconcile, generations, projections, public reads | published views | publish, read, detect changes | readers during publication |
| roles, presence, wake router | claim documents with leases | claim, release, wake | competing claimants, expiry |
| cutover and migration between cursor schemas | authority document | migrate, activate | mixed versions |
| coord-mesh, coord-tracker-bridge, coord-v5 | peer cursors; lease and ledger; listener journal | send, attend; lease, project; listen, publish | duplicate delivery, lease expiry, restart |

**Collection.** `collect` is a daemon with a tick loop, a control socket and a web server, and a
SQLite database that daemon and workers share.

| part | state | operations | hard because |
|---|---|---|---|
| supervisor (`supervisor.py`) | per service: process, exits, backoff, degraded mark | `tick`, disable, shutdown | crash budget, second chance, toggles between ticks |
| runs (`daemon.py`, `scheduler.py`, `runner.py`, `worker.py`) | in-flight set, one thread and one worker process per run | tick, "run now", spawn, time-out, merge of the result, shutdown | three triggers; workers that outlive the daemon; launches and kills that fail |
| plugin row (`state.py`) and definitions (`plugin.py`, `routes/definitions.py`) | last run, watermark, definition id, override name, validation stamp | whole-row load and save by the runner and by the web routes; resolve, pick, clear, delete | load-modify-save without a lock; a cached id whose definition is gone; a change of account |
| dedup claims (`db.py`) with `media-helpers` (`fulcra.py`) | claimed keys in `state.db`; records on Fulcra | read back, claim, POST, verify, give back | importers that report the same play at once; POSTs that fail after they arrived; lines dropped without a word; a watermark that moves on whatever became of the events |
| `task-sync` with todoist, apple-reminders | the checkpoint records (epoch, generation, baseline, seen and trusted versions, intent), the versions of a task document | `run_sync` | the owner, bots and the settings act during a run; death or a lost reply around the completion |
| configuration (`config.py`, `config_leases.py`) | one file, exclusive and shared locks | load, three-way merge, save | concurrent saves |

The other importers (gmail, dayone, apple-notes, notion, ...) parse and upload.

**Libraries and front ends**: fulcra-common, -vault, -okf, -prefs, -continuity, fde-engine, the
attention extensions, menubar, web-ui.

What makes the modelled parts correct:

* *queue*: an event addressed to the agent is handled, or a later read will still show it; a token
  moves coverage once; answers are true; nothing is handled twice while it is remembered; what is
  staged gets committed.
* *legacy queue*: coverage passes only what somebody received, and no text reader that dies hides
  an event; a takeover leaves a trace.
* *coord-fold*: the cursor passes no event that concerns the agent unapplied, unless it came too late
  for the overlap; a row has a reason; the open set is the replay of the stream.
* *supervisor*: a crashing service is restarted at a bounded rate, a degraded one can recover, an
  enabled one is always launched again.
* *runs*: what the user chose holds, the watermark and the time of the last run do not go back, every
  item is collected, a definition that was deleted is replaced.
* *import*: no play is recorded twice, and none is lost, replays included, but for the reasons the
  code names and for what the watermark has left behind.
* *task-sync*: a task is completed at the source only because its document was resolved in this
  life of the task, once, and under consent; nothing that was asked for is passed over; document
  and source agree in the end.

The hazards, each with its line and the properties aimed at it, are in `PROJECT.json`.

## 2. Modules

| module | models |
|---|---|
| `RecordTrack` | the record log: `Emit`, `Index` (visibility), `Tick` (time, never beyond the lag of an unindexed record), `Window`, `NewestLast` (the order `events_for` gives; ties are free) |
| `CappedList` | `list[-cap:]` |
| `DeliveryLedger` | the abstract promise of the schema-2 queue: batches are opened one at a time and closed once |
| `QueueCursor` | schema 2: `_cmd_queue_v2`, `commit_v2_delivery` and the cursor document; extends `RecordTrack` |
| `LegacyQueue` | schema 1: `cmd_queue`, `save_cursor`, `_write_consume_audit`; extends `RecordTrack` |
| `CoordFold` | coord-fold, all six verbs; extends `RecordTrack` |
| `ServiceSupervisor` | collect's `supervisor.py` under the loop of `Daemon.serve` |
| `CollectRuns` | the runs of a scheduled plugin and its row: `Daemon._trigger`, `runner.run`, `worker.run_plugin`, `resolved_definition_id`, the definition routes |
| `MediaImport` | `FulcraClient.run_import` over the claims of `db.py`, with the watermark and the window of the scheduled importers (`plugins/_common.py`) |
| `TaskSync` | `run_sync` and `_sync_task` with provider, document and settings |
| `MC...` | symmetry sets and constants for TLC |
| `TrackLemmas` | lemmas about listings and bounded lists that the proofs share |
| `QueueCursorProofs`, `LegacyQueueProofs`, `CoordFoldProofs`, `ServiceSupervisorProofs`, `CollectRunsProofs`, `MediaImportProofs`, `TaskSyncProofs` | the theorems about the module each is named after |

Operators whose comment begins with *Mutant:* are wrong versions of the definition that follows
them. No specification uses them; they are used to test that the properties can fail.

### QueueCursor

`cursor` is the durable document (`None` before the first stage); per wake there are the program
counter `pc`, the loaded document `snap` (the precondition of the compare-and-swap), the clock
reading `now`, the planned delivery `plan`, the token it was shown `held` and the last answer
`reply`. The calls of one command are separate actions, because other wakes act in between:

    LoadCursor -> TakeNow -> ReadWindow -> StageWins | StageLoses -> ShowWinner
    Replay (a delivery is pending)            WindowUnknown (the window read failed)
    CommitIdempotent | CommitStale | CommitLoad -> CommitWins | CommitLoses -> CommitRecheck(Fails)

`StageWins` and `CommitWins` each have an outcome in which the swap landed and the reply was lost.
`Crash` forgets everything a wake holds. Reads that fail before anything is written are the
stuttering `Peek`. `ledger`, `history` and `floor` are history variables: every id whose handling
was committed, every token that advanced the cursor, and where the coverage claim begins. The
document's list `handled` repeats `seen_ids` with outcomes and is represented by `ledger`. A token
is the tuple of what the digest is computed from. The code's guard against foreign readers is the
same for both schemas and is modelled in `LegacyQueue`.

### LegacyQueue

One read is `Begin -> (AuditLands | AuditFails) -> TakeNow -> LoadCursor -> ReadWindow ->
ShowText -> Save | SaveFails` in text mode; with `--json` the envelope is shown after the save
(`ShowEnvelope`). `ShowInterrupted` is a `KeyboardInterrupt` during the print: the `finally` of the
code still saves. `received` (per event, the reads that returned it) and `printed` are history. So are
`floor`, where the coverage claim of the cursor begins, and `base`, the same for the cursor a reader
has loaded: a reader that found no cursor claims from its lookback on, and its save replaces the
claim of any other first read along with the document.

### CoordFold

Each pass has its own `--rebuild` and `--max-events` (`limit`). A pass is `Load -> Read -> (PassOver | LeaveUnread | Apply)* -> NoProgress | Recheck -> Save`; a
verb is `VerbStart -> VerbLookup -> VerbEmit`. One `Apply` is one iteration of the loop in
`fold.run`, with `checkpoint.apply` and the move of the cursor. `Clock` and `Catchup` are free: time
passes whatever is not indexed yet and whatever a verb has begun, a record is indexed when it is, and
an event may be dated ahead (`Leads`) or be older by any time than its write (`VerbEmit`). The document's `done` and `redone` are
history: what `seen` would be without its cap, and what was applied again after it was forgotten. So
are `frontier`, the newest date any pass of the agent has read, and `overtaken`: the events that were
indexed when a pass had already read a record dated more than the overlap later. Priorities, pointers and the list of unreadable pointers are
carried along by the code and decide nothing; they are left out. `read_events` does not sort: the
model takes it that `get-records` answers in the order of `recorded_at`, as `fold.run` itself does
when it sets the cursor to the date of the last record.

### ServiceSupervisor

`svc[p]` holds the tracked process, the exits, the backoff and the degraded mark of a service. The
code stores instants and compares them with `now`; the model stores ages (`now - t`) and the time
left, which `Tick` advances. Ages beyond the cooldown are one value, so time is unbounded in the
model and still finite. One `Tick` is one round of the loop over all services, with any subset of
the launches failing; workers end and the user toggles services between ticks. A tick records at
most one exit per service, so a set of ages is enough.

### CollectRuns

`row` is the plugin's row of `state.db`. `thread[t]` is a thread of the daemon and the worker of its
run; the worker keeps a copy of the row (`ctx`) for as long as it runs, the runner one (`copy`)
between its load and its save. `edit[c]` is a request of the web UI or the command line, again with
the row it loaded. `defs`, `src` and `rec` are the definitions on the account and the items of the
source, there and recorded.

    Tick | RunNow -> Spawn | SpawnFails -> Register -> (worker) -> RunnerLoads -> RunnerSaves
    worker: WorkerLoads -> TrustsStamp | Validates | CannotAsk | Resolves -> Records* -> WorkerDone
    edit:   PicksDefinition | ForcesNew | ClearsDefinition | DeletesDefinition -> EditLoads -> EditSaves

A worker may hang (`Hangs`). When its time is up it is killed and the runner goes on; one that cannot
be killed leaves the thread in `join` (`joining`) and the plugin in flight until it closes its pipes,
and then the error passes the row by (`RunnerRaises`).

`Restart` is the end of the daemon and the start of the next one: an interrupt terminates the
workers registered by then, anything else leaves them as orphans, and the new daemon may find
another account. Instants of the row are kept as ages, which stop growing once they make no
difference. `chosen` and `crossed` are history: what the user picked last, and that two edits had the
row loaded at the same time and that what they did is not over. `last_outcome`, `last_error`, `consecutive_failures` and
`last_yield` only report and are left out. While the machine is offline the tick skips plugins that
need the network: such a tick is one that is not taken.

### MediaImport

One event is one play as one importer reports it; the numbers are the start times. Its keys are its
deterministic id and its content fingerprints, which it shares with the reports of other importers
(twins) and with a replay within the span of a fingerprint. A run fetches what the service reports
from the watermark less the importer's `Rewind` on (`Window`), and when it returns, but not when it
raises or is killed, it moves the watermark to the newest event it has fetched (`Returns`). In the
instance one importer is an RSS feed, which has no rewind, and the other fetches its whole history.
The cap on entries per run (`max_entries`) and the twin cache, whose default keeps everything, are
left out. `Readback -> Claim* -> Post -> After -> Verify -> Heal` is one run of an
importer. `Claim` has the effect of `claim_dedup_keys` in full: also a claim that fails inserts the
keys that were free. `queued` are records Fulcra has accepted and does not show yet, `stored` those
it shows. `lagged`, `excused`, `stray` and `overtaken` are history: keys given back while their record was under
way, keys of events given up knowingly, fingerprints that failed claims left behind, and events that
were not taken and are older now than any later run fetches.

### TaskSync

Tasks share nothing but the active record, so there is one task. `src` is the task at the source,
`docs` the versions of its document, `rec` and `active` the checkpoint, `run` the engine's run:

    Begin -> Inspect -> SaveIntent -> ProviderChecks -> Submit -> Confirm -> Plan -> Upload -> Finish

Every call of the engine is a step, before each of which it may die (`Abort`) or find the selection
changed (`Stop`). `flight` and `late` hold completions and uploads whose caller is gone and which
may still land. The owner edits, completes, reopens, moves and (if it recurs) advances the task, and
bots write versions based on any earlier one, honest or tampered. A revision stands for the source
state it identifies. `life` is history: it counts the reopenings that the checkpoint can tell from
no reopening at all (`Knows`). A completion *and* its undoing between two snapshots are invisible to
the engine unless an intent or a baseline of it was on record, and so is a reopening while a run goes
on that took its snapshot before the completion.

## 3. Runs

Every run takes less than three and a half minutes with two TLC workers.

| run | instance | shows |
|---|---|---|
| `cursor_safety` | 2 wakes, 2 events, 2 revisions, one crash | `CursorParses`, `CommittedOnce`, `NoEventLost`, `RedeliveredOnlyIfForgotten`, `CoverageAdvances`, refinement of `DeliveryLedger` (0.9M states) |
| `cursor_memory` | 1 wake, 3 events, time 4, timers, `SeenCap` 2 | `NoEventLost`, `HandledOnce` while ids are really forgotten |
| `cursor_answers` | 2 wakes, 2 events, a crash, lost replies, `TokenCap` 1 | `AnswersAreTrue`, `StagedIsCommitted` (with fairness) |
| `legacy_safety` | owner and foreign reader, both modes, 3 reads, an interrupt and a crash | `CoveredWasReceived`, `TakeoverIsAudited`, `PrintThenAdvance` (5M states) |
| `fold_races` | 2 passes, 3 events, some dated ahead, `--max-events` 0 to 2, records indexed at any time | `NothingSkipped`, `OpenSetIsReplay` (6.1M states) |
| `fold_verbs` | a pass and a verb that takes any time, 3 events, rebuilds, records indexed at any time, `--max-events` 1 and 3, a failing pass, one generation more | `NothingSkipped`, `OpenSetIsReplay` while ids are really forgotten, `RowsHaveReasons` (6.9M states) |
| `supervisor_safety` | 2 services | `FailureRateBounded`, `DegradedCanRecover`, `KeptAlive` (with fairness) |
| `collect_runs` | 2 threads, one editor, 2 mishaps or edits, workers that hang and cannot be killed | `PickHolds`, `RowNeverGoesBack`; with fairness `Collected`, `DeadIsReplaced` (0.6M states) |
| `media_import` | 2 importers, a play, its twin and its replay, reported in any order, 3 mishaps | `NoDuplicates`; with fairness `LossesHaveReasons` (0.7M states) |
| `task_sync` | 2 lists, 2 selections, recurring or not, 4 disturbances, a history of 4 versions | `CompletionJustified`, `OncePerGeneration`, `ConsentHeld`, `ResolutionNotLost`; with fairness `Converges` (2.3M states) |

Runs that TLC refutes, each a disagreement between the code and what is written about it:

| run | disagreement |
|---|---|
| `task_sync_racing` | "a concurrent bot version remains unseen and will be processed on the next run" (`engine.py`): not when that run had moved the task to another list; every later run then refuses the version, and with it the task |
| `media_retry` | "on the next run those events pass the claim again and get retried" (`db.py`): not when the failed claim of a twin has left its free keys behind; then neither of the two is ever posted |

The models also make these limits of the code visible; no run is kept for them:

* `remind` accepts an instant in the past. A record dated before the next window is shown by no
  read, hence the assumption `Leads \subseteq Nat` of the coverage theorem.
* The schema-1 read with `--json` saves the cursor before it prints the envelope. A reader that dies
  in between takes its events with it: the second alternative of `PrintThenAdvance`.
* `queue commit` says "STALE ...; cursor untouched" for a commit that landed, when its reply is lost
  and the re-read fails as well (`records.py` 1299, `cli.py` 8137).
* In coord-fold, events that are remembered use up `--max-events`; a pass may report a remainder
  again and again without applying anything new (`fold.py` 85). Worse, it takes the cursor *back* to
  the last event it counted, by up to the overlap, and so does the next one. A few such passes reach
  back to an event whose id is no longer among the 500 of `seen`; it is applied again, and an `open`
  brings a row back that was closed long ago. The proof attempt for `OpenSetIsReplay` found this, one
  generation beyond what its runs then covered; the property now excepts exactly the obligations with
  such an event (`Replaced`) and `fold_verbs` reaches them.
* coord-fold's overlap (`OVERLAP_SECONDS`, `fold.py` 16) is five seconds. The lag of the same record API
  is about twenty (`coord_engine/records.py` 910-913; the queue's own overlap is 120), a verb makes
  several calls with time-outs of 60 s between its time stamp and its write (`cli.py` 62, 179-187), and
  reminders are mirrored onto the channel with a date in the future. So an event dated t and indexed 20 s
  later is skipped for good if a pass has read one dated t+6 before; only `--rebuild` brings it back.
  That disagrees with `fold.py` 6 ("a gap is an unapplied RELEVANT event") and with 62, where the cursor
  is said to stop at the first unapplied relevant event. `NothingSkipped` says that exactly the events
  that came too late for the overlap (`Overtaken`) can be skipped, and `OpenSetIsReplay` that only they
  can be applied out of order by more than the overlap.
* coord-fold applies a record that is indexed late, but inside the overlap, after newer ones, so the
  open set is the replay of the stream only up to the order of records no more than the overlap apart;
  `OpenSetIsReplay` allows for that.
* A generation that moves between a pass's re-read and its upload is overwritten. No event is
  skipped by it (`FoldSkipsNothing`), but the other pass's rows are recomputed, not merged.
* A service that is disabled in a backoff or while degraded keeps what was known of it: the comment
  "clean slate" (`supervisor.py` 124) holds for running services only.
* With a tick of 30 s, a window of 60 s and a threshold of 6 no crash loop is ever marked degraded
  (`supervisor.py` 39, `daemon.py` 1483). The bound on the rate of failures holds nevertheless.
* `definition_exists` answers True when it could not ask, so a failure of the network does stamp
  the definition as validated, although `plugin.py` 715-717 says it cannot (`CannotAsk`).
  `DeadIsReplaced` holds because the stamp expires again.
* An edit of the row during the last moments of a run is lost, or takes back what the run wrote: both
  sides write the whole row. `PickHolds` and `RowNeverGoesBack` name these cases (`Alone`,
  `EditSaves`); `db.py` 5-7 and `runner.py` 239-241 read as if there were none. Two edits that had the
  row loaded at once can take it back further, to before a run that ended between their loads; the
  attempt to prove `RowNeverGoesBack` without excepting them (`crossed`) showed it.
* `override_definition_name` is used up in the worker's copy only; the row keeps it, and the next
  resolution uses it again (`plugin.py` 827-831 calls it one-shot). A stamp does not say which id it
  was for (`plugin.py` 686-693).
* "New definition" without a name adopts the canonical definition if there is one
  (`routes/definitions.py` 236-237).
* A worker that hangs and cannot be killed holds its plugin's in-flight slot for good: the `finally`
  of `_bounded_communicate` joins the readers of its pipes first (`runner.py` 99-101). `Collected` and
  `DeadIsReplaced` except exactly that (`Stuck`).
* An importer moves its watermark to the newest event it fetched, also past events whose claim failed
  and events it has just given back (`plugins/_common.py` 271-277). Those older than the rewind, which is
  24 hours for some importers and nothing for RSS feeds, are not fetched again, so the warning "dedup
  keys unclaimed for retry next run" (`fulcra.py`) does not hold for them, nor do they if the service
  reports them late. `LossesHaveReasons` excepts them (`overtaken`).
* Only an interrupt lets the daemon terminate its workers; SIGTERM does not unwind `serve`, and a
  worker that is not registered yet is missed in any case.
* In task-sync, a run that dies between its checkpoint and the upload has used up a place among the
  source states it trusts; when their number reaches the cap nothing is uploaded in this generation
  any more (`NeedsRepair`).
* In task-sync, a document may stay behind its recurring source: with a resolution unseen that may
  not be carried out, nothing is uploaded before the occurrence changes (`Mirrors` excepts it).

### Bounds

`MaxTime`, `MaxRevision`, `MaxReads`, `MaxGeneration`, `MaxCrash`, `MaxInterrupt`, `MaxAbandon`,
`MaxItems` and `MaxMoves` only cut runs off; `MaxMoves` is one budget for everything that disturbs
a run, faults and edits alike, so that any mixture of them occurs. `MaxDefs` is never reached. One unit of time stands for the skew (or the overlap): in the queues, with `MaxLag = Skew = 1`, a
record can be as late as the overlap just covers. `MaxTime` 2 to 4 lets a window follow a window that followed
the first (`cursor_answers` asks nothing about time and has `MaxTime = 0`); two events and two wakes give every race of two commands. Caps (`SeenCap`, `TokenCap`,
`MaxEvents`) are 0 to 3, so that they are reached. Where a property depends on a bound, this is a
statement about the code:

* `HandledOnce` needs `SEEN_IDS_CAP` to exceed what can be dated within two overlaps (`Burst =
  2*Skew + 1`, `BurstCap <= SeenCap`): the comment in `records.py` asks for one overlap only.
* In `LegacyQueue`, `Lookback` is less than `MaxTime`, so that two *first* reads more than a lookback
  apart can overlap. The later one then replaces the claim of the earlier one, and what lies between
  is claimed by nobody.
* `RowNeverGoesBack` is checked with one editor; two edits at once exceed what TLC can finish. The
  theorem holds for any number of them.
* In `CoordFold`, `MaxTime` exceeds `Overlap` or (in `fold_races`) dates run ahead of the clock, so that
  records later than the overlap, verbs longer than it and cursors in the future all occur. `Rewind`
  in `MediaImport` is 0 and 3, one importer that leaves events behind and one that never does.
* In `TaskSync`, `MaxVersions` is small enough to be reached, and large enough for a resolution, its
  completion and a further edit to be recorded below it: a full history is one of the states that
  `Converges` leaves to a person.

Symmetry (events, wakes, passes) is used in runs of invariants and of step properties
(`CoverageAdvances`, the refinement), which TLC evaluates on each step it generates; the names are
interchangeable in every definition. The runs with fairness use none. In `cursor_answers` the
re-read after a lost reply answers (`RecheckMayFail = FALSE`): otherwise the first of the limits
about `queue commit` above applies.

### Fairness

`QueueCursor!FairSpec`: each wake takes its next step (`WF` of `WakeStep`: a duty loop keeps waking
and each call returns, if only with a failure), and an agent that is shown a delivery again and
again classifies all of it eventually (`SF` of `CommitAll`), as the delivery envelope tells it to.
Nothing is assumed about crashes, lost replies or the record API. `ServiceSupervisor!FairSpec`: the
daemon's loop goes on (`WF` of `Ticks`); workers may die always and launches may fail always.
`CollectRuns!FairSpec`: time passes, the loop of `serve` triggers a plugin that is due (the network
comes back), and a thread, a worker or a request goes on; a worker that hangs is killed when its time is up
(`TimesOut`), unless it cannot be, which no fairness helps (`Stuck`).
`MediaImport!FairSpec`: Fulcra stores what it has accepted and keeps, an importer goes on and is run
again. `TaskSync!FairSpec`: the collector runs the plugin again and again, each of its calls is
bounded in time, and the provider works through the commands it has received (`WF` of `Engine`,
`Land`, `LateUpload`). In these three modules the number of mishaps is bounded by `MaxMoves`, that
is, what is to happen eventually happens after the last of them.

## 4. Proofs

All theorems hold for arbitrary constants that satisfy the named assumptions of the modules.

* `QueueCursorProofs`. `RevisionInv` says that the pending delivery belongs to the revision of its
  document, that the k-th commit closed revision k-1, that remembered ids were handled, and that
  what a wake plans fits the document *it loaded*. That last part is what a compare-and-swap needs:
  if the document still is the one loaded, the plan fits the document. It gives
  `CursorAlwaysParses`, `TokenCommitsOnce`, `RedeliveryNeedsForgetting` and `ImplementsLedger`.
  `ClockInv` adds time: an unindexed record is younger than the lag, and every event older than the
  next overlap is in the planned delivery or remembered (`Continues`). It gives
  `CoverageLosesNothing` and `CoverageMovesForward`, assuming that no record is dated before it is
  written (`Leads \subseteq Nat`).
  `NoEventLost` alone is not inductive: it says nothing of deliveries that are planned or pending.
  `AnswersInv` says that the remembered tokens are the last `TokenCap` ones that were committed, and
  that a token a wake was shown is pending until it has been committed: a commit loses its race only
  to one of the same token. It gives `CommitAnswersAreTrue`: what is said to have landed has, and a
  token a wake was shown is called stale only when it was committed and `TokenCap` commits came after
  it. It assumes that the re-read after a lost reply answers (`~RecheckMayFail`); otherwise the limit
  of section 3 applies.
  `MemoryInv` gives `NothingHandledTwice`. The remembered ids are the last `SeenCap` entries of the
  ledger of handled events, and an event handled after another one is older by at most the overlap
  (`LedgerInv`). So what was handled after an event that a window shows again is dated within two
  overlaps; by the bound on the write rate (`RateInv`) these are fewer than `BurstCap`, and the id is
  still remembered. The hypotheses are that rate (`BurstCap <= SeenCap`, `2*Skew < Burst`) and
  `Leads \subseteq Nat`.
* `CoordFoldProofs`. `FoldInv` says of the checkpoint, and of the copy of each pass, that every
  event that concerns the agent was applied, is not before the cursor less the overlap, or came too
  late (`Complete`), and that no cursor is ahead of `frontier`; of a pass in its loop, that an event it
  neither applied nor has yet to come to came too late or is within the overlap of everything the pass
  will still move its cursor to (`Reaches`). Overwriting is harmless for it because every copy is
  complete by itself. It gives `FoldSkipsNothing`. Nothing is assumed of lags, dates or verbs.
  `ReasonsInv` says that the copies are reasoned as the checkpoint is and gives `RowsAreReasoned`.
  `ReplayInv` gives `OpenSetIsAReplay`: in every copy, nothing applied is newer by more than the overlap
  than an event that is not applied yet and did not come too late (`DatedDone`, which rests on
  `FoldInv`), a row stands for the
  last event about its obligation (`RowReplayed`), and no id is forgotten before `SeenCap` events have
  been applied (`SeenInv`). `OpenSetIsReplay` alone says neither what is still to come nor which event
  is the last.
* `ServiceSupervisorProofs`. `SupervisorInv` says that the failures the window can see are on
  record, that a service that is not degraded has budget left, and that a degraded one keeps an
  exit. It gives `FailureRateIsBounded` and `DegradedIsNotForGood`. The step that matters is the
  second chance: what is forgotten is older than the cooldown and so than the window.
* `LegacyQueueProofs`. `LegacyInv` holds the shape of a reader's progress, that a foreign reader past
  its audit has left its document, and that what a `--json` reader got is printed, due, or lost with
  it. `ClaimInv` says that an event is accounted for (received, and printed unless it was for `--json`
  or interrupted) if it is covered or remembered by the cursor document, *or by the copy any reader has
  loaded*, or lies in the window of a reader that has read and is not among the events in its hands.
  Last-writer-wins is harmless because every copy that may be written back is true by itself. It
  gives `CoverageIsReceived`, `TakeoversAreAudited` and `PrintedBeforePassed`, the first two also for
  cursors that go back, assuming `Leads \subseteq Nat`. `CoveredWasReceived` alone says nothing of the
  copies, so a stale save could break it.
* `CollectRunsProofs`. `CollectInv` says that there is at most one run per plugin and daemon
  (`OneRun`); that the copies held for a run of this daemon have the definition the user picked and,
  unless edits have crossed, a watermark that is not behind the row's nor that of the row an edit has
  loaded (`CopiesFit`); that, unless edits have crossed, at most one edit has the row loaded and its
  copy is not ahead of the row (`EditsBehind`); and that a pick is in the row or an edit that overlapped took it (`PickKept`). `StartsLate` says that a run under way
  began no earlier than the one that the row, or the row an edit has loaded, tells of. This
  gives `PickStands` and `RowMovesForward`, whose second half, about `last_run`, needs no exception
  for edits that cross.
* `MediaImportProofs`. `ImportInv` follows a key from its claim to the record: a key has one holder,
  a record that is queued or stored has its keys claimed unless they were given back while it was
  under way, and every copy but the first has cost a mishap (`CopiesBounded`). It gives `NoPlayTwice`.
* `TaskSyncProofs`. `TaskInv` rests on three facts. Revisions grow, so a snapshot with the source's
  revision *is* the source (`Snapshot`). A generation is drawn before anything bears it, and a run that
  may complete the task bears the generation of the record (`Drawn`, `OwnGeneration`). The commands of
  a generation bear one revision, and the record tells which as long as another could be sent: the
  intent has it, or the baseline is done and the next open snapshot rotates the generation
  (`OneRevision`). `SameLife` says that every open version of the generation is about the life the
  source is in, or the checkpoint will take the task for reborn; `Heeded` that no listed and unseen
  version asks for what a run leaves undone. It gives `CompletionsJustified`, `CompletedOnce`,
  `ConsentIsHeld` and `ResolutionsHeeded`. Proving the first led to a correction of the model: without
  the last conjunct of `Knows`, a run that goes on from a snapshot of before a completion and its
  undoing lets the property fail, at bounds beyond those of the run.
* Each of these modules has `TypeCorrect`.

Every invariant and every step property of the runs is stated by a theorem. Only model-checked are
the temporal ones with fairness (`StagedIsCommitted`, `KeptAlive`, `Collected`, `DeadIsReplaced`,
`LossesHaveReasons`, `Converges`): liveness is out of the prover's reach.

## 5. Not modelled

`PROJECT.json` lists every component with a reason. In the modelled ones: the payload codec,
version gates and warnings, tags, rendering of events (a poisoned event is consumed and shown in
both modes), the obligations fragment of the queue's output, the seeding of a fresh schema-2 cursor
while the schema-1 reader is still running, corrupt documents (a reader that loads one stops and
leaves it alone; the re-read of `fold.py` before its write does not: it goes on to the save). In collect: the other requests of the control socket, schema mismatches and the
editing of definitions, the migration of the database. In the importers: parsers, the twin cache, `max_entries`, the webhook
receiver, chunks (an importer's events are one chunk), the gate that skips a readback which would
return nothing. In task-sync: Markdown and YAML, the preview mode, the snapshot of the provider, the bridge to
Apple Reminders.

Most of the repository's lines are front ends, parsers, renderers, wire formats and policy without
concurrency; they are better served by its tests.

## 6. Plan

1. The migration from schema 1 to schema 2 as a composition of `LegacyQueue` and `QueueCursor`.
2. `dual_emit.mirror` composed with `CoordFold` (its future dates are modelled already); `stream_fold` with its
   bounded seen set.
3. Concurrent configuration saves with their three-way merge.
4. Leases and ledger of coord-tracker-bridge; role claims; publication of generations; the
   listener journal of coord-v5; the attention cursor of coord-mesh.
