------------------------------ MODULE TaskSync ------------------------------
(***************************************************************************)
(* Completion-only reconciliation of one source task (a reminder, a        *)
(* Todoist item) with its versioned task document in the vault:            *)
(* packages/task-sync/fulcra_task_sync/engine.py over the checkpoint       *)
(* records of state.py, with the provider and the vault as environments.   *)
(*                                                                         *)
(* Tasks share nothing but the active record, so one task is modelled.     *)
(* The owner of the source edits, completes, reopens and moves it; bots    *)
(* append document versions based on any earlier version; the settings     *)
(* owner changes the selection; the run may die, or any of its calls may   *)
(* raise, before every step; a completion or an upload whose reply was     *)
(* lost may still land later.                                              *)
(***************************************************************************)
EXTENDS Naturals, Sequences, FiniteSets

CONSTANTS
    Lists,        \* source collections, selected or not
    Selections,   \* the selections (sets of lists) the settings may hold
    Recurrence,   \* the values Task.recurring may take
    MaxVersions,  \* engine.MAX_VERSIONS = state.MAX_HISTORY, 500 in the code
    MaxMoves      \* bound: edits of the owner and of bots, selection changes and faults

ASSUME ListsAssumption == Lists # {} /\ Selections \subseteq SUBSET Lists
ASSUME RecurrenceAssumption == Recurrence \subseteq BOOLEAN /\ Recurrence # {}
ASSUME BoundsAssumption == MaxVersions \in Nat \ {0} /\ MaxMoves \in Nat

VARIABLES
    src,     \* the task at the source
    docs,    \* the document's versions, oldest first; immutable once uploaded
    late,    \* uploads submitted by a dead run that have not landed
    flight,  \* completion commands submitted that have not landed
    closed,  \* completion commands that landed
    sel,     \* the selection the settings hold now
    active,  \* the account's active record
    rec,     \* the task's checkpoint record
    gens,    \* generations drawn so far (uuid4 never repeats)
    run,     \* the one run of the engine
    moves    \* disturbances so far

store == <<active, rec, gens>>
vars == <<src, docs, late, flight, closed, sel, store, run, moves>>

(* A revision identifies a source state. Two fields are history: "by" is   *)
(* the generation whose command closed the task (0: its owner did), and    *)
(* "life" counts the reopenings the checkpoint accounts for (see Knows).   *)
Task == [rev : Nat \ {0}, done : BOOLEAN, list : Lists, due : Nat,
         recurring : BOOLEAN, by : Nat, life : Nat]

(* Front matter of one version. srev stands for the four fields of the     *)
(* fingerprint (a revision determines the others); 0 when one was edited.  *)
Document == [gen : Nat \ {0}, resolved : BOOLEAN, sdone : BOOLEAN, srev : Nat,
             list : Lists, life : Nat]

Command == [rev : Nat \ {0}, gen : Nat \ {0}, life : Nat, list : Lists]

(* _baseline: what the checkpoint keeps of the source. *)
Baseline == [rev : Nat, done : BOOLEAN, list : Lists, due : Nat, recurring : BOOLEAN]
baseline(t) == [rev |-> t.rev, done |-> t.done, list |-> t.list, due |-> t.due,
                recurring |-> t.recurring]

(* A new task, on one of the lists; its owner may move it at once. *)
NewTask == [rev |-> 1, done |-> FALSE, list |-> CHOOSE l \in Lists : TRUE, due |-> 0,
           recurring |-> FALSE, by |-> 0, life |-> 0]
NoIntent == [gen |-> 0, rev |-> 0]
NoRecord == [epoch |-> 0, gen |-> 0, base |-> baseline(NewTask), seen |-> {},
             trusted |-> {}, journal |-> NoIntent]
Record == [epoch : Nat, gen : Nat, base : Baseline, seen : SUBSET Nat,
           trusted : SUBSET Nat, journal : [gen : Nat, rev : Nat]]

Steps == {"idle", "inspect", "fresh", "complete", "close", "wait", "render", "upload", "finish"}
Run == [pc : Steps, sel : SUBSET Lists, task : Task, gen : Nat, n : Nat, own : Nat]
Idle == [pc |-> "idle", sel |-> {}, task |-> NewTask, gen |-> 0, n |-> 0, own |-> 0]

Init ==
    /\ \E r \in Recurrence : src = [NewTask EXCEPT !.recurring = r]
    /\ docs = <<>> /\ late = {} /\ flight = {} /\ closed = {}
    /\ sel \in Selections
    /\ active = [sel |-> {}, epoch |-> 0]
    /\ rec = NoRecord /\ gens = 0
    /\ run = Idle /\ moves = 0

(***************************************************************************)
(* The checkpoint, as store.task() and _sync_task read it.                 *)
(***************************************************************************)

(* A record of another epoch does not exist for this run. *)
HasPrevious == rec.epoch # 0 /\ rec.epoch = active.epoch
Seen == IF HasPrevious THEN rec.seen ELSE {}
Unseen == DOMAIN docs \ Seen

(* Mutant: an uncertain completion is simply tried again.                   *)
NeverDoubts(t) == FALSE

(* An uncertain completion followed by another open revision. *)
MaybeReopened(t) ==
    rec.journal # NoIntent /\ ~t.done /\ t.rev # rec.journal.rev

(* Mutant: a reopening does not rotate the generation.                     *)
ReopenUnnoticed(t) ==
    rec.base.list # t.list \/ (t.recurring /\ rec.base.due # t.due)

SourceReborn(t) ==
    \/ rec.base.done /\ ~t.done
    \/ rec.base.list # t.list
    \/ t.recurring /\ rec.base.due # t.due

(* Another scope or host wrote the newest version. *)
Superseded == docs # <<>> /\ docs[Len(docs)].gen # rec.gen

Generation(t) ==
    IF HasPrevious /\ ~MaybeReopened(t) /\ ~SourceReborn(t) /\ ~Superseded
    THEN rec.gen
    ELSE gens + 1

Trusted(g) == IF HasPrevious /\ g = rec.gen THEN rec.trusted ELSE {}

WrongList(t) ==
    \E v \in Unseen : docs[v].list # (IF HasPrevious THEN rec.base.list ELSE t.list)

Untrusted(g) ==
    HasPrevious /\ \E v \in Unseen : docs[v].gen = g /\ docs[v].srev \notin Trusted(g)

Asks(d) == d.resolved /\ ~d.sdone

Resolve(g) ==
    /\ HasPrevious
    /\ \/ \E v \in Unseen : docs[v].gen = g /\ Asks(docs[v])
       \/ rec.journal.gen = g

(* Mutant: the version about to be written is not counted.                 *)
FullTooLate(n) == n > MaxVersions

Full(n) == n >= MaxVersions

(***************************************************************************)
(* The run.                                                                *)
(***************************************************************************)

Goto(pc) == run' = [run EXCEPT !.pc = pc]
End == run' = Idle

At(pc) == run.pc = pc

(* The run is about to complete the task, or waits for the answer. *)
Completing == run.pc \in {"fresh", "complete", "close", "wait"}

Guard == sel = run.sel

(* Every disturbance of the run draws on one budget. *)
Disturb == moves < MaxMoves /\ moves' = moves + 1

env == <<src, docs, late, flight, closed, sel>>

(* The guard fails: the selection is no longer the run's. *)
Stop ==
    /\ run.pc \in {"inspect", "fresh", "complete", "render", "upload", "finish"} /\ ~Guard
    /\ End
    /\ UNCHANGED <<env, store, moves>>

(* The run dies, its deadline passes, or the call it is in raises. *)
Abort ==
    /\ ~At("idle") /\ Disturb
    /\ End
    /\ UNCHANGED <<env, store>>

(* The snapshot comes first, then StateStore's active record: a changed    *)
(* selection draws a new epoch. A task outside the selection, or deleted,  *)
(* is skipped.                                                             *)
Begin ==
    /\ At("idle") /\ sel # {}
    /\ active' = IF active.sel = sel THEN active
                 ELSE [sel |-> sel, epoch |-> active.epoch + 1]
    /\ IF src.list \in sel
       THEN run' = [Idle EXCEPT !.pc = "inspect", !.sel = sel, !.task = src]
       ELSE UNCHANGED run
    /\ UNCHANGED <<env, rec, gens, moves>>

(* Every unseen version is read; the listing may be refused for its size,  *)
(* a document for its collection or its fingerprint.                       *)
Inspect ==
    /\ At("inspect") /\ Guard
    /\ LET t == run.task
           g == Generation(t)
           resolve == Resolve(g) /\ ~t.done
           go(pc) == run' = [run EXCEPT !.pc = pc, !.gen = g, !.n = Len(docs)]
           refused == Len(docs) > MaxVersions \/ WrongList(t) \/ Untrusted(g)
           blocked == t.recurring /\ rec.base = baseline(t)
           noroom == ~t.recurring /\ (Full(Len(docs)) \/ Cardinality(Trusted(g)) >= MaxVersions)
       IN  IF refused \/ (resolve /\ (blocked \/ noroom)) THEN End
           ELSE IF resolve /\ ~t.recurring THEN go("fresh")
           ELSE go("render")
    /\ UNCHANGED <<env, store, moves>>

Saved(base, seen, trusted, journal) ==
    [epoch |-> active.epoch, gen |-> run.gen, base |-> base, seen |-> seen,
     trusted |-> trusted, journal |-> journal]

(* The source is read again; the intent is durable before the completion. *)
SaveIntent ==
    /\ At("fresh") /\ Guard
    /\ IF src.rev = run.task.rev
       THEN /\ rec' = Saved(rec.base, Seen, Trusted(run.gen),
                            [gen |-> run.gen, rev |-> src.rev])
            /\ Goto("complete")
       ELSE End /\ UNCHANGED rec
    /\ UNCHANGED <<env, active, gens, moves>>

(* mutation_scope takes the shared leases and the guard is checked once    *)
(* more; then provider.complete reads the task a last time.                *)
ProviderChecks ==
    /\ At("complete") /\ Guard
    /\ IF src.list # run.task.list \/ (~src.done /\ (src.recurring \/ src.rev # run.task.rev))
       THEN End
       ELSE run' = [run EXCEPT !.pc = IF src.done THEN "render" ELSE "close", !.task = src]
    /\ UNCHANGED <<env, store, moves>>

CommandOf == [rev |-> run.task.rev, gen |-> run.gen, life |-> run.task.life,
              list |-> run.task.list]

Submit ==
    /\ At("close")
    /\ flight' = flight \cup {CommandOf}
    /\ Goto("wait")
    /\ UNCHANGED <<src, docs, late, closed, sel, store, moves>>

(* The command was answered; the engine reads the completion back. *)
Confirm ==
    /\ At("wait") /\ CommandOf \notin flight
    /\ IF src.done /\ src.list = run.task.list
       THEN run' = [run EXCEPT !.pc = "render", !.task = src]
       ELSE End
    /\ UNCHANGED <<env, store, moves>>

Rendered ==
    [gen |-> run.gen, resolved |-> run.task.done, sdone |-> run.task.done,
     srev |-> run.task.rev, list |-> run.task.list, life |-> run.task.life]

(* Mutant: a new revision alone is not worth an upload.                    *)
SameStatus(d, e) ==
    \A f \in {"gen", "resolved", "sdone", "list"} : d[f] = e[f]

Same(d, e) ==
    \A f \in {"gen", "resolved", "sdone", "srev", "list"} : d[f] = e[f]

(* The exact planned baseline is saved before the upload, the versions     *)
(* read are not marked seen yet.                                           *)
Plan ==
    /\ At("render") /\ Guard
    /\ LET trusted == Trusted(run.gen) \cup {run.task.rev}
       IN  IF run.n > 0 /\ Same(Rendered, docs[run.n])
           THEN Goto("finish") /\ UNCHANGED <<rec, gens>>
           ELSE IF Full(run.n) \/ Cardinality(trusted) > MaxVersions
           THEN End /\ UNCHANGED <<rec, gens>>
           ELSE /\ rec' = Saved(baseline(run.task), Seen, trusted, NoIntent)
                /\ gens' = IF run.gen > gens THEN run.gen ELSE gens
                /\ Goto("upload")
    /\ UNCHANGED <<env, active, moves>>

(* Under the leases, and the guard checked inside them. *)
Upload ==
    /\ At("upload") /\ Guard
    /\ docs' = Append(docs, Rendered)
    /\ run' = [run EXCEPT !.pc = "finish", !.own = Len(docs) + 1]
    /\ UNCHANGED <<src, late, flight, closed, sel, store, moves>>

(* The client gives up on an upload the service may still apply. *)
UploadTimesOut ==
    /\ At("upload") /\ Guard /\ Disturb
    /\ late' = late \cup {Rendered}
    /\ End
    /\ UNCHANGED <<src, docs, flight, closed, sel, store>>

(* Mutant: every version there is by now counts as seen.                   *)
FinishAll ==
    /\ At("finish") /\ Guard
    /\ rec' = Saved(baseline(run.task), DOMAIN docs, Trusted(run.gen), NoIntent)
    /\ gens' = IF run.gen > gens THEN run.gen ELSE gens
    /\ End
    /\ UNCHANGED <<env, active, moves>>

(* The versions listed and the one uploaded are seen, no others. *)
Finish ==
    /\ At("finish") /\ Guard
    /\ rec' = Saved(baseline(run.task), Seen \cup 1..run.n \cup ({run.own} \ {0}),
                    Trusted(run.gen), NoIntent)
    /\ gens' = IF run.gen > gens THEN run.gen ELSE gens
    /\ End
    /\ UNCHANGED <<env, active, moves>>

(***************************************************************************)
(* The environments.                                                       *)
(***************************************************************************)

(* item_close is idempotent per command identity, which is derived from    *)
(* the revision; it closes the task whatever its revision is by then.      *)
Land ==
    \E c \in flight :
       /\ flight' = flight \ {c}
       /\ IF \E d \in closed : d.rev = c.rev
          THEN UNCHANGED <<src, closed>>
          ELSE /\ closed' = closed \cup {c}
               /\ src' = IF src.done THEN src
                         ELSE [src EXCEPT !.done = TRUE, !.rev = @ + 1, !.by = c.gen]
       /\ UNCHANGED <<docs, late, sel, store, run, moves>>

LoseCommand ==
    /\ Disturb
    /\ \E c \in flight : flight' = flight \ {c}
    /\ UNCHANGED <<src, docs, late, closed, sel, store, run>>

LateUpload ==
    \E d \in late :
       /\ late' = late \ {d}
       /\ docs' = Append(docs, d)
       /\ UNCHANGED <<src, flight, closed, sel, store, run, moves>>

Owner(task) ==
    /\ Disturb
    /\ src' = [task EXCEPT !.rev = src.rev + 1]
    /\ UNCHANGED <<docs, late, flight, closed, sel, store, run>>

OwnerEdits == \E r \in Recurrence : Owner([src EXCEPT !.recurring = r])
OwnerCompletes == ~src.done /\ ~src.recurring /\ Owner([src EXCEPT !.done = TRUE])
OwnerMoves == \E l \in Lists \ {src.list} : Owner([src EXCEPT !.list = l])

(* A recurring task is never done: completing it moves its due date. *)
OwnerAdvances == src.recurring /\ ~src.done /\ Owner([src EXCEPT !.due = @ + 1])

(* The completion now undone is in the checkpoint, as a baseline or as the *)
(* intent behind it, and no run goes on from a snapshot that predates it:  *)
(* one that repeats the completion reads the source again.                 *)
Knows ==
    /\ HasPrevious
    /\ rec.base.done \/ (src.by # 0 /\ src.by = rec.journal.gen)
    /\ At("idle") \/ run.task.done \/ Completing

OwnerReopens ==
    /\ src.done
    /\ Owner([src EXCEPT !.done = FALSE, !.by = 0,
                         !.life = IF Knows THEN @ + 1 ELSE @])

(* A bot may have read any version before it writes its own. *)
BotWrites(resolves, tampers) ==
    /\ Disturb
    /\ \E v \in DOMAIN docs :
          docs' = Append(docs, [docs[v] EXCEPT !.resolved = @ \/ resolves,
                                               !.srev = IF tampers THEN 0 ELSE @])
    /\ UNCHANGED <<src, late, flight, closed, sel, store, run>>

BotResolves == BotWrites(TRUE, FALSE)
BotAnnotates == BotWrites(FALSE, FALSE)
BotTampers == BotWrites(TRUE, TRUE)

(* Mutant: settings are written without the locks.                         *)
SetSelectionAnyTime ==
    /\ Disturb
    /\ \E s \in Selections \ {sel} : sel' = s
    /\ UNCHANGED <<src, docs, late, flight, closed, store, run>>

(* Settings changes take the locks exclusively: none while a lease is held. *)
SetSelection ==
    /\ run.pc \notin {"close", "wait"} /\ Disturb
    /\ \E s \in Selections \ {sel} : sel' = s
    /\ UNCHANGED <<src, docs, late, flight, closed, store, run>>

Engine ==
    \/ Stop \/ Begin \/ Inspect \/ SaveIntent \/ ProviderChecks \/ Submit \/ Confirm
    \/ Plan \/ Upload \/ Finish

Environment ==
    \/ OwnerEdits \/ OwnerCompletes \/ OwnerMoves \/ OwnerAdvances \/ OwnerReopens
    \/ BotResolves \/ BotAnnotates \/ BotTampers \/ SetSelection

Next ==
    \/ Engine \/ Environment
    \/ Land \/ LateUpload
    \/ Abort \/ UploadTimesOut \/ LoseCommand

(* The collector runs the plugin again and again, every run's calls are    *)
(* bounded in time, and the provider works through what it received.       *)
Fairness == WF_vars(Engine) /\ WF_vars(Land) /\ WF_vars(LateUpload)

Spec == Init /\ [][Next]_vars
FairSpec == Spec /\ Fairness

(***************************************************************************)
(* Properties.                                                             *)
(***************************************************************************)

(* Every variable stays in its type, and a record or a listing never       *)
(* exceeds the history cap the checkpoint store enforces.                  *)
TypeOK ==
    /\ src \in Task /\ docs \in Seq(Document) /\ late \subseteq Document
    /\ flight \subseteq Command /\ closed \subseteq Command
    /\ sel \in SUBSET Lists
    /\ active \in [sel : SUBSET Lists, epoch : Nat]
    /\ rec \in Record /\ run \in Run
    /\ Cardinality(rec.seen) <= MaxVersions /\ Cardinality(rec.trusted) <= MaxVersions
    /\ gens \in Nat /\ moves \in Nat

(* Every completion the engine sends was asked for: an untampered document *)
(* version of the same generation and collection was resolved while its    *)
(* source was open, and it describes the same life of the task, so no old  *)
(* resolution or uncertain intent completes a task its owner reopened.     *)
CompletionJustified ==
    \A c \in flight \cup closed :
       \E v \in DOMAIN docs :
          /\ Asks(docs[v]) /\ docs[v].srev # 0
          /\ docs[v].gen = c.gen /\ docs[v].life = c.life /\ docs[v].list = c.list

(* The engine completes a task at most once per generation, whatever       *)
(* replies are lost and wherever a run dies: the journal is durable first. *)
OncePerGeneration ==
    \A c, d \in closed : c.gen = d.gen => c = d

(* Whenever a completion may be sent, from the provider's last read to its *)
(* answer, the selection is the one the run was started under and the task *)
(* is in it.                                                               *)
ConsentHeld ==
    run.pc \in {"close", "wait"} => sel = run.sel /\ run.task.list \in sel

(* A resolution of the current generation is never marked seen unless the  *)
(* source is done or its recurrence forbids the completion: a version that *)
(* races with the engine's own upload is not skipped.                      *)
ResolutionNotLost ==
    [][rec'.epoch = rec.epoch =>
         \A v \in rec'.seen \ rec.seen :
            Asks(docs[v]) /\ docs[v].gen = rec'.gen
               => rec'.base.done \/ rec'.base.recurring]_vars

Mirrors ==
    src.list \in sel /\ ~(src.recurring /\ Resolve(rec.gen)) =>
       /\ docs # <<>>
       /\ LET d == docs[Len(docs)]
          IN  d.srev = src.rev /\ d.list = src.list /\ d.resolved = src.done

(* States a person has to repair: a full history (of versions, or of the   *)
(* source states of a generation, which runs that die before the upload    *)
(* use up as well), a version whose source metadata was edited, or an      *)
(* unseen version of another collection.                                   *)
NeedsRepair ==
    \/ Full(Len(docs)) \/ Cardinality(Trusted(rec.gen)) >= MaxVersions
    \/ Untrusted(rec.gen) \/ WrongList(src)

(* Once edits stop, the newest version comes to agree with the source in   *)
(* both directions (a resolution has completed it), unless the document    *)
(* needs repair or asks for the completion of a recurring task.            *)
Converges == <>[](Mirrors \/ NeedsRepair)

(* "A concurrent bot version remains unseen and will be processed on the   *)
(* next run" (engine.py, after the upload): while no version was tampered  *)
(* with, no resolution stays unseen for ever.                              *)
RacingVersionsProcessed ==
    LET Pending(v) == /\ v \in Unseen /\ Asks(docs[v])
                      /\ \A w \in DOMAIN docs : docs[w].srev # 0
    IN  \A v \in 1..MaxVersions : Pending(v) ~> ~Pending(v)
=============================================================================
