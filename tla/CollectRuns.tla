----------------------------- MODULE CollectRuns -----------------------------
(***************************************************************************)
(* The runs of one scheduled plugin of fulcra-collect, and its row of      *)
(* state.db.                                                               *)
(*                                                                         *)
(* The tick of Daemon.serve and the control socket trigger runs; a run is  *)
(* a thread of the daemon (runner.run) and a worker process                *)
(* (worker.run_plugin).  Both the runner and the web routes load the row,  *)
(* change fields of their copy and write the whole row back.  The worker   *)
(* works on a copy of its own, for minutes, and hands its copy of three    *)
(* fields to the runner when it ends.                                      *)
(*                                                                         *)
(* Times of the row are kept as ages, so that time need not be bounded: an *)
(* age stops growing once it makes no difference any more.                 *)
(***************************************************************************)
EXTENDS Integers, Sequences

CONSTANTS
  Thread,      \* the threads and worker processes there can be
  Editor,      \* requests of the web UI and of the command line
  Interval,    \* effective_interval
  Ttl,         \* DEFINITION_VALIDATION_TTL
  MaxItems,    \* bound on the items of the source
  MaxDefs,     \* bound on the definitions on the account, never reached
  MaxMoves,    \* bound on the number of things that go wrong and of requests
               \* that edit the row
  None

ASSUME CollectAssumption ==
  /\ Interval \in Nat /\ Ttl \in Nat \ {0}
  /\ MaxItems \in Nat /\ MaxDefs \in Nat
  /\ MaxMoves \in Nat /\ MaxDefs > MaxMoves
  /\ None \notin Nat
  /\ None \notin [last: Nat \cup {None}, wm: Nat, def: Nat, named: BOOLEAN,
                  stamp: Nat \cup {None}]

VARIABLES
  row,       \* plugin_state: what state.load returns
  inflight,  \* whether the plugin is in Daemon._inflight
  thread,    \* per thread: its run and the worker of that run
  edit,      \* per editor: the request it serves, and the row it loaded
  defs,      \* the definitions on the account, oldest first
  src,       \* how many items the source has
  rec,       \* how many of them have been recorded
  moves,     \* how much has gone wrong or been asked for
  chosen,    \* history: the definition the user picked while nothing else was
             \* going on, until the next request
  crossed    \* history: two edits had the row loaded at the same time, and what
             \* was going on then is not over

run == <<inflight, thread>>
cloud == <<defs, src, rec>>
history == <<chosen, crossed>>
vars == <<row, run, edit, cloud, moves, history>>

-----------------------------------------------------------------------------
(* The fields of PluginState that decide anything.  last: the age of       *)
(* last_run; wm: the watermark; def: definition_id; named: whether         *)
(* override_definition_name is set; stamp: the age of                      *)
(* definition_validated_at.  0 is no watermark and no definition.          *)
Row ==
  [last: 0..Interval \cup {None}, wm: 0..MaxItems, def: 0..Len(defs),
   named: BOOLEAN, stamp: 0..Ttl \cup {None}]

NewRow ==
  [last |-> None, wm |-> 0, def |-> 0, named |-> FALSE, stamp |-> None]

(* A run: where the thread is, the age of `now`, the worker, the worker's  *)
(* copy of the row (its result once it is gone) and the runner's.  A       *)
(* thread that is joining could not kill its worker, and waits for it to   *)
(* close its pipes.                                                        *)
Run ==
  [pc: {"idle", "starting", "spawned", "waiting", "joining", "saving", "orphan"},
   start: 0..Interval,
   worker: {"none", "boot", "check", "work", "hung", "gone"},
   ctx: Row \cup {None}, copy: Row \cup {None}]

IdleRun ==
  [pc |-> "idle", start |-> 0, worker |-> "none", ctx |-> None,
   copy |-> None]

Request ==
  [op: {"pick", "new", "clear", "delete", "invalidate"}, def: 0..Len(defs),
   named: BOOLEAN, snap: Row \cup {None}]

(* A definition has the plugin's canonical name or the one the user typed, *)
(* and is live until it is deleted.                                        *)
Definition == [name: {"canonical", "custom"}, live: BOOLEAN]

TypeOK ==
  /\ row \in Row
  /\ inflight \in BOOLEAN
  /\ thread \in [Thread -> Run]
  /\ edit \in [Editor -> Request \cup {None}]
  /\ defs \in Seq(Definition) /\ Len(defs) <= MaxDefs
  /\ src \in 0..MaxItems /\ rec \in 0..src
  /\ moves \in 0..MaxMoves
  /\ chosen \in 0..Len(defs) /\ crossed \in BOOLEAN

Init ==
  /\ row = NewRow
  /\ inflight = FALSE
  /\ thread = [t \in Thread |-> IdleRun]
  /\ edit = [c \in Editor |-> None]
  /\ defs = << >> /\ src = 0 /\ rec = 0
  /\ moves = 0 /\ chosen = 0 /\ crossed = FALSE

Live(d) == d > 0 /\ defs[d].live

Move == moves < MaxMoves /\ moves' = moves + 1

-----------------------------------------------------------------------------
(* Time and the source.                                                    *)

Older(age, cap) == IF age = None \/ age = cap THEN age ELSE age + 1

OlderRow(r) ==
  IF r = None THEN r
  ELSE [r EXCEPT !.last = Older(@, Interval), !.stamp = Older(@, Ttl)]

(* The daemon waits for the run of this thread.                            *)
UnderWay(t) == thread[t].pc \notin {"idle", "orphan"}

Advance ==
  /\ row' = OlderRow(row)
  /\ thread' = [t \in Thread |->
       [thread[t] EXCEPT !.start = IF UnderWay(t) THEN Older(@, Interval) ELSE 0,
                         !.ctx = OlderRow(@), !.copy = OlderRow(@)]]
  /\ edit' = [c \in Editor |->
       IF edit[c] = None THEN None
       ELSE [edit[c] EXCEPT !.snap = OlderRow(@)]]
  /\ UNCHANGED <<inflight, cloud, moves, history>>

NewItem ==
  /\ src < MaxItems
  /\ src' = src + 1
  /\ UNCHANGED <<row, run, edit, defs, rec, moves, history>>

(* A definition is deleted in another client.                              *)
DeletedElsewhere(d) ==
  /\ Live(d)
  /\ defs' = [defs EXCEPT ![d].live = FALSE]
  /\ Move
  /\ UNCHANGED <<row, run, edit, src, rec, history>>

-----------------------------------------------------------------------------
(* The daemon.                                                             *)

(* due_plugins for this plugin, given its loaded row.                      *)
Due(r) == r.last = None \/ r.last = Interval

(* Mutant: no look at _inflight.                                           *)
TriggerAnyway(t) ==
  /\ thread[t].pc = "idle"
  /\ inflight' = TRUE
  /\ thread' = [thread EXCEPT ![t] = [IdleRun EXCEPT !.pc = "starting"]]

(* _trigger: one run of the plugin at a time.  Threads have no identity,   *)
(* so it does not matter which idle one the run gets.                      *)
Trigger(t) ==
  /\ ~inflight
  /\ thread[t].pc = "idle"
  /\ t = CHOOSE u \in Thread : thread[u].pc = "idle"
  /\ inflight' = TRUE
  /\ thread' = [thread EXCEPT ![t] = [IdleRun EXCEPT !.pc = "starting"]]

(* serve: a plugin that is due is triggered.                               *)
Tick(t) ==
  /\ Due(row)
  /\ Trigger(t)
  /\ UNCHANGED <<row, edit, cloud, moves, history>>

(* _run: the control socket or the web UI asks for a run, at any time.  So *)
(* does serve when the rows it looked at were loaded before a run ended.   *)
RunNow(t) ==
  /\ Trigger(t)
  /\ UNCHANGED <<row, edit, cloud, moves, history>>

(* What becomes of a run when its daemon is gone.                          *)
Bereft(r, killed) ==
  IF killed \/ r.worker \in {"none", "gone"} THEN IdleRun
  ELSE [r EXCEPT !.pc = "orphan", !.start = 0]

(* The daemon stops and is started again.  An interrupt unwinds serve,     *)
(* which terminates the workers registered by then, if it can; SIGTERM and *)
(* a crash do not.  The new daemon may find that the user has changed accounts:       *)
(* _check_account_fingerprint then invalidates the row.                    *)
Restart(interrupted, switched) ==
  /\ Move
  /\ inflight' = FALSE
  /\ thread' = [t \in Thread |->
       IF thread[t].pc = "orphan" THEN thread[t]
       ELSE Bereft(thread[t], interrupted /\ thread[t].pc = "waiting")]
  /\ edit' = [c \in Editor |->
       IF switched /\ c = CHOOSE x \in Editor : TRUE
       THEN [op |-> "invalidate", def |-> 0, named |-> FALSE, snap |-> None]
       ELSE None]
  /\ defs' = [d \in DOMAIN defs |->
       [defs[d] EXCEPT !.live = @ /\ ~switched]]
  /\ chosen' = IF switched THEN 0 ELSE chosen
  /\ crossed' = FALSE
  /\ UNCHANGED <<row, src, rec>>

-----------------------------------------------------------------------------
(* runner.run                                                              *)

Steps(t, r) ==
  /\ thread' = [thread EXCEPT ![t] = r]
  /\ UNCHANGED <<inflight, edit, history>>

Spawn(t) ==
  /\ thread[t].pc = "starting"
  /\ Steps(t, [thread[t] EXCEPT !.pc = "spawned", !.worker = "boot"])
  /\ UNCHANGED <<row, cloud, moves>>

(* Mutant: the exception ends the thread and nothing tidies up.            *)
SpawnEscapes(t) ==
  /\ thread[t].pc = "starting"
  /\ Steps(t, IdleRun)
  /\ Move
  /\ UNCHANGED <<row, cloud>>

(* Popen raises: the run failed, and there is no result.                   *)
SpawnFails(t) ==
  /\ thread[t].pc = "starting"
  /\ Steps(t, [thread[t] EXCEPT !.pc = "waiting", !.worker = "gone"])
  /\ Move
  /\ UNCHANGED <<row, cloud>>

(* on_spawn: from here on a shutdown finds the worker.                     *)
Register(t) ==
  /\ thread[t].pc = "spawned"
  /\ Steps(t, [thread[t] EXCEPT !.pc = "waiting"])
  /\ UNCHANGED <<row, cloud, moves>>

Busy == {"boot", "check", "work"}

(* The worker has taken too long and is killed; or it cannot be killed,    *)
(* and the thread joins the readers of its pipes with the error in hand.   *)
TimesOut(t, killed) ==
  /\ thread[t].pc = "waiting" /\ thread[t].worker \in Busy \cup {"hung"}
  /\ Steps(t, IF killed
              THEN [thread[t] EXCEPT !.worker = "gone", !.ctx = None]
              ELSE [thread[t] EXCEPT !.pc = "joining"])
  /\ IF killed /\ thread[t].worker = "hung" THEN UNCHANGED moves ELSE Move
  /\ UNCHANGED <<row, cloud>>

(* Such a worker has ended: the error goes on its way, past the row and to *)
(* the finally of _work.                                                   *)
RunnerRaises(t) ==
  /\ thread[t].pc = "joining" /\ thread[t].worker = "gone"
  /\ thread' = [thread EXCEPT ![t] = IdleRun]
  /\ inflight' = FALSE
  /\ UNCHANGED <<row, edit, cloud, moves, history>>

(* The worker is gone: the runner loads the row as it is now,              *)
RunnerLoads(t) ==
  /\ thread[t].pc = "waiting" /\ thread[t].worker = "gone"
  /\ Steps(t, [thread[t] EXCEPT !.pc = "saving", !.copy = row])
  /\ UNCHANGED <<row, cloud, moves>>

(* Mutant: the definition is copied also when there is none.               *)
MergedUnasked(copy, result, start) ==
  LET r == IF result = None THEN [copy EXCEPT !.def = 0] ELSE result
  IN [r EXCEPT !.last = start, !.named = copy.named]

(* puts what the result carries into it, and record_finish on top of that; *)
Merged(copy, result, start) ==
  LET kept(new, old, absent) == IF new = absent THEN old ELSE new
      r == IF result = None THEN copy
           ELSE [copy EXCEPT !.wm = kept(result.wm, @, 0),
                             !.def = kept(result.def, @, 0),
                             !.stamp = kept(result.stamp, @, None)]
  IN [r EXCEPT !.last = start]

(* and writes the row.  _work's finally ends the run.                      *)
RunnerSaves(t) ==
  /\ thread[t].pc = "saving"
  /\ row' = Merged(thread[t].copy, thread[t].ctx, thread[t].start)
  /\ thread' = [thread EXCEPT ![t] = IdleRun]
  /\ inflight' = FALSE
  /\ crossed' = (crossed /\ \E c \in Editor : edit[c] # None)
  /\ UNCHANGED <<edit, cloud, moves, chosen>>

-----------------------------------------------------------------------------
(* The worker.                                                             *)

Working(t, step) == thread[t].worker = step

(* run_plugin: load the row; a worker never looks at last_run.  (It takes  *)
(* a worker longer to start than its thread to register it; it makes no    *)
(* difference, as one that is not registered is left alone.)               *)
WorkerLoads(t) ==
  /\ Working(t, "boot") /\ thread[t].pc # "spawned"
  /\ Steps(t, [thread[t] EXCEPT !.worker = "check",
                                !.ctx = [row EXCEPT !.last = None]])
  /\ UNCHANGED <<row, cloud, moves>>

(* Mutant: a stamp never expires.                                          *)
OnceIsEnough(r) == r.stamp # None

Fresh(r) == r.stamp # None /\ r.stamp < Ttl

(* resolved_definition_id: a definition validated lately is used as it is; *)
TrustsStamp(t) ==
  /\ Working(t, "check")
  /\ thread[t].ctx.def > 0 /\ Fresh(thread[t].ctx)
  /\ Steps(t, [thread[t] EXCEPT !.worker = "work"])
  /\ UNCHANGED <<row, cloud, moves>>

(* any other one is looked up: a live one is stamped, a dead one dropped.  *)
Validates(t) ==
  LET ctx == thread[t].ctx IN
  /\ Working(t, "check")
  /\ ctx.def > 0 /\ ~Fresh(ctx)
  /\ Steps(t, IF Live(ctx.def)
              THEN [thread[t] EXCEPT !.worker = "work",
                                     !.ctx.stamp = 0]
              ELSE [thread[t] EXCEPT !.ctx.def = 0])
  /\ UNCHANGED <<row, cloud, moves>>

(* definition_exists answers True when it could not ask.                   *)
CannotAsk(t) ==
  LET ctx == thread[t].ctx IN
  /\ Working(t, "check")
  /\ ctx.def > 0 /\ ~Fresh(ctx)
  /\ Steps(t, [thread[t] EXCEPT !.worker = "work",
                                !.ctx.stamp = 0])
  /\ Move
  /\ UNCHANGED <<row, cloud>>

(* resolve_definition_id: the oldest live definition of that name.         *)
Candidates(name) == {d \in DOMAIN defs : Live(d) /\ defs[d].name = name}

Oldest(ds) == CHOOSE d \in ds : \A x \in ds : d <= x

(* Mutant: the answer of the create request is not looked at.              *)
ResolvesBlindly(t) ==
  /\ Working(t, "check") /\ thread[t].ctx.def = 0
  /\ Steps(t, [thread[t] EXCEPT !.worker = "work", !.ctx.def = Len(defs) + 1,
                                !.ctx.named = FALSE, !.ctx.stamp = 0])
  /\ UNCHANGED <<row, cloud, moves>>

(* The definition is found or created; the override, if any, is used up in *)
(* the worker's copy.                                                      *)
Resolves(t) ==
  LET ctx == thread[t].ctx
      name == IF ctx.named THEN "custom" ELSE "canonical"
      adopts(d) == Steps(t, [thread[t] EXCEPT !.worker = "work",
                      !.ctx = [ctx EXCEPT !.def = d, !.named = FALSE,
                                          !.stamp = 0]])
  IN
  /\ Working(t, "check")
  /\ ctx.def = 0
  /\ IF Candidates(name) # {}
     THEN adopts(Oldest(Candidates(name))) /\ UNCHANGED defs
     ELSE /\ Len(defs) < MaxDefs
          /\ defs' = Append(defs, [name |-> name, live |-> TRUE])
          /\ adopts(Len(defs) + 1)
  /\ UNCHANGED <<row, src, rec, moves>>

(* The plugin records an item and moves its watermark (external).          *)
Records(t) ==
  LET wm == thread[t].ctx.wm IN
  /\ Working(t, "work")
  /\ wm < src
  /\ rec' = IF rec > wm THEN rec ELSE wm + 1
  /\ Steps(t, [thread[t] EXCEPT !.ctx.wm = wm + 1])
  /\ UNCHANGED <<row, defs, src, moves>>

(* The worker reports what it advanced, whether the plugin was done or     *)
(* raised; nobody hears what an orphan reports.                            *)
Reports(t) ==
  Steps(t, IF thread[t].pc = "orphan" THEN IdleRun
           ELSE [thread[t] EXCEPT !.worker = "gone", !.ctx.named = FALSE])

WorkerDone(t) ==
  /\ Working(t, "work") /\ thread[t].ctx.wm = src
  /\ Reports(t)
  /\ UNCHANGED <<row, cloud, moves>>

PluginRaises(t) ==
  /\ thread[t].worker \in {"check", "work"}
  /\ Reports(t)
  /\ Move
  /\ UNCHANGED <<row, cloud>>

(* The worker waits for an answer that does not come.                      *)
Hangs(t) ==
  /\ thread[t].worker \in Busy
  /\ Steps(t, [thread[t] EXCEPT !.worker = "hung"])
  /\ Move
  /\ UNCHANGED <<row, cloud>>

(* The worker crashes before it reports.                                   *)
WorkerDies(t) ==
  /\ thread[t].worker \in Busy \cup {"hung"}
  /\ Steps(t, IF thread[t].pc = "orphan" THEN IdleRun
              ELSE [thread[t] EXCEPT !.worker = "gone", !.ctx = None])
  /\ Move
  /\ UNCHANGED <<row, cloud>>

-----------------------------------------------------------------------------
(* Requests that edit the row.                                             *)

Asks(c, op, d, named) ==
  /\ edit[c] = None
  /\ Move
  /\ edit' = [edit EXCEPT ![c] =
       [op |-> op, def |-> d, named |-> named, snap |-> None]]
  /\ chosen' = 0
  /\ UNCHANGED <<row, run, src, rec, crossed>>

(* set_definition with the id of a definition, or with force_new and a     *)
(* name or none; clear_definition and `plugin reset-definition`.           *)
PicksDefinition(c, d) ==
  Live(d) /\ Asks(c, "pick", d, FALSE) /\ UNCHANGED defs

ForcesNew(c, named) == Asks(c, "new", 0, named) /\ UNCHANGED defs

ClearsDefinition(c) == Asks(c, "clear", 0, FALSE) /\ UNCHANGED defs

(* _delete_definition: the account first, the row that refers to it after. *)
DeletesDefinition(c, d) ==
  /\ Live(d)
  /\ Asks(c, "delete", d, FALSE)
  /\ defs' = [defs EXCEPT ![d].live = FALSE]

(* Whether the request changes the row it has loaded, and into what.       *)
Changes(q, r) ==
  CASE q.op = "delete" -> r.def = q.def
    [] q.op = "invalidate" -> r.def > 0
    [] OTHER -> TRUE

Edited(q, r) ==
  CASE q.op = "pick" -> [r EXCEPT !.def = q.def, !.named = FALSE]
    [] q.op = "new" -> [r EXCEPT !.def = 0, !.named = q.named]
    [] OTHER -> [r EXCEPT !.def = 0]

(* The request has loaded the row and will write it.                       *)
Loaded(c) == edit[c] # None /\ edit[c].snap # None

EditLoads(c) ==
  /\ edit[c] # None /\ edit[c].snap = None
  /\ edit' = [edit EXCEPT ![c] =
       IF Changes(edit[c], row) THEN [edit[c] EXCEPT !.snap = row] ELSE None]
  /\ crossed' = (crossed \/ (Changes(edit[c], row) /\ \E x \in Editor : Loaded(x)))
  /\ UNCHANGED <<row, run, cloud, moves, chosen>>

(* Nothing else that will write the row is under way.                      *)
Alone(c) ==
  /\ \A t \in Thread : ~UnderWay(t)
  /\ \A x \in Editor \ {c} : edit[x] = None

EditSaves(c) ==
  /\ Loaded(c)
  /\ row' = Edited(edit[c], edit[c].snap)
  /\ edit' = [edit EXCEPT ![c] = None]
  /\ chosen' = IF edit[c].op = "pick" /\ Alone(c) THEN edit[c].def ELSE 0
  /\ crossed' = (crossed /\ ~Alone(c))
  /\ UNCHANGED <<run, cloud, moves>>

-----------------------------------------------------------------------------
(* What a thread and its worker do by themselves; a worker that hangs is   *)
(* killed when its time is up.                                             *)
RunStep(t) ==
  \/ Spawn(t) \/ Register(t) \/ RunnerLoads(t) \/ RunnerSaves(t)
  \/ RunnerRaises(t)
  \/ thread[t].worker = "hung" /\ TimesOut(t, TRUE)
  \/ WorkerLoads(t) \/ TrustsStamp(t) \/ Validates(t) \/ Resolves(t)
  \/ Records(t) \/ WorkerDone(t)

Misfortune(t) ==
  \/ SpawnFails(t) \/ CannotAsk(t) \/ PluginRaises(t) \/ WorkerDies(t)
  \/ Hangs(t)
  \/ \E killed \in BOOLEAN : TimesOut(t, killed)

Daemon ==
  \/ \E t \in Thread : Tick(t) \/ RunNow(t)
  \/ \E interrupted, switched \in BOOLEAN : Restart(interrupted, switched)

EditStep(c) == EditLoads(c) \/ EditSaves(c)

User(c) ==
  \/ \E d \in DOMAIN defs : PicksDefinition(c, d) \/ DeletesDefinition(c, d)
  \/ \E named \in BOOLEAN : ForcesNew(c, named)
  \/ ClearsDefinition(c)

Next ==
  \/ Advance \/ NewItem
  \/ \E d \in DOMAIN defs : DeletedElsewhere(d)
  \/ Daemon
  \/ \E t \in Thread : RunStep(t) \/ Misfortune(t)
  \/ \E c \in Editor : EditStep(c) \/ User(c)

Spec == Init /\ [][Next]_vars

(* Time passes, the loop of serve goes on, and a thread or process that    *)
(* can take a step takes one.                                              *)
FairSpec ==
  /\ Spec
  /\ WF_vars(Advance)
  /\ WF_vars(\E t \in Thread : Tick(t))
  /\ \A t \in Thread : WF_vars(RunStep(t))
  /\ \A c \in Editor : WF_vars(EditStep(c))
-----------------------------------------------------------------------------
(* A definition that the user picked while no run was under way stays the  *)
(* plugin's, and the one its runs write to, as long as it exists and the   *)
(* user asks for nothing else: whichever run fails, and however.           *)
PickHolds ==
  chosen > 0 /\ Live(chosen) =>
    /\ row.def = chosen
    /\ \A t \in Thread :
         thread[t].pc # "orphan" /\ thread[t].ctx # None =>
           thread[t].ctx.def = chosen

(* The watermark of the row never goes back, and last_run does not either: *)
(* but for the clock, nothing makes it older.  The exception is the save   *)
(* of an edit that had loaded the row earlier: two runs never overlap, and *)
(* what outlives its daemon does not write the row.  Two edits at the same *)
(* time can bring the row back and forth, under a run that then puts the   *)
(* watermark where it saw it.                                              *)
RowNeverGoesBack ==
  [][\/ /\ row'.wm >= row.wm \/ crossed
        /\ row.last # None => row'.last # None /\ row'.last <= row.last
     \/ Advance
     \/ \E c \in Editor : EditSaves(c)]_row

(* A worker that hangs and cannot be killed keeps its thread in join, and  *)
(* the plugin in _inflight.                                                *)
Stuck == \E t \in Thread : thread[t].pc = "joining" /\ thread[t].worker = "hung"

(* Every item of the source is recorded in the end, whichever runs fail,   *)
(* hang, time out or are cut off and whatever the user edits meanwhile,    *)
(* unless a worker is stuck for good.                                      *)
Collected == <>[]Stuck \/ \A i \in 1..MaxItems : src >= i ~> rec >= i

(* A plugin does not stay with a definition that was deleted: neither a    *)
(* run that was under way at the time nor a lost edit keeps it for good,   *)
(* unless a worker is stuck for good.                                      *)
DeadIsReplaced == <>[]Stuck \/ []<>(row.def > 0 => Live(row.def))
=============================================================================
