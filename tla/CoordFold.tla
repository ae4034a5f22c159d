----------------------------- MODULE CoordFold -----------------------------
(***************************************************************************)
(* coord-fold: one agent's open obligations, folded from the events of the *)
(* bus-v4 channel into one durable checkpoint.  Several passes of the same *)
(* agent may run at once; each loads the checkpoint, reads the stream from *)
(* the cursor on (less an overlap), applies the events one by one, reads   *)
(* the checkpoint's generation again and overwrites the checkpoint.  The   *)
(* verbs claim, release and close look an obligation up in the checkpoint  *)
(* and write an event of their own.                                        *)
(*                                                                         *)
(* The agent is "me", everybody else "peer".  Pointers, priorities and the *)
(* list of unreadable pointers are carried along by the code and decide    *)
(* nothing here; they are left out.                                        *)
(*                                                                         *)
(* Nothing is assumed of how long a record takes to be indexed, of how     *)
(* long a verb takes from its time stamp to its write, or of how far from  *)
(* now a record is dated: the code's overlap is five seconds, and each of  *)
(* the three is longer at times.  The history variables say which events   *)
(* came too late for it.                                                   *)
(***************************************************************************)
EXTENDS RecordTrack, CappedList

CONSTANTS
  Slug,        \* names of obligations
  Message,     \* what peers, and `emit` by the agent, may put on the channel
  Pass,        \* processes that run `fold`
  Verb,        \* processes that run `claim`, `release` or `close`
  Overlap,     \* OVERLAP_SECONDS
  SeenCap,     \* _SEEN_CAP
  MaxEvents,   \* the values of --max-events in use
  Rebuild,     \* the values of --rebuild in use
  MaxGeneration, \* bound: no pass begins at this generation
  MaxAbandon,  \* bound on the processes that fail or die
  None

(* The kinds of _OWN_ACTIONS.                                              *)
OwnAction == {"claim", "release", "close"}

Content ==
  [kind: {"open", "note"} \cup OwnAction, slug: Slug, from: {"me", "peer"},
   to: {"me", "peer", "all"}]

ASSUME FoldAssumption ==
  /\ Message \subseteq Content
  /\ Overlap \in Nat
  /\ SeenCap \in Nat \ {0} /\ MaxEvents \subseteq Nat
  /\ Rebuild \subseteq BOOLEAN

VARIABLES
  info,        \* what every written event says
  checkpoint,  \* the durable document
  pc,          \* per pass: where it is
  work,        \* per pass: its copy of the document; its cursor is
               \* last_observed while it folds
  todo,        \* per pass: the records it has yet to look at
  applied,     \* per pass: how many events it has counted as applied
  limit,       \* per pass: its --max-events
  want,        \* per verb: its time stamp and the event it will write
  abandoned,   \* how many processes have failed
  frontier,    \* history: the newest date that any pass has read
  overtaken    \* history: the events indexed when a pass had already read
               \* a record dated more than the overlap later

passes == <<pc, work, todo, applied, limit>>
history == <<frontier, overtaken>>
vars == <<track, info, checkpoint, passes, want, abandoned, history>>

(* A row stands for the event that opened it.                              *)
Row == [event: sent, claimed_by: {"me", "peer", None}]

(* The document, and the set `done` of the events that were applied to it  *)
(* so far: what seen would be if it were not cut to SeenCap; `redone` are  *)
(* the ones among them that were forgotten, read again and applied again.  *)
Document ==
  [cursor: Int, open: [Slug -> Row \cup {None}], unread: Nat,
   seen: Seq(sent), generation: Nat, done: SUBSET sent, redone: SUBSET sent]

(* empty(_EPOCH): all records are dated at 0 or later.                     *)
EmptyDocument ==
  [cursor |-> 0, open |-> [s \in Slug |-> None], unread |-> 0,
   seen |-> << >>, generation |-> 0, done |-> {}, redone |-> {}]

ASSUME NoneAssumption ==
  None \notin [event: Event, claimed_by: {"me", "peer", None}] \cup Content

TypeOK ==
  /\ TrackTypeOK
  /\ info \in [Event -> Content \cup {None}]
  /\ \A e \in sent : info[e] # None
  /\ checkpoint = None \/ checkpoint \in Document
  /\ pc \in [Pass -> {"idle", "loaded", "folding", "saving"}]
  /\ work \in [Pass -> Document]
  /\ todo \in [Pass -> Seq(sent)]
  /\ applied \in [Pass -> Nat]
  /\ limit \in [Pass -> Nat]
  /\ want \in [Verb -> [at: Nat, says: Content \cup {None}] \cup {None}]
  /\ abandoned \in Nat
  /\ frontier \in Int /\ overtaken \in SUBSET sent

Init ==
  /\ TrackInit /\ sent = {}
  /\ info = [e \in Event |-> None]
  /\ checkpoint = None
  /\ pc = [p \in Pass |-> "idle"]
  /\ work = [p \in Pass |-> EmptyDocument]
  /\ todo = [p \in Pass |-> << >>]
  /\ applied = [p \in Pass |-> 0]
  /\ limit = [p \in Pass |-> 0]
  /\ want = [v \in Verb |-> None]
  /\ abandoned = 0
  /\ frontier = 0 /\ overtaken = {}

-----------------------------------------------------------------------------
(* The channel.                                                            *)

(* emit: somebody writes an event, dated when the command began or as its  *)
(* --at says, but not before the epoch.                                    *)
PeerEmit(e, d, m) ==
  /\ 0 <= clock + d
  /\ Emit(e, d)
  /\ info' = [info EXCEPT ![e] = m]
  /\ UNCHANGED <<checkpoint, passes, want, abandoned, history>>

(* Time passes, whatever is not indexed yet and whatever a verb has begun. *)
Clock ==
  /\ clock < MaxTime
  /\ clock' = clock + 1
  /\ UNCHANGED <<sent, at, visible, info, checkpoint, passes, want, abandoned,
                 history>>

(* Some pass has read a record dated more than the overlap after e.        *)
Ahead(e) == at[e] + Overlap < frontier

(* The index catches up with one record.                                   *)
Catchup(e) ==
  /\ Index(e)
  /\ overtaken' = IF Ahead(e) THEN overtaken \cup {e} ELSE overtaken
  /\ UNCHANGED <<info, checkpoint, passes, want, abandoned, frontier>>

-----------------------------------------------------------------------------
(* claim, release and close.                                               *)

(* main: --at defaults to the time at which the command began.             *)
VerbStart(v) ==
  /\ want[v] = None
  /\ want' = [want EXCEPT ![v] = [at |-> clock, says |-> None]]
  /\ UNCHANGED <<track, info, checkpoint, passes, abandoned, history>>

(* _owed_row: the obligation must be open in the checkpoint; the event is  *)
(* addressed to whoever opened it.                                         *)
VerbLookup(v, kind, s) ==
  /\ want[v] # None /\ want[v].says = None
  /\ checkpoint # None /\ checkpoint.open[s] # None
  /\ want' = [want EXCEPT ![v].says =
       [kind |-> kind, slug |-> s, from |-> "me",
        to |-> info[checkpoint.open[s].event].from]]
  /\ UNCHANGED <<track, info, checkpoint, passes, abandoned, history>>

(* _emit_kind: the event is written (for close, the evidence was read).    *)
VerbEmit(v, e) ==
  /\ want[v] # None /\ want[v].says # None
  /\ Emit(e, want[v].at - clock)
  /\ info' = [info EXCEPT ![e] = want[v].says]
  /\ want' = [want EXCEPT ![v] = None]
  /\ UNCHANGED <<checkpoint, passes, abandoned, history>>

(* Refused, unreadable, or the process dies: nothing is written.           *)
VerbAbandon(v) ==
  /\ want[v] # None
  /\ abandoned < MaxAbandon
  /\ abandoned' = abandoned + 1
  /\ want' = [want EXCEPT ![v] = None]
  /\ UNCHANGED <<track, info, checkpoint, passes, history>>

-----------------------------------------------------------------------------
(* fold.                                                                   *)

(* Mutant: whatever the agent has sent concerns it.                        *)
RelevantToSender(ev) ==
  ev.to \in {"me", "all"} \/ ev.from = "me"

(* The events that concern the agent: addressed to it, broadcast by        *)
(* somebody else, or its own action on an obligation.                      *)
Relevant(ev) ==
  \/ ev.to = "me"
  \/ ev.to = "all" /\ ev.from # "me"
  \/ ev.from = "me" /\ ev.kind \in OwnAction

(* Mutant: a close does not settle an obligation.                          *)
RowsKeptOnClose(rows, e) ==
  LET ev == info[e] IN
  CASE ev.kind = "open" ->
         [rows EXCEPT ![ev.slug] = [event |-> e, claimed_by |-> None]]
    [] ev.kind = "release" -> [rows EXCEPT ![ev.slug] = None]
    [] OTHER -> rows

(* checkpoint.apply to the rows.                                           *)
AppliedRows(rows, e) ==
  LET ev == info[e] IN
  CASE ev.kind = "open" ->
         [rows EXCEPT ![ev.slug] = [event |-> e, claimed_by |-> None]]
    [] ev.kind \in {"close", "release"} -> [rows EXCEPT ![ev.slug] = None]
    [] ev.kind = "claim" /\ rows[ev.slug] # None ->
         [rows EXCEPT ![ev.slug].claimed_by = ev.from]
    [] OTHER -> rows

(* checkpoint.apply: an event that is remembered is not applied again.     *)
AppliedTo(doc, e) ==
  IF e \in Elements(doc.seen) THEN doc
  ELSE [doc EXCEPT !.open = AppliedRows(doc.open, e),
                   !.seen = LastN(Append(doc.seen, e), SeenCap),
                   !.done = doc.done \cup {e},
                   !.redone = doc.redone \cup (doc.done \cap {e})]

(* The process of the pass p is over; it keeps nothing.                    *)
Gone(p) ==
  /\ pc' = [pc EXCEPT ![p] = "idle"]
  /\ work' = [work EXCEPT ![p] = EmptyDocument]
  /\ todo' = [todo EXCEPT ![p] = << >>]
  /\ applied' = [applied EXCEPT ![p] = 0]
  /\ limit' = [limit EXCEPT ![p] = 0]

(* load: the checkpoint, an empty one, or with --rebuild an empty one that *)
(* keeps the generation.                                                   *)
Load(p, rebuild, max) ==
  /\ pc[p] = "idle"
  /\ checkpoint # None => checkpoint.generation < MaxGeneration
  /\ LET doc == IF checkpoint = None THEN EmptyDocument
                ELSE IF rebuild
                THEN [EmptyDocument EXCEPT !.generation = checkpoint.generation]
                ELSE checkpoint
     IN /\ work' = [work EXCEPT ![p] = [doc EXCEPT !.unread = 0]]
        /\ limit' = [limit EXCEPT ![p] = max]
  /\ pc' = [pc EXCEPT ![p] = "loaded"]
  /\ UNCHANGED <<track, info, checkpoint, todo, applied, want, abandoned, history>>

(* read_events: everything from the cursor on, less the overlap.           *)
Stream(p) == {e \in visible : at[e] >= work[p].cursor - Overlap}

Read(p) ==
  /\ pc[p] = "loaded"
  /\ \E s \in NewestLast(Stream(p)) :
       /\ todo' = [todo EXCEPT ![p] = s]
       /\ frontier' = IF s # << >> /\ frontier < at[s[Len(s)]]
                      THEN at[s[Len(s)]] ELSE frontier
  /\ pc' = [pc EXCEPT ![p] = "folding"]
  /\ UNCHANGED <<track, info, checkpoint, work, applied, limit, want,
                 abandoned, overtaken>>

(* The pass p looks at the next record.                                    *)
AtRecord(p) == pc[p] = "folding" /\ todo[p] # << >>

(* The pass has applied as many events as it may.                          *)
AtCap(p) == applied[p] >= limit[p]

(* Mutant: the cursor also passes what was left unread.                    *)
PassOverAll(p) ==
  /\ AtRecord(p)
  /\ ~Relevant(info[Head(todo[p])])
  /\ todo' = [todo EXCEPT ![p] = Tail(@)]
  /\ work' = [work EXCEPT ![p].cursor = at[Head(todo[p])]]
  /\ UNCHANGED <<track, info, checkpoint, pc, applied, limit, want, abandoned,
                 history>>

(* A record that does not concern the agent moves the cursor, unless an    *)
(* event before it was left unread.                                        *)
PassOver(p) ==
  LET e == Head(todo[p]) IN
  /\ AtRecord(p)
  /\ ~Relevant(info[e])
  /\ todo' = [todo EXCEPT ![p] = Tail(@)]
  /\ work' = IF work[p].unread = 0
             THEN [work EXCEPT ![p].cursor = at[e]] ELSE work
  /\ UNCHANGED <<track, info, checkpoint, pc, applied, limit, want, abandoned,
                 history>>

(* Mutant: the remainder is counted down.                                  *)
CountDown(p) ==
  /\ AtRecord(p)
  /\ Relevant(info[Head(todo[p])])
  /\ AtCap(p)
  /\ todo' = [todo EXCEPT ![p] = Tail(@)]
  /\ work' = [work EXCEPT ![p].unread = @ - 1]
  /\ UNCHANGED <<track, info, checkpoint, pc, applied, limit, want, abandoned,
                 history>>

(* Beyond --max-events an event is only counted.                           *)
LeaveUnread(p) ==
  /\ AtRecord(p)
  /\ Relevant(info[Head(todo[p])])
  /\ AtCap(p)
  /\ todo' = [todo EXCEPT ![p] = Tail(@)]
  /\ work' = [work EXCEPT ![p].unread = @ + 1]
  /\ UNCHANGED <<track, info, checkpoint, pc, applied, limit, want, abandoned,
                 history>>

(* An event is applied and the cursor moves to it.  One that is remembered *)
(* counts as applied too.                                                  *)
Apply(p) ==
  LET e == Head(todo[p]) IN
  /\ AtRecord(p)
  /\ Relevant(info[e])
  /\ ~AtCap(p)
  /\ todo' = [todo EXCEPT ![p] = Tail(@)]
  /\ work' = [work EXCEPT ![p] = [AppliedTo(@, e) EXCEPT !.cursor = at[e]]]
  /\ applied' = [applied EXCEPT ![p] = @ + 1]
  /\ UNCHANGED <<track, info, checkpoint, pc, limit, want, abandoned, history>>

(* FoldRefused: no progress.                                               *)
NoProgress(p) ==
  /\ pc[p] = "folding" /\ todo[p] = << >>
  /\ applied[p] = 0 /\ work[p].unread > 0
  /\ Gone(p)
  /\ UNCHANGED <<track, info, checkpoint, want, abandoned, history>>

(* The checkpoint's generation is the one the pass loaded.                 *)
SameGeneration(p) ==
  checkpoint # None => checkpoint.generation = work[p].generation

(* The re-read before the write: FoldContended, or on to the write.        *)
Recheck(p) ==
  /\ pc[p] = "folding" /\ todo[p] = << >>
  /\ ~(applied[p] = 0 /\ work[p].unread > 0)
  /\ \/ /\ SameGeneration(p)
        /\ pc' = [pc EXCEPT ![p] = "saving"]
        /\ UNCHANGED <<work, todo, applied, limit>>
     \/ ~SameGeneration(p) /\ Gone(p)
  /\ UNCHANGED <<track, info, checkpoint, want, abandoned, history>>

(* checkpoint.save: an upload, not a compare-and-swap.                     *)
Save(p) ==
  /\ pc[p] = "saving"
  /\ checkpoint' = [work[p] EXCEPT !.generation = @ + 1]
  /\ Gone(p)
  /\ UNCHANGED <<track, info, want, abandoned, history>>

(* TransportUnavailable at any call, or the process dies.                  *)
PassAbandon(p) ==
  /\ pc[p] # "idle"
  /\ abandoned < MaxAbandon
  /\ abandoned' = abandoned + 1
  /\ Gone(p)
  /\ UNCHANGED <<track, info, checkpoint, want, history>>

(* status: the checkpoint is read and nothing changes.                     *)
Status(p) == pc[p] = "idle" /\ UNCHANGED vars

PassStep(p) ==
  \/ \E rebuild \in Rebuild, max \in MaxEvents : Load(p, rebuild, max)
  \/ Read(p) \/ PassOver(p) \/ LeaveUnread(p) \/ Apply(p)
  \/ NoProgress(p) \/ Recheck(p) \/ Save(p) \/ PassAbandon(p) \/ Status(p)

VerbStep(v) ==
  \/ VerbStart(v)
  \/ \E kind \in OwnAction, s \in Slug : VerbLookup(v, kind, s)
  \/ \E e \in Event : VerbEmit(v, e)
  \/ VerbAbandon(v)

Next ==
  \/ Clock
  \/ \E e \in Event : Catchup(e)
  \/ \E e \in Event, d \in Leads, m \in Message : PeerEmit(e, d, m)
  \/ \E p \in Pass : PassStep(p)
  \/ \E v \in Verb : VerbStep(v)

Spec == Init /\ [][Next]_vars

-----------------------------------------------------------------------------
(* Properties.                                                             *)

(* The event came too late for the overlap: before it was indexed, a pass  *)
(* had read a record dated more than the overlap later.                    *)
Overtaken(e) == e \in overtaken \/ (e \notin visible /\ Ahead(e))

(* Every event that concerns the agent and that the next pass will not     *)
(* read again has been applied to the document doc, or came too late.      *)
Complete(doc) ==
  \A e \in sent :
    Relevant(info[e]) =>
      \/ e \in doc.done
      \/ at[e] >= doc.cursor - Overlap
      \/ Overtaken(e)

(* The cursor passes an event that concerns the agent in one case only:    *)
(* before it was indexed, some pass of the agent had already read a record *)
(* dated more than the overlap later.  Neither passes that overlap and     *)
(* overwrite each other nor a capped pass, dates in the future or slow     *)
(* verbs make the fold skip anything else.                                 *)
NothingSkipped == checkpoint # None => Complete(checkpoint)

Opens(e, s) == info[e].kind = "open" /\ info[e].slug = s
Settles(e, s) == info[e].kind \in {"close", "release"} /\ info[e].slug = s

(* The row of the obligation s is what replaying the applied events in the *)
(* order of their dates gives: s is open iff the last event about it       *)
(* opened it.  Events no more than the overlap apart may go either way, as *)
(* a record indexed late is applied after newer ones; one that came too    *)
(* late for the overlap, but was applied, may decide against any date.     *)
Replayed(doc, s) ==
  LET last(Kind(_, _), Other(_, _)) ==
        \E e \in doc.done :
          /\ Kind(e, s)
          /\ \/ Overtaken(e)
             \/ \A f \in doc.done : Other(f, s) => at[f] <= at[e] + Overlap
  IN IF doc.open[s] # None THEN last(Opens, Settles)
     ELSE (\E e \in doc.done : Opens(e, s)) => last(Settles, Opens)

(* An event about s was applied again after its id had been cut from seen: *)
(* a capped pass takes the cursor back to the remembered events it counts, *)
(* and a few of them reach back to one that is no longer remembered.       *)
Replaced(doc, s) ==
  /\ \E e \in doc.redone : info[e].slug = s
  /\ Cardinality(doc.done) > SeenCap

(* The open set is what replaying the applied events by date gives, up to  *)
(* the overlap and whatever came too late for it, however passes overlap,  *)
(* overwrite and rebuild, and wherever a capped pass stops; the one        *)
(* exception is an obligation with an event that was forgotten, and then   *)
(* more events than seen holds have been applied.                          *)
OpenSetIsReplay ==
  checkpoint # None =>
    \A s \in Slug : Replaced(checkpoint, s) \/ Replayed(checkpoint, s)

(* Every row of the document doc stands for an event that opened it and    *)
(* was addressed to the agent or broadcast by somebody else, and who is    *)
(* said to have claimed it did write a claim.                              *)
Reasoned(doc) ==
  \A s \in Slug : doc.open[s] # None =>
    LET row == doc.open[s] IN
    /\ row.event \in doc.done
    /\ Opens(row.event, s)
    /\ \/ info[row.event].to = "me"
       \/ info[row.event].to = "all" /\ info[row.event].from = "peer"
    /\ row.claimed_by # None =>
         \E e \in doc.done :
           /\ info[e].kind = "claim" /\ info[e].slug = s
           /\ info[e].from = row.claimed_by

(* No row of the checkpoint is there without a reason: never for what the  *)
(* agent itself has sent out, never claimed by one who did not claim it,   *)
(* however passes overwrite each other and ids are forgotten.              *)
RowsHaveReasons == checkpoint # None => Reasoned(checkpoint)

-----------------------------------------------------------------------------
(* The inductive invariant behind NothingSkipped.                          *)

DocumentInv(doc) ==
  /\ Elements(doc.seen) \subseteq doc.done
  /\ doc.cursor <= frontier
  /\ Complete(doc)

(* While p folds, the overlap reaches from everything it will still apply  *)
(* back to the event e.  Once p has left an event unread it applies        *)
(* nothing more and its cursor stays.                                      *)
Reaches(p, e) ==
  /\ work[p].cursor <= at[e] + Overlap
  /\ work[p].unread = 0 =>
       \A i \in 1..Len(todo[p]) : at[todo[p][i]] <= at[e] + Overlap

FoldingInv(p) ==
  /\ Elements(work[p].seen) \subseteq work[p].done
  /\ work[p].cursor <= frontier
  /\ work[p].unread > 0 => applied[p] >= limit[p]
  /\ \A i \in 1..Len(todo[p]) :
       /\ work[p].cursor - Overlap <= at[todo[p][i]]
       /\ at[todo[p][i]] <= frontier
  /\ \A i, j \in 1..Len(todo[p]) : i < j => at[todo[p][i]] <= at[todo[p][j]]
  /\ \A e \in sent : Relevant(info[e]) =>
       \/ e \in work[p].done \/ e \in Elements(todo[p])
       \/ Overtaken(e) \/ Reaches(p, e)

PassInv(p) ==
  /\ pc[p] = "loaded" => DocumentInv(work[p]) /\ work[p].unread = 0
  /\ pc[p] = "folding" => FoldingInv(p)
  /\ pc[p] = "saving" => DocumentInv(work[p])

FoldInv ==
  /\ 0 <= frontier /\ \A e \in sent : 0 <= at[e]
  /\ checkpoint # None => DocumentInv(checkpoint)
  /\ \A p \in Pass : PassInv(p)

(* The one behind RowsHaveReasons: the copies of the passes are reasoned   *)
(* as well.                                                                *)
ReasonsInv == RowsHaveReasons /\ \A p \in Pass : Reasoned(work[p])

-----------------------------------------------------------------------------
(* The one behind OpenSetIsReplay.                                         *)

(* What was applied had been read, and it is not newer, but for the        *)
(* overlap, than what was not applied.                                     *)
DatedDone(doc) ==
  /\ \A f \in doc.done : at[f] <= frontier
  /\ \A f \in doc.done, e \in sent \ doc.done :
       Relevant(info[e]) => at[f] <= at[e] + Overlap \/ Overtaken(e)

(* Nothing is forgotten, hence applied again, before SeenCap events were   *)
(* applied.                                                                *)
SeenInv(doc) ==
  /\ IsFiniteSet(doc.done)
  /\ Cardinality(doc.done) <= SeenCap =>
       doc.done \subseteq Elements(doc.seen) /\ Len(doc.seen) <= Cardinality(doc.done)
  /\ doc.redone # {} => Cardinality(doc.done) > SeenCap

(* Replayed, with the row's own event as the last one.                     *)
RowReplayed(row, done, s) ==
  IF row # None
  THEN /\ row.event \in done /\ Opens(row.event, s)
       /\ \/ Overtaken(row.event)
          \/ \A f \in done : Settles(f, s) => at[f] <= at[row.event] + Overlap
  ELSE (\E e \in done : Opens(e, s)) =>
         \E e \in done :
           /\ Settles(e, s)
           /\ \/ Overtaken(e)
              \/ \A f \in done : Opens(f, s) => at[f] <= at[e] + Overlap

DocumentReplayed(doc) ==
  /\ DatedDone(doc)
  /\ SeenInv(doc)
  /\ \A s \in Slug : \/ \E e \in doc.redone : info[e].slug = s
                    \/ RowReplayed(doc.open[s], doc.done, s)

ReplayInv ==
  /\ checkpoint # None => DocumentReplayed(checkpoint)
  /\ \A p \in Pass : DocumentReplayed(work[p])
=============================================================================
