--------------------------- MODULE TaskSyncProofs ---------------------------
(***************************************************************************)
(* Proofs about TaskSync, for any lists, selections and number of versions *)
(* and disturbances: it is well typed, and the completions the engine      *)
(* sends are justified, consented to and sent once; no resolution is       *)
(* marked seen unheeded.                                                   *)
(***************************************************************************)
EXTENDS TaskSync, FiniteSetTheorems, SequenceTheorems, TLAPS

-----------------------------------------------------------------------------
(* The inductive invariant.                                                *)

(* Past the inspection of the document.                                    *)
Inspected == Completing \/ run.pc \in {"render", "upload", "finish"}

(* The document is being brought up to date.                               *)
Writing == run.pc \in {"render", "upload", "finish"}

(* The run's view of the source: selected, and not from the future.        *)
Snapshot ==
    /\ active.sel # {} => active.epoch # 0
    /\ ~At("idle") =>
         /\ run.task.list \in run.sel /\ active.epoch # 0
         /\ run.task.rev <= src.rev
         /\ run.task.rev = src.rev => run.task = src

(* Generations are drawn before anything bears them.                       *)
Drawn ==
    /\ rec.gen <= gens
    /\ rec.epoch # 0 => rec.gen # 0
    /\ \A v \in DOMAIN docs : docs[v].gen <= gens
    /\ \A d \in late : d.gen <= gens
    /\ \A c \in flight \cup closed : c.gen <= gens

(* The run goes on with the generation of the record, or with a new one it *)
(* has not saved yet.                                                      *)
OwnGeneration ==
    Inspected => \/ HasPrevious /\ run.gen = rec.gen
                 \/ At("render") /\ run.gen = gens + 1

(* What was listed, and what is seen.                                      *)
Listed ==
    /\ rec.seen \subseteq DOMAIN docs
    /\ Inspected => Seen \subseteq 1..run.n /\ run.n <= Len(docs) /\ run.n <= MaxVersions
    /\ At("upload") => run.n < MaxVersions
    /\ run.own # 0 =>
         /\ At("finish") /\ run.own <= Len(docs) /\ run.n < MaxVersions
         /\ docs[run.own].resolved = docs[run.own].sdone

(* A version of the document asks for the completion of a task in this     *)
(* life of it.                                                             *)
Requested(gen, list) ==
    \E v \in DOMAIN docs :
       Asks(docs[v]) /\ docs[v].srev # 0 /\ docs[v].gen = gen /\ docs[v].list = list

Justified(gen, list, life) ==
    \E v \in DOMAIN docs :
       /\ Asks(docs[v]) /\ docs[v].srev # 0
       /\ docs[v].gen = gen /\ docs[v].life = life /\ docs[v].list = list

(* An intent is about a request, and about a revision that there was.      *)
Intended ==
    /\ 0 \notin rec.trusted
    /\ rec.journal # NoIntent =>
         /\ rec.journal.gen = rec.gen /\ rec.journal.rev <= src.rev
         /\ src.rev = rec.journal.rev => ~src.recurring
         /\ ~At("idle") /\ run.task.rev = rec.journal.rev => ~run.task.recurring
         /\ Requested(rec.gen, rec.base.list)

(* A run about to complete the task.                                       *)
Prepared ==
    Completing =>
      /\ ~rec.base.done /\ ~run.task.done /\ ~run.task.recurring
      /\ run.task.list = rec.base.list
      /\ rec.journal # NoIntent \/ ~At("fresh") =>
           rec.journal = [gen |-> run.gen, rev |-> run.task.rev]
      /\ Justified(run.gen, run.task.list, run.task.life)

(* Versions of a generation that show the task open.                       *)
Open(gen) == {d \in late \cup {docs[v] : v \in DOMAIN docs} : d.gen = gen /\ ~d.sdone}

(* The next run will take the task for reborn.                             *)
Outlived(t) ==
    rec.base.done \/ (rec.journal # NoIntent /\ t.rev > rec.journal.rev)

(* Versions of the generation are about this life of the task, or the      *)
(* checkpoint knows better.                                                *)
SameLife ==
    /\ (\A d \in Open(rec.gen) : d.life = src.life) \/ Outlived(src)
    /\ At("inspect") => (\A d \in Open(rec.gen) : d.life = run.task.life) \/ Outlived(run.task)
    /\ (At("inspect") \/ Writing) /\ ~run.task.done => run.task.life = src.life
    /\ Writing /\ ~run.task.done => \A d \in Open(run.gen) : d.life = run.task.life

Commands == flight \cup closed

(* A generation has commands for one revision, and the checkpoint tells    *)
(* which as long as another could be sent.                                 *)
OneRevision ==
    /\ \A c, d \in Commands : c.gen = d.gen => c.rev = d.rev
    /\ \A c, d \in closed : c.rev = d.rev => c = d
    /\ \A c \in Commands : c.gen = rec.gen =>
         rec.base.done \/ (rec.journal # NoIntent /\ rec.journal.rev = c.rev)
    /\ Writing /\ ~run.task.done => \A c \in Commands : c.gen # run.gen

(* Nothing unseen asks for what the run does not do.                       *)
Heeded ==
    Writing /\ ~run.task.done /\ ~run.task.recurring =>
      \A v \in 1..run.n \ Seen : docs[v].gen = run.gen => ~Asks(docs[v])

Finite == IsFiniteSet(rec.trusted)

TaskInv ==
    /\ TypeOK /\ Finite /\ Snapshot /\ Drawn /\ OwnGeneration /\ Listed
    /\ Intended /\ Prepared /\ SameLife /\ OneRevision /\ Heeded
    /\ ConsentHeld /\ CompletionJustified

-----------------------------------------------------------------------------
(* Initially the invariant holds: nothing was written and no run started.  *)
LEMMA InitInv == Init => TaskInv
<1> SUFFICES ASSUME Init PROVE TaskInv
    OBVIOUS
<1>1. NewTask \in Task /\ NewTask.rev = 1 /\ ~NewTask.done
  <2>1. (CHOOSE l \in Lists : TRUE) \in Lists
    BY ListsAssumption
  <2> QED BY <2>1 DEF NewTask, Task
<1>2. src \in Task
  BY <1>1, RecurrenceAssumption DEF Init, Task
<1>3. /\ rec = NoRecord /\ run = Idle /\ docs = <<>> /\ late = {} /\ flight = {}
      /\ closed = {} /\ active = [sel |-> {}, epoch |-> 0] /\ gens = 0 /\ moves = 0
      /\ sel \in SUBSET Lists
  BY ListsAssumption DEF Init
<1>4. IsFiniteSet({}) /\ Cardinality({}) = 0
  BY FS_EmptySet
<1>5. rec \in Record /\ run \in Run
  BY <1>1, <1>3 DEF NoRecord, Record, Idle, Run, Steps, NoIntent, baseline, Baseline, Task
<1>6. TypeOK
  BY <1>2, <1>3, <1>4, <1>5, BoundsAssumption DEF TypeOK, NoRecord
<1>7. rec.seen = {} /\ rec.trusted = {} /\ rec.journal = NoIntent /\ rec.gen = 0
      /\ rec.epoch = 0 /\ run.pc = "idle" /\ run.own = 0
  BY <1>3 DEF NoRecord, Idle
<1>8. DOMAIN docs = {}
  BY <1>3
<1>9. Finite /\ Snapshot /\ Drawn /\ OwnGeneration /\ Listed /\ Intended /\ Prepared
  BY <1>3, <1>4, <1>7, <1>8
     DEF Finite, Snapshot, Drawn, OwnGeneration, Listed, Intended, Prepared, Completing,
         Inspected, At
<1>10. SameLife /\ OneRevision /\ Heeded /\ ConsentHeld /\ CompletionJustified
  BY <1>3, <1>7, <1>8
     DEF SameLife, OneRevision, Heeded, ConsentHeld, CompletionJustified, Writing, At, Open,
         Commands
<1> QED BY <1>6, <1>9, <1>10 DEF TaskInv

(* A run that ends leaves nothing behind that the invariant speaks of.     *)
LEMMA Ends ==
  ASSUME TaskInv, run' = Idle, UNCHANGED <<env, store>>, moves' \in Nat
  PROVE  TaskInv'
<1>1. NewTask \in Task
  <2>1. (CHOOSE l \in Lists : TRUE) \in Lists
    BY ListsAssumption
  <2> QED BY <2>1 DEF NewTask, Task
<1>2. run' \in Run /\ run'.pc = "idle" /\ run'.own = 0
  BY <1>1 DEF Idle, Run, Steps
<1>3. TypeOK' /\ Finite'
  BY <1>2 DEF TaskInv, TypeOK, Finite, env, store
<1>4. Snapshot' /\ Drawn' /\ OwnGeneration' /\ Listed' /\ Intended' /\ Prepared'
  BY <1>2 DEF TaskInv, Snapshot, Drawn, OwnGeneration, Listed, Intended, Prepared,
     Completing, Inspected, At, env, store, Requested
<1>5. SameLife' /\ OneRevision' /\ Heeded' /\ ConsentHeld' /\ CompletionJustified'
  BY <1>2 DEF TaskInv, SameLife, OneRevision, Heeded, ConsentHeld, CompletionJustified,
     Writing, At, Open, Commands, Outlived, env, store
<1> QED BY <1>3, <1>4, <1>5 DEF TaskInv

LEMMA StopStep == ASSUME TaskInv, Stop PROVE TaskInv'
BY Ends DEF Stop, End, TaskInv, TypeOK

LEMMA AbortStep == ASSUME TaskInv, Abort PROVE TaskInv'
BY Ends DEF Abort, End, Disturb, TaskInv, TypeOK

(* A run begins with the source as it is, and with an epoch.               *)
LEMMA BeginStep == ASSUME TaskInv, Begin PROVE TaskInv'
<1> USE DEF Begin, TaskInv, env
<1>1. /\ active' \in [sel : SUBSET Lists, epoch : Nat]
      /\ active'.epoch # 0 /\ (active'.sel # {} => active'.epoch # 0)
  BY DEF TypeOK, Snapshot
<1>2. UNCHANGED <<src, docs, late, flight, closed, sel, rec, gens, moves>>
  OBVIOUS
<1>3. CASE src.list \in sel
  <2>1. run' = [Idle EXCEPT !.pc = "inspect", !.sel = sel, !.task = src]
    BY <1>3
  <2>2. /\ run' \in Run /\ run'.pc = "inspect" /\ run'.own = 0
        /\ run'.sel = sel /\ run'.task = src
    BY <2>1 DEF TypeOK, Run, Steps, Idle
  <2>3. TypeOK' /\ Finite'
    BY <1>1, <1>2, <2>2 DEF TypeOK, Finite
  <2>4. Snapshot'
    BY <1>1, <1>2, <1>3, <2>2 DEF TypeOK, Snapshot, Task
  <2>5. Drawn' /\ OwnGeneration' /\ Listed' /\ Prepared'
    BY <1>2, <2>2 DEF Drawn, OwnGeneration, Listed, Prepared, Completing, Inspected, At
  <2>6. Intended'
    BY <1>2, <2>2 DEF Intended, Requested, At
  <2>7. SameLife'
    BY <1>2, <2>2 DEF SameLife, Open, Outlived, At, Writing
  <2>8. OneRevision' /\ Heeded' /\ ConsentHeld' /\ CompletionJustified'
    BY <1>2, <2>2 DEF OneRevision, Heeded, ConsentHeld, CompletionJustified, Writing, Commands
  <2> QED BY <2>3, <2>4, <2>5, <2>6, <2>7, <2>8
<1>4. CASE src.list \notin sel
  <2>1. run' = run /\ run.pc = "idle"
    BY <1>4 DEF At
  <2>2. TypeOK' /\ Finite'
    BY <1>1, <1>2, <2>1 DEF TypeOK, Finite
  <2>3. Snapshot' /\ Drawn' /\ OwnGeneration' /\ Listed' /\ Intended' /\ Prepared'
    BY <1>1, <1>2, <2>1 DEF Snapshot, Drawn, OwnGeneration, Listed, Intended, Prepared,
       Completing, Inspected, At, Requested
  <2>4. SameLife' /\ OneRevision' /\ Heeded' /\ ConsentHeld' /\ CompletionJustified'
    BY <1>2, <2>1 DEF SameLife, OneRevision, Heeded, ConsentHeld, CompletionJustified,
       Writing, At, Open, Commands, Outlived
  <2> QED BY <2>2, <2>3, <2>4
<1> QED BY <1>3, <1>4

(* What the run may rely on when it keeps the generation of the record:    *)
(* no version of it shows another life, and the record has no completion.  *)
LEMMA GenerationKept ==
  ASSUME TaskInv, At("inspect")
  PROVE  LET t == run.task
             g == Generation(t)
         IN  /\ g \in Nat \ {0}
             /\ \/ g = gens + 1
                \/ /\ HasPrevious /\ g = rec.gen /\ ~MaybeReopened(t) /\ ~SourceReborn(t)
                   /\ ~t.done => ~Outlived(t) /\ \A d \in Open(g) : d.life = t.life
             /\ g = rec.gen => HasPrevious /\ ~MaybeReopened(t) /\ ~SourceReborn(t)
<1> DEFINE t == run.task
           g == Generation(t)
<1>1. t \in Task /\ rec \in Record /\ gens \in Nat /\ rec.gen \in Nat /\ rec.gen <= gens
  BY DEF TaskInv, TypeOK, Run, Record, Drawn
<1>2. CASE HasPrevious /\ ~MaybeReopened(t) /\ ~SourceReborn(t) /\ ~Superseded
  <2>1. g = rec.gen
    BY <1>2 DEF Generation
  <2>2. rec.gen # 0
    BY <1>2 DEF TaskInv, Drawn, HasPrevious
  <2>3. ASSUME ~t.done PROVE ~Outlived(t) /\ \A d \in Open(g) : d.life = t.life
    <3>1. ~Outlived(t)
      BY <1>1, <1>2, <2>3 DEF SourceReborn, MaybeReopened, Outlived, Task, Record
    <3> QED BY <3>1, <2>1 DEF TaskInv, SameLife
  <2> QED BY <1>1, <1>2, <2>1, <2>2, <2>3
<1>3. CASE ~(HasPrevious /\ ~MaybeReopened(t) /\ ~SourceReborn(t) /\ ~Superseded)
  <2>1. g = gens + 1
    BY <1>3 DEF Generation
  <2> QED BY <1>1, <2>1
<1> QED BY <1>2, <1>3

(* The inspection lets the run complete the task, bring the document up to *)
(* date, or end.                                                           *)
LEMMA InspectStep == ASSUME TaskInv, Inspect PROVE TaskInv'
<1> DEFINE t == run.task
           g == Generation(t)
           resolve == Resolve(g) /\ ~t.done
<1> HIDE DEF t, g, resolve
<1>1. UNCHANGED <<env, store, moves>> /\ At("inspect")
  BY DEF Inspect
<1>2. CASE run' = Idle
  BY <1>1, <1>2, Ends DEF TaskInv, TypeOK
<1>3. CASE run' # Idle
  <2>1. /\ ~(Len(docs) > MaxVersions \/ WrongList(t) \/ Untrusted(g))
        /\ \/ /\ resolve /\ ~t.recurring
              /\ run' = [run EXCEPT !.pc = "fresh", !.gen = g, !.n = Len(docs)]
           \/ /\ ~resolve \/ t.recurring
              /\ run' = [run EXCEPT !.pc = "render", !.gen = g, !.n = Len(docs)]
    BY <1>3 DEF Inspect, End, t, g, resolve
  <2>2. /\ g \in Nat \ {0}
        /\ \/ g = gens + 1
           \/ /\ HasPrevious /\ g = rec.gen /\ ~MaybeReopened(t) /\ ~SourceReborn(t)
              /\ ~t.done => ~Outlived(t) /\ \A d \in Open(g) : d.life = t.life
        /\ g = rec.gen => HasPrevious /\ ~MaybeReopened(t) /\ ~SourceReborn(t)
    BY <1>1, GenerationKept DEF t, g
  <2>3. /\ t \in Task /\ rec \in Record /\ run \in Run /\ docs \in Seq(Document)
        /\ gens \in Nat /\ rec.gen \in Nat /\ rec.gen <= gens /\ Len(docs) \in Nat
        /\ DOMAIN docs = 1..Len(docs) /\ run.pc = "inspect" /\ t = run.task
    BY <1>1 DEF TaskInv, TypeOK, Run, Record, Drawn, At, t
  <2>4. /\ run' \in Run /\ run'.pc \in {"fresh", "render"} /\ run'.gen = g
        /\ run'.n = Len(docs) /\ run'.task = t /\ run'.sel = run.sel /\ run'.own = run.own
    BY <2>1, <2>2, <2>3 DEF Run, Steps
  <2>5. UNCHANGED <<src, docs, late, flight, closed, sel, active, rec, gens, moves>>
    BY <1>1 DEF env, store
  <2>6. TypeOK' /\ Finite'
    BY <2>4, <2>5 DEF TaskInv, TypeOK, Finite
  <2>7. Snapshot' /\ Drawn'
    BY <2>3, <2>4, <2>5 DEF TaskInv, Snapshot, Drawn, At
  <2>8. ASSUME resolve PROVE /\ HasPrevious /\ g = rec.gen /\ ~t.done /\ ~rec.base.done
                             /\ t.list = rec.base.list
                             /\ rec.journal # NoIntent => rec.journal.rev = t.rev
                             /\ Justified(g, t.list, t.life)
    <3>1. g = rec.gen /\ ~t.done /\ HasPrevious
      <4>1. \A v \in DOMAIN docs : docs[v].gen \in Nat /\ docs[v].gen <= gens
        <5>1. ASSUME NEW v \in DOMAIN docs PROVE docs[v] \in Document
          BY <2>3, <5>1
        <5> QED BY <5>1 DEF TaskInv, Drawn, Document
      <4>2. rec.journal.gen = 0 \/ rec.journal.gen = rec.gen
        BY DEF TaskInv, Intended, NoIntent
      <4>3. g # gens + 1
        BY <2>8, <2>3, <4>1, <4>2 DEF resolve, Resolve, Unseen
      <4> QED BY <2>8, <2>2, <4>3 DEF resolve
    <3>2. /\ ~MaybeReopened(t) /\ ~SourceReborn(t) /\ ~Outlived(t)
          /\ \A d \in Open(g) : d.life = t.life
      <4>1. g # gens + 1
        BY <2>3, <3>1
      <4> QED BY <2>2, <3>1, <4>1
    <3>3. /\ ~rec.base.done /\ t.list = rec.base.list
          /\ rec.journal # NoIntent => rec.journal.rev = t.rev
      BY <3>1, <3>2 DEF MaybeReopened, SourceReborn
    <3>4. PICK v \in DOMAIN docs : /\ Asks(docs[v]) /\ docs[v].srev # 0 /\ docs[v].gen = g
                                   /\ docs[v].list = t.list
      <4>1. CASE \E v \in Unseen : docs[v].gen = g /\ Asks(docs[v])
        <5>1. PICK v \in Unseen : docs[v].gen = g /\ Asks(docs[v])
          BY <4>1
        <5>2. docs[v].list = t.list
          BY <5>1, <2>1, <3>1, <3>3 DEF WrongList
        <5>3. docs[v].srev \in rec.trusted
          BY <5>1, <2>1, <3>1 DEF Untrusted, Trusted
        <5>4. docs[v].srev # 0
          BY <5>3 DEF TaskInv, Intended
        <5> QED BY <5>1, <5>2, <5>4 DEF Unseen
      <4>2. CASE rec.journal.gen = g
        <5>1. rec.journal # NoIntent
          BY <4>2, <2>2 DEF NoIntent
        <5>2. Requested(rec.gen, rec.base.list)
          BY <5>1 DEF TaskInv, Intended
        <5> QED BY <5>2, <3>1, <3>3 DEF Requested
      <4> QED BY <4>1, <4>2, <2>8 DEF resolve, Resolve
    <3>5. docs[v] \in Open(g)
      BY <3>4 DEF Open, Asks
    <3>6. Justified(g, t.list, t.life)
      BY <3>2, <3>4, <3>5 DEF Justified
    <3> QED BY <3>1, <3>3, <3>6
  <2>9. OwnGeneration'
    <3>1. run'.pc = "fresh" => HasPrevious /\ g = rec.gen
      BY <2>1, <2>3, <2>8 DEF Run
    <3>2. HasPrevious' = HasPrevious
      BY <2>5 DEF HasPrevious
    <3> QED BY <2>2, <2>4, <2>5, <3>1, <3>2 DEF OwnGeneration, At
  <2>10. Listed'
    <3>1. rec.seen \subseteq DOMAIN docs /\ run.own = 0
      BY <2>3 DEF TaskInv, Listed, At
    <3>2. Seen' = Seen /\ Seen \subseteq 1..Len(docs)
      BY <2>3, <2>5, <3>1 DEF Seen, HasPrevious
    <3>3. Len(docs) <= MaxVersions
      BY <2>1, <2>3, BoundsAssumption
    <3> QED BY <2>3, <2>4, <2>5, <3>1, <3>2, <3>3 DEF Listed, At
  <2>11. Intended'
    BY <2>3, <2>4, <2>5 DEF TaskInv, Intended, Requested, At
  <2>12. Prepared'
    <3>1. SUFFICES ASSUME Completing' PROVE Prepared'
      BY DEF Prepared
    <3>2. run'.pc = "fresh" /\ resolve /\ ~t.recurring
      BY <2>1, <2>3, <2>4, <3>1 DEF Completing, Run
    <3>3. Justified(g, t.list, t.life)'
      BY <2>4, <2>5, <2>8, <3>2 DEF Justified, t, g, Generation, HasPrevious, MaybeReopened,
         SourceReborn, Superseded
    <3>4. rec.journal # NoIntent => rec.journal = [gen |-> g, rev |-> t.rev]
      BY <2>3, <2>8, <3>2 DEF TaskInv, Intended, Record
    <3> QED BY <2>4, <2>5, <2>8, <3>2, <3>3, <3>4 DEF Prepared, At, Justified
  <2>13. SameLife'
    <3>1. ASSUME ~t.done, NEW d \in Open(g) PROVE d.life = t.life
      <4>1. g # gens + 1
        BY <2>3, <3>1 DEF TaskInv, Drawn, Open
      <4> QED BY <2>2, <3>1, <4>1
    <3>2. ~t.done => t.life = src.life
      BY <2>3 DEF TaskInv, SameLife, At
    <3> QED BY <2>3, <2>4, <2>5, <3>1, <3>2
            DEF TaskInv, SameLife, Open, Outlived, At, Writing
  <2>14. OneRevision'
    <3>1. ASSUME run'.pc = "render", ~t.done, NEW c \in Commands, c.gen = g PROVE FALSE
      <4>1. g # gens + 1
        BY <2>3, <3>1 DEF TaskInv, Drawn, Commands
      <4>2. /\ g = rec.gen /\ HasPrevious /\ ~MaybeReopened(t) /\ ~Outlived(t)
        BY <2>2, <3>1, <4>1
      <4>3. rec.journal # NoIntent
        BY <3>1, <4>2 DEF TaskInv, OneRevision, Outlived
      <4>4. rec.journal.gen = g /\ rec.journal.rev = t.rev
        BY <3>1, <4>2, <4>3 DEF TaskInv, Intended, MaybeReopened
      <4>5. resolve
        BY <3>1, <4>2, <4>4 DEF resolve, Resolve
      <4>6. ~t.recurring
        BY <2>3, <4>3, <4>4 DEF TaskInv, Intended, At
      <4> QED BY <2>1, <2>3, <3>1, <4>5, <4>6 DEF Run
    <3> QED BY <2>4, <2>5, <3>1 DEF TaskInv, OneRevision, Commands, Writing
  <2>15. Heeded'
    <3>1. ASSUME run'.pc = "render", ~t.done, ~t.recurring, NEW v \in 1..Len(docs) \ Seen,
                 docs[v].gen = g, Asks(docs[v])
          PROVE FALSE
      <4>1. ~Resolve(g)
        BY <2>1, <2>3, <3>1 DEF resolve, Run
      <4>2. ~HasPrevious
        BY <2>3, <3>1, <4>1 DEF Resolve, Unseen
      <4> QED BY <2>2, <2>3, <3>1, <4>2 DEF TaskInv, Drawn
    <3>2. Seen' = Seen
      BY <2>5 DEF Seen, HasPrevious
    <3> QED BY <2>4, <2>5, <3>1, <3>2 DEF Heeded, Writing
  <2>16. ConsentHeld' /\ CompletionJustified'
    BY <2>4, <2>5 DEF TaskInv, ConsentHeld, CompletionJustified
  <2> QED BY <2>6, <2>7, <2>9, <2>10, <2>11, <2>12, <2>13, <2>14, <2>15, <2>16 DEF TaskInv
<1> QED BY <1>2, <1>3

(* Saving the intent: the checkpoint comes to hold the revision about to   *)
(* be completed, and it held no other.                                     *)
LEMMA SaveIntentStep == ASSUME TaskInv, SaveIntent PROVE TaskInv'
<1>1. UNCHANGED <<env, active, gens, moves>> /\ At("fresh")
  BY DEF SaveIntent
<1>2. CASE src.rev # run.task.rev
  BY <1>1, <1>2, Ends DEF SaveIntent, End, store, TaskInv, TypeOK
<1>3. CASE src.rev = run.task.rev
  <2> DEFINE intent == [gen |-> run.gen, rev |-> src.rev]
  <2>1. /\ UNCHANGED <<src, docs, late, flight, closed, sel, active, gens, moves>>
        /\ run.pc = "fresh" /\ run \in Run /\ rec \in Record /\ src \in Task
        /\ active.epoch \in Nat /\ active.epoch # 0 /\ run.task = src
    BY <1>1, <1>3 DEF env, At, TaskInv, TypeOK, Snapshot
  <2>2. Inspected /\ Completing /\ ~Writing
    BY <2>1 DEF Inspected, Completing, Writing
  <2>3. HasPrevious /\ run.gen = rec.gen
    BY <2>1, <2>2 DEF TaskInv, OwnGeneration, At
  <2>4. /\ ~rec.base.done /\ ~run.task.done /\ ~run.task.recurring
        /\ run.task.list = rec.base.list
        /\ rec.journal # NoIntent => rec.journal = intent
        /\ Justified(run.gen, run.task.list, run.task.life)
    BY <1>3, <2>2 DEF TaskInv, Prepared
  <2>5. rec' = [epoch |-> active.epoch, gen |-> rec.gen, base |-> rec.base, seen |-> rec.seen,
                trusted |-> rec.trusted, journal |-> intent]
    BY <1>3, <2>3 DEF SaveIntent, Saved, Seen, Trusted
  <2>6. run' = [run EXCEPT !.pc = "complete"]
    BY <1>3 DEF SaveIntent, Goto
  <2>7. /\ run' \in Run /\ run'.pc = "complete" /\ run'.gen = run.gen /\ run'.n = run.n
        /\ run'.task = run.task /\ run'.sel = run.sel /\ run'.own = run.own
    BY <2>1, <2>6 DEF Run, Steps
  <2>8. /\ rec'.epoch = active.epoch /\ rec'.gen = rec.gen /\ rec'.base = rec.base
        /\ rec'.seen = rec.seen /\ rec'.trusted = rec.trusted /\ rec'.journal = intent
        /\ rec' \in Record
    BY <2>1, <2>5 DEF Record, Run, Task
  <2>9. intent.gen = rec.gen /\ intent.rev = src.rev /\ intent # NoIntent
    BY <2>1, <2>3 DEF NoIntent, Task
  <2>10. HasPrevious' /\ Seen' = Seen
    BY <2>1, <2>3, <2>8 DEF HasPrevious, Seen
  <2> HIDE DEF intent
  <2>11. TypeOK' /\ Finite'
    BY <2>1, <2>7, <2>8 DEF TaskInv, TypeOK, Finite
  <2>12. Snapshot' /\ Drawn'
    <3>1. rec.gen # 0
      BY <2>3 DEF TaskInv, Drawn, HasPrevious
    <3> QED BY <2>1, <2>7, <2>8, <3>1 DEF TaskInv, Snapshot, Drawn, At
  <2>13. OwnGeneration'
    BY <2>3, <2>7, <2>8, <2>10 DEF OwnGeneration
  <2>14. Listed'
    BY <2>1, <2>2, <2>7, <2>8, <2>10 DEF TaskInv, Listed, At
  <2>15. Intended'
    <3>1. Requested(rec.gen, rec.base.list)
      BY <2>3, <2>4 DEF Justified, Requested
    <3>2. src.rev <= src.rev
      BY <2>1 DEF Task
    <3> QED BY <2>1, <2>4, <2>7, <2>8, <2>9, <3>1, <3>2 DEF TaskInv, Intended, Requested, At
  <2>16. Prepared'
    BY <1>3, <2>1, <2>4, <2>7, <2>8 DEF Prepared, Justified, intent
  <2>17. SameLife'
    <3>1. ~Outlived(src)
      BY <1>3, <2>1, <2>4, <2>9 DEF Outlived, Task
    <3>2. \A d \in Open(rec.gen) : d.life = src.life
      BY <3>1 DEF TaskInv, SameLife
    <3> QED BY <2>1, <2>7, <2>8, <3>2 DEF SameLife, Open, At, Writing
  <2>18. OneRevision'
    <3>1. ASSUME NEW c \in Commands, c.gen = rec.gen PROVE c.rev = src.rev
      BY <2>4, <2>9, <3>1 DEF TaskInv, OneRevision
    <3>2. Commands' = Commands /\ closed' = closed /\ ~Writing'
      BY <2>1, <2>7 DEF Commands, Writing
    <3> QED BY <2>8, <2>9, <3>1, <3>2 DEF TaskInv, OneRevision
  <2>19. Heeded' /\ ConsentHeld' /\ CompletionJustified'
    BY <2>1, <2>7 DEF TaskInv, Heeded, ConsentHeld, CompletionJustified, Writing
  <2> QED BY <2>11, <2>12, <2>13, <2>14, <2>15, <2>16, <2>17, <2>18, <2>19 DEF TaskInv
<1> QED BY <1>2, <1>3

(* A step of the run that only moves on in the completion, or learns that  *)
(* the source is done.                                                     *)
LEMMA Proceeds ==
  ASSUME TaskInv, run.pc \in {"complete", "wait"}, NEW pc, NEW t,
         run' = [run EXCEPT !.pc = pc, !.task = t],
         UNCHANGED <<env, store, moves>>,
         t = src, src.list = run.task.list,
         \/ pc = "render" /\ src.done
         \/ pc = "close" /\ src = run.task /\ sel = run.sel
  PROVE  TaskInv'
<1>1. /\ UNCHANGED <<src, docs, late, flight, closed, sel, active, rec, gens, moves>>
      /\ run \in Run /\ rec \in Record /\ src \in Task
  BY DEF env, store, TaskInv, TypeOK
<1>2. /\ run' \in Run /\ run'.pc = pc /\ run'.gen = run.gen /\ run'.n = run.n
      /\ run'.task = src /\ run'.sel = run.sel /\ run'.own = run.own
  BY <1>1 DEF Run, Steps
<1>3. Inspected /\ Completing /\ ~Writing /\ ~At("idle") /\ ~At("fresh")
  BY DEF Inspected, Completing, Writing, At
<1>4. HasPrevious /\ run.gen = rec.gen /\ HasPrevious' /\ Seen' = Seen
  BY <1>1, <1>3 DEF TaskInv, OwnGeneration, At, HasPrevious, Seen
<1>5. TypeOK' /\ Finite'
  BY <1>1, <1>2 DEF TaskInv, TypeOK, Finite
<1>6. Snapshot' /\ Drawn'
  <2>1. src.rev <= src.rev
    BY <1>1 DEF Task
  <2> QED BY <1>1, <1>2, <1>3, <2>1 DEF TaskInv, Snapshot, Drawn, At
<1>7. OwnGeneration' /\ Listed'
  <2>1. run.own = 0
    BY DEF TaskInv, Listed, At
  <2> QED BY <1>1, <1>2, <1>3, <1>4, <2>1 DEF TaskInv, OwnGeneration, Listed, At
<1>8. Intended'
  BY <1>1, <1>2 DEF TaskInv, Intended, Requested, At
<1>9. Prepared'
  BY <1>1, <1>2, <1>3 DEF TaskInv, Prepared, Completing, Justified, At
<1>10. SameLife' /\ OneRevision' /\ Heeded'
  BY <1>1, <1>2 DEF TaskInv, SameLife, OneRevision, Heeded, Open, Outlived, At, Writing,
     Commands
<1>11. ConsentHeld' /\ CompletionJustified'
  BY <1>1, <1>2, <1>3 DEF TaskInv, ConsentHeld, CompletionJustified, Snapshot
<1> QED BY <1>5, <1>6, <1>7, <1>8, <1>9, <1>10, <1>11 DEF TaskInv

LEMMA ProviderChecksStep == ASSUME TaskInv, ProviderChecks PROVE TaskInv'
<1>1. UNCHANGED <<env, store, moves>> /\ run.pc = "complete" /\ sel = run.sel
  BY DEF ProviderChecks, At, Guard
<1>2. CASE src.list # run.task.list \/ (~src.done /\ (src.recurring \/ src.rev # run.task.rev))
  BY <1>1, <1>2, Ends DEF ProviderChecks, End, TaskInv, TypeOK
<1>3. CASE src.list = run.task.list /\ src.done
  BY <1>1, <1>3, Proceeds DEF ProviderChecks
<1>4. CASE src.list = run.task.list /\ ~src.done /\ ~src.recurring /\ src.rev = run.task.rev
  <2>1. src = run.task
    BY <1>1, <1>4 DEF TaskInv, Snapshot, At
  <2> QED BY <1>1, <1>4, <2>1, Proceeds DEF ProviderChecks
<1> QED BY <1>2, <1>3, <1>4

LEMMA ConfirmStep == ASSUME TaskInv, Confirm PROVE TaskInv'
<1>1. UNCHANGED <<env, store, moves>> /\ run.pc = "wait"
  BY DEF Confirm, At
<1>2. CASE src.done /\ src.list = run.task.list
  BY <1>1, <1>2, Proceeds DEF Confirm
<1>3. CASE ~(src.done /\ src.list = run.task.list)
  BY <1>1, <1>3, Ends DEF Confirm, End, TaskInv, TypeOK
<1> QED BY <1>2, <1>3

(* The command bears the record's generation and the intent's revision.    *)
LEMMA SubmitStep == ASSUME TaskInv, Submit PROVE TaskInv'
<1>1. /\ UNCHANGED <<src, docs, late, closed, sel, active, rec, gens, moves>>
      /\ run.pc = "close" /\ run \in Run /\ rec \in Record
      /\ flight' = flight \cup {CommandOf} /\ run' = [run EXCEPT !.pc = "wait"]
  BY DEF Submit, store, At, TaskInv, TypeOK, Goto
<1>2. /\ run' \in Run /\ run'.pc = "wait" /\ run'.gen = run.gen /\ run'.n = run.n
      /\ run'.task = run.task /\ run'.sel = run.sel /\ run'.own = run.own
  BY <1>1 DEF Run, Steps
<1>3. Inspected /\ Completing /\ ~Writing /\ ~At("idle") /\ ~At("fresh")
  BY <1>1 DEF Inspected, Completing, Writing, At
<1>4. HasPrevious /\ run.gen = rec.gen /\ HasPrevious' /\ Seen' = Seen
  BY <1>1, <1>3 DEF TaskInv, OwnGeneration, At, HasPrevious, Seen
<1>5. rec.gen # 0 /\ rec.gen <= gens
  BY <1>4 DEF TaskInv, Drawn, HasPrevious
<1> DEFINE k == CommandOf
<1>6. /\ k \in Command /\ k.gen = rec.gen /\ k.rev = run.task.rev /\ k.life = run.task.life
      /\ k.list = run.task.list
  BY <1>1, <1>4, <1>5 DEF CommandOf, Command, Run, Task
<1> HIDE DEF k
<1>7. /\ ~rec.base.done /\ Justified(run.gen, run.task.list, run.task.life)
      /\ rec.journal = [gen |-> run.gen, rev |-> run.task.rev]
  BY <1>3 DEF TaskInv, Prepared
<1>8. rec.journal # NoIntent /\ rec.journal.rev = k.rev
  BY <1>4, <1>5, <1>6, <1>7 DEF NoIntent
<1>9. flight' = flight \cup {k} /\ Commands' = Commands \cup {k}
  BY <1>1 DEF k, Commands
<1>10. TypeOK' /\ Finite'
  BY <1>1, <1>2, <1>6, <1>9 DEF TaskInv, TypeOK, Finite
<1>11. Snapshot' /\ Drawn'
  BY <1>1, <1>2, <1>3, <1>5, <1>6, <1>9 DEF TaskInv, Snapshot, Drawn, At
<1>12. OwnGeneration' /\ Listed'
  BY <1>1, <1>2, <1>3, <1>4 DEF TaskInv, OwnGeneration, Listed, At
<1>13. Intended' /\ Prepared'
  BY <1>1, <1>2, <1>3 DEF TaskInv, Intended, Requested, Prepared, Justified, At
<1>14. SameLife' /\ Heeded' /\ ConsentHeld'
  BY <1>1, <1>2 DEF TaskInv, SameLife, Heeded, ConsentHeld, Open, Outlived, At, Writing
<1>15. OneRevision'
  <2>1. ASSUME NEW c \in Commands, c.gen = k.gen PROVE c.rev = k.rev
    BY <1>6, <1>7, <1>8, <2>1 DEF TaskInv, OneRevision
  <2> QED BY <1>1, <1>2, <1>6, <1>8, <1>9, <2>1 DEF TaskInv, OneRevision, Writing
<1>16. CompletionJustified'
  BY <1>1, <1>4, <1>6, <1>7, <1>9 DEF TaskInv, CompletionJustified, Justified
<1> QED BY <1>10, <1>11, <1>12, <1>13, <1>14, <1>15, <1>16 DEF TaskInv

(* What the checkpoint holds once the task as the run saw it is its        *)
(* baseline: every command of its generation is behind a completion, and   *)
(* every open version of it is about the life the source is in.            *)
LEMMA BaselineSaved ==
  ASSUME TaskInv, Writing, rec'.gen = run.gen, rec'.base = baseline(run.task),
         rec'.journal = NoIntent
  PROVE  /\ \A c \in Commands : c.gen = rec'.gen => rec'.base.done
         /\ (\A d \in Open(run.gen) : d.life = src.life) \/ rec'.base.done
<1>1. rec'.base.done = run.task.done
  BY DEF baseline
<1>2. CASE run.task.done
  BY <1>1, <1>2 DEF TaskInv, TypeOK, Run, Task
<1>3. CASE ~run.task.done
  BY <1>3 DEF TaskInv, SameLife, OneRevision
<1> QED BY <1>2, <1>3

(* The planned baseline is saved before the upload, or the newest version  *)
(* already says it.                                                        *)
LEMMA PlanStep == ASSUME TaskInv, Plan PROVE TaskInv'
<1>1. /\ UNCHANGED <<src, docs, late, flight, closed, sel, active, moves>>
      /\ run.pc = "render" /\ run \in Run /\ rec \in Record /\ src \in Task
      /\ active.epoch \in Nat /\ active.epoch # 0 /\ gens \in Nat /\ run.gen \in Nat
      /\ run.n \in Nat /\ docs \in Seq(Document) /\ run.task \in Task
  BY DEF Plan, env, At, TaskInv, TypeOK, Snapshot, Run
<1>2. Inspected /\ Writing /\ ~Completing
  BY <1>1 DEF Inspected, Completing, Writing
<1>3. (HasPrevious /\ run.gen = rec.gen) \/ run.gen = gens + 1
  BY <1>2 DEF TaskInv, OwnGeneration
<1> DEFINE trusted == Trusted(run.gen) \cup {run.task.rev}
<1>4. CASE run.n > 0 /\ Same(Rendered, docs[run.n])
  <2>1. UNCHANGED <<rec, gens>> /\ run' = [run EXCEPT !.pc = "finish"]
    BY <1>4 DEF Plan, Goto
  <2>2. /\ run' \in Run /\ run'.pc = "finish" /\ run'.gen = run.gen /\ run'.n = run.n
        /\ run'.task = run.task /\ run'.sel = run.sel /\ run'.own = run.own
    BY <1>1, <2>1 DEF Run, Steps
  <2>3. run.n \in DOMAIN docs /\ docs[run.n].gen = run.gen
    BY <1>1, <1>2, <1>4 DEF TaskInv, Listed, Same, Rendered
  <2>4. HasPrevious /\ run.gen = rec.gen /\ HasPrevious' /\ Seen' = Seen
    BY <1>1, <1>3, <2>1, <2>3 DEF TaskInv, Drawn, HasPrevious, Seen
  <2>5. TypeOK' /\ Finite'
    BY <1>1, <2>1, <2>2 DEF TaskInv, TypeOK, Finite
  <2>6. Snapshot' /\ Drawn' /\ Intended' /\ Prepared'
    BY <1>1, <2>1, <2>2 DEF TaskInv, Snapshot, Drawn, Intended, Requested, Prepared,
       Completing, At
  <2>7. OwnGeneration' /\ Listed'
    BY <1>1, <1>2, <2>1, <2>2, <2>4 DEF TaskInv, OwnGeneration, Listed, At
  <2>8. SameLife'
    BY <1>1, <1>2, <2>1, <2>2 DEF TaskInv, SameLife, Open, Outlived, At, Writing
  <2>9. OneRevision'
    BY <1>1, <1>2, <2>1, <2>2 DEF TaskInv, OneRevision, Commands, Writing
  <2>10. Heeded' /\ ConsentHeld' /\ CompletionJustified'
    BY <1>1, <1>2, <2>1, <2>2, <2>4 DEF TaskInv, Heeded, ConsentHeld, CompletionJustified, Writing
  <2> QED BY <2>5, <2>6, <2>7, <2>8, <2>9, <2>10 DEF TaskInv
<1>5. CASE run' = Idle /\ UNCHANGED <<rec, gens>>
  BY <1>1, <1>5, Ends DEF env, store, TaskInv, TypeOK
<1>6. CASE /\ rec' = Saved(baseline(run.task), Seen, trusted, NoIntent)
           /\ ~Full(run.n) /\ ~(Cardinality(trusted) > MaxVersions)
           /\ gens' = IF run.gen > gens THEN run.gen ELSE gens
           /\ Goto("upload")
  <2>1. /\ run' \in Run /\ run'.pc = "upload" /\ run'.gen = run.gen /\ run'.n = run.n
        /\ run'.task = run.task /\ run'.sel = run.sel /\ run'.own = run.own
    BY <1>1, <1>6 DEF Run, Steps, Goto
  <2>2. /\ trusted \subseteq Nat /\ 0 \notin trusted /\ IsFiniteSet(trusted)
        /\ Cardinality(trusted) <= MaxVersions
    <3>1. Trusted(run.gen) \subseteq Nat /\ 0 \notin Trusted(run.gen) /\ IsFiniteSet(Trusted(run.gen))
      BY <1>1, FS_EmptySet DEF Trusted, TaskInv, Intended, Finite, Record
    <3>2. run.task.rev \in Nat \ {0}
      BY <1>1 DEF Task
    <3>3. IsFiniteSet(trusted)
      BY <3>1, FS_AddElement
    <3>4. Cardinality(trusted) \in Nat
      BY <3>3, FS_CardinalityType
    <3> QED BY <1>6, <3>1, <3>2, <3>3, <3>4, BoundsAssumption
  <2>3. /\ rec' = [epoch |-> active.epoch, gen |-> run.gen, base |-> baseline(run.task),
                   seen |-> Seen, trusted |-> trusted, journal |-> NoIntent]
    BY <1>6 DEF Saved
  <2> HIDE DEF trusted
  <2>4. /\ rec'.epoch = active.epoch /\ rec'.gen = run.gen /\ rec'.base = baseline(run.task)
        /\ rec'.seen = Seen /\ rec'.trusted = trusted /\ rec'.journal = NoIntent
    BY <2>3
  <2>5. Seen \subseteq rec.seen /\ rec.seen \subseteq Nat /\ rec.seen \subseteq DOMAIN docs
    BY <1>1 DEF Seen, Record, TaskInv, Listed
  <2>6. rec' \in Record
    BY <1>1, <2>2, <2>3, <2>5 DEF Record, Baseline, baseline, Task, NoIntent
  <2>7. HasPrevious' /\ Seen' = Seen
    BY <1>1, <2>4 DEF HasPrevious, Seen
  <2>8. /\ gens' \in Nat /\ gens <= gens' /\ run.gen <= gens' /\ run.gen # 0
    BY <1>1, <1>3, <1>6 DEF HasPrevious, TaskInv, Drawn
  <2>9. TypeOK' /\ Finite'
    <3>1. Cardinality(rec'.seen) <= MaxVersions
      <4>1. CASE HasPrevious
        BY <2>4, <4>1 DEF Seen, TaskInv, TypeOK
      <4>2. CASE ~HasPrevious
        BY <2>4, <4>2, FS_EmptySet, BoundsAssumption DEF Seen
      <4> QED BY <4>1, <4>2
    <3> QED BY <1>1, <2>1, <2>2, <2>4, <2>6, <2>8, <3>1 DEF TaskInv, TypeOK, Finite
  <2>10. Snapshot'
    BY <1>1, <2>1 DEF TaskInv, Snapshot, At
  <2>11. Drawn'
    <3>1. ASSUME NEW v \in DOMAIN docs PROVE docs[v].gen <= gens'
      <4>1. docs[v] \in Document
        BY <1>1
      <4> QED BY <1>1, <2>8, <4>1 DEF TaskInv, Drawn, Document
    <3>2. ASSUME NEW d \in late PROVE d.gen <= gens'
      <4>1. d \in Document
        BY DEF TaskInv, TypeOK
      <4> QED BY <1>1, <2>8, <4>1 DEF TaskInv, Drawn, Document
    <3>3. ASSUME NEW c \in flight \cup closed PROVE c.gen <= gens'
      <4>1. c \in Command
        BY DEF TaskInv, TypeOK
      <4> QED BY <1>1, <2>8, <4>1 DEF TaskInv, Drawn, Command
    <3> QED BY <1>1, <2>4, <2>8, <3>1, <3>2, <3>3 DEF Drawn
  <2>12. OwnGeneration' /\ Prepared'
    BY <2>1, <2>4, <2>7 DEF OwnGeneration, Prepared, Completing
  <2>13. Listed'
    <3>1. run.n < MaxVersions
      BY <1>1, <1>6, BoundsAssumption DEF Full
    <3>2. run.own = 0
      BY <1>1 DEF TaskInv, Listed, At
    <3> QED BY <1>1, <1>2, <2>1, <2>4, <2>5, <2>7, <3>1, <3>2 DEF TaskInv, Listed
  <2>14. Intended'
    BY <2>2, <2>4 DEF Intended
  <2>15. Commands' = Commands /\ Open(run.gen)' = Open(run.gen) /\ Writing'
    BY <1>1, <2>1 DEF Commands, Open, Writing
  <2>16. /\ \A c \in Commands : c.gen = rec'.gen => rec'.base.done
         /\ (\A d \in Open(run.gen) : d.life = src.life) \/ rec'.base.done
    BY <1>2, <2>4, BaselineSaved
  <2>17. SameLife'
    <3>1. Open(rec.gen)' = Open(run.gen)
      BY <1>1, <2>4 DEF Open
    <3>2. (\A d \in Open(run.gen) : d.life = src.life) \/ Outlived(src)'
      BY <2>16 DEF Outlived
    <3>3. ~run.task.done => /\ run.task.life = src.life
                            /\ \A d \in Open(run.gen) : d.life = run.task.life
      BY <1>2 DEF TaskInv, SameLife
    <3> QED BY <1>1, <2>1, <2>15, <3>1, <3>2, <3>3 DEF SameLife, At, Outlived
  <2>18. OneRevision'
    BY <1>1, <1>2, <2>1, <2>4, <2>15, <2>16 DEF TaskInv, OneRevision
  <2>19. Heeded' /\ ConsentHeld' /\ CompletionJustified'
    BY <1>1, <1>2, <2>1, <2>7 DEF TaskInv, Heeded, ConsentHeld, CompletionJustified, Writing
  <2> QED BY <2>9, <2>10, <2>11, <2>12, <2>13, <2>14, <2>17, <2>18, <2>19 DEF TaskInv
<1> QED BY <1>4, <1>5, <1>6 DEF Plan, End

(* Versions are immutable: a new one is appended.                          *)
LEMMA Appended ==
  ASSUME NEW s \in Seq(Document), NEW d \in Document, NEW r, r = Append(s, d)
  PROVE  /\ r \in Seq(Document) /\ Len(s) \in Nat /\ Len(r) = Len(s) + 1
         /\ DOMAIN s = 1..Len(s) /\ DOMAIN r = 1..(Len(s) + 1)
         /\ DOMAIN s \subseteq DOMAIN r
         /\ \A v \in DOMAIN s : r[v] = s[v]
         /\ r[Len(s) + 1] = d
OBVIOUS

(* Requests and listings outlast a new version.                            *)
LEMMA AppendKeeps ==
  ASSUME TaskInv, NEW d \in Document, docs' = Append(docs, d), d.gen <= gens,
         UNCHANGED <<src, flight, closed, sel, active, rec, gens>>
  PROVE  /\ Seen' = Seen /\ HasPrevious' = HasPrevious
         /\ rec'.seen \subseteq DOMAIN docs'
         /\ \A v \in DOMAIN docs' : docs'[v].gen <= gens
         /\ CompletionJustified'
         /\ rec.journal # NoIntent => Requested(rec.gen, rec.base.list)'
         /\ Completing => \E v \in DOMAIN docs' :
              /\ Asks(docs'[v]) /\ docs'[v].srev # 0 /\ docs'[v].gen = run.gen
              /\ docs'[v].life = run.task.life /\ docs'[v].list = run.task.list
<1>1. docs \in Seq(Document)
  BY DEF TaskInv, TypeOK
<1>2. /\ docs' \in Seq(Document) /\ Len(docs) \in Nat /\ Len(docs') = Len(docs) + 1
      /\ DOMAIN docs = 1..Len(docs) /\ DOMAIN docs' = 1..(Len(docs) + 1)
      /\ DOMAIN docs \subseteq DOMAIN docs'
      /\ \A v \in DOMAIN docs : docs'[v] = docs[v]
      /\ docs'[Len(docs) + 1] = d
  BY <1>1, Appended
<1>3. Seen' = Seen /\ HasPrevious' = HasPrevious
  BY DEF Seen, HasPrevious
<1>4. rec'.seen \subseteq DOMAIN docs'
  BY <1>2 DEF TaskInv, Listed
<1>5. ASSUME NEW v \in DOMAIN docs' PROVE docs'[v].gen <= gens
  <2>1. v \in DOMAIN docs \/ v = Len(docs) + 1
    BY <1>2
  <2> QED BY <1>2, <2>1 DEF TaskInv, Drawn
<1>6. CompletionJustified'
  BY <1>2 DEF TaskInv, CompletionJustified
<1>7. ASSUME rec.journal # NoIntent PROVE Requested(rec.gen, rec.base.list)'
  BY <1>2, <1>7 DEF TaskInv, Intended, Requested
<1>8. ASSUME Completing
      PROVE  \E v \in DOMAIN docs' :
              /\ Asks(docs'[v]) /\ docs'[v].srev # 0 /\ docs'[v].gen = run.gen
              /\ docs'[v].life = run.task.life /\ docs'[v].list = run.task.list
  BY <1>2, <1>8 DEF TaskInv, Prepared, Justified
<1> QED BY <1>3, <1>4, <1>5, <1>6, <1>7, <1>8

(* A version written by somebody else: one the engine uploaded before, or  *)
(* a version with other front matter, shows the life another one shows.    *)
LEMMA VersionAdded ==
  ASSUME TaskInv, NEW d \in Document, NEW e \in late \cup {docs[v] : v \in DOMAIN docs},
         e.gen = d.gen, e.sdone = d.sdone, e.life = d.life,
         docs' = Append(docs, d), late' \in SUBSET late, moves' \in Nat,
         UNCHANGED <<src, flight, closed, sel, store, run>>
  PROVE  TaskInv'
<1>1. /\ UNCHANGED <<src, flight, closed, sel, active, rec, gens, run>>
      /\ docs \in Seq(Document) /\ rec \in Record /\ run \in Run
  BY DEF store, TaskInv, TypeOK
<1>2. d.gen <= gens
  BY DEF TaskInv, Drawn
<1>3. /\ Seen' = Seen /\ HasPrevious' = HasPrevious
      /\ rec'.seen \subseteq DOMAIN docs'
      /\ \A v \in DOMAIN docs' : docs'[v].gen <= gens
      /\ CompletionJustified'
      /\ rec.journal # NoIntent => Requested(rec.gen, rec.base.list)'
      /\ Completing => \E v \in DOMAIN docs' :
           /\ Asks(docs'[v]) /\ docs'[v].srev # 0 /\ docs'[v].gen = run.gen
           /\ docs'[v].life = run.task.life /\ docs'[v].list = run.task.list
  BY <1>1, <1>2, AppendKeeps
<1>4. /\ docs' \in Seq(Document) /\ Len(docs) \in Nat /\ Len(docs') = Len(docs) + 1
      /\ DOMAIN docs = 1..Len(docs) /\ DOMAIN docs' = 1..(Len(docs) + 1)
      /\ \A v \in DOMAIN docs : docs'[v] = docs[v]
      /\ docs'[Len(docs) + 1] = d
  BY <1>1, Appended
<1>5. ASSUME NEW g, NEW x \in Open(g)' PROVE \E y \in Open(g) : y.life = x.life
  <2>1. x \in late' \cup {docs'[v] : v \in DOMAIN docs'} /\ x.gen = g /\ ~x.sdone
    BY <1>5 DEF Open
  <2>2. CASE x \in late \/ \E v \in DOMAIN docs : x = docs'[v]
    BY <1>4, <2>1, <2>2 DEF Open
  <2>3. CASE x = d
    BY <2>1, <2>3 DEF Open
  <2> QED BY <1>4, <2>1, <2>2, <2>3
<1>6. TypeOK' /\ Finite'
  BY <1>1, <1>4 DEF TaskInv, TypeOK, Finite
<1>7. Snapshot' /\ Drawn' /\ OwnGeneration'
  BY <1>1, <1>3 DEF TaskInv, Snapshot, Drawn, OwnGeneration, At, Inspected, Completing
<1>8. Listed'
  <2>1. run.n \in Nat /\ run.own \in Nat
    BY <1>1 DEF Run
  <2> QED BY <1>1, <1>3, <1>4, <2>1 DEF TaskInv, Listed, At, Inspected, Completing
<1>9. Intended'
  BY <1>1, <1>3 DEF TaskInv, Intended, At, Requested
<1>10. Prepared'
  BY <1>1, <1>3 DEF TaskInv, Prepared, Completing, Justified, At
<1>11. SameLife'
  <2>1. ASSUME NEW life, \A x \in Open(rec.gen) : x.life = life
        PROVE  \A x \in Open(rec.gen)' : x.life = life
    <3>1. PICK g : g = rec.gen
      OBVIOUS
    <3>2. \A x \in Open(g)' : x.life = life
      BY <1>5, <2>1, <3>1
    <3> QED BY <1>1, <3>1, <3>2 DEF Open
  <2>2. ASSUME NEW life, \A x \in Open(run.gen) : x.life = life
        PROVE  \A x \in Open(run.gen)' : x.life = life
    <3>1. PICK g : g = run.gen
      OBVIOUS
    <3>2. \A x \in Open(g)' : x.life = life
      BY <1>5, <2>2, <3>1
    <3> QED BY <1>1, <3>1, <3>2 DEF Open
  <2>3. Outlived(src)' = Outlived(src) /\ Outlived(run.task)' = Outlived(run.task)
    BY <1>1 DEF Outlived
  <2>4. SameLife
    BY DEF TaskInv
  <2>5. (\A x \in Open(rec.gen)' : x.life = src.life) \/ Outlived(src)
    BY <2>1, <2>4 DEF SameLife
  <2>6. At("inspect") => (\A x \in Open(rec.gen)' : x.life = run.task.life) \/ Outlived(run.task)
    BY <2>1, <2>4 DEF SameLife
  <2>7. Writing /\ ~run.task.done => \A x \in Open(run.gen)' : x.life = run.task.life
    BY <2>2, <2>4 DEF SameLife
  <2>8. At("inspect")' = At("inspect") /\ Writing' = Writing
    BY <1>1 DEF At, Writing
  <2> QED BY <1>1, <2>3, <2>4, <2>5, <2>6, <2>7, <2>8 DEF SameLife
<1>12. OneRevision' /\ ConsentHeld'
  BY <1>1 DEF TaskInv, OneRevision, ConsentHeld, Commands, Writing
<1>13. Heeded'
  <2>1. Writing => 1..run.n \subseteq DOMAIN docs
    BY <1>1, <1>4 DEF TaskInv, Listed, Inspected, Writing, Run
  <2> QED BY <1>1, <1>3, <1>4, <2>1 DEF TaskInv, Heeded, Writing
<1> QED BY <1>3, <1>6, <1>7, <1>8, <1>9, <1>10, <1>11, <1>12, <1>13 DEF TaskInv

LEMMA LateUploadStep == ASSUME TaskInv, LateUpload PROVE TaskInv'
<1>1. PICK d \in late : /\ late' = late \ {d} /\ docs' = Append(docs, d)
                        /\ UNCHANGED <<src, flight, closed, sel, store, run, moves>>
  BY DEF LateUpload
<1> QED BY <1>1, VersionAdded DEF TaskInv, TypeOK

LEMMA BotStep ==
  ASSUME TaskInv, NEW resolves \in BOOLEAN, NEW tampers \in BOOLEAN,
         BotWrites(resolves, tampers)
  PROVE  TaskInv'
<1>1. PICK v \in DOMAIN docs :
        docs' = Append(docs, [docs[v] EXCEPT !.resolved = @ \/ resolves,
                                             !.srev = IF tampers THEN 0 ELSE @])
  BY DEF BotWrites
<1> DEFINE d == [docs[v] EXCEPT !.resolved = @ \/ resolves,
                                !.srev = IF tampers THEN 0 ELSE @]
<1>2. docs[v] \in Document
  BY DEF TaskInv, TypeOK
<1>3. /\ d \in Document /\ d.gen = docs[v].gen /\ d.sdone = docs[v].sdone
      /\ d.life = docs[v].life
  BY <1>2 DEF Document
<1>4. moves' \in Nat /\ late' = late /\ UNCHANGED <<src, flight, closed, sel, store, run>>
  BY DEF BotWrites, Disturb, TaskInv, TypeOK
<1> QED BY <1>1, <1>3, <1>4, VersionAdded

(* The engine's own version shows the life of the task the run is about.   *)
LEMMA OwnVersion ==
  ASSUME TaskInv, At("upload")
  PROVE  /\ Rendered \in Document /\ Rendered.gen = rec.gen /\ Rendered.gen <= gens
         /\ HasPrevious /\ run.gen = rec.gen
         /\ Rendered.resolved = Rendered.sdone /\ Rendered.sdone = run.task.done
         /\ Rendered.life = run.task.life
         /\ ~Rendered.sdone => Rendered.life = src.life
<1>1. run \in Run /\ rec \in Record /\ run.task \in Task
  BY DEF TaskInv, TypeOK, Run
<1>2. Inspected /\ Writing
  BY DEF Inspected, Writing, At
<1>3. HasPrevious /\ run.gen = rec.gen
  BY <1>2 DEF TaskInv, OwnGeneration, At
<1>4. rec.gen # 0 /\ rec.gen <= gens
  BY <1>3 DEF TaskInv, Drawn, HasPrevious
<1>5. ~run.task.done => run.task.life = src.life
  BY <1>2 DEF TaskInv, SameLife
<1> QED BY <1>1, <1>3, <1>4, <1>5 DEF Rendered, Document, Run, Task

LEMMA UploadStep == ASSUME TaskInv, Upload PROVE TaskInv'
<1> DEFINE d == Rendered
<1>1. /\ UNCHANGED <<src, late, flight, closed, sel, active, rec, gens, moves>>
      /\ run.pc = "upload" /\ run \in Run /\ rec \in Record /\ docs \in Seq(Document)
      /\ docs' = Append(docs, d)
      /\ run' = [run EXCEPT !.pc = "finish", !.own = Len(docs) + 1]
  BY DEF Upload, store, At, TaskInv, TypeOK
<1>2. /\ d \in Document /\ d.gen = rec.gen /\ d.gen <= gens /\ HasPrevious /\ run.gen = rec.gen
      /\ d.resolved = d.sdone /\ d.sdone = run.task.done /\ d.life = run.task.life
      /\ ~d.sdone => d.life = src.life
  BY <1>1, OwnVersion DEF At
<1> HIDE DEF d
<1>3. /\ docs' \in Seq(Document) /\ Len(docs) \in Nat /\ Len(docs') = Len(docs) + 1
      /\ DOMAIN docs = 1..Len(docs) /\ DOMAIN docs' = 1..(Len(docs) + 1)
      /\ \A v \in DOMAIN docs : docs'[v] = docs[v]
      /\ docs'[Len(docs) + 1] = d
  BY <1>1, <1>2, Appended
<1>4. /\ run' \in Run /\ run'.pc = "finish" /\ run'.gen = run.gen /\ run'.n = run.n
      /\ run'.task = run.task /\ run'.sel = run.sel /\ run'.own = Len(docs) + 1
  <2>1. PICK own \in Nat : own = Len(docs) + 1
    BY <1>3
  <2>2. run' = [run EXCEPT !.pc = "finish", !.own = own]
    BY <1>1, <2>1
  <2> QED BY <1>1, <2>1, <2>2 DEF Run, Steps
<1>5. /\ Seen' = Seen /\ HasPrevious' = HasPrevious
      /\ rec'.seen \subseteq DOMAIN docs'
      /\ \A v \in DOMAIN docs' : docs'[v].gen <= gens
      /\ CompletionJustified'
      /\ rec.journal # NoIntent => Requested(rec.gen, rec.base.list)'
  BY <1>1, <1>2, AppendKeeps
<1>6. Inspected /\ Writing /\ ~Completing
  BY <1>1 DEF Inspected, Completing, Writing
<1>7. TypeOK' /\ Finite'
  BY <1>1, <1>3, <1>4 DEF TaskInv, TypeOK, Finite
<1>8. Snapshot' /\ Drawn'
  BY <1>1, <1>4, <1>5 DEF TaskInv, Snapshot, Drawn, At
<1>9. OwnGeneration' /\ Prepared'
  BY <1>1, <1>2, <1>4, <1>5 DEF OwnGeneration, Prepared, Completing
<1>10. Listed'
  <2>1. /\ Seen \subseteq 1..run.n /\ run.n <= Len(docs) /\ run.n <= MaxVersions
        /\ run.n < MaxVersions /\ run.n \in Nat
    BY <1>1, <1>6 DEF TaskInv, Listed, At, Run
  <2> QED BY <1>1, <1>2, <1>3, <1>4, <1>5, <2>1 DEF Listed, At
<1>11. Intended'
  <2>1. Intended /\ ~At("idle")
    BY <1>1 DEF TaskInv, At
  <2> QED BY <1>1, <1>4, <1>5, <2>1 DEF Intended, At, Requested
<1>12. SameLife'
  <2>1. ASSUME NEW x \in Open(rec.gen)' PROVE x = d \/ x \in Open(rec.gen)
    <3>1. /\ x \in late \/ \E v \in DOMAIN docs' : x = docs'[v]
          /\ x.gen = rec.gen /\ ~x.sdone
      BY <1>1, <2>1 DEF Open
    <3>2. x \in late \/ x = d \/ \E v \in DOMAIN docs : x = docs[v]
      BY <1>3, <3>1
    <3> QED BY <3>1, <3>2 DEF Open
  <2>2. ASSUME NEW x \in Open(rec.gen)' PROVE ~x.sdone
    BY <2>2 DEF Open
  <2>3. (\A x \in Open(rec.gen)' : x.life = src.life) \/ Outlived(src)
    BY <1>2, <2>1, <2>2 DEF TaskInv, SameLife
  <2>4. ~run.task.done => /\ run.task.life = src.life
                          /\ \A x \in Open(rec.gen)' : x.life = run.task.life
    BY <1>2, <1>6, <2>1 DEF TaskInv, SameLife
  <2>5. Open(run.gen)' = Open(rec.gen)'
    BY <1>1, <1>2, <1>4 DEF Open
  <2>6. Outlived(src)' = Outlived(src)
    BY <1>1 DEF Outlived
  <2> QED BY <1>1, <1>4, <2>3, <2>4, <2>5, <2>6 DEF SameLife, At
<1>13. OneRevision' /\ ConsentHeld'
  BY <1>1, <1>4, <1>6 DEF TaskInv, OneRevision, ConsentHeld, Commands, Writing
<1>14. Heeded'
  <2>1. 1..run.n \subseteq DOMAIN docs
    BY <1>1, <1>3, <1>6 DEF TaskInv, Listed, Run
  <2> QED BY <1>1, <1>3, <1>4, <1>5, <1>6, <2>1 DEF TaskInv, Heeded
<1> QED BY <1>5, <1>7, <1>8, <1>9, <1>10, <1>11, <1>12, <1>13, <1>14 DEF TaskInv

(* An upload without an answer is as good as one that was made: the run    *)
(* ends, and the version may still come.                                   *)
LEMMA UploadTimesOutStep == ASSUME TaskInv, UploadTimesOut PROVE TaskInv'
<1> DEFINE d == Rendered
<1>1. /\ UNCHANGED <<src, docs, flight, closed, sel, active, rec, gens>>
      /\ moves' \in Nat /\ run' = Idle /\ late' = late \cup {d} /\ At("upload")
  BY DEF UploadTimesOut, store, Disturb, End, TaskInv, TypeOK
<1>2. /\ d \in Document /\ d.gen = rec.gen /\ d.gen <= gens /\ HasPrevious /\ run.gen = rec.gen
      /\ d.sdone = run.task.done /\ d.life = run.task.life
      /\ ~d.sdone => d.life = src.life
  BY <1>1, OwnVersion
<1> HIDE DEF d
<1>3. NewTask \in Task
  <2>1. (CHOOSE l \in Lists : TRUE) \in Lists
    BY ListsAssumption
  <2> QED BY <2>1 DEF NewTask, Task
<1>4. run' \in Run /\ run'.pc = "idle" /\ run'.own = 0
  BY <1>1, <1>3 DEF Idle, Run, Steps
<1>5. TypeOK' /\ Finite'
  BY <1>1, <1>2, <1>4 DEF TaskInv, TypeOK, Finite
<1>6. Snapshot' /\ Drawn' /\ OwnGeneration' /\ Listed' /\ Intended' /\ Prepared'
  BY <1>1, <1>2, <1>4 DEF TaskInv, Snapshot, Drawn, OwnGeneration, Listed, Intended, Prepared,
     Completing, Inspected, At, Requested
<1>7. SameLife'
  <2>1. ASSUME NEW x \in Open(rec.gen)' PROVE (x = d \/ x \in Open(rec.gen)) /\ ~x.sdone
    BY <1>1, <2>1 DEF Open
  <2>2. (\A x \in Open(rec.gen)' : x.life = src.life) \/ Outlived(src)
    BY <1>2, <2>1 DEF TaskInv, SameLife
  <2>3. Outlived(src)' = Outlived(src)
    BY <1>1 DEF Outlived
  <2> QED BY <1>1, <1>4, <2>2, <2>3 DEF SameLife, At, Writing
<1>8. OneRevision' /\ Heeded' /\ ConsentHeld' /\ CompletionJustified'
  BY <1>1, <1>4 DEF TaskInv, OneRevision, Heeded, ConsentHeld, CompletionJustified,
     Writing, Commands
<1> QED BY <1>5, <1>6, <1>7, <1>8 DEF TaskInv

LEMMA UpTo ==
  ASSUME NEW n \in Nat PROVE IsFiniteSet(1..n) /\ Cardinality(1..n) = n
<1>1. n \in Int /\ 1 \in Int
  OBVIOUS
<1>2. IsFiniteSet(1..n) /\ Cardinality(1..n) = IF 1 > n THEN 0 ELSE n - 1 + 1
  BY <1>1, FS_Interval
<1> QED BY <1>2

(* The run marks what it read and what it wrote as seen.                   *)
LEMMA FinishStep == ASSUME TaskInv, Finish PROVE TaskInv'
<1>1. /\ UNCHANGED <<src, docs, late, flight, closed, sel, active, moves>>
      /\ run.pc = "finish" /\ run \in Run /\ rec \in Record /\ gens \in Nat
      /\ active.epoch \in Nat /\ active.epoch # 0 /\ run.task \in Task
      /\ docs \in Seq(Document) /\ run' = Idle /\ run.n \in Nat /\ run.own \in Nat
      /\ run.gen \in Nat
  BY DEF Finish, env, At, End, TaskInv, TypeOK, Snapshot, Run
<1>2. Inspected /\ Writing
  BY <1>1 DEF Inspected, Writing
<1>3. HasPrevious /\ run.gen = rec.gen
  BY <1>1, <1>2 DEF TaskInv, OwnGeneration, At
<1>4. gens' = gens /\ rec.gen <= gens /\ rec.gen # 0
  BY <1>1, <1>3 DEF Finish, TaskInv, Drawn, HasPrevious
<1> DEFINE seen == Seen \cup 1..run.n \cup ({run.own} \ {0})
<1>5. rec' = [epoch |-> active.epoch, gen |-> rec.gen, base |-> baseline(run.task),
              seen |-> seen, trusted |-> rec.trusted, journal |-> NoIntent]
  BY <1>3 DEF Finish, Saved, Trusted
<1>6. /\ seen \subseteq DOMAIN docs /\ seen \subseteq Nat
      /\ Cardinality(seen) <= MaxVersions
  <2>1. /\ Seen \subseteq 1..run.n /\ run.n <= Len(docs) /\ run.n <= MaxVersions
        /\ run.own # 0 => run.own <= Len(docs) /\ run.n < MaxVersions
    BY <1>2 DEF TaskInv, Listed
  <2>2. IsFiniteSet(1..run.n) /\ Cardinality(1..run.n) = run.n
    BY <1>1, UpTo
  <2>3. CASE run.own = 0
    <3>1. seen = 1..run.n
      BY <2>1, <2>3
    <3> HIDE DEF seen
    <3> QED BY <1>1, <2>1, <2>2, <3>1
  <2>4. CASE run.own # 0
    <3>1. seen = (1..run.n) \cup {run.own}
      BY <2>1, <2>4
    <3>0. seen \subseteq DOMAIN docs /\ seen \subseteq Nat
      BY <1>1, <2>1, <2>4, <3>1
    <3> HIDE DEF seen
    <3>2. Cardinality(seen) <= run.n + 1
      <4>1. Cardinality(seen) = IF run.own \in 1..run.n THEN run.n ELSE run.n + 1
        BY <2>2, <3>1, FS_AddElement
      <4> QED BY <1>1, <4>1
    <3>3. IsFiniteSet(seen) /\ Cardinality(seen) \in Nat
      <4>1. IsFiniteSet(seen)
        BY <2>2, <3>1, FS_AddElement
      <4> QED BY <4>1, FS_CardinalityType
    <3> QED BY <1>1, <2>1, <2>4, <3>0, <3>2, <3>3, BoundsAssumption
  <2> QED BY <2>3, <2>4
<1> HIDE DEF seen
<1>7. /\ rec'.epoch = active.epoch /\ rec'.gen = rec.gen /\ rec'.base = baseline(run.task)
      /\ rec'.seen = seen /\ rec'.trusted = rec.trusted /\ rec'.journal = NoIntent
  BY <1>5
<1>8. rec' \in Record
  BY <1>1, <1>5, <1>6 DEF Record, Baseline, baseline, Task, NoIntent
<1>9. NewTask \in Task
  <2>1. (CHOOSE l \in Lists : TRUE) \in Lists
    BY ListsAssumption
  <2> QED BY <2>1 DEF NewTask, Task
<1>10. run' \in Run /\ run'.pc = "idle" /\ run'.own = 0
  BY <1>1, <1>9 DEF Idle, Run, Steps
<1>11. /\ \A c \in Commands : c.gen = rec'.gen => rec'.base.done
       /\ (\A d \in Open(run.gen) : d.life = src.life) \/ rec'.base.done
  BY <1>2, <1>3, <1>7, BaselineSaved
<1>12. TypeOK' /\ Finite'
  BY <1>1, <1>4, <1>6, <1>7, <1>8, <1>10 DEF TaskInv, TypeOK, Finite
<1>13. Snapshot' /\ Drawn' /\ OwnGeneration' /\ Prepared'
  BY <1>1, <1>4, <1>7, <1>10 DEF TaskInv, Snapshot, Drawn, OwnGeneration, Prepared,
     Completing, Inspected, At
<1>14. Listed' /\ Intended'
  BY <1>1, <1>6, <1>7, <1>10 DEF TaskInv, Listed, Intended, Inspected, Completing, At
<1>15. SameLife'
  <2>1. Open(rec.gen)' = Open(run.gen)
    BY <1>1, <1>3, <1>7 DEF Open
  <2>2. (\A d \in Open(run.gen) : d.life = src.life) \/ Outlived(src)'
    BY <1>11 DEF Outlived
  <2> QED BY <1>1, <1>10, <2>1, <2>2 DEF SameLife, At, Writing
<1>16. OneRevision'
  <2>1. Commands' = Commands /\ closed' = closed /\ ~Writing'
    BY <1>1, <1>10 DEF Commands, Writing
  <2> QED BY <1>11, <2>1 DEF TaskInv, OneRevision
<1>17. Heeded' /\ ConsentHeld' /\ CompletionJustified'
  BY <1>1, <1>10 DEF TaskInv, Heeded, ConsentHeld, CompletionJustified, Writing
<1> QED BY <1>12, <1>13, <1>14, <1>15, <1>16, <1>17 DEF TaskInv

(* The source moves on to a new revision, and commands land or are lost.   *)
(* A new life begins only where the next run will notice.                  *)
LEMMA SourceMoves ==
  ASSUME TaskInv, UNCHANGED <<docs, late, sel, store, run>>, moves' \in Nat,
         src' = src \/ (src' \in Task /\ src'.rev = src.rev + 1),
         \/ src'.life = src.life
         \/ /\ rec.base.done \/ rec.journal # NoIntent
            /\ At("idle") \/ run.task.done \/ Completing
            /\ src'.rev = src.rev + 1,
         flight' \in SUBSET flight, closed' \in SUBSET Commands,
         \A c, d \in closed' : c.rev = d.rev => c = d
  PROVE  TaskInv'
<1>1. /\ UNCHANGED <<docs, late, sel, active, rec, gens, run>>
      /\ run \in Run /\ rec \in Record /\ src \in Task /\ src' \in Task /\ run.task \in Task
      /\ src.rev \in Nat /\ run.task.rev \in Nat /\ rec.journal.rev \in Nat /\ src'.rev \in Nat
      /\ src' = src \/ src'.rev = src.rev + 1
  BY DEF store, TaskInv, TypeOK, Run, Task, Record
<1>2. Commands' \subseteq Commands
  BY DEF Commands
<1>3. TypeOK' /\ Finite'
  BY <1>1, <1>2 DEF TaskInv, TypeOK, Finite, Commands
<1>4. Snapshot'
  BY <1>1 DEF TaskInv, Snapshot, At
<1>5. Drawn' /\ OwnGeneration'
  BY <1>1, <1>2 DEF TaskInv, Drawn, OwnGeneration, HasPrevious, Inspected, Completing, At,
     Commands
<1>6. Listed' /\ Prepared'
  BY <1>1 DEF TaskInv, Listed, Prepared, Seen, HasPrevious, Inspected, Completing, Justified, At
<1>7. Intended'
  BY <1>1 DEF TaskInv, Intended, Requested, At
<1>8. SameLife'
  <2>1. Outlived(src) => Outlived(src)'
    BY <1>1 DEF Outlived
  <2>2. src'.life = src.life \/ Outlived(src)'
    BY <1>1 DEF Outlived, TaskInv, Intended
  <2>3. (At("inspect") \/ Writing) /\ ~run.task.done => src'.life = src.life
    BY DEF At, Writing, Completing
  <2>4. Outlived(run.task)' = Outlived(run.task) /\ Open(rec.gen)' = Open(rec.gen)
        /\ Open(run.gen)' = Open(run.gen) /\ At("inspect")' = At("inspect") /\ Writing' = Writing
    BY <1>1 DEF Outlived, Open, At, Writing
  <2> QED BY <1>1, <2>1, <2>2, <2>3, <2>4 DEF TaskInv, SameLife
<1>9. OneRevision'
  BY <1>1, <1>2 DEF TaskInv, OneRevision, Writing
<1>10. Heeded' /\ ConsentHeld'
  BY <1>1 DEF TaskInv, Heeded, ConsentHeld, Writing, Seen, HasPrevious
<1>11. CompletionJustified'
  BY <1>1, <1>2 DEF TaskInv, CompletionJustified, Commands
<1> QED BY <1>3, <1>4, <1>5, <1>6, <1>7, <1>8, <1>9, <1>10, <1>11 DEF TaskInv

LEMMA LandStep == ASSUME TaskInv, Land PROVE TaskInv'
<1>1. PICK c \in flight :
        /\ flight' = flight \ {c}
        /\ IF \E d \in closed : d.rev = c.rev
           THEN UNCHANGED <<src, closed>>
           ELSE /\ closed' = closed \cup {c}
                /\ src' = IF src.done THEN src
                          ELSE [src EXCEPT !.done = TRUE, !.rev = @ + 1, !.by = c.gen]
        /\ UNCHANGED <<docs, late, sel, store, run, moves>>
  BY DEF Land
<1>2. c \in Command /\ src \in Task /\ moves' \in Nat
  BY <1>1 DEF TaskInv, TypeOK
<1>3. src' = src \/ (src' \in Task /\ src'.rev = src.rev + 1)
  <2>1. c.gen \in Nat /\ src.rev + 1 \in Nat \ {0}
    BY <1>2 DEF Task, Command
  <2>2. src' = src \/ src' = [src EXCEPT !.done = TRUE, !.rev = @ + 1, !.by = c.gen]
    BY <1>1
  <2> QED BY <1>2, <2>1, <2>2 DEF Task
<1>4. src'.life = src.life
  BY <1>1, <1>2 DEF Task
<1>5. closed' \in SUBSET Commands /\ \A x, y \in closed' : x.rev = y.rev => x = y
  BY <1>1 DEF TaskInv, OneRevision, Commands
<1>6. flight' \in SUBSET flight /\ UNCHANGED <<docs, late, sel, store, run>>
  BY <1>1
<1> QED BY <1>2, <1>3, <1>4, <1>5, <1>6, SourceMoves

LEMMA LoseCommandStep == ASSUME TaskInv, LoseCommand PROVE TaskInv'
<1>1. /\ UNCHANGED <<docs, late, sel, store, run>> /\ moves' \in Nat /\ src' = src
      /\ flight' \in SUBSET flight /\ closed' = closed
  BY DEF LoseCommand, Disturb, TaskInv, TypeOK
<1>2. closed \in SUBSET Commands /\ \A x, y \in closed : x.rev = y.rev => x = y
  BY DEF TaskInv, OneRevision, Commands
<1> QED BY <1>1, <1>2, SourceMoves

LEMMA OwnerStep ==
  ASSUME TaskInv, NEW task \in Task, Owner(task),
         \/ task.life = src.life
         \/ /\ rec.base.done \/ rec.journal # NoIntent
            /\ At("idle") \/ run.task.done \/ Completing
  PROVE  TaskInv'
<1>1. /\ UNCHANGED <<docs, late, sel, store, run>> /\ moves' \in Nat
      /\ flight' \in SUBSET flight /\ closed' = closed /\ src \in Task
      /\ src' = [task EXCEPT !.rev = src.rev + 1]
  BY DEF Owner, Disturb, TaskInv, TypeOK
<1>2. src' \in Task /\ src'.rev = src.rev + 1 /\ src'.life = task.life
  BY <1>1 DEF Task
<1>3. closed \in SUBSET Commands /\ \A x, y \in closed : x.rev = y.rev => x = y
  BY DEF TaskInv, OneRevision, Commands
<1> QED BY <1>1, <1>2, <1>3, SourceMoves

LEMMA OwnerSteps ==
  ASSUME TaskInv, OwnerEdits \/ OwnerCompletes \/ OwnerMoves \/ OwnerAdvances \/ OwnerReopens
  PROVE  TaskInv'
<1>1. src \in Task /\ rec \in Record
  BY DEF TaskInv, TypeOK
<1>2. CASE OwnerEdits
  <2>1. PICK r \in Recurrence : Owner([src EXCEPT !.recurring = r])
    BY <1>2 DEF OwnerEdits
  <2>2. r \in BOOLEAN
    BY RecurrenceAssumption
  <2>3. PICK task : task = [src EXCEPT !.recurring = r]
    OBVIOUS
  <2>4. task \in Task /\ task.life = src.life
    BY <1>1, <2>2, <2>3 DEF Task
  <2> QED BY <2>1, <2>3, <2>4, OwnerStep
<1>3. CASE OwnerCompletes
  <2>1. PICK task : task = [src EXCEPT !.done = TRUE]
    OBVIOUS
  <2>2. task \in Task /\ task.life = src.life
    BY <1>1, <2>1 DEF Task
  <2> QED BY <1>3, <2>1, <2>2, OwnerStep DEF OwnerCompletes
<1>4. CASE OwnerMoves
  <2>1. PICK l \in Lists : Owner([src EXCEPT !.list = l])
    BY <1>4 DEF OwnerMoves
  <2>2. PICK task : task = [src EXCEPT !.list = l]
    OBVIOUS
  <2>3. task \in Task /\ task.life = src.life
    BY <1>1, <2>2 DEF Task
  <2> QED BY <2>1, <2>2, <2>3, OwnerStep
<1>5. CASE OwnerAdvances
  <2>1. PICK task : task = [src EXCEPT !.due = @ + 1]
    OBVIOUS
  <2>2. task \in Task /\ task.life = src.life
    BY <1>1, <2>1 DEF Task
  <2> QED BY <1>5, <2>1, <2>2, OwnerStep DEF OwnerAdvances
<1>6. CASE OwnerReopens
  <2>1. PICK life \in Nat : life = IF Knows THEN src.life + 1 ELSE src.life
    BY <1>1 DEF Task
  <2>2. PICK task : task = [src EXCEPT !.done = FALSE, !.by = 0, !.life = life]
    OBVIOUS
  <2>3. task \in Task /\ task.life = life
    BY <1>1, <2>2 DEF Task
  <2>4. Owner(task)
    BY <1>1, <1>6, <2>1, <2>2 DEF OwnerReopens, Task
  <2>5. CASE Knows
    <3>1. rec.base.done \/ rec.journal # NoIntent
      BY <2>5 DEF Knows, NoIntent
    <3> QED BY <2>3, <2>4, <2>5, <3>1, OwnerStep DEF Knows
  <2>6. CASE ~Knows
    BY <2>1, <2>3, <2>4, <2>6, OwnerStep
  <2> QED BY <2>5, <2>6
<1> QED BY <1>2, <1>3, <1>4, <1>5, <1>6

(* The selection does not change under a completion.                       *)
LEMMA SetSelectionStep == ASSUME TaskInv, SetSelection PROVE TaskInv'
<1>1. /\ UNCHANGED <<src, docs, late, flight, closed, active, rec, gens, run>>
      /\ moves' \in Nat /\ sel' \in SUBSET Lists /\ run.pc \notin {"close", "wait"}
  BY ListsAssumption DEF SetSelection, store, Disturb, TaskInv, TypeOK
<1>2. TypeOK' /\ Finite'
  BY <1>1 DEF TaskInv, TypeOK, Finite
<1>3. Snapshot' /\ Drawn' /\ OwnGeneration' /\ Listed' /\ Intended' /\ Prepared'
  BY <1>1 DEF TaskInv, Snapshot, Drawn, OwnGeneration, Listed, Intended, Prepared,
     Completing, Inspected, At, Requested, Justified, Seen, HasPrevious
<1>4. SameLife' /\ OneRevision' /\ Heeded' /\ ConsentHeld' /\ CompletionJustified'
  BY <1>1 DEF TaskInv, SameLife, OneRevision, Heeded, ConsentHeld, CompletionJustified,
     Writing, At, Open, Commands, Outlived, Seen, HasPrevious
<1> QED BY <1>2, <1>3, <1>4 DEF TaskInv

LEMMA NextInv == TaskInv /\ [Next]_vars => TaskInv'
<1> SUFFICES ASSUME TaskInv, [Next]_vars PROVE TaskInv'
    OBVIOUS
<1>1. CASE Engine
  BY <1>1, StopStep, BeginStep, InspectStep, SaveIntentStep, ProviderChecksStep, SubmitStep,
     ConfirmStep, PlanStep, UploadStep, FinishStep DEF Engine
<1>2. CASE Environment
  BY <1>2, OwnerSteps, BotStep, SetSelectionStep
     DEF Environment, BotResolves, BotAnnotates, BotTampers
<1>3. CASE Land \/ LateUpload \/ Abort \/ UploadTimesOut \/ LoseCommand
  BY <1>3, LandStep, LateUploadStep, AbortStep, UploadTimesOutStep, LoseCommandStep
<1>4. CASE UNCHANGED vars
  <2>1. UNCHANGED <<docs, late, sel, store, run, src, flight, closed, moves>>
    BY <1>4 DEF vars
  <2>2. closed \in SUBSET Commands /\ \A x, y \in closed : x.rev = y.rev => x = y
    BY DEF TaskInv, OneRevision, Commands
  <2>3. moves \in Nat
    BY DEF TaskInv, TypeOK
  <2> QED BY <2>1, <2>2, <2>3, SourceMoves
<1> QED BY <1>1, <1>2, <1>3, <1>4 DEF Next

(* The invariant holds throughout.                                         *)
LEMMA Invariant == Spec => []TaskInv
BY InitInv, NextInv, PTL DEF Spec

-----------------------------------------------------------------------------
(* The theorems.                                                           *)

(* engine.py and state.py keep every variable in its type, and neither the *)
(* versions a record marks seen nor the source states it trusts outgrow    *)
(* the history cap.                                                        *)
THEOREM TypeCorrect == Spec => []TypeOK
<1>1. TaskInv => TypeOK
  BY DEF TaskInv
<1> QED BY <1>1, Invariant, PTL

(* Between the provider's last read and its answer the selection stands,   *)
(* and the task is in it.                                                  *)
THEOREM ConsentIsHeld == Spec => []ConsentHeld
<1>1. TaskInv => ConsentHeld
  BY DEF TaskInv
<1> QED BY <1>1, Invariant, PTL

(* Every completion sent answers a request of the same generation, in the  *)
(* same collection, about the life the task was in.                        *)
THEOREM CompletionsJustified == Spec => []CompletionJustified
<1>1. TaskInv => CompletionJustified
  BY DEF TaskInv
<1> QED BY <1>1, Invariant, PTL

(* A generation completes the task once: its commands all bear one         *)
(* revision, and the provider applies a revision's command once.           *)
THEOREM CompletedOnce == Spec => []OncePerGeneration
<1>1. TaskInv => OncePerGeneration
  BY DEF TaskInv, OneRevision, OncePerGeneration, Commands
<1> QED BY <1>1, Invariant, PTL

(* No step marks a resolution of the current generation seen while the     *)
(* source stays open and could be completed.                               *)
LEMMA NothingLost ==
  ASSUME TaskInv, [Next]_vars, rec'.epoch = rec.epoch, NEW v \in rec'.seen \ rec.seen,
         Asks(docs[v]), docs[v].gen = rec'.gen
  PROVE  rec'.base.done \/ rec'.base.recurring
<1>1. Seen \subseteq rec.seen
  BY DEF Seen
<1>2. rec' # rec
  OBVIOUS
<1>3. CASE SaveIntent
  BY <1>1, <1>2, <1>3 DEF SaveIntent, Saved
<1>4. CASE Plan
  BY <1>1, <1>2, <1>4 DEF Plan, Saved
<1>5. CASE Finish
  <2>1. Inspected /\ Writing /\ run.pc = "finish"
    BY <1>5 DEF Finish, At, Inspected, Writing
  <2>2. HasPrevious /\ Seen = rec.seen
    BY <2>1 DEF TaskInv, OwnGeneration, At, Seen
  <2>3. /\ rec'.seen = Seen \cup 1..run.n \cup ({run.own} \ {0})
        /\ rec'.gen = run.gen /\ rec'.base = baseline(run.task)
    BY <1>5 DEF Finish, Saved
  <2>4. v # run.own
    BY <2>1, <2>3 DEF TaskInv, Listed, Asks
  <2>5. run.task.done \/ run.task.recurring
    BY <2>1, <2>2, <2>3, <2>4 DEF TaskInv, Heeded
  <2> QED BY <2>3, <2>5 DEF baseline
<1>6. CASE Engine /\ ~SaveIntent /\ ~Plan /\ ~Finish
  BY <1>2, <1>6 DEF Engine, Stop, Begin, Inspect, ProviderChecks, Submit, Confirm, Upload, store
<1>7. CASE Environment \/ Land \/ LateUpload \/ Abort \/ UploadTimesOut \/ LoseCommand
  BY <1>2, <1>7 DEF Environment, Land, LateUpload, Abort, UploadTimesOut, LoseCommand, store,
     OwnerEdits, OwnerCompletes, OwnerMoves, OwnerAdvances, OwnerReopens, Owner, BotResolves,
     BotAnnotates, BotTampers, BotWrites, SetSelection
<1>8. CASE UNCHANGED vars
  BY <1>2, <1>8 DEF vars, store
<1> QED BY <1>3, <1>4, <1>5, <1>6, <1>7, <1>8 DEF Next

(* A version that races with the engine's upload is not marked seen with   *)
(* it, and one the run listed is marked only when it was acted on.         *)
THEOREM ResolutionsHeeded == Spec => ResolutionNotLost
<1>1. TaskInv /\ [Next]_vars =>
        [rec'.epoch = rec.epoch =>
           \A v \in rec'.seen \ rec.seen :
              Asks(docs[v]) /\ docs[v].gen = rec'.gen
                 => rec'.base.done \/ rec'.base.recurring]_vars
  BY NothingLost
<1> QED BY <1>1, Invariant, PTL DEF Spec, ResolutionNotLost
=============================================================================
