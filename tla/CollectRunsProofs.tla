------------------------- MODULE CollectRunsProofs -------------------------
(***************************************************************************)
(* Proofs about CollectRuns, for any number of threads, workers and edits, *)
(* any interval and any lifetime of a validated definition: it is well     *)
(* typed, the definition the user picked holds, and the row does not go    *)
(* back.                                                                   *)
(***************************************************************************)
EXTENDS CollectRuns, SequenceTheorems, NaturalsInduction, WellFoundedInduction, TLAPS

-----------------------------------------------------------------------------
(* The inductive invariant.                                                *)

(* What the state of a thread says about its copies of the row.            *)
Shaped(r) ==
  /\ r.pc = "idle" => r = IdleRun
  /\ r.pc = "saving" => r.copy \in Row
  /\ r.worker \in {"check", "work"} => r.ctx \in Row

RunShape == \A t \in Thread : Shaped(thread[t])

(* One run of the plugin at a time, and _inflight tells of it.             *)
OneRun ==
  \A t \in Thread : UnderWay(t) =>
    inflight /\ \A u \in Thread : UnderWay(u) => u = t

(* A pick stands: nobody edits the row, which has the definition.          *)
PickKept ==
  chosen > 0 =>
    /\ \A c \in Editor : edit[c] = None
    /\ Live(chosen) => row.def = chosen

(* Edits are not ahead of the row.                                         *)
EditsBehind ==
  ~crossed =>
    /\ \A c \in Editor : Loaded(c) => edit[c].snap.wm <= row.wm
    /\ \A c, x \in Editor : Loaded(c) /\ Loaded(x) => c = x

(* A copy of the row that may be written to it, or merged into it, has the *)
(* definition the user picked and is behind neither the row nor what an    *)
(* edit will make of it.                                                   *)
Fit(x) ==
  x # None =>
    /\ chosen > 0 /\ Live(chosen) => x.def = chosen
    /\ ~crossed =>
         /\ x.wm >= row.wm
         /\ \A c \in Editor : Loaded(c) => x.wm >= edit[c].snap.wm

CopiesFit ==
  \A t \in Thread :
    thread[t].pc # "orphan" => Fit(thread[t].ctx) /\ Fit(thread[t].copy)

CollectInv ==
  TypeOK /\ RunShape /\ OneRun /\ PickKept /\ EditsBehind /\ CopiesFit

(* A run began no earlier than the one that the row, or the row an edit    *)
(* has loaded, tells of.                                                   *)
NoOlder(start, r) == r.last # None => start <= r.last

StartsLate ==
  \A t \in Thread : UnderWay(t) =>
    /\ NoOlder(thread[t].start, row)
    /\ \A c \in Editor : Loaded(c) => NoOlder(thread[t].start, edit[c].snap)

(* What TypeOK says of everything but the threads.                         *)
RestTyped ==
  /\ row \in Row /\ inflight \in BOOLEAN
  /\ edit \in [Editor -> Request \cup {None}]
  /\ defs \in Seq(Definition) /\ Len(defs) <= MaxDefs
  /\ src \in 0..MaxItems /\ rec \in 0..src /\ moves \in 0..MaxMoves
  /\ chosen \in 0..Len(defs) /\ crossed \in BOOLEAN

-----------------------------------------------------------------------------
(* Helpers.                                                                *)

LEMMA InitialRow ==
  ASSUME Len(defs) \in Nat PROVE NewRow \in Row
BY CollectAssumption DEF NewRow, Row

LEMMA IdleType ==
  /\ IdleRun \in Run /\ Shaped(IdleRun)
  /\ IdleRun.pc = "idle" /\ IdleRun.ctx = None /\ IdleRun.copy = None
  /\ IdleRun.worker = "none"
BY CollectAssumption DEF IdleRun, Run, Shaped

(* Definitions are never forgotten, so that rows stay rows.                *)
LEMMA TypesGrow ==
  ASSUME Len(defs) \in Nat, Len(defs') \in Nat, Len(defs) <= Len(defs')
  PROVE  Row \subseteq Row' /\ Run \subseteq Run' /\ Request \subseteq Request'
<1>1. 0..Len(defs) \subseteq 0..Len(defs')
  OBVIOUS
<1>2. Row \subseteq Row'
  BY <1>1 DEF Row
<1> QED BY <1>1, <1>2 DEF Run, Request

LEMMA RowIsNotNone ==
  ASSUME Len(defs) \in Nat, NEW x \in Row
  PROVE  x # None /\ x.wm \in 0..MaxItems /\ x.wm \in Nat /\ x.def \in 0..Len(defs)
<1>1. x \in [last: Nat \cup {None}, wm: Nat, def: Nat, named: BOOLEAN, stamp: Nat \cup {None}]
  BY CollectAssumption DEF Row
<1> QED BY <1>1, CollectAssumption DEF Row

(* The row itself is fit, whatever its last_run.                           *)
LEMMA RowIsFit ==
  ASSUME CollectInv, NEW x \in Row, x.def = row.def, x.wm = row.wm
  PROVE  Fit(x)
BY DEF CollectInv, TypeOK, Row, PickKept, EditsBehind, Fit

(* What fits goes on to fit while the row and the edits stay as they are.  *)
LEMMA FitStays ==
  ASSUME UNCHANGED <<row, edit, history>>, chosen > 0 /\ Live(chosen)' => Live(chosen)
  PROVE  \A x : Fit(x) => Fit(x)'
BY DEF Fit, Loaded, history

(* The run of one thread moves on.                                         *)
LEMMA ThreadMoves ==
  ASSUME CollectInv, NEW t \in Thread, NEW r \in Run',
         thread' = [thread EXCEPT ![t] = r], UNCHANGED <<row, edit, history>>,
         RestTyped', Len(defs) <= Len(defs'),
         chosen > 0 /\ Live(chosen)' => Live(chosen),
         Shaped(r)', OneRun',
         r.pc # "orphan" => Fit(r.ctx) /\ Fit(r.copy)
  PROVE  CollectInv'
<1>0. Len(defs) \in Nat /\ Len(defs') \in Nat
  BY LenProperties DEF CollectInv, TypeOK, RestTyped
<1>1. Row \subseteq Row' /\ Run \subseteq Run' /\ Request \subseteq Request'
  BY <1>0, TypesGrow
<1>2. thread'[t] = r /\ \A u \in Thread \ {t} : thread'[u] = thread[u]
  BY DEF CollectInv, TypeOK
<1>3. thread' \in [Thread -> Run']
  BY <1>1 DEF CollectInv, TypeOK
<1>4. TypeOK'
  BY <1>3 DEF TypeOK, RestTyped
<1>5. RunShape'
  <2> SUFFICES ASSUME NEW u \in Thread PROVE Shaped(thread[u])'
    BY DEF RunShape
  <2>1. CASE u = t
    BY <1>2, <2>1 DEF Shaped
  <2>2. CASE u # t
    <3>1. Shaped(thread[u])
      BY DEF CollectInv, RunShape
    <3> QED BY <1>1, <1>2, <2>2, <3>1 DEF Shaped
  <2> QED BY <2>1, <2>2
<1>6. PickKept' /\ EditsBehind'
  BY DEF CollectInv, PickKept, EditsBehind, Loaded, history
<1>7. CopiesFit'
  <2> SUFFICES ASSUME NEW u \in Thread, thread'[u].pc # "orphan"
               PROVE  (Fit(thread[u].ctx) /\ Fit(thread[u].copy))'
    BY DEF CopiesFit
  <2>1. PICK x, y : x = thread'[u].ctx /\ y = thread'[u].copy
    OBVIOUS
  <2>2. Fit(x) /\ Fit(y)
    BY <1>2, <2>1 DEF CollectInv, CopiesFit
  <2>3. Fit(x)' /\ Fit(y)'
    BY <2>2, FitStays
  <2> QED BY <2>1, <2>3 DEF Fit
<1> QED BY <1>4, <1>5, <1>6, <1>7 DEF CollectInv

LEMMA ThreadType ==
  ASSUME CollectInv, NEW t \in Thread
  PROVE  /\ thread[t] \in Run /\ Shaped(thread[t]) /\ Len(defs) \in Nat
         /\ thread[t].pc # "orphan" => Fit(thread[t].ctx) /\ Fit(thread[t].copy)
BY LenProperties DEF CollectInv, TypeOK, RunShape, CopiesFit

(* A copy of a copy that has not gone back.                                *)
LEMMA FitLike ==
  ASSUME CollectInv, NEW x \in Row, Fit(x), NEW y, y.wm \in Nat,
         chosen > 0 /\ Live(chosen) /\ x.def = chosen => y.def = chosen, y.wm >= x.wm
  PROVE  Fit(y)
<1>1. Len(defs) \in Nat
  BY LenProperties DEF CollectInv, TypeOK
<1>2. x # None /\ x.wm \in Nat /\ row.wm \in Nat
  BY <1>1, RowIsNotNone DEF CollectInv, TypeOK
<1>3. \A c \in Editor : Loaded(c) => edit[c].snap.wm \in Nat
  <2> SUFFICES ASSUME NEW c \in Editor, Loaded(c) PROVE edit[c].snap.wm \in Nat
    OBVIOUS
  <2>1. edit[c].snap \in Row
    BY DEF CollectInv, TypeOK, Loaded, Request
  <2> QED BY <1>1, <2>1, RowIsNotNone
<1> QED BY <1>2, <1>3 DEF Fit

(* A step of a thread that leaves the definitions alone.                   *)
LEMMA StepsOn ==
  ASSUME CollectInv, NEW t \in Thread, NEW r \in Run, Steps(t, r),
         UNCHANGED <<row, defs, src>>, rec' \in 0..src, moves' \in 0..MaxMoves,
         Shaped(r), r.pc \notin {"idle", "orphan"} => UnderWay(t),
         r.pc # "orphan" => Fit(r.ctx) /\ Fit(r.copy)
  PROVE  CollectInv'
<1>1. thread' = [thread EXCEPT ![t] = r] /\ UNCHANGED <<inflight, edit, history>>
  BY DEF Steps
<1>2. Row' = Row /\ Run' = Run /\ Request' = Request
  BY DEF Row, Run, Request
<1>3. RestTyped' /\ Len(defs) <= Len(defs')
  BY <1>1, <1>2, LenProperties DEF CollectInv, TypeOK, RestTyped, history
<1>4. chosen > 0 /\ Live(chosen)' => Live(chosen)
  BY <1>1 DEF Live, history
<1>5. Shaped(r)'
  BY <1>2 DEF Shaped
<1>6. thread'[t] = r /\ \A u \in Thread \ {t} : thread'[u] = thread[u]
  BY <1>1 DEF CollectInv, TypeOK
<1>7. \A u \in Thread : UnderWay(u)' => UnderWay(u)
  BY <1>6 DEF UnderWay
<1>8. OneRun'
  BY <1>1, <1>7 DEF CollectInv, OneRun
<1> QED BY <1>1, <1>2, <1>3, <1>4, <1>5, <1>8, ThreadMoves

(* ... and touches the worker's copy of the row at most to drop it.        *)
LEMMA PlainStep ==
  ASSUME CollectInv, NEW t \in Thread,
         NEW pc \in {"spawned", "waiting", "joining", "orphan", thread[t].pc},
         NEW worker \in {"boot", "work", "hung", "gone", thread[t].worker},
         NEW ctx \in {None, thread[t].ctx},
         Steps(t, [thread[t] EXCEPT !.pc = pc, !.worker = worker, !.ctx = ctx]),
         UNCHANGED <<row, cloud>>, moves' \in 0..MaxMoves,
         thread[t].pc # "idle" /\ (thread[t].pc = "orphan" => pc = "orphan"),
         worker \in {"check", "work"} =>
           thread[t].worker \in {"check", "work"} /\ ctx = thread[t].ctx
  PROVE  CollectInv'
<1> DEFINE r == [thread[t] EXCEPT !.pc = pc, !.worker = worker, !.ctx = ctx]
<1>1. /\ thread[t] \in Run /\ Shaped(thread[t])
      /\ thread[t].pc # "orphan" => Fit(thread[t].ctx) /\ Fit(thread[t].copy)
  BY ThreadType
<1>2. /\ r \in Run /\ r.pc = pc /\ r.worker = worker /\ r.ctx = ctx /\ r.copy = thread[t].copy
  BY <1>1 DEF Run
<1> HIDE DEF r
<1>3. Shaped(r)
  BY <1>1, <1>2 DEF Shaped
<1>4. r.pc \notin {"idle", "orphan"} => UnderWay(t)
  BY <1>2 DEF UnderWay
<1>5. r.pc # "orphan" => Fit(r.ctx) /\ Fit(r.copy)
  <2>1. Fit(None)
    BY DEF Fit
  <2> QED BY <1>1, <1>2, <2>1
<1>6. Steps(t, r) /\ UNCHANGED <<row, defs, src>> /\ rec' \in 0..src
  BY DEF r, cloud, CollectInv, TypeOK
<1> QED BY <1>2, <1>3, <1>4, <1>5, <1>6, StepsOn

(* A worker moves on with another copy of the row.                         *)
LEMMA CopyStep ==
  ASSUME CollectInv, NEW t \in Thread,
         NEW worker \in {"check", "work", "gone"}, NEW x \in Row,
         Steps(t, [thread[t] EXCEPT !.worker = worker, !.ctx = x]),
         UNCHANGED <<row, defs, src>>, rec' \in 0..src, moves' \in 0..MaxMoves,
         thread[t].worker # "none", thread[t].pc # "orphan" => Fit(x)
  PROVE  CollectInv'
<1> DEFINE r == [thread[t] EXCEPT !.worker = worker, !.ctx = x]
<1>1. /\ thread[t] \in Run /\ Shaped(thread[t])
      /\ thread[t].pc # "orphan" => Fit(thread[t].ctx) /\ Fit(thread[t].copy)
  BY ThreadType
<1>2. thread[t].pc # "idle"
  BY <1>1, IdleType DEF Shaped
<1>3. /\ r \in Run /\ r.pc = thread[t].pc /\ r.worker = worker /\ r.ctx = x
      /\ r.copy = thread[t].copy
  BY <1>1 DEF Run
<1> HIDE DEF r
<1>4. Shaped(r)
  BY <1>1, <1>2, <1>3 DEF Shaped
<1>5. r.pc \notin {"idle", "orphan"} => UnderWay(t)
  BY <1>3 DEF UnderWay
<1>6. r.pc # "orphan" => Fit(r.ctx) /\ Fit(r.copy)
  BY <1>1, <1>3
<1>7. Steps(t, r)
  BY DEF r
<1> QED BY <1>3, <1>4, <1>5, <1>6, <1>7, StepsOn

(* One thing more has gone wrong, or none.                                 *)
LEMMA MovesType ==
  ASSUME CollectInv, Move \/ UNCHANGED moves PROVE moves' \in 0..MaxMoves
BY CollectAssumption DEF CollectInv, TypeOK, Move

(* Its run comes to an end without a trace.                                *)
LEMMA RunVanishes ==
  ASSUME CollectInv, NEW t \in Thread, Steps(t, IdleRun),
         UNCHANGED <<row, cloud>>, moves' \in 0..MaxMoves
  PROVE  CollectInv'
<1>1. UNCHANGED <<row, defs, src>> /\ rec' \in 0..src
  BY DEF cloud, CollectInv, TypeOK
<1>2. Fit(IdleRun.ctx) /\ Fit(IdleRun.copy)
  BY IdleType DEF Fit
<1> QED BY <1>1, <1>2, IdleType, StepsOn

-----------------------------------------------------------------------------
(* The runner and the worker.                                              *)

LEMMA SpawnStep ==
  ASSUME CollectInv, NEW t \in Thread, Spawn(t) \/ SpawnFails(t) \/ Register(t)
  PROVE  CollectInv'
<1>1. thread[t] \in Run /\ thread[t].pc \in {"starting", "spawned"}
  BY ThreadType DEF Spawn, SpawnFails, Register
<1>2. PICK pc \in {"spawned", "waiting"}, worker \in {"boot", "gone", thread[t].worker} :
        /\ Steps(t, [thread[t] EXCEPT !.pc = pc, !.worker = worker])
        /\ worker = thread[t].worker => thread[t].pc = "spawned" \/ worker \in {"boot", "gone"}
  <2>1. CASE Spawn(t)
    BY <2>1 DEF Spawn
  <2>2. CASE SpawnFails(t)
    BY <2>2 DEF SpawnFails
  <2>3. CASE Register(t)
    <3>1. [thread[t] EXCEPT !.pc = "waiting", !.worker = thread[t].worker]
            = [thread[t] EXCEPT !.pc = "waiting"]
      BY <1>1 DEF Run
    <3> QED BY <2>3, <3>1 DEF Register
  <2> QED BY <2>1, <2>2, <2>3
<1>3. [thread[t] EXCEPT !.pc = pc, !.worker = worker]
        = [thread[t] EXCEPT !.pc = pc, !.worker = worker, !.ctx = thread[t].ctx]
  BY <1>1 DEF Run
<1>4. UNCHANGED <<row, cloud>> /\ moves' \in 0..MaxMoves
  BY MovesType DEF Spawn, SpawnFails, Register
<1> QED BY <1>1, <1>2, <1>3, <1>4, PlainStep

LEMMA TrustsStampStep ==
  ASSUME CollectInv, NEW t \in Thread, TrustsStamp(t) PROVE CollectInv'
<1>1. thread[t] \in Run /\ thread[t].worker = "check" /\ thread[t].pc # "idle"
  BY ThreadType, IdleType DEF TrustsStamp, Working, Shaped
<1>2. [thread[t] EXCEPT !.worker = "work"]
        = [thread[t] EXCEPT !.pc = thread[t].pc, !.worker = "work", !.ctx = thread[t].ctx]
  BY <1>1 DEF Run
<1>3. UNCHANGED <<row, cloud>> /\ moves' \in 0..MaxMoves
  BY MovesType DEF TrustsStamp
<1>4. Steps(t, [thread[t] EXCEPT !.worker = "work"])
  BY DEF TrustsStamp
<1> QED BY <1>1, <1>2, <1>3, <1>4, PlainStep

LEMMA WorkerDiesStep ==
  ASSUME CollectInv, NEW t \in Thread, WorkerDies(t) PROVE CollectInv'
<1>1. thread[t] \in Run /\ thread[t].pc # "idle"
  BY ThreadType, IdleType DEF WorkerDies, Busy, Shaped
<1>2. UNCHANGED <<row, cloud>> /\ moves' \in 0..MaxMoves
  BY MovesType DEF WorkerDies
<1>3. CASE thread[t].pc = "orphan"
  BY <1>2, <1>3, RunVanishes DEF WorkerDies
<1>4. CASE thread[t].pc # "orphan"
  <2>1. [thread[t] EXCEPT !.worker = "gone", !.ctx = None]
          = [thread[t] EXCEPT !.pc = thread[t].pc, !.worker = "gone", !.ctx = None]
    BY <1>1 DEF Run
  <2>2. Steps(t, [thread[t] EXCEPT !.worker = "gone", !.ctx = None])
    BY <1>4 DEF WorkerDies
  <2> QED BY <1>1, <1>2, <1>4, <2>1, <2>2, PlainStep
<1> QED BY <1>3, <1>4

LEMMA RunnerLoadsStep ==
  ASSUME CollectInv, NEW t \in Thread, RunnerLoads(t) PROVE CollectInv'
<1> DEFINE r == [thread[t] EXCEPT !.pc = "saving", !.copy = row]
<1>1. /\ thread[t] \in Run /\ Shaped(thread[t])
      /\ thread[t].pc # "orphan" => Fit(thread[t].ctx) /\ Fit(thread[t].copy)
  BY ThreadType
<1>2. row \in Row /\ Fit(row)
  BY RowIsFit DEF CollectInv, TypeOK
<1>3. /\ r \in Run /\ r.pc = "saving" /\ r.worker = thread[t].worker
      /\ r.ctx = thread[t].ctx /\ r.copy = row
  BY <1>1, <1>2 DEF Run
<1>4. Steps(t, r) /\ UNCHANGED <<row, cloud>> /\ thread[t].pc = "waiting" /\ moves' \in 0..MaxMoves
  BY MovesType DEF RunnerLoads
<1> HIDE DEF r
<1>5. Shaped(r)
  BY <1>1, <1>2, <1>3 DEF Shaped
<1>6. UNCHANGED <<row, defs, src>> /\ rec' \in 0..src /\ UnderWay(t)
  BY <1>4 DEF cloud, CollectInv, TypeOK, UnderWay
<1>7. Fit(r.ctx) /\ Fit(r.copy)
  BY <1>1, <1>2, <1>3, <1>4
<1> QED BY <1>3, <1>4, <1>5, <1>6, <1>7, StepsOn

LEMMA WorkerLoadsStep ==
  ASSUME CollectInv, NEW t \in Thread, WorkerLoads(t) PROVE CollectInv'
<1> DEFINE x == [row EXCEPT !.last = None]
<1>1. x \in Row /\ x.def = row.def /\ x.wm = row.wm
  BY DEF CollectInv, TypeOK, Row
<1>2. /\ Steps(t, [thread[t] EXCEPT !.worker = "check", !.ctx = x])
      /\ UNCHANGED <<row, cloud>> /\ thread[t].worker # "none" /\ moves' \in 0..MaxMoves
  BY MovesType DEF WorkerLoads, Working
<1> HIDE DEF x
<1>3. Fit(x)
  BY <1>1, RowIsFit
<1>4. UNCHANGED <<row, defs, src>> /\ rec' \in 0..src
  BY <1>2 DEF cloud, CollectInv, TypeOK
<1> QED BY <1>1, <1>2, <1>3, <1>4, CopyStep

(* The worker's copy of the row.                                           *)
LEMMA WorkerCopy ==
  ASSUME CollectInv, NEW t \in Thread, thread[t].worker \in {"check", "work"}
  PROVE  /\ thread[t].ctx \in Row /\ thread[t].ctx # None /\ thread[t].ctx.wm \in Nat
         /\ thread[t].pc # "idle" /\ thread[t].worker # "none"
         /\ thread[t].pc # "orphan" => Fit(thread[t].ctx)
<1>1. /\ thread[t] \in Run /\ Shaped(thread[t]) /\ Len(defs) \in Nat
      /\ thread[t].pc # "orphan" => Fit(thread[t].ctx)
  BY ThreadType
<1>2. thread[t].ctx \in Row /\ thread[t].pc # "idle"
  BY <1>1, IdleType DEF Shaped
<1> QED BY <1>1, <1>2, RowIsNotNone

LEMMA ValidatesStep ==
  ASSUME CollectInv, NEW t \in Thread, Validates(t) \/ CannotAsk(t) PROVE CollectInv'
<1> DEFINE ctx == thread[t].ctx
           stamped == [ctx EXCEPT !.stamp = 0]
           dropped == [ctx EXCEPT !.def = 0]
<1>1. /\ ctx \in Row /\ ctx.wm \in Nat /\ thread[t].worker = "check"
      /\ thread[t].pc # "orphan" => Fit(ctx)
  BY WorkerCopy DEF Validates, CannotAsk, Working
<1>2. /\ stamped \in Row /\ stamped.def = ctx.def /\ stamped.wm = ctx.wm
      /\ dropped \in Row /\ dropped.def = 0 /\ dropped.wm = ctx.wm
  <2>1. 0 \in 0..Ttl /\ 0 \in 0..Len(defs)
    BY CollectAssumption, ThreadType
  <2> QED BY <1>1, <2>1 DEF Row
<1>3. UNCHANGED <<row, defs, src>> /\ rec' \in 0..src /\ moves' \in 0..MaxMoves
  BY MovesType DEF Validates, CannotAsk, cloud, CollectInv, TypeOK
<1>4. \/ Steps(t, [thread[t] EXCEPT !.worker = "work", !.ctx = stamped])
      \/ ~Live(ctx.def) /\ Steps(t, [thread[t] EXCEPT !.worker = "check", !.ctx = dropped])
  <2>1. [thread[t] EXCEPT !.ctx = dropped]
          = [thread[t] EXCEPT !.worker = "check", !.ctx = dropped]
    BY <1>1, ThreadType DEF Run
  <2> QED BY <2>1 DEF Validates, CannotAsk
<1> HIDE DEF stamped, dropped, ctx
<1>5. CASE Steps(t, [thread[t] EXCEPT !.worker = "work", !.ctx = stamped])
  <2>1. thread[t].pc # "orphan" => Fit(stamped)
    BY <1>1, <1>2, FitLike
  <2> QED BY <1>1, <1>2, <1>3, <1>5, <2>1, CopyStep
<1>6. CASE ~Live(ctx.def) /\ Steps(t, [thread[t] EXCEPT !.worker = "check", !.ctx = dropped])
  <2>1. thread[t].pc # "orphan" => Fit(dropped)
    BY <1>1, <1>2, <1>6, FitLike
  <2> QED BY <1>1, <1>2, <1>3, <1>6, <2>1, CopyStep
<1> QED BY <1>4, <1>5, <1>6

LEMMA RecordsStep ==
  ASSUME CollectInv, NEW t \in Thread, Records(t) PROVE CollectInv'
<1> DEFINE ctx == thread[t].ctx
           x == [ctx EXCEPT !.wm = ctx.wm + 1]
<1>1. /\ ctx \in Row /\ ctx.wm \in Nat /\ thread[t].worker = "work"
      /\ thread[t].pc # "orphan" => Fit(ctx)
  BY WorkerCopy DEF Records, Working
<1>2. /\ ctx.wm < src /\ rec' = (IF rec > ctx.wm THEN rec ELSE ctx.wm + 1)
      /\ Steps(t, [thread[t] EXCEPT !.ctx = x]) /\ UNCHANGED <<row, defs, src, moves>>
  BY DEF Records
<1>3. src \in 0..MaxItems /\ rec \in 0..src /\ MaxItems \in Nat
  BY CollectAssumption DEF CollectInv, TypeOK
<1>4. x \in Row /\ x.def = ctx.def /\ x.wm = ctx.wm + 1
  <2>1. ctx.wm + 1 \in 0..MaxItems
    BY <1>1, <1>2, <1>3
  <2> QED BY <1>1, <2>1 DEF Row
<1>5. [thread[t] EXCEPT !.ctx = x] = [thread[t] EXCEPT !.worker = "work", !.ctx = x]
  BY <1>1, ThreadType DEF Run
<1>6. rec' \in 0..src /\ moves' \in 0..MaxMoves
  BY <1>1, <1>2, <1>3 DEF CollectInv, TypeOK
<1> HIDE DEF ctx, x
<1>7. thread[t].pc # "orphan" => Fit(x)
  BY <1>1, <1>4, FitLike
<1> QED BY <1>1, <1>2, <1>4, <1>5, <1>6, <1>7, CopyStep

LEMMA ReportsStep ==
  ASSUME CollectInv, NEW t \in Thread, WorkerDone(t) \/ PluginRaises(t) PROVE CollectInv'
<1> DEFINE ctx == thread[t].ctx
           x == [ctx EXCEPT !.named = FALSE]
<1>1. /\ ctx \in Row /\ ctx.wm \in Nat /\ thread[t].worker # "none"
      /\ thread[t].pc # "orphan" => Fit(ctx)
  BY WorkerCopy DEF WorkerDone, PluginRaises, Working
<1>2. Reports(t) /\ UNCHANGED <<row, cloud>> /\ moves' \in 0..MaxMoves
  BY MovesType DEF WorkerDone, PluginRaises
<1>3. CASE thread[t].pc = "orphan"
  BY <1>2, <1>3, RunVanishes DEF Reports
<1>4. CASE thread[t].pc # "orphan"
  <2>1. Steps(t, [thread[t] EXCEPT !.worker = "gone", !.ctx = x])
    BY <1>2, <1>4 DEF Reports
  <2>2. x \in Row /\ x.def = ctx.def /\ x.wm = ctx.wm
    BY <1>1 DEF Row
  <2>3. UNCHANGED <<row, defs, src>> /\ rec' \in 0..src
    BY <1>2 DEF cloud, CollectInv, TypeOK
  <2> HIDE DEF ctx, x
  <2>4. Fit(x)
    BY <1>1, <1>4, <2>2, FitLike
  <2> QED BY <1>1, <1>2, <2>1, <2>2, <2>3, <2>4, CopyStep
<1> QED BY <1>3, <1>4

LEMMA ResolvesStep ==
  ASSUME CollectInv, NEW t \in Thread, Resolves(t) PROVE CollectInv'
<1> DEFINE ctx == thread[t].ctx
           name == IF ctx.named THEN "custom" ELSE "canonical"
<1>1. /\ ctx \in Row /\ ctx.wm \in Nat /\ thread[t].worker = "check" /\ ctx.def = 0
      /\ ctx # None /\ thread[t].pc # "idle"
      /\ thread[t].pc # "orphan" => Fit(ctx)
  BY WorkerCopy DEF Resolves, Working
<1>2. defs \in Seq(Definition) /\ Len(defs) \in Nat
  BY ThreadType DEF CollectInv, TypeOK
<1>3. PICK d :
        /\ Steps(t, [thread[t] EXCEPT !.worker = "work",
                      !.ctx = [ctx EXCEPT !.def = d, !.named = FALSE, !.stamp = 0]])
        /\ \/ d \in 1..Len(defs) /\ defs' = defs
           \/ /\ d = Len(defs) + 1 /\ Len(defs) < MaxDefs
              /\ defs' = Append(defs, [name |-> name, live |-> TRUE])
  <2>1. CASE Candidates(name) # {}
    <3>1. Candidates(name) \subseteq 1..Len(defs)
      BY <1>2 DEF Candidates
    <3>2. Oldest(Candidates(name)) \in Candidates(name)
      <4>0. Candidates(name) \in SUBSET Nat
        BY <3>1
      <4>1. PICK x \in Candidates(name) : \A y \in Candidates(name) : ~(<<y, x>> \in OpToRel(<, Nat))
        BY <4>0, <2>1, NatLessThanWellFounded, WFMin
      <4>2. \A y \in Candidates(name) : x <= y
        <5> SUFFICES ASSUME NEW y \in Candidates(name) PROVE x <= y
          OBVIOUS
        <5>1. ~(y < x)
          BY <4>0, <4>1 DEF OpToRel
        <5> QED BY <4>0, <5>1
      <4> QED BY <4>2 DEF Oldest
    <3> QED BY <2>1, <3>1, <3>2 DEF Resolves
  <2>2. CASE Candidates(name) = {}
    BY <2>2 DEF Resolves
  <2> QED BY <2>1, <2>2
<1>4. UNCHANGED <<row, src, rec, moves, inflight, edit, history>>
  BY <1>3 DEF Resolves, Steps
<1>5. /\ defs' \in Seq(Definition) /\ Len(defs') \in Nat /\ Len(defs') <= MaxDefs
      /\ Len(defs) <= Len(defs') /\ d \in 0..Len(defs')
      /\ \A x \in 1..Len(defs) : defs'[x] = defs[x]
  <2>1. CASE d \in 1..Len(defs) /\ defs' = defs
    BY <1>2, <2>1 DEF CollectInv, TypeOK
  <2>2. CASE d = Len(defs) + 1 /\ Len(defs) < MaxDefs
             /\ defs' = Append(defs, [name |-> name, live |-> TRUE])
    <3>1. [name |-> name, live |-> TRUE] \in Definition
      BY DEF Definition
    <3> QED BY <1>2, <2>2, <3>1, AppendProperties, CollectAssumption
  <2> QED BY <1>3, <2>1, <2>2
<1>6. Row \subseteq Row' /\ Run \subseteq Run' /\ Request \subseteq Request'
  BY <1>2, <1>5, TypesGrow
<1>7. RestTyped'
  BY <1>2, <1>4, <1>5, <1>6 DEF CollectInv, TypeOK, RestTyped, history
<1>8. chosen > 0 /\ Live(chosen)' => Live(chosen)
  <2>1. chosen \in 0..Len(defs) /\ chosen' = chosen
    BY <1>4 DEF CollectInv, TypeOK, history
  <2> QED BY <1>2, <1>5, <2>1 DEF Live
<1>9. PICK x : x = [ctx EXCEPT !.def = d, !.named = FALSE, !.stamp = 0]
  OBVIOUS
<1>10. x \in Row' /\ x.wm = ctx.wm
  <2>1. ctx \in Row' /\ d \in 0..Len(defs') /\ 0 \in 0..Ttl
    BY <1>1, <1>5, <1>6, CollectAssumption
  <2> QED BY <1>9, <2>1 DEF Row
<1>11. PICK r : r = [thread[t] EXCEPT !.worker = "work", !.ctx = x]
  OBVIOUS
<1>12. /\ r \in Run' /\ r.pc = thread[t].pc /\ r.worker = "work" /\ r.ctx = x
       /\ r.copy = thread[t].copy
  <2>1. thread[t] \in Run'
    BY <1>6, ThreadType
  <2> QED BY <1>10, <1>11, <2>1 DEF Run
<1>13. Shaped(r)'
  BY <1>1, <1>6, <1>10, <1>12, ThreadType DEF Shaped
<1>14. thread' = [thread EXCEPT ![t] = r]
  BY <1>3, <1>9, <1>11 DEF Steps
<1>15. OneRun'
  <2>1. \A u \in Thread : UnderWay(u)' => UnderWay(u)
    BY <1>12, <1>14 DEF UnderWay, CollectInv, TypeOK
  <2> QED BY <1>4, <2>1 DEF CollectInv, OneRun
<1>16. r.pc # "orphan" => Fit(r.ctx) /\ Fit(r.copy)
  <2> SUFFICES ASSUME r.pc # "orphan" PROVE Fit(x) /\ Fit(thread[t].copy)
    BY <1>12
  <2>1. Fit(ctx) /\ Fit(thread[t].copy)
    BY <1>1, <1>12, ThreadType
  <2> HIDE DEF ctx
  <2>2. Fit(x)
    BY <1>1, <1>10, <2>1, FitLike
  <2> QED BY <2>1, <2>2
<1> QED BY <1>4, <1>5, <1>7, <1>8, <1>12, <1>13, <1>14, <1>15, <1>16, ThreadMoves

-----------------------------------------------------------------------------
(* The daemon.                                                             *)

LEMMA TriggerStep ==
  ASSUME CollectInv, NEW t \in Thread, Tick(t) \/ RunNow(t) PROVE CollectInv'
<1> DEFINE r == [IdleRun EXCEPT !.pc = "starting"]
<1>1. /\ ~inflight /\ inflight' = TRUE /\ thread' = [thread EXCEPT ![t] = r]
      /\ UNCHANGED <<row, edit, cloud, moves, history>>
  BY DEF Tick, RunNow, Trigger
<1>2. r \in Run /\ r.pc = "starting" /\ r.worker = "none" /\ r.ctx = None /\ r.copy = None
  BY IdleType DEF IdleRun, Run
<1> HIDE DEF r
<1>3. Row' = Row /\ Run' = Run /\ Request' = Request
  BY <1>1 DEF Row, Run, Request, cloud
<1>4. RestTyped' /\ Len(defs) <= Len(defs')
  BY <1>1, <1>3, LenProperties DEF CollectInv, TypeOK, RestTyped, history, cloud
<1>5. chosen > 0 /\ Live(chosen)' => Live(chosen)
  BY <1>1 DEF Live, history, cloud
<1>6. Shaped(r)' /\ Fit(r.ctx) /\ Fit(r.copy)
  BY <1>2 DEF Shaped, Fit
<1>7. OneRun'
  <2>1. \A u \in Thread : UnderWay(u)' => u = t
    BY <1>1 DEF CollectInv, TypeOK, OneRun, UnderWay
  <2> QED BY <1>1, <2>1 DEF OneRun
<1> QED BY <1>1, <1>2, <1>3, <1>4, <1>5, <1>6, <1>7, ThreadMoves

LEMMA TimesOutStep ==
  ASSUME CollectInv, NEW t \in Thread, NEW killed \in BOOLEAN, TimesOut(t, killed)
  PROVE  CollectInv'
<1>1. thread[t] \in Run /\ thread[t].pc = "waiting"
  BY ThreadType DEF TimesOut
<1>2. UNCHANGED <<row, cloud>> /\ moves' \in 0..MaxMoves
  BY MovesType DEF TimesOut
<1>3. CASE killed
  <2>1. [thread[t] EXCEPT !.worker = "gone", !.ctx = None]
          = [thread[t] EXCEPT !.pc = thread[t].pc, !.worker = "gone", !.ctx = None]
    BY <1>1 DEF Run
  <2>2. Steps(t, [thread[t] EXCEPT !.worker = "gone", !.ctx = None])
    BY <1>3 DEF TimesOut
  <2> QED BY <1>1, <1>2, <2>1, <2>2, PlainStep
<1>4. CASE ~killed
  <2>1. [thread[t] EXCEPT !.pc = "joining"]
          = [thread[t] EXCEPT !.pc = "joining", !.worker = thread[t].worker,
                              !.ctx = thread[t].ctx]
    BY <1>1 DEF Run
  <2>2. Steps(t, [thread[t] EXCEPT !.pc = "joining"])
    BY <1>4 DEF TimesOut
  <2> QED BY <1>1, <1>2, <2>1, <2>2, PlainStep
<1> QED BY <1>3, <1>4

LEMMA HangsStep ==
  ASSUME CollectInv, NEW t \in Thread, Hangs(t) PROVE CollectInv'
<1>1. thread[t] \in Run /\ thread[t].pc # "idle"
  BY ThreadType, IdleType DEF Hangs, Busy, Shaped
<1>2. UNCHANGED <<row, cloud>> /\ moves' \in 0..MaxMoves
  BY MovesType DEF Hangs
<1>3. [thread[t] EXCEPT !.worker = "hung"]
        = [thread[t] EXCEPT !.pc = thread[t].pc, !.worker = "hung", !.ctx = thread[t].ctx]
  BY <1>1 DEF Run
<1>4. Steps(t, [thread[t] EXCEPT !.worker = "hung"])
  BY DEF Hangs
<1> QED BY <1>1, <1>2, <1>3, <1>4, PlainStep

(* Steps that no thread takes.                                             *)
LEMMA ThreadsWait ==
  ASSUME CollectInv, UNCHANGED run, RestTyped', Len(defs) <= Len(defs'),
         PickKept', EditsBehind', CopiesFit'
  PROVE  CollectInv'
<1>0. Len(defs) \in Nat /\ Len(defs') \in Nat
  BY LenProperties DEF CollectInv, TypeOK, RestTyped
<1>1. Row \subseteq Row' /\ Run \subseteq Run'
  BY <1>0, TypesGrow
<1>2. thread' = thread /\ inflight' = inflight
  BY DEF run
<1>3. TypeOK'
  BY <1>1, <1>2 DEF CollectInv, TypeOK, RestTyped
<1>4. RunShape'
  BY <1>1, <1>2 DEF CollectInv, RunShape, Shaped
<1>5. OneRun'
  BY <1>2 DEF CollectInv, OneRun, UnderWay
<1> QED BY <1>3, <1>4, <1>5 DEF CollectInv

(* All copies stay fit while nothing but the definitions changes.          *)
LEMMA CopiesStayFit ==
  ASSUME CollectInv, UNCHANGED <<thread, row, edit, history>>,
         chosen > 0 /\ Live(chosen)' => Live(chosen)
  PROVE  PickKept' /\ EditsBehind' /\ CopiesFit'
<1>1. PickKept' /\ EditsBehind'
  BY DEF CollectInv, PickKept, EditsBehind, Loaded, history
<1>2. CopiesFit'
  <2> SUFFICES ASSUME NEW u \in Thread, thread[u].pc # "orphan"
               PROVE  (Fit(thread[u].ctx) /\ Fit(thread[u].copy))'
    BY DEF CopiesFit
  <2>1. PICK x, y : x = thread[u].ctx /\ y = thread[u].copy
    OBVIOUS
  <2>2. Fit(x) /\ Fit(y)
    BY <2>1 DEF CollectInv, CopiesFit
  <2>3. Fit(x)' /\ Fit(y)'
    BY <2>2, FitStays
  <2> QED BY <2>1, <2>3 DEF Fit
<1> QED BY <1>1, <1>2

LEMMA NewItemStep ==
  ASSUME CollectInv, NewItem PROVE CollectInv'
<1>1. /\ row' = row /\ inflight' = inflight /\ thread' = thread /\ edit' = edit
      /\ defs' = defs /\ rec' = rec /\ moves' = moves /\ src' = src + 1 /\ src < MaxItems
      /\ UNCHANGED history
  BY DEF NewItem, run
<1>2. Row' = Row /\ Request' = Request
  BY <1>1 DEF Row, Request
<1>3. RestTyped' /\ Len(defs) <= Len(defs')
  <2>1. src' \in 0..MaxItems /\ rec' \in 0..src'
    BY <1>1, CollectAssumption DEF CollectInv, TypeOK
  <2> QED BY <1>1, <1>2, <2>1, LenProperties DEF CollectInv, TypeOK, RestTyped, history
<1>4. chosen > 0 /\ Live(chosen)' => Live(chosen)
  BY <1>1 DEF Live, history
<1> QED BY <1>1, <1>3, <1>4, CopiesStayFit, ThreadsWait DEF run

(* A definition that is deleted, and no other one comes back to life.      *)
LEMMA DeletedStaysSo ==
  ASSUME CollectInv, NEW d \in DOMAIN defs, defs' = [defs EXCEPT ![d].live = FALSE]
  PROVE  /\ defs' \in Seq(Definition) /\ Len(defs') = Len(defs)
         /\ \A x \in 0..Len(defs) : Live(x)' => Live(x)
<1>1. defs \in Seq(Definition) /\ Len(defs) \in Nat /\ d \in 1..Len(defs)
  BY LenProperties DEF CollectInv, TypeOK
<1>2. PICK e : e = [defs[d] EXCEPT !.live = FALSE]
  OBVIOUS
<1>3. e \in Definition /\ e.live = FALSE
  <2>1. defs[d] \in Definition
    BY <1>1, ElementOfSeq
  <2> QED BY <1>2, <2>1 DEF Definition
<1>4. defs' = [defs EXCEPT ![d] = e]
  BY <1>2
<1>5. /\ defs' \in Seq(Definition) /\ Len(defs') = Len(defs)
      /\ \A i \in 1..Len(defs) : defs'[i] = IF i = d THEN e ELSE defs[i]
  <2>1. /\ [defs EXCEPT ![d] = e] \in Seq(Definition)
        /\ Len([defs EXCEPT ![d] = e]) = Len(defs)
        /\ \A i \in 1..Len(defs) : [defs EXCEPT ![d] = e][i] = IF i = d THEN e ELSE defs[i]
    BY <1>1, <1>3, ExceptSeq
  <2> QED BY <1>4, <2>1
<1> QED BY <1>1, <1>3, <1>5 DEF Live

LEMMA DeletedElsewhereStep ==
  ASSUME CollectInv, NEW d \in DOMAIN defs, DeletedElsewhere(d) PROVE CollectInv'
<1>1. /\ row' = row /\ inflight' = inflight /\ thread' = thread /\ edit' = edit
      /\ src' = src /\ rec' = rec /\ UNCHANGED history
      /\ defs' = [defs EXCEPT ![d].live = FALSE] /\ moves' \in 0..MaxMoves
  BY MovesType DEF DeletedElsewhere, run
<1>2. /\ defs' \in Seq(Definition) /\ Len(defs') = Len(defs) /\ Len(defs) \in Nat
      /\ \A x \in 0..Len(defs) : Live(x)' => Live(x)
  BY <1>1, DeletedStaysSo, LenProperties DEF CollectInv, TypeOK
<1>3. Row' = Row /\ Request' = Request
  BY <1>2 DEF Row, Request
<1>4. RestTyped' /\ Len(defs) <= Len(defs')
  BY <1>1, <1>2, <1>3 DEF CollectInv, TypeOK, RestTyped, history
<1>5. chosen > 0 /\ Live(chosen)' => Live(chosen)
  <2>1. PICK x : x = chosen
    OBVIOUS
  <2>2. x \in 0..Len(defs) /\ chosen' = x
    BY <1>1, <2>1 DEF CollectInv, TypeOK, history
  <2> QED BY <1>2, <2>1, <2>2 DEF Live
<1> QED BY <1>1, <1>4, <1>5, CopiesStayFit, ThreadsWait DEF run

-----------------------------------------------------------------------------
(* The save of a run.                                                      *)

(* What is saved is a row, with the definition of the one copy or the      *)
(* other, and with a watermark of theirs.                                  *)
LEMMA MergedType ==
  ASSUME Len(defs) \in Nat, NEW copy \in Row, NEW result \in Row \cup {None},
         NEW start \in 0..Interval
  PROVE  LET m == Merged(copy, result, start)
             r == IF result = None THEN copy ELSE result IN
         /\ m \in Row /\ m.last # None
         /\ m.def = (IF r.def = 0 THEN copy.def ELSE r.def)
         /\ m.wm = (IF r.wm = 0 THEN copy.wm ELSE r.wm)
<1>1. start # None
  BY CollectAssumption
<1>2. CASE result = None
  BY <1>1, <1>2 DEF Merged, Row
<1>3. CASE result # None
  <2>1. result \in Row
    BY <1>3
  <2> QED BY <1>1, <1>3, <2>1 DEF Merged, Row
<1> QED BY <1>2, <1>3

(* The save does not take the row back, and it keeps the pick.             *)
LEMMA SaveMovesOn ==
  ASSUME CollectInv, NEW t \in Thread, RunnerSaves(t)
  PROVE  /\ row' \in Row /\ row'.last # None
         /\ chosen > 0 /\ Live(chosen) => row'.def = chosen
         /\ ~crossed => row'.wm >= row.wm
<1>1. /\ thread[t] \in Run /\ Shaped(thread[t]) /\ Len(defs) \in Nat
      /\ thread[t].pc = "saving" /\ Fit(thread[t].ctx) /\ Fit(thread[t].copy)
      /\ row' = Merged(thread[t].copy, thread[t].ctx, thread[t].start)
  BY ThreadType DEF RunnerSaves
<1>2. PICK copy, result, start :
        copy = thread[t].copy /\ result = thread[t].ctx /\ start = thread[t].start
  OBVIOUS
<1>3. copy \in Row /\ result \in Row \cup {None} /\ start \in 0..Interval
  BY <1>1, <1>2 DEF Shaped, Run
<1> DEFINE r == IF result = None THEN copy ELSE result
<1>4. /\ row' \in Row /\ row'.last # None
      /\ row'.def = (IF r.def = 0 THEN copy.def ELSE r.def)
      /\ row'.wm = (IF r.wm = 0 THEN copy.wm ELSE r.wm)
  <2>1. row' = Merged(copy, result, start) /\ Len(defs) \in Nat
    BY <1>1, <1>2
  <2>2. LET m == Merged(copy, result, start) IN
          /\ m \in Row /\ m.last # None
          /\ m.def = (IF r.def = 0 THEN copy.def ELSE r.def)
          /\ m.wm = (IF r.wm = 0 THEN copy.wm ELSE r.wm)
    BY ONLY <1>3, <2>1, MergedType
  <2> QED BY ONLY <2>1, <2>2
<1>5. copy # None /\ r # None
  BY <1>1, <1>3, RowIsNotNone
<1>6. Fit(copy) /\ Fit(r)
  BY <1>1, <1>2
<1> HIDE DEF r
<1>7. chosen > 0 /\ Live(chosen) => row'.def = chosen
  BY <1>4, <1>5, <1>6 DEF Fit
<1>8. ~crossed => row'.wm >= row.wm
  BY <1>4, <1>5, <1>6 DEF Fit
<1> QED BY <1>4, <1>7, <1>8

(* A thread without a run has no copy of the row.                          *)
LEMMA NoRunNoCopy ==
  ASSUME CollectInv, NEW u \in Thread, ~UnderWay(u), thread[u].pc # "orphan"
  PROVE  thread[u] = IdleRun /\ thread[u].ctx = None /\ thread[u].copy = None
BY IdleType DEF CollectInv, RunShape, Shaped, UnderWay

LEMMA RunnerSavesStep ==
  ASSUME CollectInv, NEW t \in Thread, RunnerSaves(t) PROVE CollectInv'
<1>1. /\ thread' = [thread EXCEPT ![t] = IdleRun] /\ inflight' = FALSE
      /\ crossed' = (crossed /\ \E c \in Editor : edit[c] # None)
      /\ edit' = edit /\ defs' = defs /\ src' = src /\ rec' = rec /\ moves' = moves
      /\ chosen' = chosen /\ thread[t].pc = "saving"
  BY DEF RunnerSaves, cloud
<1>2. /\ row' \in Row /\ row'.last # None
      /\ chosen > 0 /\ Live(chosen) => row'.def = chosen
      /\ ~crossed => row'.wm >= row.wm
  BY SaveMovesOn
<1>3. Row' = Row /\ Run' = Run /\ Request' = Request
  BY <1>1 DEF Row, Run, Request
<1>4. thread' \in [Thread -> Run] /\ thread'[t] = IdleRun
      /\ \A u \in Thread \ {t} : thread'[u] = thread[u]
  BY <1>1, IdleType DEF CollectInv, TypeOK
<1>5. TypeOK'
  <2>1. crossed' \in BOOLEAN /\ inflight' \in BOOLEAN
    BY <1>1
  <2> QED BY <1>1, <1>2, <1>3, <1>4, <2>1 DEF CollectInv, TypeOK
<1>6. RunShape'
  BY <1>3, <1>4, IdleType DEF CollectInv, RunShape, Shaped
<1>7. \A u \in Thread : ~UnderWay(u)'
  <2>1. UnderWay(t)
    BY <1>1 DEF UnderWay
  <2> QED BY <1>4, <2>1, IdleType DEF CollectInv, OneRun, UnderWay
<1>8. OneRun'
  BY <1>7 DEF OneRun
<1>9. PickKept'
  BY <1>1, <1>2 DEF CollectInv, PickKept, Live
<1>10. EditsBehind'
  <2> SUFFICES ASSUME ~crossed' PROVE EditsBehind'
    BY DEF EditsBehind
  <2>1. CASE \A c \in Editor : edit[c] = None
    BY <1>1, <2>1 DEF EditsBehind, Loaded
  <2>2. CASE ~crossed
    <3>1. \A c \in Editor : Loaded(c) => edit[c].snap.wm \in Nat
      <4> SUFFICES ASSUME NEW c \in Editor, Loaded(c) PROVE edit[c].snap.wm \in Nat
        OBVIOUS
      <4>1. edit[c].snap \in Row
        BY DEF CollectInv, TypeOK, Loaded, Request
      <4> QED BY <4>1, RowIsNotNone, ThreadType
    <3>2. row.wm \in Nat /\ row'.wm \in Nat
      BY <1>2, RowIsNotNone, ThreadType DEF CollectInv, TypeOK
    <3> QED BY <1>1, <1>2, <2>2, <3>1, <3>2 DEF CollectInv, EditsBehind, Loaded
  <2> QED BY <1>1, <2>1, <2>2
<1>11. CopiesFit'
  <2> SUFFICES ASSUME NEW u \in Thread, thread'[u].pc # "orphan"
               PROVE  (Fit(thread[u].ctx) /\ Fit(thread[u].copy))'
    BY DEF CopiesFit
  <2>1. thread'[u].ctx = None /\ thread'[u].copy = None
    BY <1>5, <1>6, <1>7, IdleType DEF RunShape, Shaped, UnderWay
  <2> QED BY <2>1 DEF Fit
<1> QED BY <1>5, <1>6, <1>8, <1>9, <1>10, <1>11 DEF CollectInv

LEMMA RunnerRaisesStep ==
  ASSUME CollectInv, NEW t \in Thread, RunnerRaises(t) PROVE CollectInv'
<1>1. /\ thread' = [thread EXCEPT ![t] = IdleRun] /\ inflight' = FALSE
      /\ row' = row /\ edit' = edit /\ defs' = defs /\ src' = src /\ rec' = rec
      /\ moves' = moves /\ chosen' = chosen /\ crossed' = crossed
      /\ thread[t].pc = "joining"
  BY DEF RunnerRaises, cloud, history
<1>2. Row' = Row /\ Run' = Run /\ Request' = Request
  BY <1>1 DEF Row, Run, Request
<1>3. RestTyped' /\ Len(defs) <= Len(defs')
  <2>1. inflight' \in BOOLEAN /\ Len(defs) \in Nat
    BY <1>1, ThreadType
  <2> QED BY <1>1, <1>2, <2>1 DEF CollectInv, TypeOK, RestTyped
<1>4. chosen > 0 /\ Live(chosen)' => Live(chosen)
  BY <1>1 DEF Live, history
<1>5. IdleRun \in Run' /\ Shaped(IdleRun)' /\ Fit(IdleRun.ctx) /\ Fit(IdleRun.copy)
  BY <1>2, IdleType DEF Shaped, Fit
<1>6. OneRun'
  <2>1. UnderWay(t)
    BY <1>1 DEF UnderWay
  <2>2. \A u \in Thread : ~UnderWay(u)'
    BY <1>1, <2>1, IdleType DEF CollectInv, TypeOK, OneRun, UnderWay
  <2> QED BY <2>2 DEF OneRun
<1> QED BY <1>1, <1>3, <1>4, <1>5, <1>6, ThreadMoves DEF history

-----------------------------------------------------------------------------
(* Time.                                                                   *)

LEMMA OlderRowType ==
  ASSUME NEW x \in Row \cup {None}
  PROVE  /\ OlderRow(x) \in Row \cup {None}
         /\ x # None => OlderRow(x) \in Row
         /\ OlderRow(None) = None
         /\ x # None => /\ OlderRow(x).def = x.def /\ OlderRow(x).wm = x.wm
                        /\ x.last # None => OlderRow(x).last # None
<1>1. CASE x = None
  BY <1>1 DEF OlderRow
<1>2. CASE x # None
  <2>1. x \in Row
    BY <1>2
  <2>2. /\ Older(x.last, Interval) \in 0..Interval \cup {None}
        /\ Older(x.stamp, Ttl) \in 0..Ttl \cup {None}
        /\ x.last # None => Older(x.last, Interval) # None
    BY <2>1, CollectAssumption DEF Row, Older
  <2>3. OlderRow(x) = [x EXCEPT !.last = Older(x.last, Interval), !.stamp = Older(x.stamp, Ttl)]
    BY <1>2 DEF OlderRow
  <2> QED BY <1>2, <2>1, <2>2, <2>3 DEF Row, OlderRow
<1> QED BY <1>1, <1>2

LEMMA AdvanceStep ==
  ASSUME CollectInv, Advance PROVE CollectInv'
<1>0. Len(defs) \in Nat
  BY LenProperties DEF CollectInv, TypeOK
<1>1. /\ row' = OlderRow(row) /\ inflight' = inflight /\ defs' = defs /\ src' = src
      /\ rec' = rec /\ moves' = moves /\ chosen' = chosen /\ crossed' = crossed
  BY DEF Advance, cloud, history
<1>2. Row' = Row /\ Run' = Run /\ Request' = Request
  BY <1>1 DEF Row, Run, Request
<1>3. row \in Row /\ row' \in Row /\ row'.def = row.def /\ row'.wm = row.wm
  BY <1>0, <1>1, OlderRowType, RowIsNotNone DEF CollectInv, TypeOK
<1>4. ASSUME NEW t \in Thread
      PROVE  /\ thread'[t] \in Run /\ thread'[t].pc = thread[t].pc
             /\ thread'[t].worker = thread[t].worker
             /\ thread'[t].ctx = OlderRow(thread[t].ctx)
             /\ thread'[t].copy = OlderRow(thread[t].copy)
             /\ thread[t] = IdleRun => thread'[t] = IdleRun
  <2>1. PICK start : start = IF UnderWay(t) THEN Older(thread[t].start, Interval) ELSE 0
    OBVIOUS
  <2>2. thread'[t] = [thread[t] EXCEPT !.start = start, !.ctx = OlderRow(thread[t].ctx),
                                       !.copy = OlderRow(thread[t].copy)]
    BY <2>1 DEF Advance
  <2>3. thread[t] \in Run
    BY ThreadType
  <2>4. start \in 0..Interval
    <3>1. thread[t].start \in 0..Interval /\ thread[t].start # None
      BY <2>3, CollectAssumption DEF Run
    <3> QED BY <2>1, <3>1, CollectAssumption DEF Older
  <2>5. /\ OlderRow(thread[t].ctx) \in Row \cup {None}
        /\ OlderRow(thread[t].copy) \in Row \cup {None}
    <3>1. thread[t].ctx \in Row \cup {None} /\ thread[t].copy \in Row \cup {None}
      BY <2>3 DEF Run
    <3> QED BY <3>1, OlderRowType
  <2>6. thread[t] = IdleRun => thread'[t] = IdleRun
    <3> SUFFICES ASSUME thread[t] = IdleRun PROVE thread'[t] = IdleRun
      OBVIOUS
    <3>1. start = 0
      BY <2>1, IdleType DEF UnderWay
    <3>2. OlderRow(None) = None
      BY DEF OlderRow
    <3>3. thread'[t] = [IdleRun EXCEPT !.start = 0, !.ctx = None, !.copy = None]
      BY <2>2, <3>1, <3>2, IdleType
    <3> QED BY <3>3 DEF IdleRun
  <2> QED BY <2>2, <2>3, <2>4, <2>5, <2>6 DEF Run
<1>5. thread' \in [Thread -> Run]
  <2>1. thread' = [t \in Thread |-> thread'[t]]
    BY DEF Advance
  <2> QED BY <1>4, <2>1
<1>6. ASSUME NEW c \in Editor
      PROVE  /\ edit'[c] \in Request \cup {None}
             /\ edit[c] = None => edit'[c] = None
             /\ Loaded(c)' => Loaded(c) /\ edit'[c].snap.wm = edit[c].snap.wm
  <2>1. CASE edit[c] = None
    BY <2>1 DEF Advance, Loaded
  <2>2. CASE edit[c] # None
    <3>1. edit'[c] = [edit[c] EXCEPT !.snap = OlderRow(edit[c].snap)]
      BY <2>2 DEF Advance
    <3>2. edit[c] \in Request /\ edit[c].snap \in Row \cup {None}
      BY <2>2 DEF CollectInv, TypeOK, Request
    <3>3. edit'[c] \in Request /\ edit'[c].snap = OlderRow(edit[c].snap)
      BY <3>1, <3>2, OlderRowType DEF Request
    <3> QED BY <2>2, <3>2, <3>3, OlderRowType DEF Loaded
  <2> QED BY <2>1, <2>2
<1>7. edit' \in [Editor -> Request \cup {None}]
  <2>1. edit' = [c \in Editor |-> edit'[c]]
    BY DEF Advance
  <2> QED BY <1>6, <2>1
<1>8. TypeOK'
  BY <1>1, <1>2, <1>3, <1>5, <1>7 DEF CollectInv, TypeOK
<1>9. RunShape'
  <2> SUFFICES ASSUME NEW t \in Thread PROVE Shaped(thread[t])'
    BY DEF RunShape
  <2>1. Shaped(thread[t]) /\ thread[t] \in Run
    BY ThreadType
  <2>2. thread[t].ctx \in Row => thread'[t].ctx \in Row
    BY <1>0, <1>4, OlderRowType, RowIsNotNone
  <2>3. thread[t].copy \in Row => thread'[t].copy \in Row
    BY <1>0, <1>4, OlderRowType, RowIsNotNone
  <2> QED BY <1>2, <1>4, <2>1, <2>2, <2>3 DEF Shaped
<1>10. OneRun'
  BY <1>1, <1>4 DEF CollectInv, OneRun, UnderWay
<1>11. PickKept'
  BY <1>1, <1>3, <1>6 DEF CollectInv, PickKept, Live
<1>12. EditsBehind'
  BY <1>1, <1>3, <1>6 DEF CollectInv, EditsBehind
<1>13. ASSUME NEW x \in Row \cup {None}, Fit(x), NEW y, y = OlderRow(x) PROVE Fit(y)'
  <2>1. CASE x = None
    BY <1>13, <2>1, OlderRowType DEF Fit
  <2>2. CASE x # None
    <3>1. y.def = x.def /\ y.wm = x.wm
      BY <1>13, <2>2, OlderRowType
    <3>2. chosen > 0 /\ Live(chosen) => x.def = chosen
      BY <1>13, <2>2 DEF Fit
    <3>3. ~crossed => x.wm >= row.wm /\ \A c \in Editor : Loaded(c) => x.wm >= edit[c].snap.wm
      BY <1>13, <2>2 DEF Fit
    <3> QED BY <1>1, <1>3, <1>6, <3>1, <3>2, <3>3 DEF Fit, Live
  <2> QED BY <2>1, <2>2
<1>14. CopiesFit'
  <2> SUFFICES ASSUME NEW u \in Thread, thread'[u].pc # "orphan"
               PROVE  (Fit(thread[u].ctx) /\ Fit(thread[u].copy))'
    BY DEF CopiesFit
  <2>1. PICK x, y : x = thread'[u].ctx /\ y = thread'[u].copy
    OBVIOUS
  <2>2. /\ thread[u].ctx \in Row \cup {None} /\ thread[u].copy \in Row \cup {None}
        /\ Fit(thread[u].ctx) /\ Fit(thread[u].copy)
    BY <1>4, ThreadType DEF Run
  <2>3. Fit(x)' /\ Fit(y)'
    BY <1>4, <1>13, <2>1, <2>2
  <2> QED BY <2>1, <2>3 DEF Fit
<1> QED BY <1>8, <1>9, <1>10, <1>11, <1>12, <1>14 DEF CollectInv

-----------------------------------------------------------------------------
(* A new daemon.                                                           *)

LEMMA RestartStep ==
  ASSUME CollectInv, NEW interrupted \in BOOLEAN, NEW switched \in BOOLEAN,
         Restart(interrupted, switched)
  PROVE  CollectInv'
<1>0. defs \in Seq(Definition) /\ Len(defs) \in Nat
  BY LenProperties DEF CollectInv, TypeOK
<1>1. /\ row' = row /\ inflight' = FALSE /\ src' = src /\ rec' = rec /\ crossed' = FALSE
      /\ chosen' = (IF switched THEN 0 ELSE chosen) /\ moves' \in 0..MaxMoves
  BY MovesType DEF Restart
<1>2. /\ defs' \in Seq(Definition) /\ Len(defs') = Len(defs)
      /\ \A d \in 1..Len(defs) : defs'[d].live => defs[d].live
  <2>1. defs' = [d \in 1..Len(defs) |-> [defs[d] EXCEPT !.live = @ /\ ~switched]]
    BY <1>0 DEF Restart
  <2>2. \A d \in 1..Len(defs) : /\ defs'[d] \in Definition
                                /\ defs'[d].live => defs[d].live
    <3> SUFFICES ASSUME NEW d \in 1..Len(defs)
                 PROVE  defs'[d] \in Definition /\ (defs'[d].live => defs[d].live)
      OBVIOUS
    <3>1. defs[d] \in Definition
      BY <1>0, ElementOfSeq
    <3>2. defs'[d] = [defs[d] EXCEPT !.live = defs[d].live /\ ~switched]
      BY <2>1
    <3> QED BY <3>1, <3>2 DEF Definition
  <2>3. defs' \in [1..Len(defs) -> Definition]
    BY <2>1, <2>2
  <2> QED BY <1>0, <2>2, <2>3
<1>3. Row' = Row /\ Run' = Run /\ Request' = Request
  BY <1>2 DEF Row, Run, Request
<1>4. ASSUME NEW t \in Thread
      PROVE  /\ thread'[t] \in Run
             /\ \/ thread'[t] = IdleRun
                \/ /\ thread'[t].pc = "orphan" /\ thread'[t].worker = thread[t].worker
                   /\ thread'[t].ctx = thread[t].ctx
  <2>0. thread[t] \in Run
    BY ThreadType
  <2>1. CASE thread[t].pc = "orphan"
    BY <2>0, <2>1 DEF Restart
  <2>2. CASE thread[t].pc # "orphan"
    <3>1. thread'[t] \in {IdleRun, [thread[t] EXCEPT !.pc = "orphan", !.start = 0]}
      BY <2>2 DEF Restart, Bereft
    <3>2. 0 \in 0..Interval
      BY CollectAssumption
    <3> QED BY <2>0, <3>1, <3>2, IdleType DEF Run
  <2> QED BY <2>1, <2>2
<1>5. thread' \in [Thread -> Run]
  <2>1. thread' = [t \in Thread |-> thread'[t]]
    BY DEF Restart
  <2> QED BY <1>4, <2>1
<1>6. ASSUME NEW c \in Editor
      PROVE  edit'[c] \in Request \cup {None} /\ ~Loaded(c)' /\ (~switched => edit'[c] = None)
  <2>0. PICK q : q = [op |-> "invalidate", def |-> 0, named |-> FALSE, snap |-> None]
    OBVIOUS
  <2>1. q \in Request /\ q.snap = None
    BY <1>0, <2>0 DEF Request
  <2>2. edit'[c] \in {None, q}
    BY <2>0 DEF Restart
  <2>3. ~switched => edit'[c] = None
    BY DEF Restart
  <2> QED BY <2>1, <2>2, <2>3 DEF Loaded
<1>7. edit' \in [Editor -> Request \cup {None}]
  <2>1. edit' = [c \in Editor |-> edit'[c]]
    BY DEF Restart
  <2> QED BY <1>6, <2>1
<1>8. TypeOK'
  <2>1. chosen' \in 0..Len(defs') /\ crossed' \in BOOLEAN /\ inflight' \in BOOLEAN
    <3>1. chosen \in 0..Len(defs) /\ 0 \in 0..Len(defs)
      BY <1>0 DEF CollectInv, TypeOK
    <3>2. crossed' \in BOOLEAN /\ inflight' \in BOOLEAN
      BY <1>1
    <3> QED BY <1>1, <1>2, <3>1, <3>2
  <2> QED BY <1>1, <1>2, <1>3, <1>5, <1>7, <2>1 DEF CollectInv, TypeOK
<1>9. RunShape'
  <2> SUFFICES ASSUME NEW t \in Thread PROVE Shaped(thread[t])'
    BY DEF RunShape
  <2>1. Shaped(thread[t])
    BY ThreadType
  <2> QED BY <1>3, <1>4, <2>1, IdleType DEF Shaped
<1>10. OneRun'
  <2>1. \A t \in Thread : ~UnderWay(t)'
    BY <1>4, IdleType DEF UnderWay
  <2> QED BY <2>1 DEF OneRun
<1>11. PickKept'
  <2> SUFFICES ASSUME chosen' > 0 PROVE PickKept'
    BY DEF PickKept
  <2>1. ~switched /\ chosen' = chosen /\ chosen \in 1..Len(defs)
    BY <1>0, <1>1 DEF CollectInv, TypeOK
  <2>2. Live(chosen)' => Live(chosen)
    BY <1>2, <2>1 DEF Live
  <2> QED BY <1>1, <1>6, <2>1, <2>2 DEF CollectInv, PickKept
<1>12. EditsBehind'
  BY <1>6 DEF EditsBehind
<1>13. CopiesFit'
  <2> SUFFICES ASSUME NEW u \in Thread, thread'[u].pc # "orphan"
               PROVE  (Fit(thread[u].ctx) /\ Fit(thread[u].copy))'
    BY DEF CopiesFit
  <2>1. thread'[u].ctx = None /\ thread'[u].copy = None
    BY <1>4, IdleType
  <2> QED BY <2>1 DEF Fit
<1> QED BY <1>8, <1>9, <1>10, <1>11, <1>12, <1>13 DEF CollectInv

-----------------------------------------------------------------------------
(* Requests.                                                               *)

LEMMA AsksStep ==
  ASSUME CollectInv, NEW c \in Editor,
         NEW op \in {"pick", "new", "clear", "delete", "invalidate"},
         NEW d \in 0..Len(defs), NEW named \in BOOLEAN, Asks(c, op, d, named),
         defs' \in Seq(Definition), Len(defs') = Len(defs)
  PROVE  CollectInv'
<1>0. Len(defs) \in Nat
  BY LenProperties DEF CollectInv, TypeOK
<1>1. PICK q : q = [op |-> op, def |-> d, named |-> named, snap |-> None]
  OBVIOUS
<1>2. /\ row' = row /\ inflight' = inflight /\ thread' = thread /\ src' = src /\ rec' = rec
      /\ chosen' = 0 /\ crossed' = crossed /\ edit' = [edit EXCEPT ![c] = q]
      /\ moves' \in 0..MaxMoves
  BY <1>1, MovesType DEF Asks, run
<1>3. Row' = Row /\ Request' = Request
  BY DEF Row, Request
<1>4. q \in Request /\ q.snap = None
  BY <1>1 DEF Request
<1>5. edit' \in [Editor -> Request \cup {None}]
  BY <1>2, <1>4 DEF CollectInv, TypeOK
<1>6. RestTyped' /\ Len(defs) <= Len(defs')
  BY <1>0, <1>2, <1>3, <1>5 DEF CollectInv, TypeOK, RestTyped
<1>7. \A x \in Editor : Loaded(x)' => Loaded(x) /\ edit'[x] = edit[x]
  BY <1>2, <1>4 DEF Loaded, CollectInv, TypeOK
<1>8. PickKept' /\ EditsBehind'
  BY <1>2, <1>7 DEF CollectInv, PickKept, EditsBehind
<1>9. ASSUME NEW x, Fit(x) PROVE Fit(x)'
  BY <1>2, <1>7, <1>9 DEF Fit
<1>10. CopiesFit'
  <2> SUFFICES ASSUME NEW u \in Thread, thread[u].pc # "orphan"
               PROVE  (Fit(thread[u].ctx) /\ Fit(thread[u].copy))'
    BY <1>2 DEF CopiesFit
  <2>1. PICK x, y : x = thread[u].ctx /\ y = thread[u].copy
    OBVIOUS
  <2>2. Fit(x)' /\ Fit(y)'
    BY <1>9, <2>1, ThreadType
  <2> QED BY <1>2, <2>1, <2>2 DEF Fit
<1> QED BY <1>2, <1>6, <1>8, <1>10, ThreadsWait DEF run

LEMMA UserStep ==
  ASSUME CollectInv, NEW c \in Editor, User(c) PROVE CollectInv'
<1>1. defs \in Seq(Definition) /\ Len(defs) \in Nat /\ 0 \in 0..Len(defs)
  BY LenProperties DEF CollectInv, TypeOK
<1>2. ASSUME NEW d \in DOMAIN defs, PicksDefinition(c, d) PROVE CollectInv'
  <2>1. d \in 0..Len(defs)
    BY <1>1
  <2> QED BY <1>1, <1>2, <2>1, AsksStep DEF PicksDefinition
<1>3. ASSUME NEW d \in DOMAIN defs, DeletesDefinition(c, d) PROVE CollectInv'
  <2>1. d \in 0..Len(defs)
    BY <1>1
  <2>2. defs' \in Seq(Definition) /\ Len(defs') = Len(defs)
    BY <1>3, DeletedStaysSo DEF DeletesDefinition
  <2> QED BY <1>3, <2>1, <2>2, AsksStep DEF DeletesDefinition
<1>4. ASSUME NEW named \in BOOLEAN, ForcesNew(c, named) PROVE CollectInv'
  BY <1>1, <1>4, AsksStep DEF ForcesNew
<1>5. CASE ClearsDefinition(c)
  BY <1>1, <1>5, AsksStep DEF ClearsDefinition
<1> QED BY <1>2, <1>3, <1>4, <1>5 DEF User

LEMMA EditLoadsStep ==
  ASSUME CollectInv, NEW c \in Editor, EditLoads(c) PROVE CollectInv'
<1> DEFINE keeps == Changes(edit[c], row)
<1>0. Len(defs) \in Nat
  BY LenProperties DEF CollectInv, TypeOK
<1>1. /\ row' = row /\ inflight' = inflight /\ thread' = thread /\ defs' = defs
      /\ src' = src /\ rec' = rec /\ moves' = moves /\ chosen' = chosen
      /\ crossed' = (crossed \/ (keeps /\ \E x \in Editor : Loaded(x)))
      /\ edit[c] # None
  BY DEF EditLoads, run, cloud
<1>2. PICK q : q = IF keeps THEN [edit[c] EXCEPT !.snap = row] ELSE None
  OBVIOUS
<1>3. edit' = [edit EXCEPT ![c] = q]
  BY <1>2 DEF EditLoads
<1> HIDE DEF keeps
<1>4. Row' = Row /\ Request' = Request
  BY <1>1 DEF Row, Request
<1>5. /\ q \in Request \cup {None} /\ (~keeps => q = None)
      /\ (keeps => q.snap = row)
  <2>1. edit[c] \in Request /\ row \in Row
    BY <1>1 DEF CollectInv, TypeOK
  <2> QED BY <1>2, <2>1 DEF Request
<1>6. /\ edit' \in [Editor -> Request \cup {None}] /\ edit'[c] = q
      /\ \A x \in Editor \ {c} : edit'[x] = edit[x]
  BY <1>3, <1>5 DEF CollectInv, TypeOK
<1>7. RestTyped' /\ Len(defs) <= Len(defs')
  <2>1. crossed' \in BOOLEAN
    BY <1>1
  <2> QED BY <1>0, <1>1, <1>4, <1>6, <2>1 DEF CollectInv, TypeOK, RestTyped
<1>8. ~(chosen > 0)
  BY <1>1 DEF CollectInv, PickKept
<1>9. ASSUME ~crossed', NEW x \in Editor, Loaded(x)'
      PROVE  \/ x = c /\ keeps /\ edit'[x].snap = row /\ \A y \in Editor : ~Loaded(y)
             \/ x # c /\ ~keeps /\ Loaded(x) /\ edit'[x] = edit[x]
  <2>1. CASE x = c
    BY <1>1, <1>5, <1>6, <1>9, <2>1 DEF Loaded
  <2>2. CASE x # c
    BY <1>1, <1>6, <1>9, <2>2 DEF Loaded
  <2> QED BY <2>1, <2>2
<1>10. PickKept'
  BY <1>1, <1>8 DEF PickKept
<1>11. row.wm \in Nat
  BY <1>0, RowIsNotNone DEF CollectInv, TypeOK
<1>12. EditsBehind'
  <2> SUFFICES ASSUME ~crossed'
               PROVE  /\ \A x \in Editor : Loaded(x)' => edit'[x].snap.wm <= row.wm
                      /\ \A x, y \in Editor : Loaded(x)' /\ Loaded(y)' => x = y
    BY <1>1 DEF EditsBehind
  <2>1. ~crossed
    BY <1>1
  <2> QED BY <1>9, <1>11, <2>1 DEF CollectInv, EditsBehind
<1>13. ASSUME NEW x, Fit(x) PROVE Fit(x)'
  <2> SUFFICES ASSUME x # None, ~crossed'
               PROVE  x.wm >= row.wm /\ \A y \in Editor : Loaded(y)' => x.wm >= edit'[y].snap.wm
    BY <1>1, <1>8 DEF Fit
  <2>1. x.wm >= row.wm /\ \A y \in Editor : Loaded(y) => x.wm >= edit[y].snap.wm
    BY <1>1, <1>13 DEF Fit
  <2> QED BY <1>9, <2>1
<1>14. CopiesFit'
  <2> SUFFICES ASSUME NEW u \in Thread, thread[u].pc # "orphan"
               PROVE  (Fit(thread[u].ctx) /\ Fit(thread[u].copy))'
    BY <1>1 DEF CopiesFit
  <2>1. PICK x, y : x = thread[u].ctx /\ y = thread[u].copy
    OBVIOUS
  <2>2. Fit(x)' /\ Fit(y)'
    BY <1>13, <2>1, ThreadType
  <2> QED BY <1>1, <2>1, <2>2 DEF Fit
<1> QED BY <1>1, <1>7, <1>10, <1>12, <1>14, ThreadsWait DEF run

(* What an edit makes of the row it has loaded.                            *)
LEMMA EditedType ==
  ASSUME NEW q \in Request, NEW r \in Row, Len(defs) \in Nat
  PROVE  /\ Edited(q, r) \in Row /\ Edited(q, r).wm = r.wm
         /\ q.op = "pick" => Edited(q, r).def = q.def
<1>1. q.def \in 0..Len(defs) /\ q.named \in BOOLEAN /\ 0 \in 0..Len(defs)
  BY DEF Request
<1>2. CASE q.op = "pick"
  BY <1>1, <1>2 DEF Edited, Row
<1>3. CASE q.op = "new"
  BY <1>1, <1>3 DEF Edited, Row
<1>4. CASE q.op \notin {"pick", "new"}
  BY <1>1, <1>4 DEF Edited, Row
<1> QED BY <1>2, <1>3, <1>4

LEMMA EditSavesStep ==
  ASSUME CollectInv, NEW c \in Editor, EditSaves(c) PROVE CollectInv'
<1>0. Len(defs) \in Nat
  BY LenProperties DEF CollectInv, TypeOK
<1>1. /\ inflight' = inflight /\ thread' = thread /\ defs' = defs
      /\ src' = src /\ rec' = rec /\ moves' = moves /\ Loaded(c)
      /\ row' = Edited(edit[c], edit[c].snap) /\ edit' = [edit EXCEPT ![c] = None]
      /\ chosen' = (IF edit[c].op = "pick" /\ Alone(c) THEN edit[c].def ELSE 0)
      /\ crossed' = (crossed /\ ~Alone(c))
  BY DEF EditSaves, run, cloud
<1>2. edit[c] \in Request /\ edit[c].snap \in Row /\ edit[c].def \in 0..Len(defs)
  BY <1>1 DEF CollectInv, TypeOK, Loaded, Request
<1>3. /\ row' \in Row /\ row'.wm = edit[c].snap.wm
      /\ edit[c].op = "pick" => row'.def = edit[c].def
  BY <1>0, <1>1, <1>2, EditedType
<1>4. Row' = Row /\ Request' = Request
  BY <1>1 DEF Row, Request
<1>5. /\ edit' \in [Editor -> Request \cup {None}] /\ edit'[c] = None
      /\ \A x \in Editor \ {c} : edit'[x] = edit[x]
  BY <1>1 DEF CollectInv, TypeOK
<1>6. RestTyped' /\ Len(defs) <= Len(defs')
  <2>1. crossed' \in BOOLEAN /\ chosen' \in 0..Len(defs)
    BY <1>0, <1>1, <1>2
  <2> QED BY <1>0, <1>1, <1>3, <1>4, <1>5, <2>1 DEF CollectInv, TypeOK, RestTyped
<1>7. chosen' > 0 => Alone(c) /\ row'.def = chosen'
  BY <1>1, <1>3
<1>8. ~crossed' => \A x \in Editor : ~Loaded(x)'
  <2> SUFFICES ASSUME ~crossed', NEW x \in Editor PROVE ~Loaded(x)'
    OBVIOUS
  <2>1. CASE x = c
    BY <1>5, <2>1 DEF Loaded
  <2>2. CASE x # c /\ Alone(c)
    BY <1>5, <2>2 DEF Loaded, Alone
  <2>3. CASE x # c /\ ~crossed
    BY <1>1, <1>5, <2>3 DEF Loaded, CollectInv, EditsBehind
  <2> QED BY <1>1, <2>1, <2>2, <2>3
<1>9. PickKept'
  BY <1>5, <1>7 DEF PickKept, Alone
<1>10. EditsBehind'
  BY <1>8 DEF EditsBehind
<1>11. CopiesFit'
  <2> SUFFICES ASSUME NEW u \in Thread, thread[u].pc # "orphan"
               PROVE  (Fit(thread[u].ctx) /\ Fit(thread[u].copy))'
    BY <1>1 DEF CopiesFit
  <2>1. CASE Alone(c)
    <3>1. thread[u].ctx = None /\ thread[u].copy = None
      BY <2>1, NoRunNoCopy DEF Alone
    <3> QED BY <1>1, <3>1 DEF Fit
  <2>2. CASE ~Alone(c)
    <3>1. PICK x, y : x = thread[u].ctx /\ y = thread[u].copy
      OBVIOUS
    <3>2. Fit(x) /\ Fit(y) /\ ~(chosen' > 0)
      BY <1>7, <2>2, <3>1, ThreadType
    <3>3. ASSUME NEW z, Fit(z) PROVE Fit(z)'
      <4> SUFFICES ASSUME z # None, ~crossed' PROVE z.wm >= row'.wm
        BY <1>8, <3>2 DEF Fit
      <4>1. ~crossed
        BY <1>1, <2>2
      <4> QED BY <1>1, <1>3, <3>3, <4>1 DEF Fit
    <3> QED BY <1>1, <3>1, <3>2, <3>3 DEF Fit
  <2> QED BY <2>1, <2>2
<1> QED BY <1>1, <1>6, <1>9, <1>10, <1>11, ThreadsWait DEF run

-----------------------------------------------------------------------------
LEMMA CollectInit ==
  ASSUME Init PROVE CollectInv
<1>1. defs \in Seq(Definition) /\ Len(defs) = 0
  BY DEF Init
<1>2. TypeOK
  <2>1. row \in Row /\ inflight \in BOOLEAN /\ crossed \in BOOLEAN
    BY <1>1, InitialRow DEF Init
  <2>2. thread \in [Thread -> Run] /\ edit \in [Editor -> Request \cup {None}]
    BY IdleType DEF Init
  <2>3. /\ Len(defs) <= MaxDefs /\ src \in 0..MaxItems /\ rec \in 0..src
        /\ moves \in 0..MaxMoves /\ chosen \in 0..Len(defs)
    BY <1>1, CollectAssumption DEF Init
  <2> QED BY <1>1, <2>1, <2>2, <2>3 DEF TypeOK
<1>3. RunShape /\ OneRun /\ CopiesFit
  BY IdleType DEF Init, RunShape, OneRun, CopiesFit, UnderWay, Fit
<1>4. PickKept /\ EditsBehind
  BY DEF Init, PickKept, EditsBehind, Loaded
<1> QED BY <1>2, <1>3, <1>4 DEF CollectInv

LEMMA NothingHappens ==
  ASSUME CollectInv, UNCHANGED vars PROVE CollectInv'
<1>1. /\ row' = row /\ inflight' = inflight /\ thread' = thread /\ edit' = edit
      /\ defs' = defs /\ src' = src /\ rec' = rec /\ moves' = moves
      /\ chosen' = chosen /\ crossed' = crossed
  BY DEF vars, run, cloud, history
<1>2. Row' = Row /\ Request' = Request
  BY <1>1 DEF Row, Request
<1>3. RestTyped' /\ Len(defs) <= Len(defs')
  BY <1>1, <1>2, LenProperties DEF CollectInv, TypeOK, RestTyped
<1>4. chosen > 0 /\ Live(chosen)' => Live(chosen)
  BY <1>1 DEF Live
<1>5. PickKept' /\ EditsBehind' /\ CopiesFit'
  BY <1>1, <1>4, CopiesStayFit DEF history
<1> QED BY <1>1, <1>3, <1>5, ThreadsWait DEF run

LEMMA CollectInvIsInductive ==
  ASSUME CollectInv, [Next]_vars PROVE CollectInv'
<1>1. ASSUME NEW t \in Thread, RunStep(t) PROVE CollectInv'
  BY <1>1, SpawnStep, RunnerLoadsStep, RunnerSavesStep, WorkerLoadsStep,
     TrustsStampStep, ValidatesStep, ResolvesStep, RecordsStep, ReportsStep,
     RunnerRaisesStep, TimesOutStep DEF RunStep
<1>2. ASSUME NEW t \in Thread, Misfortune(t) PROVE CollectInv'
  BY <1>2, SpawnStep, ValidatesStep, ReportsStep, WorkerDiesStep, TimesOutStep,
     HangsStep DEF Misfortune
<1>3. CASE Daemon
  BY <1>3, TriggerStep, RestartStep DEF Daemon
<1>4. ASSUME NEW c \in Editor, EditStep(c) \/ User(c) PROVE CollectInv'
  BY <1>4, EditLoadsStep, EditSavesStep, UserStep DEF EditStep
<1> QED BY <1>1, <1>2, <1>3, <1>4, AdvanceStep, NewItemStep, DeletedElsewhereStep,
       NothingHappens DEF Next

-----------------------------------------------------------------------------
(* The time of a run.                                                      *)

LEMMA LastType ==
  ASSUME CollectInv
  PROVE  /\ row \in Row /\ row.last \in 0..Interval \cup {None}
         /\ \A c \in Editor : Loaded(c) =>
              /\ edit[c].snap \in Row
              /\ edit[c].snap.last \in 0..Interval \cup {None}
         /\ \A t \in Thread : thread[t].start \in 0..Interval
<1>1. row \in Row /\ \A c \in Editor : Loaded(c) => edit[c].snap \in Row
  BY DEF CollectInv, TypeOK, Loaded, Request
<1>2. \A t \in Thread : thread[t].start \in 0..Interval
  BY DEF CollectInv, TypeOK, Run
<1> QED BY <1>1, <1>2 DEF Row

(* No run begins, and no row is written.                                   *)
LEMMA StartsStay ==
  ASSUME StartsLate, row' = row, \A c \in Editor : Loaded(c)' => Loaded(c) /\ edit'[c] = edit[c],
         \A t \in Thread : UnderWay(t)' => UnderWay(t) /\ thread'[t].start = thread[t].start
  PROVE  StartsLate'
BY DEF StartsLate, NoOlder

(* A thread or a worker takes a step and does not write the row.           *)
LEMMA StepKeepsStart ==
  ASSUME CollectInv, StartsLate, row' = row, edit' = edit, NEW t \in Thread, NEW r,
         thread' = [thread EXCEPT ![t] = r], thread[t].pc # "idle",
         \/ r = IdleRun
         \/ /\ r.start = thread[t].start
            /\ thread[t].pc = "orphan" => r.pc = "orphan"
  PROVE  StartsLate'
<1>1. thread'[t] = r /\ \A u \in Thread \ {t} : thread'[u] = thread[u]
  BY DEF CollectInv, TypeOK
<1>2. \A u \in Thread : UnderWay(u)' => UnderWay(u) /\ thread'[u].start = thread[u].start
  BY <1>1, IdleType DEF UnderWay
<1>3. \A c \in Editor : Loaded(c)' => Loaded(c) /\ edit'[c] = edit[c]
  BY DEF Loaded
<1> QED BY <1>2, <1>3, StartsStay

LEMMA ThreadKeepsStart ==
  ASSUME CollectInv, StartsLate, NEW t \in Thread, RunStep(t) \/ Misfortune(t)
  PROVE  StartsLate' \/ RunnerSaves(t)
<1> SUFFICES ASSUME ~RunnerSaves(t) PROVE StartsLate'
  OBVIOUS
<1>1. thread[t] \in Run /\ Shaped(thread[t])
  BY ThreadType
<1>2. row' = row /\ edit' = edit
  BY DEF RunStep, Misfortune, Spawn, Register, RunnerLoads, WorkerLoads, TrustsStamp,
     Validates, Resolves, Records, WorkerDone, RunnerRaises, TimesOut, SpawnFails,
     CannotAsk, PluginRaises, Reports, WorkerDies, Hangs, Steps
<1>3. thread[t].pc # "idle"
  BY <1>1, IdleType DEF Shaped, RunStep, Misfortune, Spawn, Register, RunnerLoads,
     WorkerLoads, TrustsStamp, Validates, Resolves, Records, WorkerDone, RunnerRaises,
     TimesOut, SpawnFails, CannotAsk, PluginRaises, WorkerDies, Hangs, Working, Busy
<1>4. PICK r : /\ thread' = [thread EXCEPT ![t] = r]
               /\ \/ r = IdleRun
                  \/ /\ r.start = thread[t].start
                     /\ thread[t].pc = "orphan" => r.pc = "orphan"
  <2>1. CASE Spawn(t) \/ Register(t) \/ RunnerLoads(t) \/ WorkerLoads(t) \/ TrustsStamp(t)
    BY <1>1, <2>1 DEF Run, Spawn, Register, RunnerLoads, WorkerLoads, TrustsStamp, Steps
  <2>2. CASE Validates(t) \/ CannotAsk(t)
    <3>1. PICK r \in {[thread[t] EXCEPT !.worker = "work", !.ctx.stamp = 0],
                      [thread[t] EXCEPT !.ctx.def = 0]} :
            thread' = [thread EXCEPT ![t] = r]
      BY <2>2 DEF Validates, CannotAsk, Steps
    <3>2. r.start = thread[t].start /\ r.pc = thread[t].pc
      BY <1>1, <3>1 DEF Run
    <3> QED BY <3>1, <3>2
  <2>3. CASE Resolves(t) \/ Records(t)
    <3>1. PICK w, x : thread' = [thread EXCEPT ![t] =
                                   [thread[t] EXCEPT !.worker = w, !.ctx = x]]
      <4>1. CASE Resolves(t)
        BY <4>1 DEF Resolves, Steps
      <4>2. CASE Records(t)
        <5>1. [thread[t] EXCEPT !.ctx.wm = thread[t].ctx.wm + 1]
                = [thread[t] EXCEPT !.worker = thread[t].worker,
                     !.ctx = [thread[t].ctx EXCEPT !.wm = thread[t].ctx.wm + 1]]
          BY <1>1 DEF Run
        <5> QED BY <4>2, <5>1 DEF Records, Steps
      <4> QED BY <2>3, <4>1, <4>2
    <3>2. PICK r : r = [thread[t] EXCEPT !.worker = w, !.ctx = x]
      OBVIOUS
    <3>3. r.start = thread[t].start /\ r.pc = thread[t].pc
      BY <1>1, <3>2 DEF Run
    <3> QED BY <3>1, <3>2, <3>3
  <2>4. CASE WorkerDone(t) \/ PluginRaises(t)
    BY <1>1, <2>4 DEF Run, WorkerDone, PluginRaises, Reports, Steps
  <2>5. CASE RunnerRaises(t)
    BY <2>5 DEF RunnerRaises
  <2>6. CASE \E killed \in BOOLEAN : TimesOut(t, killed)
    BY <1>1, <2>6 DEF Run, TimesOut, Steps
  <2>7. CASE SpawnFails(t) \/ Hangs(t)
    BY <1>1, <2>7 DEF Run, SpawnFails, Hangs, Steps
  <2>8. CASE WorkerDies(t)
    <3>1. PICK r : /\ thread' = [thread EXCEPT ![t] = r]
                   /\ r = IF thread[t].pc = "orphan" THEN IdleRun
                          ELSE [thread[t] EXCEPT !.worker = "gone", !.ctx = None]
      BY <2>8 DEF WorkerDies, Steps
    <3>2. r = IdleRun \/ (r.start = thread[t].start /\ thread[t].pc # "orphan")
      BY <1>1, <3>1 DEF Run
    <3> QED BY <3>1, <3>2
  <2> QED BY <2>1, <2>2, <2>3, <2>4, <2>5, <2>6, <2>7, <2>8 DEF RunStep, Misfortune
<1> QED BY <1>2, <1>3, <1>4, StepKeepsStart

LEMMA TriggerStarts ==
  ASSUME CollectInv, StartsLate, NEW t \in Thread, Tick(t) \/ RunNow(t)
  PROVE  StartsLate'
<1>1. PICK r : r = [IdleRun EXCEPT !.pc = "starting"]
  OBVIOUS
<1>2. /\ thread' = [thread EXCEPT ![t] = r] /\ row' = row /\ edit' = edit
  BY <1>1 DEF Tick, RunNow, Trigger
<1>3. r.start = 0
  BY <1>1 DEF IdleRun
<1>4. thread'[t] = r /\ \A u \in Thread \ {t} : thread'[u] = thread[u]
  BY <1>2 DEF CollectInv, TypeOK
<1>5. /\ NoOlder(0, row)
      /\ \A c \in Editor : Loaded(c) => NoOlder(0, edit[c].snap)
  BY LastType, CollectAssumption DEF NoOlder
<1>6. SUFFICES ASSUME NEW u \in Thread, UnderWay(u)'
               PROVE  /\ NoOlder(thread'[u].start, row)
                      /\ \A c \in Editor : Loaded(c) => NoOlder(thread'[u].start, edit[c].snap)
  BY <1>2 DEF StartsLate, NoOlder, Loaded
<1>7. CASE u = t
  BY <1>3, <1>4, <1>5, <1>7
<1>8. CASE u # t
  BY <1>4, <1>6, <1>8 DEF StartsLate, UnderWay
<1> QED BY <1>7, <1>8

(* Whoever is not under way has no start to speak of.                      *)
LEMMA NobodyStarts ==
  ASSUME \A u \in Thread : ~UnderWay(u)' PROVE StartsLate'
BY DEF StartsLate

LEMMA SaveEndsRun ==
  ASSUME CollectInv, NEW t \in Thread, RunnerSaves(t)
  PROVE  StartsLate' /\ row'.last # None
         /\ row'.last = thread[t].start /\ UnderWay(t)
<1>1. /\ thread[t] \in Run /\ thread[t].pc = "saving" /\ thread[t].copy \in Row
      /\ row' = Merged(thread[t].copy, thread[t].ctx, thread[t].start)
      /\ thread' = [thread EXCEPT ![t] = IdleRun]
  BY ThreadType DEF RunnerSaves, Shaped
<1>2. UnderWay(t)
  BY <1>1 DEF UnderWay
<1>3. \A u \in Thread : ~UnderWay(u)'
  BY <1>1, <1>2, IdleType DEF CollectInv, TypeOK, OneRun, UnderWay
<1>4. row'.last = thread[t].start
  <2>1. PICK copy, result, start :
          copy = thread[t].copy /\ result = thread[t].ctx /\ start = thread[t].start
    OBVIOUS
  <2>2. copy \in Row /\ row' = Merged(copy, result, start)
    BY <1>1, <2>1
  <2>3. Merged(copy, result, start).last = start
    BY <2>2 DEF Merged, Row
  <2> QED BY <2>1, <2>2, <2>3
<1> QED BY <1>2, <1>3, <1>4, NobodyStarts, SaveMovesOn

LEMMA OlderStays ==
  ASSUME NEW start \in 0..Interval, NEW last \in 0..Interval \cup {None},
         last # None => start <= last
  PROVE  Older(last, Interval) # None => Older(start, Interval) <= Older(last, Interval)
BY CollectAssumption DEF Older

LEMMA AdvanceKeepsStart ==
  ASSUME CollectInv, StartsLate, Advance PROVE StartsLate'
<1>1. ASSUME NEW start \in 0..Interval, NEW r \in Row, NoOlder(start, r)
      PROVE  NoOlder(Older(start, Interval), OlderRow(r))
  <2>1. r # None
    BY RowIsNotNone, LenProperties DEF CollectInv, TypeOK
  <2>2. OlderRow(r) = [r EXCEPT !.last = Older(r.last, Interval), !.stamp = Older(r.stamp, Ttl)]
    BY <2>1 DEF OlderRow
  <2>3. OlderRow(r).last = Older(r.last, Interval) /\ r.last \in 0..Interval \cup {None}
    BY <2>2 DEF Row
  <2> QED BY <1>1, <2>3, OlderStays DEF NoOlder
<1>2. ASSUME NEW c \in Editor, Loaded(c)'
      PROVE  Loaded(c) /\ edit'[c].snap = OlderRow(edit[c].snap)
  <2>1. CASE edit[c] = None
    BY <1>2, <2>1 DEF Advance, Loaded
  <2>2. CASE edit[c] # None
    <3>1. edit'[c] = [edit[c] EXCEPT !.snap = OlderRow(edit[c].snap)]
      BY <2>2 DEF Advance
    <3>2. edit[c] \in Request
      BY <2>2 DEF CollectInv, TypeOK
    <3>3. edit'[c].snap = OlderRow(edit[c].snap)
      BY <3>1, <3>2 DEF Request
    <3> QED BY <1>2, <2>2, <3>3 DEF Loaded, OlderRow
  <2> QED BY <2>1, <2>2
<1>3. ASSUME NEW t \in Thread, UnderWay(t)'
      PROVE  UnderWay(t) /\ thread'[t].start = Older(thread[t].start, Interval)
  <2>1. PICK start : start = IF UnderWay(t) THEN Older(thread[t].start, Interval) ELSE 0
    OBVIOUS
  <2>2. thread'[t] = [thread[t] EXCEPT !.start = start, !.ctx = OlderRow(thread[t].ctx),
                                       !.copy = OlderRow(thread[t].copy)]
    BY <2>1 DEF Advance
  <2>3. thread[t] \in Run
    BY ThreadType
  <2>4. thread'[t].pc = thread[t].pc /\ thread'[t].start = start
    BY <2>2, <2>3 DEF Run
  <2> QED BY <1>3, <2>1, <2>4 DEF UnderWay
<1>4. SUFFICES ASSUME NEW t \in Thread, UnderWay(t)'
               PROVE  /\ NoOlder(thread'[t].start, row')
                      /\ \A c \in Editor :
                           Loaded(c)' => NoOlder(thread'[t].start, edit'[c].snap)
  BY DEF StartsLate, NoOlder
<1>5. UnderWay(t) /\ thread'[t].start = Older(thread[t].start, Interval)
  BY <1>3, <1>4
<1>6. NoOlder(thread'[t].start, row')
  <2>1. row' = OlderRow(row) /\ NoOlder(thread[t].start, row)
    BY <1>5 DEF Advance, StartsLate
  <2> QED BY <1>1, <1>5, <2>1, LastType
<1>7. ASSUME NEW c \in Editor, Loaded(c)' PROVE NoOlder(thread'[t].start, edit'[c].snap)
  <2>1. Loaded(c) /\ edit'[c].snap = OlderRow(edit[c].snap)
    BY <1>2, <1>7
  <2>2. NoOlder(thread[t].start, edit[c].snap)
    BY <1>5, <2>1 DEF StartsLate
  <2> QED BY <1>1, <1>5, <2>1, <2>2, LastType
<1> QED BY <1>6, <1>7

LEMMA EditsKeepStart ==
  ASSUME CollectInv, StartsLate, NEW c \in Editor, EditStep(c) \/ User(c)
  PROVE  StartsLate'
<1>1. thread' = thread
  BY DEF EditStep, EditLoads, EditSaves, User, PicksDefinition, DeletesDefinition,
     ForcesNew, ClearsDefinition, Asks, run
<1>2. PICK q : edit' = [edit EXCEPT ![c] = q]
  BY DEF EditStep, EditLoads, EditSaves, User, PicksDefinition, DeletesDefinition,
     ForcesNew, ClearsDefinition, Asks
<1>3. edit'[c] = q /\ \A x \in Editor \ {c} : edit'[x] = edit[x]
  BY <1>2 DEF CollectInv, TypeOK
<1>4. CASE User(c)
  <2>1. row' = row /\ ~Loaded(c)'
    BY <1>3, <1>4 DEF User, PicksDefinition, DeletesDefinition, ForcesNew,
       ClearsDefinition, Asks, CollectInv, TypeOK, Loaded
  <2>2. \A x \in Editor : Loaded(x)' => Loaded(x) /\ edit'[x] = edit[x]
    BY <1>3, <2>1 DEF Loaded
  <2> QED BY <1>1, <2>1, <2>2, StartsStay DEF UnderWay
<1>5. CASE EditLoads(c)
  <2>1. row' = row /\ (Loaded(c)' => edit'[c].snap = row)
    <3>1. edit[c] \in Request
      BY <1>5 DEF EditLoads, CollectInv, TypeOK
    <3> QED BY <1>5, <3>1 DEF EditLoads, Loaded, CollectInv, TypeOK, Request
  <2>2. \A x \in Editor : Loaded(x)' =>
          \/ edit'[x].snap = row
          \/ Loaded(x) /\ edit'[x] = edit[x]
    BY <1>3, <2>1 DEF Loaded
  <2> QED BY <1>1, <2>1, <2>2 DEF StartsLate, UnderWay, NoOlder
<1>6. CASE EditSaves(c)
  <2>1. Loaded(c) /\ ~Loaded(c)'
    BY <1>6 DEF EditSaves, Loaded, CollectInv, TypeOK
  <2>2. row'.last = edit[c].snap.last
    <3>1. edit[c].snap \in Row
      BY <2>1, LastType
    <3>2. PICK q2, r : q2 = edit[c] /\ r = edit[c].snap
      OBVIOUS
    <3>3. Edited(q2, r).last = r.last
      BY <3>1, <3>2 DEF Edited, Row
    <3> QED BY <1>6, <3>2, <3>3 DEF EditSaves
  <2>3. \A x \in Editor : Loaded(x)' => Loaded(x) /\ edit'[x] = edit[x]
    BY <1>3, <2>1 DEF Loaded
  <2> QED BY <1>1, <2>1, <2>2, <2>3 DEF StartsLate, UnderWay, NoOlder
<1> QED BY <1>4, <1>5, <1>6 DEF EditStep

LEMMA StartsLateStays ==
  ASSUME CollectInv, StartsLate, [Next]_vars PROVE StartsLate'
<1>1. ASSUME NEW t \in Thread, RunStep(t) \/ Misfortune(t) PROVE StartsLate'
  BY <1>1, ThreadKeepsStart, SaveEndsRun
<1>2. CASE Daemon
  <2>1. ASSUME NEW interrupted \in BOOLEAN, NEW switched \in BOOLEAN,
               Restart(interrupted, switched)
        PROVE  StartsLate'
    <3>1. \A t \in Thread : ~UnderWay(t)'
      <4> SUFFICES ASSUME NEW t \in Thread PROVE ~UnderWay(t)'
        OBVIOUS
      <4>1. thread[t] \in Run
        BY ThreadType
      <4>2. thread'[t] = IdleRun \/ thread'[t].pc = "orphan"
        BY <2>1, <4>1 DEF Restart, Bereft, Run
      <4> QED BY <4>2, IdleType DEF UnderWay
    <3> QED BY <3>1, NobodyStarts
  <2> QED BY <1>2, <2>1, TriggerStarts DEF Daemon
<1>3. CASE NewItem \/ (\E d \in DOMAIN defs : DeletedElsewhere(d)) \/ UNCHANGED vars
  <2>1. row' = row /\ edit' = edit /\ thread' = thread
    BY <1>3 DEF NewItem, DeletedElsewhere, vars, run
  <2> QED BY <2>1, StartsStay DEF UnderWay, Loaded
<1> QED BY <1>1, <1>2, <1>3, AdvanceKeepsStart, EditsKeepStart DEF Next

LEMMA CollectInvHolds == Spec => []CollectInv
<1>1. Init => CollectInv
  BY CollectInit
<1>2. CollectInv /\ [Next]_vars => CollectInv'
  BY CollectInvIsInductive
<1> QED BY <1>1, <1>2, PTL DEF Spec

LEMMA StartsLateHolds == Spec => []StartsLate
<1>1. Init => StartsLate
  BY IdleType DEF Init, StartsLate, UnderWay
<1>2. CollectInv /\ StartsLate /\ [Next]_vars => StartsLate'
  BY StartsLateStays
<1> QED BY <1>1, <1>2, CollectInvHolds, PTL DEF Spec

(* The row of state.db, the runs of the daemon, their workers and the      *)
(* requests stay well typed, whichever of them loads and writes the row.   *)
THEOREM TypeCorrect == Spec => []TypeOK
<1>1. CollectInv => TypeOK
  BY DEF CollectInv
<1> QED BY <1>1, CollectInvHolds, PTL

(* set_definition: a definition the user picked while no run was under way *)
(* stays the plugin's as long as it is there and nobody asks for another,  *)
(* whatever becomes of runs, workers and the daemon.                       *)
THEOREM PickStands == Spec => []PickHolds
<1>1. CollectInv => PickHolds
  <2> SUFFICES ASSUME CollectInv, chosen > 0, Live(chosen)
               PROVE  /\ row.def = chosen
                      /\ \A t \in Thread : thread[t].pc # "orphan" /\ thread[t].ctx # None =>
                           thread[t].ctx.def = chosen
    BY DEF PickHolds
  <2>1. row.def = chosen
    BY DEF CollectInv, PickKept
  <2>2. ASSUME NEW t \in Thread, thread[t].pc # "orphan", thread[t].ctx # None
        PROVE  thread[t].ctx.def = chosen
    <3>1. Fit(thread[t].ctx)
      BY <2>2 DEF CollectInv, CopiesFit
    <3> QED BY <2>2, <3>1 DEF Fit
  <2> QED BY <2>1, <2>2
<1> QED BY <1>1, CollectInvHolds, PTL

(* runner.run saves what _inflight and the copies of the row let it: no    *)
(* save of a run makes last_run older, or takes the watermark back unless  *)
(* two edits had the row loaded at once, for any number of threads and of  *)
(* requests.                                                               *)
THEOREM RowMovesForward == Spec => RowNeverGoesBack
<1>1. ASSUME CollectInv, StartsLate, [Next]_vars
      PROVE  [\/ /\ row'.wm >= row.wm \/ crossed
                 /\ row.last # None => row'.last # None /\ row'.last <= row.last
              \/ Advance
              \/ \E c \in Editor : EditSaves(c)]_row
  <2> SUFFICES ASSUME row' # row, ~Advance, ~\E c \in Editor : EditSaves(c)
               PROVE  /\ row'.wm >= row.wm \/ crossed
                      /\ row.last # None => row'.last # None /\ row'.last <= row.last
    OBVIOUS
  <2>1. PICK t \in Thread : RunnerSaves(t)
    BY <1>1 DEF Next, vars, NewItem, DeletedElsewhere, Daemon, Tick, RunNow, Restart,
       RunStep, Misfortune, EditStep, User, Spawn, Register, RunnerLoads, WorkerLoads,
       TrustsStamp, Validates, Resolves, Records, WorkerDone, SpawnFails, CannotAsk,
       PluginRaises, WorkerDies, TimesOut, RunnerRaises, Hangs, EditLoads,
       PicksDefinition, DeletesDefinition, ForcesNew, ClearsDefinition, Asks
  <2>2. row'.wm >= row.wm \/ crossed
    BY <1>1, <2>1, SaveMovesOn
  <2>3. /\ row'.last # None /\ row'.last = thread[t].start
        /\ NoOlder(thread[t].start, row)
    BY <1>1, <2>1, SaveEndsRun DEF StartsLate
  <2> QED BY <2>2, <2>3 DEF NoOlder
<1> QED BY <1>1, CollectInvHolds, StartsLateHolds, PTL DEF Spec, RowNeverGoesBack
=============================================================================
