---------------------------- MODULE LegacyQueue ----------------------------
(***************************************************************************)
(* The schema-1 read of the bus v3 queue, which teams without a proven     *)
(* compare-and-swap still use: read the cursor, read the window, print,    *)
(* save the cursor.  The cursor file is last-writer-wins.  Readers may be  *)
(* processes of the agent that owns the queue or of somebody else, who may *)
(* only look (peek) or takes the queue over on purpose (--consume), which  *)
(* is written to an audit document first.  Text output is printed before   *)
(* the cursor is saved, a --json envelope after it.                        *)
(***************************************************************************)
EXTENDS RecordTrack, CappedList

CONSTANTS
  Reader,     \* processes that read the queue of one agent
  Foreign,    \* the readers whose identity is not the agent's
  Mode,       \* the output modes in use, a subset of {"text", "json"}
  Skew,       \* CURSOR_SKEW_SECONDS
  Lookback,   \* DEFAULT_LOOKBACK_SECONDS
  SeenCap,    \* SEEN_IDS_CAP
  MaxReads,   \* bound on the number of reads that are begun
  MaxCrash,   \* bound on the number of processes that die
  MaxInterrupt, \* bound on the processes interrupted while they print
  None        \* an absent document or time

ASSUME LegacyAssumption ==
  /\ Foreign \subseteq Reader
  /\ Skew \in Nat /\ MaxLag <= Skew /\ Lookback \in Nat
  /\ SeenCap \in Nat \ {0} /\ Mode \subseteq {"text", "json"}
  /\ MaxReads \in Nat /\ MaxCrash \in Nat /\ MaxInterrupt \in Nat

VARIABLES
  cursor,     \* the durable cursor document
  audits,     \* the readers that have an audit document of a takeover
  pc,         \* per reader: where it is
  mode,       \* per reader: its output mode
  now,        \* per reader: its clock reading
  snap,       \* per reader: the cursor it loaded
  fresh,      \* per reader: the events it received and has yet to print
  received,   \* history: per event, the reads (reader, mode) that returned it
  printed,    \* history: events a consuming reader has printed
  floor,      \* history: where the coverage claim of the cursor begins
  base,       \* history: per reader, the same for the cursor it loaded
  reads, crashes, interrupts

local == <<pc, mode, now, snap, base, fresh>>
bounds == <<reads, crashes, interrupts>>
vars == <<track, cursor, audits, local, received, printed, floor, bounds>>

Cursor == [last_read: Int, seen_ids: Seq(Event)]

TypeOK ==
  /\ TrackTypeOK
  /\ cursor \in Cursor \cup {None}
  /\ audits \in SUBSET Foreign
  /\ pc \in [Reader -> {"idle", "auditing", "begun", "timed", "loaded",
                        "printing", "saving", "enveloping"}]
  /\ mode \in [Reader -> Mode \cup {None}]
  /\ now \in [Reader -> Int \cup {None}]
  /\ snap \in [Reader -> Cursor \cup {None}]
  /\ base \in [Reader -> Int \cup {None}]
  /\ fresh \in [Reader -> Seq(Event)]
  /\ received \in [Event -> SUBSET (Reader \X Mode)]
  /\ printed \in SUBSET Event
  /\ floor \in Int \cup {None}
  /\ reads \in 0..MaxReads /\ crashes \in 0..MaxCrash
  /\ interrupts \in 0..MaxInterrupt

Init ==
  /\ TrackInit
  /\ cursor = None
  /\ audits = {}
  /\ pc = [r \in Reader |-> "idle"]
  /\ mode = [r \in Reader |-> None]
  /\ now = [r \in Reader |-> None]
  /\ snap = [r \in Reader |-> None]
  /\ base = [r \in Reader |-> None]
  /\ fresh = [r \in Reader |-> << >>]
  /\ received = [e \in Event |-> {}]
  /\ printed = {}
  /\ floor = None
  /\ reads = 0 /\ crashes = 0 /\ interrupts = 0

Goto(r, label) == pc' = [pc EXCEPT ![r] = label]

(* The process of r is over.                                               *)
Gone(r) ==
  /\ Goto(r, "idle")
  /\ mode' = [mode EXCEPT ![r] = None]
  /\ now' = [now EXCEPT ![r] = None]
  /\ snap' = [snap EXCEPT ![r] = None]
  /\ base' = [base EXCEPT ![r] = None]
  /\ fresh' = [fresh EXCEPT ![r] = << >>]

(* Mutant: a takeover is not written down.                                 *)
BeginUnaudited(r, m) ==
  /\ pc[r] = "idle"
  /\ reads < MaxReads
  /\ reads' = reads + 1
  /\ mode' = [mode EXCEPT ![r] = m]
  /\ Goto(r, "begun")
  /\ UNCHANGED <<track, cursor, audits, now, snap, base, fresh, received, printed,
                 floor, crashes, interrupts>>

(* cmd_queue: a consuming read begins.  A foreign reader has said          *)
(* --consume and must leave an audit document first.                       *)
Begin(r, m) ==
  /\ pc[r] = "idle"
  /\ reads < MaxReads
  /\ reads' = reads + 1
  /\ mode' = [mode EXCEPT ![r] = m]
  /\ Goto(r, IF r \in Foreign THEN "auditing" ELSE "begun")
  /\ UNCHANGED <<track, cursor, audits, now, snap, base, fresh, received, printed,
                 floor, crashes, interrupts>>

(* Mutant: the document names the agent instead of the caller.             *)
AuditNamesOwner(r) ==
  /\ pc[r] = "auditing"
  /\ audits' = audits \cup (Reader \ Foreign)
  /\ Goto(r, "begun")
  /\ UNCHANGED <<track, cursor, mode, now, snap, base, fresh, received, printed,
                 floor, bounds>>

(* _write_consume_audit: the document lands.                               *)
AuditLands(r) ==
  /\ pc[r] = "auditing"
  /\ audits' = audits \cup {r}
  /\ Goto(r, "begun")
  /\ UNCHANGED <<track, cursor, mode, now, snap, base, fresh, received, printed,
                 floor, bounds>>

(* _write_consume_audit: it does not, and the takeover is refused.         *)
AuditFails(r) ==
  /\ pc[r] = "auditing"
  /\ Gone(r)
  /\ UNCHANGED <<track, cursor, audits, received, printed, floor, bounds>>

(* cmd_queue: now = _now(), before the cursor is loaded.                   *)
TakeNow(r) ==
  /\ pc[r] = "begun"
  /\ now' = [now EXCEPT ![r] = clock]
  /\ Goto(r, "timed")
  /\ UNCHANGED <<track, cursor, audits, mode, snap, base, fresh, received, printed,
                 floor, bounds>>

(* load_cursor_classified.                                                 *)
LoadCursor(r) ==
  /\ pc[r] = "timed"
  /\ snap' = [snap EXCEPT ![r] = cursor]
  /\ base' = [base EXCEPT ![r] = floor]
  /\ Goto(r, "loaded")
  /\ UNCHANGED <<track, cursor, audits, mode, now, fresh, received, printed,
                 floor, bounds>>

(* Mutant: windows do not overlap.                                         *)
WindowAtCursor(r) ==
  IF snap[r] = None THEN now[r] - Lookback ELSE snap[r].last_read

(* The start of the window: the cursor less the skew, or the lookback.     *)
WindowStart(r) ==
  IF snap[r] = None THEN now[r] - Lookback ELSE snap[r].last_read - Skew

(* The ids the loaded cursor suppresses.                                   *)
Seen(r) == IF snap[r] = None THEN << >> ELSE snap[r].seen_ids

(* Mutant: text is printed after the save, like an envelope.               *)
SaveFirst(r) == "saving"

(* What follows the read: text is printed at once, an envelope last.       *)
Handoff(r) == IF mode[r] = "text" THEN "printing" ELSE "saving"

(* transport.records and events_for: the events of the window that the     *)
(* loaded cursor does not know.                                            *)
ReadWindow(r) ==
  /\ pc[r] = "loaded"
  /\ \E s \in NewestLast(Window(WindowStart(r), now[r]) \ Elements(Seen(r))) :
       /\ fresh' = [fresh EXCEPT ![r] = s]
       /\ received' = [e \in Event |->
            IF e \in Elements(s) THEN received[e] \cup {<<r, mode[r]>>} ELSE received[e]]
  /\ Goto(r, Handoff(r))
  /\ UNCHANGED <<track, cursor, audits, mode, now, snap, base, printed, floor, bounds>>

(* The cursor or the window cannot be read: coverage is untouched.         *)
ReadFails(r) ==
  /\ pc[r] \in {"timed", "loaded"}
  /\ Gone(r)
  /\ UNCHANGED <<track, cursor, audits, received, printed, floor, bounds>>

(* _print_queue_events, text mode.                                         *)
ShowText(r) ==
  /\ pc[r] = "printing"
  /\ printed' = printed \cup Elements(fresh[r])
  /\ Goto(r, "saving")
  /\ UNCHANGED <<track, cursor, audits, mode, now, snap, base, fresh, received, floor,
                 bounds>>

(* KeyboardInterrupt while the events are printed: some are out, and the   *)
(* `finally` still saves the cursor.                                       *)
ShowInterrupted(r) ==
  /\ pc[r] = "printing"
  /\ interrupts < MaxInterrupt
  /\ interrupts' = interrupts + 1
  /\ \E k \in 0..Len(fresh[r]) :
       printed' = printed \cup Elements(SubSeq(fresh[r], 1, k))
  /\ Goto(r, "saving")
  /\ UNCHANGED <<track, cursor, audits, mode, now, snap, base, fresh, received, floor,
                 reads, crashes>>

(* What a process does once its save has landed or failed.                 *)
AfterSave(r) ==
  IF mode[r] = "json"
  THEN /\ Goto(r, "enveloping")
       /\ UNCHANGED <<mode, now, snap, base, fresh>>
  ELSE Gone(r)

(* save_cursor: overwrite whatever is there.                               *)
Save(r) ==
  /\ pc[r] = "saving"
  /\ cursor' = [last_read |-> now[r],
                seen_ids |-> LastN(Seen(r) \o fresh[r], SeenCap)]
  /\ floor' = IF snap[r] = None THEN WindowStart(r) ELSE base[r]
  /\ AfterSave(r)
  /\ UNCHANGED <<track, audits, received, printed, bounds>>

(* save_cursor fails; the read goes on with a warning.                     *)
SaveFails(r) ==
  /\ pc[r] = "saving"
  /\ AfterSave(r)
  /\ UNCHANGED <<track, cursor, audits, received, printed, floor, bounds>>

(* The --json envelope, printed once the cursor outcome is known.          *)
ShowEnvelope(r) ==
  /\ pc[r] = "enveloping"
  /\ printed' = printed \cup Elements(fresh[r])
  /\ Gone(r)
  /\ UNCHANGED <<track, cursor, audits, received, floor, bounds>>

Crash(r) ==
  /\ pc[r] # "idle"
  /\ crashes < MaxCrash
  /\ crashes' = crashes + 1
  /\ Gone(r)
  /\ UNCHANGED <<track, cursor, audits, received, printed, floor, reads,
                 interrupts>>

(* --peek, and the read of a foreign identity without --consume.           *)
Peek(r) == pc[r] = "idle" /\ UNCHANGED vars

ReaderStep(r) ==
  \/ \E m \in Mode : Begin(r, m)
  \/ AuditLands(r) \/ AuditFails(r) \/ TakeNow(r) \/ LoadCursor(r)
  \/ ReadWindow(r) \/ ReadFails(r) \/ ShowText(r) \/ ShowInterrupted(r)
  \/ Save(r) \/ SaveFails(r) \/ ShowEnvelope(r) \/ Crash(r) \/ Peek(r)

TrackStep ==
  TrackNext /\ UNCHANGED <<cursor, audits, local, received, printed, floor, bounds>>

Next == TrackStep \/ \E r \in Reader : ReaderStep(r)

Spec == Init /\ [][Next]_vars

-----------------------------------------------------------------------------
(* Properties.                                                             *)

(* The events that no later window begins early enough to return, from     *)
(* where a reader without a cursor first looked.                           *)
Passed ==
  IF cursor = None THEN {}
  ELSE {e \in sent : at[e] >= floor /\ at[e] < cursor.last_read - Skew}

(* The events no later read will show: passed, or suppressed as seen.      *)
Consumed == Passed \cup (IF cursor = None THEN {} ELSE Elements(cursor.seen_ids))

(* Last-writer-wins costs repeats, never coverage: whatever reads and      *)
(* saves overlap, fail or die, an event that no later read will show was   *)
(* received by some read.                                                  *)
CoveredWasReceived == \A e \in Consumed : received[e] # {}

(* The consumption guard: an event that no later read will show and the    *)
(* agent itself has never received left an audit document of a takeover.   *)
TakeoverIsAudited ==
  \A e \in Consumed :
    (\A read \in received[e] : read[1] \in Foreign) =>
      \E read \in received[e] : read[1] \in audits

(* Print-then-advance: the cursor passes an event only after it has been   *)
(* printed, wherever a text reader dies.  What may go unprinted is what a  *)
(* --json reader got whose envelope is due or that died before it, and     *)
(* what an interrupt of the print cut off.                                 *)
PrintThenAdvance ==
  \A e \in Consumed \ printed :
    \/ interrupts > 0
    \/ \E r \in Reader :
         /\ <<r, "json">> \in received[e]
         /\ crashes > 0 \/ e \in Elements(fresh[r])
=============================================================================
