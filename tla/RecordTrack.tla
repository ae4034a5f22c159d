---------------------------- MODULE RecordTrack ----------------------------
(***************************************************************************)
(* The record track of bus v3, as the queue readers of coord_engine see    *)
(* it: a shared, append-only log of typed records behind the Fulcra API.   *)
(*                                                                         *)
(* A record gets its recorded_at when it is written (emit_event) and turns *)
(* up in window reads only later (write->visibility lag).  An Event here   *)
(* is the identity of one record that is addressed to the reading agent or *)
(* broadcast; events_for drops every other record, so they are left out.   *)
(* Time is in abstract units; one unit stands for as many seconds as the   *)
(* constants of the queue modules say.                                     *)
(***************************************************************************)
EXTENDS Integers, FiniteSets, Sequences

CONSTANTS
  Event,     \* record ids addressed to the agent
  MaxLag,    \* the longest write->visibility lag of the record API
  Leads,     \* how far from now a writer may date its record: 0 for an
             \* ordinary event, more for the timer of a reminder
  MaxTime,   \* bound on the clock
  Burst,     \* length of the interval over which the write rate is bounded
  BurstCap   \* at most this many events are dated within such an interval

ASSUME TrackAssumption ==
  /\ IsFiniteSet(Event) /\ MaxLag \in Nat /\ Leads \subseteq Int
  /\ Burst \in Nat /\ BurstCap \in Nat

VARIABLES
  clock,     \* the current time
  sent,      \* the events written so far
  at,        \* recorded_at of every event written
  visible    \* the events window reads return

track == <<clock, sent, at, visible>>

TrackTypeOK ==
  /\ clock \in Nat
  /\ sent \in SUBSET Event
  /\ at \in [Event -> Int]
  /\ visible \in SUBSET sent

(* Records may predate the first read that is modelled: they were written  *)
(* at time 0 and some of them are visible already.                         *)
TrackInit ==
  /\ clock = 0
  /\ sent \in SUBSET Event
  /\ Cardinality(sent) <= BurstCap
  /\ at = [e \in Event |-> 0]
  /\ visible \in SUBSET sent

(* The events whose dates are less than Burst away from a date.            *)
Crowd(date) == {e \in sent : at[e] > date - Burst /\ at[e] < date + Burst}

(* emit_event: a peer writes one record, dated d from now.  A record the   *)
(* writer is told has failed may still have landed; its retry is a record  *)
(* of its own, with its own id.                                            *)
Emit(e, d) ==
  /\ e \in Event \ sent
  /\ Cardinality(Crowd(clock + d)) < BurstCap
  /\ sent' = sent \cup {e}
  /\ at' = [at EXCEPT ![e] = clock + d]
  /\ UNCHANGED <<clock, visible>>

(* The index catches up with one record.                                   *)
Index(e) ==
  /\ e \in sent \ visible
  /\ visible' = visible \cup {e}
  /\ UNCHANGED <<clock, sent, at>>

(* Time passes, but never beyond the lag of a record not indexed yet (a    *)
(* timer may take that long after it is due, which only makes it later).   *)
Tick ==
  /\ clock < MaxTime
  /\ \A e \in sent \ visible : clock < at[e] + MaxLag
  /\ clock' = clock + 1
  /\ UNCHANGED <<sent, at, visible>>

TrackNext ==
  \/ Tick
  \/ \E e \in Event : Index(e) \/ \E d \in Leads : Emit(e, d)

(* transport.records(data_type, start, end): the complete window, or a     *)
(* failure that the readers treat as no read at all.                       *)
Window(start, end) == {e \in visible : start <= at[e] /\ at[e] <= end}

(* The listings of a set of events with the newest last: events_for sorts  *)
(* by recorded_at and the order of ties is the endpoint's.                 *)
NewestLast(S) ==
  {s \in [1..Cardinality(S) -> S] :
     /\ \A e \in S : \E i \in DOMAIN s : s[i] = e
     /\ \A i, j \in DOMAIN s : i < j => s[i] # s[j] /\ at[s[i]] <= at[s[j]]}
=============================================================================
