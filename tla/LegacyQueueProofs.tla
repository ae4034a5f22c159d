------------------------- MODULE LegacyQueueProofs -------------------------
(***************************************************************************)
(* Proofs about LegacyQueue, for any readers, events, windows and bounds:  *)
(* it is well typed, a last-writer-wins cursor never passes an event that  *)
(* nobody received or (text) printed, and takeovers leave their document.  *)
(***************************************************************************)
EXTENDS LegacyQueue, TrackLemmas

-----------------------------------------------------------------------------
(* The inductive invariant.  First, what a reader has got so far.          *)

Timed(r) == pc[r] \in {"timed", "loaded", "printing", "saving", "enveloping"}
HasLoaded(r) == pc[r] \in {"loaded", "printing", "saving", "enveloping"}
HasRead(r) == pc[r] \in {"printing", "saving", "enveloping"}

Shape(r) ==
  /\ pc[r] # "idle" => mode[r] \in Mode
  /\ pc[r] = "auditing" => r \in Foreign
  /\ Timed(r) => now[r] \in Int /\ now[r] <= clock
  /\ HasLoaded(r) /\ snap[r] # None =>
       base[r] \in Int /\ snap[r].last_read <= clock
  /\ pc[r] = "printing" => mode[r] = "text"

(* A foreign reader that got past its audit has left its document.         *)
Audited ==
  /\ \A r \in Foreign : pc[r] \notin {"idle", "auditing"} => r \in audits
  /\ \A e \in Event : \A read \in received[e] : read[1] \in Foreign => read[1] \in audits

(* What a --json reader got is printed, or its envelope is due, or it died. *)
Enveloped(e, r) ==
  <<r, "json">> \in received[e] =>
    \/ e \in printed \/ crashes > 0
    \/ mode[r] = "json" /\ pc[r] \in {"saving", "enveloping"} /\ e \in Elements(fresh[r])

LegacyInv ==
  /\ TypeOK /\ Audited
  /\ cursor # None => floor \in Int /\ cursor.last_read <= clock
  /\ \A r \in Reader : Shape(r)
  /\ \A e \in Event, r \in Reader : Enveloped(e, r)

(* Received, and printed unless it was for a --json reader or interrupted. *)
Accounted(e) ==
  /\ received[e] # {}
  /\ \/ e \in printed \/ interrupts > 0
     \/ \E r \in Reader : <<r, "json">> \in received[e]

(* A coverage claim: every event dated between them is accounted for.      *)
Covers(low, high) ==
  \A e \in sent : low <= at[e] /\ at[e] < high - Skew => Accounted(e)

AllAccounted(s) == \A e \in Elements(s) : Accounted(e)

(* What a reader that loaded a cursor takes from it is true.               *)
LoadedClaim(r) ==
  HasLoaded(r) /\ snap[r] # None =>
    Covers(base[r], snap[r].last_read) /\ AllAccounted(snap[r].seen_ids)

(* Its window returned what the cursor does not know; what it goes on to   *)
(* save is accounted for.                                                  *)
ReadClaim(r) ==
  HasRead(r) =>
    /\ \A e \in sent : WindowStart(r) <= at[e] /\ at[e] < now[r] - Skew =>
         Accounted(e) \/ e \in Elements(fresh[r])
    /\ \A e \in Elements(fresh[r]) : <<r, mode[r]>> \in received[e]
    /\ pc[r] # "printing" => AllAccounted(fresh[r])

(* No event is invisible for longer than the lag.                          *)
Indexed == \A e \in sent \ visible : clock <= at[e] + MaxLag

ClaimInv ==
  /\ Indexed
  /\ cursor # None => Covers(floor, cursor.last_read) /\ AllAccounted(cursor.seen_ids)
  /\ \A r \in Reader : LoadedClaim(r) /\ ReadClaim(r)

-----------------------------------------------------------------------------
(* A reader moves alone.                                                   *)
KeepsOthers(r) ==
  \A q \in Reader \ {r} :
    /\ pc'[q] = pc[q] /\ mode'[q] = mode[q] /\ now'[q] = now[q]
    /\ snap'[q] = snap[q] /\ base'[q] = base[q] /\ fresh'[q] = fresh[q]

Labels == {"idle", "auditing", "begun", "timed", "loaded", "printing", "saving", "enveloping"}

LocalTypeOK ==
  /\ pc \in [Reader -> Labels]
  /\ mode \in [Reader -> Mode \cup {None}]
  /\ now \in [Reader -> Int \cup {None}]
  /\ snap \in [Reader -> Cursor \cup {None}]
  /\ base \in [Reader -> Int \cup {None}]
  /\ fresh \in [Reader -> Seq(Event)]

LEMMA GoneStep ==
  ASSUME LocalTypeOK, NEW r \in Reader, Gone(r)
  PROVE  /\ LocalTypeOK' /\ KeepsOthers(r)
         /\ pc'[r] = "idle" /\ fresh'[r] = << >> /\ mode'[r] = None
<1>1. << >> \in Seq(Event)
  OBVIOUS
<1>2. LocalTypeOK'
  BY <1>1 DEF LocalTypeOK, Gone, Goto, Labels
<1> QED BY <1>2 DEF LocalTypeOK, Gone, Goto, KeepsOthers

LEMMA GotoStep ==
  ASSUME LocalTypeOK, NEW r \in Reader, NEW label \in Labels, Goto(r, label)
  PROVE  /\ pc' \in [Reader -> Labels] /\ pc'[r] = label
         /\ \A q \in Reader \ {r} : pc'[q] = pc[q]
BY DEF LocalTypeOK, Goto

LEMMA LocalTyped == LegacyInv => LocalTypeOK
BY DEF LegacyInv, TypeOK, LocalTypeOK, Labels

(* A step of one reader that leaves what was received alone, or adds reads *)
(* of its own to it.                                                       *)
LEMMA OthersKept ==
  ASSUME LegacyInv, NEW r \in Reader, KeepsOthers(r), clock' = clock,
         printed \subseteq printed', crashes' \in Nat, crashes <= crashes',
         \A e \in Event, q \in Reader \ {r} :
           <<q, "json">> \in received'[e] => <<q, "json">> \in received[e]
  PROVE  \A q \in Reader \ {r} : Shape(q)' /\ \A e \in Event : Enveloped(e, q)'
<1> SUFFICES ASSUME NEW q \in Reader \ {r} PROVE Shape(q)' /\ \A e \in Event : Enveloped(e, q)'
    OBVIOUS
<1>1. /\ pc'[q] = pc[q] /\ mode'[q] = mode[q] /\ now'[q] = now[q]
      /\ snap'[q] = snap[q] /\ base'[q] = base[q] /\ fresh'[q] = fresh[q]
  BY DEF KeepsOthers
<1>2. Shape(q)'
  BY <1>1 DEF LegacyInv, Shape, Timed, HasLoaded
<1>3. ASSUME NEW e \in Event PROVE Enveloped(e, q)'
  <2>1. Enveloped(e, q)
    BY DEF LegacyInv
  <2>2. crashes > 0 => crashes' > 0
    BY DEF LegacyInv, TypeOK
  <2> QED BY <1>1, <2>1, <2>2 DEF Enveloped
<1> QED BY <1>2, <1>3

(* A reader that is over at once owes nothing.                             *)
LEMMA GoneKeeps ==
  ASSUME LegacyInv, NEW r \in Reader, Gone(r),
         UNCHANGED <<track, audits, received>>, TypeOK',
         cursor' # None => floor' \in Int /\ cursor'.last_read <= clock,
         printed \subseteq printed', crashes <= crashes',
         \/ crashes' > 0
         \/ mode[r] # "json" \/ pc[r] \notin {"saving", "enveloping"}
         \/ Elements(fresh[r]) \subseteq printed'
  PROVE  LegacyInv'
<1>1. LocalTypeOK' /\ KeepsOthers(r) /\ pc'[r] = "idle"
  BY LocalTyped, GoneStep
<1>2. \A q \in Reader \ {r} : Shape(q)' /\ \A e \in Event : Enveloped(e, q)'
  <2>1. crashes' \in Nat /\ clock' = clock
    BY LegacyAssumption DEF TypeOK, track
  <2>2. \A e \in Event, q \in Reader \ {r} :
          <<q, "json">> \in received'[e] => <<q, "json">> \in received[e]
    OBVIOUS
  <2> QED BY <1>1, <2>1, <2>2, OthersKept
<1>3. Shape(r)'
  BY <1>1 DEF Shape, Timed, HasLoaded
<1>4. ASSUME NEW e \in Event PROVE Enveloped(e, r)'
  <2>1. Enveloped(e, r)
    BY DEF LegacyInv
  <2>2. crashes > 0 => crashes' > 0
    BY DEF LegacyInv, TypeOK
  <2> QED BY <2>1, <2>2 DEF Enveloped
<1>5. Audited'
  <2>1. Foreign \subseteq Reader
    BY LegacyAssumption
  <2>2. ASSUME NEW q \in Foreign, pc'[q] \notin {"idle", "auditing"} PROVE q \in audits'
    <3>1. q # r /\ pc'[q] = pc[q]
      BY <1>1, <2>1, <2>2 DEF KeepsOthers
    <3> QED BY <2>2, <3>1 DEF LegacyInv, Audited
  <2> QED BY <2>2 DEF LegacyInv, Audited
<1> QED BY <1>2, <1>3, <1>4, <1>5 DEF LegacyInv, track

LEMMA InitLegacy == Init => LegacyInv
<1> SUFFICES ASSUME Init PROVE LegacyInv
    OBVIOUS
<1>1. << >> \in Seq(Event)
  OBVIOUS
<1>2. TypeOK
  <2>1. TrackTypeOK
    BY DEF Init, TrackInit, TrackTypeOK
  <2> QED BY <1>1, <2>1, LegacyAssumption DEF Init, TypeOK
<1>3. Audited
  BY LegacyAssumption DEF Init, Audited
<1>4. ASSUME NEW r \in Reader PROVE Shape(r) /\ \A e \in Event : Enveloped(e, r)
  BY DEF Init, Shape, Enveloped, Timed, HasLoaded
<1> QED BY <1>2, <1>3, <1>4 DEF LegacyInv, Init

LEMMA TrackStepLegacy == ASSUME LegacyInv, TrackStep PROVE LegacyInv'
<1>1. /\ UNCHANGED <<cursor, audits, pc, mode, now, snap, base, fresh, received, printed, floor,
                     reads, crashes, interrupts>> /\ TrackNext
  BY DEF TrackStep, local, bounds
<1>2. TrackTypeOK /\ clock \in Nat
  BY DEF LegacyInv, TypeOK, TrackTypeOK
<1>3. TrackTypeOK' /\ clock <= clock'
  <2>1. ASSUME Tick PROVE TrackTypeOK' /\ clock <= clock'
    BY <1>2, <2>1 DEF Tick, TrackTypeOK
  <2>2. ASSUME NEW e \in Event, Index(e) PROVE TrackTypeOK' /\ clock <= clock'
    BY <1>2, <2>2 DEF Index, TrackTypeOK
  <2>3. ASSUME NEW e \in Event, NEW d \in Leads, Emit(e, d) PROVE TrackTypeOK' /\ clock <= clock'
    <3>1. clock + d \in Int
      BY <1>2, TrackAssumption
    <3> QED BY <1>2, <2>3, <3>1 DEF Emit, TrackTypeOK
  <2> QED BY <1>1, <2>1, <2>2, <2>3 DEF TrackNext
<1>4. clock' \in Nat
  BY <1>3 DEF TrackTypeOK
<1>5. TypeOK'
  BY <1>1, <1>3 DEF LegacyInv, TypeOK
<1>6. ASSUME NEW r \in Reader PROVE Shape(r)' /\ \A e \in Event : Enveloped(e, r)'
  <2>1. snap[r] # None => snap[r].last_read \in Int
    BY DEF LegacyInv, TypeOK, Cursor
  <2>2. Shape(r)'
    BY <1>1, <1>2, <1>3, <1>4, <2>1 DEF LegacyInv, Shape, Timed, HasLoaded
  <2>3. \A e \in Event : Enveloped(e, r)'
    BY <1>1 DEF LegacyInv, Enveloped
  <2> QED BY <2>2, <2>3
<1>7. Audited'
  BY <1>1 DEF LegacyInv, Audited
<1>8. cursor' # None => floor' \in Int /\ cursor'.last_read <= clock'
  <2>1. cursor # None => cursor.last_read \in Int
    BY DEF LegacyInv, TypeOK, Cursor
  <2> QED BY <1>1, <1>2, <1>3, <1>4, <2>1 DEF LegacyInv
<1> QED BY <1>5, <1>6, <1>7, <1>8 DEF LegacyInv

(* A reader goes on: what is left to show of the invariant.                *)
LEMMA GoesOn ==
  ASSUME LegacyInv, NEW r \in Reader, KeepsOthers(r), TypeOK', track' = track,
         printed \subseteq printed', crashes' = crashes,
         cursor' # None => floor' \in Int /\ cursor'.last_read <= clock,
         \A e \in Event, q \in Reader \ {r} :
           <<q, "json">> \in received'[e] => <<q, "json">> \in received[e],
         Shape(r)', Audited', \A e \in Event : Enveloped(e, r)'
  PROVE  LegacyInv'
<1>1. crashes' \in Nat /\ crashes <= crashes' /\ clock' = clock
  BY LegacyAssumption DEF TypeOK, track
<1>2. \A q \in Reader \ {r} : Shape(q)' /\ \A e \in Event : Enveloped(e, q)'
  BY <1>1, OthersKept
<1> QED BY <1>1, <1>2 DEF LegacyInv

(* An idle or reading reader owes no envelope yet.                         *)
LEMMA OwesNothing ==
  ASSUME LegacyInv, NEW r \in Reader, pc[r] \notin {"saving", "enveloping"},
         UNCHANGED <<received, crashes>>, printed \subseteq printed'
  PROVE  \A e \in Event : Enveloped(e, r)'
BY DEF LegacyInv, Enveloped

LEMMA BeginLegacy ==
  ASSUME LegacyInv, NEW r \in Reader, NEW m \in Mode, Begin(r, m) PROVE LegacyInv'
<1>1. /\ UNCHANGED <<track, cursor, audits, now, snap, base, fresh, received, printed, floor,
                     crashes, interrupts>>
      /\ pc[r] = "idle" /\ LocalTypeOK /\ TypeOK
      /\ mode' = [mode EXCEPT ![r] = m]
  BY LocalTyped DEF Begin, LegacyInv
<1>2. PICK label \in {"auditing", "begun"} :
         Goto(r, label) /\ (label = "auditing" <=> r \in Foreign)
  BY DEF Begin
<1>3. /\ pc' \in [Reader -> Labels] /\ pc'[r] = label
      /\ \A q \in Reader \ {r} : pc'[q] = pc[q]
  BY <1>1, <1>2, GotoStep DEF Labels
<1>4. mode' \in [Reader -> Mode \cup {None}] /\ mode'[r] = m
      /\ \A q \in Reader \ {r} : mode'[q] = mode[q]
  BY <1>1 DEF LocalTypeOK
<1>5. reads' \in 0..MaxReads
  BY <1>1, LegacyAssumption DEF Begin, TypeOK
<1>6. TypeOK'
  BY <1>1, <1>3, <1>4, <1>5 DEF TypeOK, Labels, track, TrackTypeOK
<1>7. KeepsOthers(r)
  BY <1>1, <1>3, <1>4 DEF KeepsOthers
<1>8. Shape(r)'
  BY <1>2, <1>3, <1>4 DEF Shape, Timed, HasLoaded
<1>9. Audited'
  BY <1>1, <1>2, <1>3, LegacyAssumption DEF LegacyInv, Audited
<1>10. \A e \in Event : Enveloped(e, r)'
  BY <1>1, OwesNothing
<1>11. cursor' # None => floor' \in Int /\ cursor'.last_read <= clock
  BY <1>1 DEF LegacyInv
<1> QED BY <1>1, <1>6, <1>7, <1>8, <1>9, <1>10, <1>11, GoesOn

LEMMA AuditLandsLegacy ==
  ASSUME LegacyInv, NEW r \in Reader, AuditLands(r) PROVE LegacyInv'
<1>1. /\ UNCHANGED <<track, cursor, mode, now, snap, base, fresh, received, printed, floor,
                     reads, crashes, interrupts>>
      /\ pc[r] = "auditing" /\ LocalTypeOK /\ TypeOK /\ audits' = audits \cup {r}
      /\ Goto(r, "begun")
  BY LocalTyped DEF AuditLands, LegacyInv, bounds
<1>2. /\ pc' \in [Reader -> Labels] /\ pc'[r] = "begun"
      /\ \A q \in Reader \ {r} : pc'[q] = pc[q]
  BY <1>1, GotoStep DEF Labels
<1>3. r \in Foreign
  BY <1>1 DEF LegacyInv, Shape
<1>4. TypeOK'
  BY <1>1, <1>2, <1>3 DEF TypeOK, Labels, track, TrackTypeOK
<1>5. KeepsOthers(r)
  BY <1>1, <1>2 DEF KeepsOthers
<1>6. Shape(r)'
  BY <1>1, <1>2 DEF LegacyInv, Shape, Timed, HasLoaded
<1>7. Audited'
  BY <1>1, <1>2, LegacyAssumption DEF LegacyInv, Audited
<1>8. \A e \in Event : Enveloped(e, r)'
  BY <1>1, OwesNothing
<1>9. cursor' # None => floor' \in Int /\ cursor'.last_read <= clock
  BY <1>1 DEF LegacyInv
<1> QED BY <1>1, <1>4, <1>5, <1>6, <1>7, <1>8, <1>9, GoesOn

LEMMA TakeNowLegacy ==
  ASSUME LegacyInv, NEW r \in Reader, TakeNow(r) PROVE LegacyInv'
<1>1. /\ UNCHANGED <<track, cursor, audits, mode, snap, base, fresh, received, printed, floor,
                     reads, crashes, interrupts>>
      /\ pc[r] = "begun" /\ LocalTypeOK /\ TypeOK /\ now' = [now EXCEPT ![r] = clock]
      /\ Goto(r, "timed")
  BY LocalTyped DEF TakeNow, LegacyInv, bounds
<1>2. /\ pc' \in [Reader -> Labels] /\ pc'[r] = "timed"
      /\ \A q \in Reader \ {r} : pc'[q] = pc[q]
  BY <1>1, GotoStep DEF Labels
<1>3. clock \in Int /\ clock <= clock /\ clock' = clock
  BY <1>1 DEF TypeOK, TrackTypeOK, track
<1>4. now' \in [Reader -> Int \cup {None}] /\ now'[r] = clock
      /\ \A q \in Reader \ {r} : now'[q] = now[q]
  BY <1>1, <1>3 DEF LocalTypeOK
<1>5. TypeOK'
  BY <1>1, <1>2, <1>4 DEF TypeOK, Labels, track, TrackTypeOK
<1>6. KeepsOthers(r)
  BY <1>1, <1>2, <1>4 DEF KeepsOthers
<1>7. Shape(r)'
  BY <1>1, <1>2, <1>3, <1>4 DEF LegacyInv, Shape, Timed, HasLoaded
<1>8. Audited'
  BY <1>1, <1>2, LegacyAssumption DEF LegacyInv, Audited
<1>9. \A e \in Event : Enveloped(e, r)'
  BY <1>1, OwesNothing
<1>10. cursor' # None => floor' \in Int /\ cursor'.last_read <= clock
  BY <1>1 DEF LegacyInv
<1> QED BY <1>1, <1>5, <1>6, <1>7, <1>8, <1>9, <1>10, GoesOn

LEMMA LoadCursorLegacy ==
  ASSUME LegacyInv, NEW r \in Reader, LoadCursor(r) PROVE LegacyInv'
<1>1. /\ UNCHANGED <<track, cursor, audits, mode, now, fresh, received, printed, floor,
                     reads, crashes, interrupts>>
      /\ pc[r] = "timed" /\ LocalTypeOK /\ TypeOK /\ snap' = [snap EXCEPT ![r] = cursor]
      /\ base' = [base EXCEPT ![r] = floor] /\ Goto(r, "loaded")
  BY LocalTyped DEF LoadCursor, LegacyInv, bounds
<1>2. /\ pc' \in [Reader -> Labels] /\ pc'[r] = "loaded"
      /\ \A q \in Reader \ {r} : pc'[q] = pc[q]
  BY <1>1, GotoStep DEF Labels
<1>3. /\ snap' \in [Reader -> Cursor \cup {None}] /\ snap'[r] = cursor
      /\ base' \in [Reader -> Int \cup {None}] /\ base'[r] = floor
      /\ \A q \in Reader \ {r} : snap'[q] = snap[q] /\ base'[q] = base[q]
  BY <1>1 DEF LocalTypeOK, TypeOK
<1>4. TypeOK'
  BY <1>1, <1>2, <1>3 DEF TypeOK, Labels, track, TrackTypeOK
<1>5. KeepsOthers(r)
  BY <1>1, <1>2, <1>3 DEF KeepsOthers
<1>6. Shape(r)'
  BY <1>1, <1>2, <1>3 DEF LegacyInv, Shape, Timed, HasLoaded, track
<1>7. Audited'
  BY <1>1, <1>2, LegacyAssumption DEF LegacyInv, Audited
<1>8. \A e \in Event : Enveloped(e, r)'
  BY <1>1, OwesNothing
<1>9. cursor' # None => floor' \in Int /\ cursor'.last_read <= clock
  BY <1>1 DEF LegacyInv
<1> QED BY <1>1, <1>4, <1>5, <1>6, <1>7, <1>8, <1>9, GoesOn

(* What the window read returns.                                           *)
LEMMA WindowRead ==
  ASSUME LegacyInv, NEW r \in Reader, ReadWindow(r)
  PROVE  /\ UNCHANGED <<track, cursor, audits, mode, now, snap, base, printed, floor,
                        reads, crashes, interrupts>>
         /\ pc[r] = "loaded" /\ mode[r] \in Mode
         /\ pc' \in [Reader -> Labels] /\ pc'[r] = Handoff(r)
         /\ fresh' \in [Reader -> Seq(Event)]
         /\ Elements(fresh'[r]) = Window(WindowStart(r), now[r]) \ Elements(Seen(r))
         /\ Elements(fresh'[r]) \subseteq Event
         /\ received' \in [Event -> SUBSET (Reader \X Mode)]
         /\ \A e \in Event : received'[e] = IF e \in Elements(fresh'[r])
                                            THEN received[e] \cup {<<r, mode[r]>>}
                                            ELSE received[e]
         /\ KeepsOthers(r)
<1>1. /\ UNCHANGED <<track, cursor, audits, mode, now, snap, base, printed, floor,
                     reads, crashes, interrupts>>
      /\ pc[r] = "loaded" /\ LocalTypeOK /\ TypeOK /\ Goto(r, Handoff(r))
      /\ mode[r] \in Mode
  BY LocalTyped DEF ReadWindow, LegacyInv, bounds, Shape
<1>2. /\ pc' \in [Reader -> Labels] /\ pc'[r] = Handoff(r)
      /\ \A q \in Reader \ {r} : pc'[q] = pc[q]
  BY <1>1, GotoStep DEF Labels, Handoff
<1> DEFINE S == Window(WindowStart(r), now[r]) \ Elements(Seen(r))
<1>3. PICK s \in NewestLast(S) :
        /\ fresh' = [fresh EXCEPT ![r] = s]
        /\ received' = [e \in Event |->
             IF e \in Elements(s) THEN received[e] \cup {<<r, mode[r]>>} ELSE received[e]]
  BY DEF ReadWindow
<1>4. S \in SUBSET Event
  BY <1>1 DEF Window, TypeOK, TrackTypeOK
<1> HIDE DEF S
<1>5. s \in Seq(Event) /\ Elements(s) = S
  BY <1>3, <1>4, ListingOfSet
<1>6. /\ fresh' \in [Reader -> Seq(Event)] /\ fresh'[r] = s
      /\ \A q \in Reader \ {r} : fresh'[q] = fresh[q]
  BY <1>1, <1>3, <1>5 DEF LocalTypeOK
<1>7. received' \in [Event -> SUBSET (Reader \X Mode)]
  BY <1>1, <1>3 DEF TypeOK
<1>8. KeepsOthers(r)
  BY <1>1, <1>2, <1>6 DEF KeepsOthers
<1> QED BY <1>1, <1>2, <1>3, <1>4, <1>5, <1>6, <1>7, <1>8 DEF S

LEMMA ReadWindowLegacy ==
  ASSUME LegacyInv, NEW r \in Reader, ReadWindow(r) PROVE LegacyInv'
<1>1. /\ UNCHANGED <<track, cursor, audits, mode, now, snap, base, printed, floor,
                     reads, crashes, interrupts>>
      /\ pc[r] = "loaded" /\ mode[r] \in Mode
      /\ pc' \in [Reader -> Labels] /\ pc'[r] = Handoff(r)
      /\ fresh' \in [Reader -> Seq(Event)]
      /\ Elements(fresh'[r]) \subseteq Event
      /\ received' \in [Event -> SUBSET (Reader \X Mode)]
      /\ \A e \in Event : received'[e] = IF e \in Elements(fresh'[r])
                                         THEN received[e] \cup {<<r, mode[r]>>}
                                         ELSE received[e]
      /\ KeepsOthers(r)
  BY WindowRead
<1>2. TypeOK'
  BY <1>1 DEF LegacyInv, TypeOK, Labels, track, TrackTypeOK
<1>3. Shape(r)'
  BY <1>1 DEF LegacyInv, Shape, Timed, HasLoaded, Handoff, track
<1>4. Audited'
  <2>1. ASSUME NEW q \in Foreign, pc'[q] \notin {"idle", "auditing"} PROVE q \in audits'
    <3>1. pc[q] \notin {"idle", "auditing"}
      BY <1>1, <2>1, LegacyAssumption DEF KeepsOthers
    <3> QED BY <1>1, <3>1 DEF LegacyInv, Audited
  <2>2. ASSUME NEW e \in Event, NEW read \in received'[e], read[1] \in Foreign
        PROVE  read[1] \in audits'
    <3>1. CASE read \in received[e]
      BY <1>1, <2>2, <3>1 DEF LegacyInv, Audited
    <3>2. CASE read = <<r, mode[r]>>
      <4>1. read[1] = r
        BY <3>2
      <4> QED BY <1>1, <2>2, <4>1 DEF LegacyInv, Audited
    <3> QED BY <1>1, <2>2, <3>1, <3>2
  <2> QED BY <2>1, <2>2 DEF Audited
<1>5. ASSUME NEW e \in Event PROVE Enveloped(e, r)'
  <2>1. SUFFICES ASSUME <<r, "json">> \in received'[e] PROVE Enveloped(e, r)'
    BY DEF Enveloped
  <2>2. CASE <<r, "json">> \in received[e]
    <3>1. Enveloped(e, r)
      BY DEF LegacyInv
    <3> QED BY <1>1, <2>2, <3>1 DEF Enveloped
  <2>3. CASE <<r, "json">> \notin received[e]
    <3>1. e \in Elements(fresh'[r]) /\ mode[r] = "json"
      BY <1>1, <2>1, <2>3
    <3> QED BY <1>1, <3>1 DEF Enveloped, Handoff
  <2> QED BY <2>2, <2>3
<1>6. \A e \in Event, q \in Reader \ {r} :
        <<q, "json">> \in received'[e] => <<q, "json">> \in received[e]
  <2> SUFFICES ASSUME NEW e \in Event, NEW q \in Reader \ {r},
                      <<q, "json">> \in received'[e]
               PROVE  <<q, "json">> \in received[e]
    OBVIOUS
  <2>1. <<q, "json">> # <<r, mode[r]>>
    OBVIOUS
  <2>2. received'[e] \subseteq received[e] \cup {<<r, mode[r]>>}
    BY <1>1
  <2> QED BY <2>1, <2>2
<1>7. cursor' # None => floor' \in Int /\ cursor'.last_read <= clock
  BY <1>1 DEF LegacyInv
<1> QED BY <1>1, <1>2, <1>3, <1>4, <1>5, <1>6, <1>7, GoesOn

(* A reader that gives up, or dies.                                        *)
LEMMA GivesUpLegacy ==
  ASSUME LegacyInv, NEW r \in Reader, AuditFails(r) \/ ReadFails(r) \/ Crash(r)
  PROVE  LegacyInv'
<1>1. /\ UNCHANGED <<track, cursor, audits, received, printed, floor, reads, interrupts>>
      /\ Gone(r) /\ LocalTypeOK /\ TypeOK /\ crashes' \in 0..MaxCrash /\ crashes <= crashes'
      /\ crashes' > 0 \/ pc[r] \notin {"saving", "enveloping"}
  BY LocalTyped, LegacyAssumption DEF AuditFails, ReadFails, Crash, LegacyInv, bounds, TypeOK
<1>2. LocalTypeOK'
  BY <1>1, GoneStep
<1>3. TypeOK'
  BY <1>1, <1>2 DEF TypeOK, LocalTypeOK, Labels, track, TrackTypeOK
<1>4. cursor' # None => floor' \in Int /\ cursor'.last_read <= clock
  BY <1>1 DEF LegacyInv
<1> QED BY <1>1, <1>3, <1>4, GoneKeeps

LEMMA ShowEnvelopeLegacy ==
  ASSUME LegacyInv, NEW r \in Reader, ShowEnvelope(r) PROVE LegacyInv'
<1>1. /\ UNCHANGED <<track, cursor, audits, received, floor, reads, crashes, interrupts>>
      /\ Gone(r) /\ LocalTypeOK /\ TypeOK
      /\ printed' = printed \cup Elements(fresh[r])
  BY LocalTyped DEF ShowEnvelope, LegacyInv, bounds
<1>2. LocalTypeOK'
  BY <1>1, GoneStep
<1>3. Elements(fresh[r]) \subseteq Event
  BY <1>1, ElementsInSet DEF LocalTypeOK
<1>4. TypeOK' /\ crashes <= crashes'
  BY <1>1, <1>2, <1>3, LegacyAssumption
     DEF TypeOK, LocalTypeOK, Labels, track, TrackTypeOK
<1>5. cursor' # None => floor' \in Int /\ cursor'.last_read <= clock
  BY <1>1 DEF LegacyInv
<1> QED BY <1>1, <1>4, <1>5, GoneKeeps

(* Text is printed, all of it or, interrupted, a part.                     *)
LEMMA ShownText ==
  ASSUME LegacyInv, NEW r \in Reader, ShowText(r) \/ ShowInterrupted(r)
  PROVE  /\ UNCHANGED <<track, cursor, audits, mode, now, snap, base, fresh, received, floor,
                        reads, crashes>>
         /\ pc[r] = "printing" /\ KeepsOthers(r)
         /\ pc' \in [Reader -> Labels] /\ pc'[r] = "saving"
         /\ printed' \in SUBSET Event /\ printed \subseteq printed'
         /\ interrupts' \in 0..MaxInterrupt /\ interrupts <= interrupts'
         /\ interrupts' > 0 \/ Elements(fresh[r]) \subseteq printed'
<1>1. /\ UNCHANGED <<track, cursor, audits, mode, now, snap, base, fresh, received, floor,
                     reads, crashes>>
      /\ pc[r] = "printing" /\ LocalTypeOK /\ TypeOK /\ Goto(r, "saving")
  BY LocalTyped DEF ShowText, ShowInterrupted, LegacyInv, bounds
<1>2. /\ pc' \in [Reader -> Labels] /\ pc'[r] = "saving"
      /\ \A q \in Reader \ {r} : pc'[q] = pc[q]
  BY <1>1, GotoStep DEF Labels
<1>3. KeepsOthers(r)
  BY <1>1, <1>2 DEF KeepsOthers
<1>4. fresh[r] \in Seq(Event) /\ Elements(fresh[r]) \subseteq Event
  BY <1>1, ElementsInSet DEF LocalTypeOK
<1>5. /\ printed' \in SUBSET Event /\ printed \subseteq printed'
      /\ interrupts' \in 0..MaxInterrupt /\ interrupts <= interrupts'
      /\ interrupts' > 0 \/ Elements(fresh[r]) \subseteq printed'
  <2>1. CASE ShowText(r)
    BY <1>1, <1>4, <2>1, LegacyAssumption DEF ShowText, bounds, TypeOK
  <2>2. CASE ShowInterrupted(r)
    <3>1. PICK k \in 0..Len(fresh[r]) :
             printed' = printed \cup Elements(SubSeq(fresh[r], 1, k))
      BY <2>2 DEF ShowInterrupted
    <3>2. SubSeq(fresh[r], 1, k) \in Seq(Event)
      BY <1>4
    <3>3. Elements(SubSeq(fresh[r], 1, k)) \subseteq Event
      BY <3>2, ElementsInSet
    <3> QED BY <1>1, <2>2, <3>1, <3>3, LegacyAssumption DEF ShowInterrupted, TypeOK
  <2> QED BY <2>1, <2>2
<1> QED BY <1>1, <1>2, <1>3, <1>5

LEMMA ShowTextLegacy ==
  ASSUME LegacyInv, NEW r \in Reader, ShowText(r) \/ ShowInterrupted(r) PROVE LegacyInv'
<1>1. /\ UNCHANGED <<track, cursor, audits, mode, now, snap, base, fresh, received, floor,
                     reads, crashes>>
      /\ pc[r] = "printing" /\ KeepsOthers(r)
      /\ pc' \in [Reader -> Labels] /\ pc'[r] = "saving"
      /\ printed' \in SUBSET Event /\ printed \subseteq printed'
      /\ interrupts' \in 0..MaxInterrupt
  BY ShownText
<1>2. TypeOK'
  BY <1>1 DEF LegacyInv, TypeOK, Labels, track, TrackTypeOK
<1>3. Shape(r)'
  BY <1>1 DEF LegacyInv, Shape, Timed, HasLoaded, track
<1>4. Audited'
  BY <1>1, LegacyAssumption DEF LegacyInv, Audited, KeepsOthers
<1>5. \A e \in Event : Enveloped(e, r)'
  BY <1>1, OwesNothing
<1>6. cursor' # None => floor' \in Int /\ cursor'.last_read <= clock
  BY <1>1 DEF LegacyInv
<1> QED BY <1>1, <1>2, <1>3, <1>4, <1>5, <1>6, GoesOn

(* Whether the save landed or not, the reader is over, or its envelope is  *)
(* due.                                                                    *)
LEMMA AfterSaveLegacy ==
  ASSUME LegacyInv, NEW r \in Reader, pc[r] = "saving", AfterSave(r),
         UNCHANGED <<track, audits, received, printed, bounds>>,
         cursor' \in Cursor \cup {None}, floor' \in Int \cup {None},
         cursor' # None => floor' \in Int /\ cursor'.last_read <= clock
  PROVE  LegacyInv'
<1>1. LocalTypeOK /\ TypeOK /\ UNCHANGED <<reads, crashes, interrupts>>
  BY LocalTyped DEF LegacyInv, bounds
<1>2. CASE mode[r] = "json"
  <2>1. UNCHANGED <<mode, now, snap, base, fresh>> /\ Goto(r, "enveloping")
    BY <1>2 DEF AfterSave
  <2>2. /\ pc' \in [Reader -> Labels] /\ pc'[r] = "enveloping"
        /\ \A q \in Reader \ {r} : pc'[q] = pc[q]
    BY <1>1, <2>1, GotoStep DEF Labels
  <2>3. TypeOK'
    BY <1>1, <2>1, <2>2 DEF TypeOK, Labels, track, TrackTypeOK
  <2>4. KeepsOthers(r)
    BY <2>1, <2>2 DEF KeepsOthers
  <2>5. Shape(r)'
    BY <2>1, <2>2 DEF LegacyInv, Shape, Timed, HasLoaded, track
  <2>6. Audited'
    BY <2>2, LegacyAssumption DEF LegacyInv, Audited
  <2>7. ASSUME NEW e \in Event PROVE Enveloped(e, r)'
    <3>1. Enveloped(e, r)
      BY DEF LegacyInv
    <3> QED BY <1>1, <1>2, <2>1, <2>2, <3>1 DEF Enveloped
  <2> QED BY <1>1, <2>3, <2>4, <2>5, <2>6, <2>7, GoesOn
<1>3. CASE mode[r] # "json"
  <2>1. Gone(r)
    BY <1>3 DEF AfterSave
  <2>2. LocalTypeOK'
    BY <1>1, <2>1, GoneStep
  <2>3. TypeOK' /\ crashes <= crashes'
    BY <1>1, <2>2, LegacyAssumption DEF TypeOK, LocalTypeOK, Labels, track, TrackTypeOK
  <2> QED BY <1>1, <1>3, <2>1, <2>3, GoneKeeps
<1> QED BY <1>2, <1>3

(* What a save writes.                                                     *)
LEMMA CursorSaved ==
  ASSUME LegacyInv, NEW r \in Reader, Save(r)
  PROVE  /\ cursor' \in Cursor /\ floor' \in Int /\ cursor'.last_read = now[r]
         /\ now[r] \in Int /\ now[r] <= clock /\ WindowStart(r) \in Int
         /\ floor' = IF snap[r] = None THEN WindowStart(r) ELSE base[r]
         /\ Elements(cursor'.seen_ids) \subseteq Elements(Seen(r)) \cup Elements(fresh[r])
<1>1. LocalTypeOK /\ TypeOK /\ pc[r] = "saving" /\ Shape(r)
  BY LocalTyped DEF LegacyInv, Save
<1>2. now[r] \in Int /\ now[r] <= clock /\ (snap[r] # None => base[r] \in Int)
  BY <1>1 DEF Shape, Timed, HasLoaded
<1>3. Seen(r) \in Seq(Event) /\ fresh[r] \in Seq(Event) /\ SeenCap \in Nat
  BY <1>1, LegacyAssumption DEF Seen, LocalTypeOK, Cursor
<1>4. WindowStart(r) \in Int
  BY <1>1, <1>2, LegacyAssumption DEF WindowStart, LocalTypeOK, Cursor
<1>5. /\ Seen(r) \o fresh[r] \in Seq(Event)
      /\ Elements(Seen(r) \o fresh[r]) = Elements(Seen(r)) \cup Elements(fresh[r])
  BY <1>3, ElementsOfConcat
<1>6. /\ LastN(Seen(r) \o fresh[r], SeenCap) \in Seq(Event)
      /\ Elements(LastN(Seen(r) \o fresh[r], SeenCap)) \subseteq Elements(Seen(r) \o fresh[r])
  BY <1>3, <1>5, LastNForgets
<1>7. /\ cursor' = [last_read |-> now[r], seen_ids |-> LastN(Seen(r) \o fresh[r], SeenCap)]
      /\ floor' = IF snap[r] = None THEN WindowStart(r) ELSE base[r]
  BY DEF Save
<1> QED BY <1>2, <1>4, <1>5, <1>6, <1>7 DEF Cursor

LEMMA SaveLegacy ==
  ASSUME LegacyInv, NEW r \in Reader, Save(r) \/ SaveFails(r) PROVE LegacyInv'
<1>1. CASE Save(r)
  <2>1. /\ cursor' \in Cursor \cup {None} /\ floor' \in Int \cup {None}
        /\ cursor' # None => floor' \in Int /\ cursor'.last_read <= clock
    BY <1>1, CursorSaved
  <2> QED BY <1>1, <2>1, AfterSaveLegacy DEF Save
<1>2. CASE SaveFails(r)
  <2>1. /\ cursor' \in Cursor \cup {None} /\ floor' \in Int \cup {None}
        /\ cursor' # None => floor' \in Int /\ cursor'.last_read <= clock
    BY <1>2 DEF SaveFails, LegacyInv, TypeOK
  <2> QED BY <1>2, <2>1, AfterSaveLegacy DEF SaveFails
<1> QED BY <1>1, <1>2

LEMMA StutterLegacy == ASSUME LegacyInv, UNCHANGED vars PROVE LegacyInv'
<1>1. UNCHANGED <<clock, sent, at, visible, cursor, audits, pc, mode, now, snap, base, fresh,
                  received, printed, floor, reads, crashes, interrupts>>
  BY DEF vars, track, local, bounds
<1>2. TypeOK' /\ Audited'
  BY <1>1 DEF LegacyInv, TypeOK, TrackTypeOK, Audited
<1>3. ASSUME NEW r \in Reader PROVE Shape(r)' /\ \A e \in Event : Enveloped(e, r)'
  BY <1>1 DEF LegacyInv, Shape, Timed, HasLoaded, Enveloped
<1> QED BY <1>1, <1>2, <1>3 DEF LegacyInv

LEMMA NextLegacy == LegacyInv /\ [Next]_vars => LegacyInv'
<1> SUFFICES ASSUME LegacyInv, [Next]_vars PROVE LegacyInv'
    OBVIOUS
<1>1. ASSUME NEW r \in Reader, ReaderStep(r) PROVE LegacyInv'
  BY <1>1, BeginLegacy, AuditLandsLegacy, TakeNowLegacy, LoadCursorLegacy, ReadWindowLegacy,
     GivesUpLegacy, ShowTextLegacy, SaveLegacy, ShowEnvelopeLegacy, StutterLegacy
     DEF ReaderStep, Peek
<1> QED BY <1>1, TrackStepLegacy, StutterLegacy DEF Next

LEMMA LegacyInvariant == Spec => []LegacyInv
BY InitLegacy, NextLegacy, PTL DEF Spec

-----------------------------------------------------------------------------
(* Coverage.                                                               *)

(* What is accounted for stays so.                                         *)
LEMMA AccountedStays ==
  ASSUME \A e \in Event : received[e] \subseteq received'[e], printed \subseteq printed',
         interrupts \in Nat, interrupts' \in Nat, interrupts <= interrupts',
         NEW e \in Event, Accounted(e)
  PROVE  Accounted(e)'
<1>1. received[e] \subseteq received'[e]
  OBVIOUS
<1>2. interrupts > 0 => interrupts' > 0
  OBVIOUS
<1> QED BY <1>1, <1>2 DEF Accounted

(* So the claims of the readers that do not move stay true.                *)
LEMMA ClaimsStay ==
  ASSUME LegacyInv, ClaimInv, NEW r \in Reader, KeepsOthers(r), track' = track,
         \A e \in Event : received[e] \subseteq received'[e], printed \subseteq printed',
         interrupts' \in Nat, interrupts <= interrupts'
  PROVE  /\ Indexed'
         /\ \A e \in Event : Accounted(e) => Accounted(e)'
         /\ \A low, high : Covers(low, high) => Covers(low, high)'
         /\ \A s \in Seq(Event) : AllAccounted(s) => AllAccounted(s)'
         /\ \A q \in Reader \ {r} : LoadedClaim(q)' /\ ReadClaim(q)'
<1>1. /\ TypeOK /\ interrupts \in Nat /\ sent \subseteq Event
      /\ UNCHANGED <<clock, sent, at, visible>>
  BY LegacyAssumption DEF LegacyInv, TypeOK, TrackTypeOK, track
<1>2. Indexed'
  BY <1>1 DEF ClaimInv, Indexed
<1>3. \A e \in Event : Accounted(e) => Accounted(e)'
  BY <1>1, AccountedStays
<1>4. ASSUME NEW low, NEW high, Covers(low, high) PROVE Covers(low, high)'
  BY <1>1, <1>3, <1>4 DEF Covers
<1>5. ASSUME NEW s \in Seq(Event), AllAccounted(s) PROVE AllAccounted(s)'
  BY <1>3, <1>5, ElementsInSet DEF AllAccounted
<1>6. ASSUME NEW q \in Reader \ {r} PROVE LoadedClaim(q)' /\ ReadClaim(q)'
  <2>1. /\ pc'[q] = pc[q] /\ mode'[q] = mode[q] /\ now'[q] = now[q]
        /\ snap'[q] = snap[q] /\ base'[q] = base[q] /\ fresh'[q] = fresh[q]
        /\ LoadedClaim(q) /\ ReadClaim(q) /\ fresh[q] \in Seq(Event)
        /\ snap[q] # None => snap[q].seen_ids \in Seq(Event)
    BY <1>1, <1>6 DEF KeepsOthers, ClaimInv, TypeOK, Cursor
  <2>2. PICK b, n, k, f : /\ b = base[q] /\ n = snap[q].last_read /\ k = snap[q].seen_ids
                          /\ f = fresh[q]
    OBVIOUS
  <2>3. LoadedClaim(q)'
    <3>1. SUFFICES ASSUME HasLoaded(q)', snap'[q] # None PROVE LoadedClaim(q)'
      BY DEF LoadedClaim
    <3>2. Covers(b, n) /\ AllAccounted(k)
      BY <2>1, <2>2, <3>1 DEF LoadedClaim, HasLoaded
    <3>3. Covers(b, n)' /\ AllAccounted(k)'
      BY <1>4, <1>5, <2>1, <2>2, <3>1, <3>2
    <3> QED BY <2>1, <2>2, <3>3 DEF LoadedClaim, Covers, AllAccounted
  <2>4. ReadClaim(q)'
    <3>1. SUFFICES ASSUME HasRead(q)' PROVE ReadClaim(q)'
      BY DEF ReadClaim
    <3>2. HasRead(q) /\ WindowStart(q)' = WindowStart(q)
      BY <2>1, <3>1 DEF HasRead, WindowStart
    <3>3. ASSUME NEW e \in sent', WindowStart(q)' <= at'[e], at'[e] < now'[q] - Skew
          PROVE  Accounted(e)' \/ e \in Elements(fresh[q])'
      <4>1. Accounted(e) \/ e \in Elements(fresh[q])
        BY <1>1, <2>1, <3>2, <3>3 DEF ReadClaim
      <4> QED BY <1>1, <1>3, <2>1, <4>1
    <3>4. ASSUME NEW e \in Elements(fresh[q])' PROVE <<q, mode'[q]>> \in received'[e]
      <4>1. e \in Elements(fresh[q]) /\ e \in Event
        BY <2>1, ElementsInSet
      <4>2. <<q, mode[q]>> \in received[e]
        BY <3>2, <4>1, <2>1 DEF ReadClaim
      <4> QED BY <2>1, <4>1, <4>2
    <3>5. pc'[q] # "printing" => AllAccounted(fresh[q])'
      <4>1. ASSUME pc'[q] # "printing" PROVE AllAccounted(f)'
        BY <1>5, <2>1, <2>2, <3>2, <4>1 DEF ReadClaim
      <4> QED BY <2>1, <2>2, <4>1 DEF AllAccounted
    <3> QED BY <3>3, <3>4, <3>5 DEF ReadClaim
  <2> QED BY <2>3, <2>4
<1> QED BY <1>2, <1>3, <1>4, <1>5, <1>6

(* A claim about the cursor document outlasts every step that does not     *)
(* write it.                                                               *)
LEMMA CursorClaimStays ==
  ASSUME LegacyInv, ClaimInv, UNCHANGED <<cursor, floor>>,
         \A low, high : Covers(low, high) => Covers(low, high)',
         \A s \in Seq(Event) : AllAccounted(s) => AllAccounted(s)'
  PROVE  cursor' # None => Covers(floor, cursor.last_read)' /\ AllAccounted(cursor.seen_ids)'
<1> SUFFICES ASSUME cursor # None
             PROVE  Covers(floor, cursor.last_read)' /\ AllAccounted(cursor.seen_ids)'
    OBVIOUS
<1>1. PICK low, high, s : low = floor /\ high = cursor.last_read /\ s = cursor.seen_ids
  OBVIOUS
<1>2. s \in Seq(Event) /\ Covers(low, high) /\ AllAccounted(s)
  BY <1>1 DEF LegacyInv, TypeOK, Cursor, ClaimInv
<1>3. Covers(low, high)' /\ AllAccounted(s)'
  BY <1>2
<1> QED BY <1>1, <1>3 DEF Covers, AllAccounted

(* A reader without a cursor in hand claims nothing.                       *)
LEMMA NothingClaimed ==
  ASSUME LegacyInv, ClaimInv, NEW r \in Reader, KeepsOthers(r), track' = track,
         UNCHANGED <<cursor, floor, received, interrupts>>, printed \subseteq printed',
         pc'[r] \in {"idle", "auditing", "begun", "timed"}
  PROVE  ClaimInv'
<1>1. interrupts' \in Nat /\ interrupts <= interrupts'
  BY LegacyAssumption DEF LegacyInv, TypeOK
<1>2. /\ Indexed'
      /\ \A low, high : Covers(low, high) => Covers(low, high)'
      /\ \A s \in Seq(Event) : AllAccounted(s) => AllAccounted(s)'
      /\ \A q \in Reader \ {r} : LoadedClaim(q)' /\ ReadClaim(q)'
  BY <1>1, ClaimsStay
<1>3. cursor' # None => Covers(floor, cursor.last_read)' /\ AllAccounted(cursor.seen_ids)'
  BY <1>2, CursorClaimStays
<1>4. LoadedClaim(r)' /\ ReadClaim(r)'
  BY DEF LoadedClaim, ReadClaim, HasLoaded, HasRead
<1> QED BY <1>2, <1>3, <1>4 DEF ClaimInv

LEMMA EmptyHandedClaims ==
  ASSUME LegacyInv, ClaimInv, NEW r \in Reader,
         \/ \E m \in Mode : Begin(r, m)
         \/ AuditLands(r) \/ TakeNow(r)
  PROVE  ClaimInv'
<1>1. LocalTypeOK
  BY LocalTyped
<1>2. CASE \E m \in Mode : Begin(r, m)
  <2>1. /\ UNCHANGED <<track, cursor, floor, now, snap, base, fresh, received, interrupts, printed>>
        /\ KeepsOthers(r) /\ pc'[r] \in {"auditing", "begun"}
    BY <1>1, <1>2 DEF Begin, Goto, KeepsOthers, LocalTypeOK
  <2> QED BY <2>1, NothingClaimed
<1>3. CASE AuditLands(r)
  <2>1. /\ UNCHANGED <<track, cursor, floor, received, interrupts, printed>>
        /\ KeepsOthers(r) /\ pc'[r] = "begun"
    BY <1>1, <1>3 DEF AuditLands, Goto, KeepsOthers, LocalTypeOK, bounds
  <2> QED BY <2>1, NothingClaimed
<1>4. CASE TakeNow(r)
  <2>1. /\ UNCHANGED <<track, cursor, floor, received, interrupts, printed>>
        /\ KeepsOthers(r) /\ pc'[r] = "timed"
    BY <1>1, <1>4 DEF TakeNow, Goto, KeepsOthers, LocalTypeOK, bounds
  <2> QED BY <2>1, NothingClaimed
<1> QED BY <1>2, <1>3, <1>4

LEMMA OverClaims ==
  ASSUME LegacyInv, ClaimInv, NEW r \in Reader,
         AuditFails(r) \/ ReadFails(r) \/ Crash(r) \/ ShowEnvelope(r)
  PROVE  ClaimInv'
<1>1. /\ UNCHANGED <<track, cursor, floor, received, interrupts>>
      /\ printed \subseteq printed' /\ Gone(r)
  BY DEF AuditFails, ReadFails, Crash, ShowEnvelope, bounds
<1>2. KeepsOthers(r) /\ pc'[r] = "idle"
  BY <1>1, LocalTyped, GoneStep
<1> QED BY <1>1, <1>2, NothingClaimed

(* The loaded cursor's claim is the document's.                            *)
LEMMA LoadCursorClaims ==
  ASSUME LegacyInv, ClaimInv, NEW r \in Reader, LoadCursor(r) PROVE ClaimInv'
<1>1. /\ UNCHANGED <<track, cursor, floor, mode, now, fresh, received, interrupts, printed>>
      /\ KeepsOthers(r) /\ pc'[r] = "loaded" /\ snap'[r] = cursor /\ base'[r] = floor
  BY LocalTyped DEF LoadCursor, Goto, KeepsOthers, LocalTypeOK, bounds
<1>2. interrupts' \in Nat /\ interrupts <= interrupts'
  BY <1>1, LegacyAssumption DEF LegacyInv, TypeOK
<1>3. /\ Indexed'
      /\ \A low, high : Covers(low, high) => Covers(low, high)'
      /\ \A s \in Seq(Event) : AllAccounted(s) => AllAccounted(s)'
      /\ \A q \in Reader \ {r} : LoadedClaim(q)' /\ ReadClaim(q)'
  BY <1>1, <1>2, ClaimsStay
<1>4. cursor' # None => Covers(floor, cursor.last_read)' /\ AllAccounted(cursor.seen_ids)'
  BY <1>1, <1>3, CursorClaimStays
<1>5. LoadedClaim(r)' /\ ReadClaim(r)'
  BY <1>1, <1>4 DEF LoadedClaim, ReadClaim, HasRead, Covers, AllAccounted
<1> QED BY <1>3, <1>4, <1>5 DEF ClaimInv

(* The window is old enough to be complete, so an event of it that is not  *)
(* new is one the loaded cursor knows.                                     *)
LEMMA ReadWindowClaims ==
  ASSUME LegacyInv, ClaimInv, NEW r \in Reader, ReadWindow(r) PROVE ClaimInv'
<1>1. /\ UNCHANGED <<track, cursor, audits, mode, now, snap, base, printed, floor,
                     reads, crashes, interrupts>>
      /\ pc[r] = "loaded" /\ mode[r] \in Mode
      /\ pc'[r] = Handoff(r)
      /\ Elements(fresh'[r]) = Window(WindowStart(r), now[r]) \ Elements(Seen(r))
      /\ Elements(fresh'[r]) \subseteq Event
      /\ \A e \in Event : received'[e] = IF e \in Elements(fresh'[r])
                                         THEN received[e] \cup {<<r, mode[r]>>}
                                         ELSE received[e]
      /\ KeepsOthers(r)
  BY WindowRead
<1>2. interrupts' \in Nat /\ interrupts <= interrupts'
  BY <1>1, LegacyAssumption DEF LegacyInv, TypeOK
<1>3. \A e \in Event : received[e] \subseteq received'[e]
  BY <1>1
<1>4. /\ Indexed'
      /\ \A e \in Event : Accounted(e) => Accounted(e)'
      /\ \A low, high : Covers(low, high) => Covers(low, high)'
      /\ \A s \in Seq(Event) : AllAccounted(s) => AllAccounted(s)'
      /\ \A q \in Reader \ {r} : LoadedClaim(q)' /\ ReadClaim(q)'
  BY <1>1, <1>2, <1>3, ClaimsStay
<1>5. cursor' # None => Covers(floor, cursor.last_read)' /\ AllAccounted(cursor.seen_ids)'
  BY <1>1, <1>4, CursorClaimStays
<1>6. /\ TypeOK /\ sent \subseteq Event /\ UNCHANGED <<clock, sent, at, visible>>
      /\ clock \in Nat /\ now[r] \in Int /\ now[r] <= clock /\ WindowStart(r) \in Int
    <2>1. now[r] \in Int /\ now[r] <= clock
      BY <1>1 DEF LegacyInv, Shape, Timed
    <2>2. WindowStart(r) \in Int
      BY <2>1, LegacyAssumption DEF LegacyInv, TypeOK, Cursor, WindowStart
    <2> QED BY <1>1, <2>1, <2>2 DEF LegacyInv, TypeOK, TrackTypeOK, track
<1>7. HasLoaded(r)
  BY <1>1 DEF HasLoaded
<1>8. LoadedClaim(r)'
  <2>1. SUFFICES ASSUME snap[r] # None PROVE LoadedClaim(r)'
    BY <1>1 DEF LoadedClaim
  <2>2. PICK b, n, k : b = base[r] /\ n = snap[r].last_read /\ k = snap[r].seen_ids
    OBVIOUS
  <2>3. Covers(b, n) /\ AllAccounted(k) /\ k \in Seq(Event)
    BY <1>6, <1>7, <2>1, <2>2 DEF ClaimInv, LoadedClaim, TypeOK, Cursor
  <2>4. Covers(b, n)' /\ AllAccounted(k)'
    BY <1>4, <2>3
  <2> QED BY <1>1, <2>2, <2>4 DEF LoadedClaim, Covers, AllAccounted
<1>9. ASSUME NEW e \in Elements(Seen(r)) PROVE Accounted(e) /\ e \in Event
  <2>1. snap[r] # None /\ Seen(r) = snap[r].seen_ids
    BY <1>9 DEF Seen, Elements
  <2>2. e \in Event
    BY <1>6, <1>9, <2>1, ElementsInSet DEF TypeOK, Cursor
  <2> QED BY <1>7, <1>9, <2>1, <2>2 DEF ClaimInv, LoadedClaim, AllAccounted
<1>10. ASSUME NEW e \in Elements(fresh'[r]) PROVE <<r, mode[r]>> \in received'[e]
  BY <1>1, <1>10
<1>11. ReadClaim(r)'
  <2>1. ASSUME NEW e \in sent, WindowStart(r) <= at[e], at[e] < now[r] - Skew
        PROVE  Accounted(e)' \/ e \in Elements(fresh'[r])
    <3>1. at[e] \in Int /\ MaxLag \in Nat /\ Skew \in Nat /\ MaxLag <= Skew
      BY <1>6, TrackAssumption, LegacyAssumption DEF TypeOK, TrackTypeOK
    <3>2. at[e] + MaxLag < clock /\ at[e] <= now[r]
      BY <1>6, <2>1, <3>1
    <3>3. e \in visible
      BY <1>6, <3>1, <3>2 DEF ClaimInv, Indexed
    <3>4. e \in Window(WindowStart(r), now[r])
      BY <2>1, <3>2, <3>3 DEF Window
    <3> QED BY <1>1, <1>4, <1>9, <3>4
  <2>2. WindowStart(r)' = WindowStart(r)
    BY <1>1 DEF WindowStart
  <2>3. pc'[r] # "printing" => AllAccounted(fresh[r])'
    <3>1. SUFFICES ASSUME pc'[r] # "printing", NEW e \in Elements(fresh'[r]) PROVE Accounted(e)'
      BY DEF AllAccounted
    <3>2. mode[r] = "json"
      BY <1>1, <3>1, LegacyAssumption DEF Handoff
    <3> QED BY <1>10, <3>1, <3>2 DEF Accounted
  <2> QED BY <1>1, <1>6, <1>10, <2>1, <2>2, <2>3 DEF ReadClaim
<1> QED BY <1>4, <1>5, <1>8, <1>11 DEF ClaimInv

(* The printed events are accounted for before the cursor is saved.        *)
LEMMA ShowTextClaims ==
  ASSUME LegacyInv, ClaimInv, NEW r \in Reader, ShowText(r) \/ ShowInterrupted(r)
  PROVE  ClaimInv'
<1>1. /\ UNCHANGED <<track, cursor, audits, mode, now, snap, base, fresh, received, floor,
                     reads, crashes>>
      /\ pc[r] = "printing" /\ KeepsOthers(r)
      /\ pc'[r] = "saving" /\ printed \subseteq printed'
      /\ interrupts' \in 0..MaxInterrupt /\ interrupts <= interrupts'
      /\ interrupts' > 0 \/ Elements(fresh[r]) \subseteq printed'
  BY ShownText
<1>2. interrupts' \in Nat
  BY <1>1, LegacyAssumption
<1>3. \A e \in Event : received[e] \subseteq received'[e]
  BY <1>1
<1>4. /\ Indexed'
      /\ \A e \in Event : Accounted(e) => Accounted(e)'
      /\ \A low, high : Covers(low, high) => Covers(low, high)'
      /\ \A s \in Seq(Event) : AllAccounted(s) => AllAccounted(s)'
      /\ \A q \in Reader \ {r} : LoadedClaim(q)' /\ ReadClaim(q)'
  BY <1>1, <1>2, <1>3, ClaimsStay
<1>5. cursor' # None => Covers(floor, cursor.last_read)' /\ AllAccounted(cursor.seen_ids)'
  BY <1>1, <1>4, CursorClaimStays
<1>6. TypeOK /\ sent \subseteq Event /\ HasLoaded(r) /\ HasRead(r) /\ ReadClaim(r)
      /\ UNCHANGED <<sent, at>>
  BY <1>1 DEF LegacyInv, TypeOK, TrackTypeOK, HasLoaded, HasRead, ClaimInv, track
<1>7. LoadedClaim(r)'
  <2>1. SUFFICES ASSUME snap[r] # None PROVE LoadedClaim(r)'
    BY <1>1 DEF LoadedClaim
  <2>2. PICK b, n, k : b = base[r] /\ n = snap[r].last_read /\ k = snap[r].seen_ids
    OBVIOUS
  <2>3. Covers(b, n) /\ AllAccounted(k) /\ k \in Seq(Event)
    BY <1>6, <2>1, <2>2 DEF ClaimInv, LoadedClaim, TypeOK, Cursor
  <2>4. Covers(b, n)' /\ AllAccounted(k)'
    BY <1>4, <2>3
  <2> QED BY <1>1, <2>2, <2>4 DEF LoadedClaim, Covers, AllAccounted
<1>8. ReadClaim(r)'
  <2>1. WindowStart(r)' = WindowStart(r)
    BY <1>1 DEF WindowStart
  <2>2. ASSUME NEW e \in Elements(fresh[r]) PROVE Accounted(e)'
    <3>1. <<r, mode[r]>> \in received[e]
      BY <1>6, <2>2 DEF ReadClaim
    <3> QED BY <1>1, <2>2, <3>1 DEF Accounted
  <2>3. AllAccounted(fresh[r])'
    BY <1>1, <2>2 DEF AllAccounted
  <2>4. \A e \in sent : WindowStart(r) <= at[e] /\ at[e] < now[r] - Skew =>
          Accounted(e)' \/ e \in Elements(fresh[r])
    BY <1>4, <1>6 DEF ReadClaim
  <2>5. \A e \in Elements(fresh[r]) : <<r, mode[r]>> \in received[e]
    BY <1>6 DEF ReadClaim
  <2> QED BY <1>1, <1>6, <2>1, <2>3, <2>4, <2>5 DEF ReadClaim
<1> QED BY <1>4, <1>5, <1>7, <1>8 DEF ClaimInv

(* What a save claims is the loaded claim and the window, which overlap.   *)
LEMMA SaveClaims ==
  ASSUME LegacyInv, ClaimInv, NEW r \in Reader, Save(r) \/ SaveFails(r) PROVE ClaimInv'
<1>1. /\ UNCHANGED <<track, audits, received, printed, reads, crashes, interrupts>>
      /\ pc[r] = "saving" /\ AfterSave(r) /\ LocalTypeOK /\ TypeOK
  BY LocalTyped DEF Save, SaveFails, bounds, LegacyInv
<1>2. /\ sent \subseteq Event /\ UNCHANGED <<sent, at>> /\ interrupts' \in Nat
      /\ interrupts <= interrupts'
  BY <1>1, LegacyAssumption DEF TypeOK, TrackTypeOK, track
<1>3. /\ \/ pc'[r] = "idle"
         \/ pc'[r] = "enveloping" /\ UNCHANGED <<mode, now, snap, base, fresh>>
      /\ KeepsOthers(r)
  <2>1. CASE mode[r] = "json"
    <3>1. UNCHANGED <<mode, now, snap, base, fresh>> /\ Goto(r, "enveloping")
      BY <1>1, <2>1 DEF AfterSave
    <3>2. pc'[r] = "enveloping" /\ \A q \in Reader \ {r} : pc'[q] = pc[q]
      BY <1>1, <3>1, GotoStep DEF Labels
    <3> QED BY <3>1, <3>2 DEF KeepsOthers
  <2>2. CASE mode[r] # "json"
    BY <1>1, <2>2, GoneStep DEF AfterSave
  <2> QED BY <2>1, <2>2
<1>4. /\ Indexed'
      /\ \A low, high : Covers(low, high) => Covers(low, high)'
      /\ \A s \in Seq(Event) : AllAccounted(s) => AllAccounted(s)'
      /\ \A q \in Reader \ {r} : LoadedClaim(q)' /\ ReadClaim(q)'
  BY <1>1, <1>2, <1>3, ClaimsStay
<1>5. /\ HasLoaded(r) /\ HasRead(r) /\ LoadedClaim(r) /\ ReadClaim(r)
      /\ AllAccounted(fresh[r])
  BY <1>1 DEF HasLoaded, HasRead, ClaimInv, ReadClaim
<1>6. \A e : Accounted(e)' = Accounted(e)
  BY <1>1 DEF Accounted
<1>7. LoadedClaim(r)' /\ ReadClaim(r)'
  <2>1. CASE pc'[r] = "idle"
    BY <2>1 DEF LoadedClaim, ReadClaim, HasLoaded, HasRead
  <2>2. CASE pc'[r] = "enveloping" /\ UNCHANGED <<mode, now, snap, base, fresh>>
    <3>1. LoadedClaim(r)'
      BY <1>2, <1>5, <1>6, <2>2 DEF LoadedClaim, Covers, AllAccounted
    <3>2. WindowStart(r)' = WindowStart(r)
      BY <2>2 DEF WindowStart
    <3>3. ReadClaim(r)'
      BY <1>1, <1>2, <1>5, <1>6, <2>2, <3>2 DEF ReadClaim, AllAccounted
    <3> QED BY <3>1, <3>3
  <2> QED BY <1>3, <2>1, <2>2
<1>8. cursor' # None => Covers(floor, cursor.last_read)' /\ AllAccounted(cursor.seen_ids)'
  <2>1. CASE Save(r)
    <3>1. /\ cursor'.last_read = now[r]
          /\ now[r] \in Int /\ WindowStart(r) \in Int
          /\ floor' = IF snap[r] = None THEN WindowStart(r) ELSE base[r]
          /\ Elements(cursor'.seen_ids) \subseteq Elements(Seen(r)) \cup Elements(fresh[r])
      BY <2>1, CursorSaved
    <3>2. ASSUME NEW e \in sent, floor' <= at[e], at[e] < now[r] - Skew PROVE Accounted(e)
      <4>1. CASE WindowStart(r) <= at[e]
        BY <1>5, <3>2, <4>1 DEF ReadClaim, AllAccounted
      <4>2. CASE ~(WindowStart(r) <= at[e])
        <5>1. snap[r] # None /\ floor' = base[r]
          BY <3>1, <3>2, <4>2
        <5>2. at[e] \in Int /\ snap[r].last_read \in Int
          BY <1>1, <1>2, <5>1 DEF TypeOK, TrackTypeOK, Cursor
        <5>3. at[e] < snap[r].last_read - Skew
          BY <4>2, <5>1, <5>2, LegacyAssumption DEF WindowStart
        <5> QED BY <1>5, <3>2, <5>1, <5>3 DEF LoadedClaim, Covers
      <4> QED BY <4>1, <4>2
    <3>3. ASSUME NEW e \in Elements(cursor'.seen_ids) PROVE Accounted(e)
      <4>1. CASE e \in Elements(fresh[r])
        BY <1>5, <4>1 DEF AllAccounted
      <4>2. CASE e \in Elements(Seen(r))
        BY <1>5, <4>2 DEF Seen, Elements, LoadedClaim, AllAccounted
      <4> QED BY <3>1, <3>3, <4>1, <4>2
    <3> QED BY <1>2, <1>6, <3>1, <3>2, <3>3 DEF Covers, AllAccounted
  <2>2. CASE SaveFails(r)
    BY <1>4, <2>2, CursorClaimStays DEF SaveFails
  <2> QED BY <2>1, <2>2
<1> QED BY <1>4, <1>7, <1>8 DEF ClaimInv

(* New records are dated now or later, behind every claim.                 *)
LEMMA TrackStepClaims ==
  ASSUME Leads \subseteq Nat, LegacyInv, ClaimInv, TrackStep PROVE ClaimInv'
<1>1. /\ UNCHANGED <<cursor, audits, pc, mode, now, snap, base, fresh, received, printed, floor,
                     reads, crashes, interrupts>> /\ TrackNext
      /\ TypeOK /\ TrackTypeOK /\ clock \in Nat /\ sent \subseteq Event
  BY DEF TrackStep, local, bounds, LegacyInv, TypeOK, TrackTypeOK
<1>2. \A e : Accounted(e)' = Accounted(e)
  BY <1>1 DEF Accounted
<1>3. /\ Indexed'
      /\ \A e \in sent' : (e \in sent /\ at'[e] = at[e]) \/ (at'[e] \in Int /\ clock <= at'[e])
  <2>1. ASSUME Tick PROVE Indexed' /\ sent' = sent /\ at' = at
    <3>1. ASSUME NEW e \in sent \ visible PROVE clock + 1 <= at[e] + MaxLag
      <4>1. clock < at[e] + MaxLag /\ at[e] \in Int
        BY <1>1, <2>1, <3>1 DEF Tick, TrackTypeOK
      <4> QED BY <1>1, <4>1, TrackAssumption
    <3> QED BY <2>1, <3>1 DEF Tick, Indexed
  <2>2. ASSUME NEW e \in Event, Index(e) PROVE Indexed' /\ sent' = sent /\ at' = at
    BY <2>2 DEF Index, Indexed, ClaimInv
  <2>3. ASSUME NEW e \in Event, NEW d \in Leads, Emit(e, d)
        PROVE  /\ Indexed'
               /\ \A f \in sent' : \/ f \in sent /\ at'[f] = at[f]
                                   \/ at'[f] \in Int /\ clock <= at'[f]
    <3>1. /\ at' = [at EXCEPT ![e] = clock + d] /\ sent' = sent \cup {e} /\ e \notin sent
          /\ visible' = visible /\ clock' = clock /\ d \in Nat
      BY <2>3 DEF Emit
    <3>2. /\ at'[e] = clock + d
          /\ \A f \in sent : at'[f] = at[f]
      BY <1>1, <3>1 DEF TrackTypeOK
    <3>3. clock + d \in Int /\ clock <= clock + d /\ clock <= clock + d + MaxLag
      BY <1>1, <3>1, TrackAssumption
    <3> QED BY <3>1, <3>2, <3>3 DEF Indexed, ClaimInv
  <2> QED BY <1>1, <2>1, <2>2, <2>3 DEF TrackNext
<1>4. ASSUME NEW e \in sent', NEW high \in Int, high <= clock, at'[e] < high - Skew
      PROVE  e \in sent /\ at'[e] = at[e]
  BY <1>1, <1>3, <1>4, LegacyAssumption
<1>5. ASSUME NEW low, NEW high \in Int, high <= clock, Covers(low, high) PROVE Covers(low, high)'
  BY <1>2, <1>4, <1>5 DEF Covers
<1>6. cursor' # None => Covers(floor, cursor.last_read)' /\ AllAccounted(cursor.seen_ids)'
  <2>1. SUFFICES ASSUME cursor # None
                 PROVE  Covers(floor, cursor.last_read)' /\ AllAccounted(cursor.seen_ids)'
    BY <1>1
  <2>2. PICK low, high : low = floor /\ high = cursor.last_read
    OBVIOUS
  <2>3. high \in Int /\ high <= clock /\ Covers(low, high) /\ AllAccounted(cursor.seen_ids)
    BY <1>1, <2>1, <2>2 DEF LegacyInv, ClaimInv, TypeOK, Cursor
  <2>4. Covers(low, high)'
    BY <1>5, <2>3
  <2> QED BY <1>1, <1>2, <2>2, <2>3, <2>4 DEF Covers, AllAccounted
<1>7. ASSUME NEW r \in Reader PROVE LoadedClaim(r)' /\ ReadClaim(r)'
  <2>1. LoadedClaim(r) /\ ReadClaim(r) /\ Shape(r)
    BY DEF ClaimInv, LegacyInv
  <2>2. LoadedClaim(r)'
    <3>1. SUFFICES ASSUME HasLoaded(r), snap[r] # None PROVE LoadedClaim(r)'
      BY <1>1 DEF LoadedClaim, HasLoaded
    <3>2. PICK low, high : low = base[r] /\ high = snap[r].last_read
      OBVIOUS
    <3>3. /\ high \in Int /\ high <= clock /\ Covers(low, high)
          /\ AllAccounted(snap[r].seen_ids)
      BY <1>1, <2>1, <3>1, <3>2 DEF LoadedClaim, Shape, TypeOK, Cursor
    <3>4. Covers(low, high)'
      BY <1>5, <3>3
    <3> QED BY <1>1, <1>2, <3>2, <3>3, <3>4 DEF LoadedClaim, Covers, AllAccounted
  <2>3. ReadClaim(r)'
    <3>1. SUFFICES ASSUME HasRead(r) PROVE ReadClaim(r)'
      BY <1>1 DEF ReadClaim, HasRead
    <3>2. now[r] \in Int /\ now[r] <= clock
      BY <2>1, <3>1 DEF Shape, Timed, HasRead
    <3>3. WindowStart(r)' = WindowStart(r)
      BY <1>1 DEF WindowStart
    <3>4. ASSUME NEW e \in sent', WindowStart(r) <= at'[e], at'[e] < now[r] - Skew
          PROVE  Accounted(e)' \/ e \in Elements(fresh[r])
      <4>1. e \in sent /\ at'[e] = at[e]
        BY <1>4, <3>2, <3>4
      <4> QED BY <1>2, <2>1, <3>1, <3>4, <4>1 DEF ReadClaim
    <3> QED BY <1>1, <1>2, <2>1, <3>1, <3>3, <3>4 DEF ReadClaim, AllAccounted
  <2> QED BY <2>2, <2>3
<1> QED BY <1>3, <1>6, <1>7 DEF ClaimInv

LEMMA StutterClaims == ASSUME ClaimInv, UNCHANGED vars PROVE ClaimInv'
<1>1. UNCHANGED <<clock, sent, at, visible, cursor, audits, pc, mode, now, snap, base, fresh,
                  received, printed, floor, reads, crashes, interrupts>>
  BY DEF vars, track, local, bounds
<1>2. \A e : Accounted(e)' = Accounted(e)
  BY <1>1 DEF Accounted
<1>3. Indexed' /\ (cursor' # None => Covers(floor, cursor.last_read)' /\ AllAccounted(cursor.seen_ids)')
  BY <1>1, <1>2 DEF ClaimInv, Indexed, Covers, AllAccounted
<1>4. ASSUME NEW r \in Reader PROVE LoadedClaim(r)' /\ ReadClaim(r)'
  <2>1. LoadedClaim(r) /\ ReadClaim(r) /\ WindowStart(r)' = WindowStart(r)
    BY <1>1 DEF ClaimInv, WindowStart
  <2>2. LoadedClaim(r)'
    BY <1>1, <1>2, <2>1 DEF LoadedClaim, HasLoaded, Covers, AllAccounted
  <2>3. ReadClaim(r)'
    BY <1>1, <1>2, <2>1 DEF ReadClaim, HasRead, AllAccounted
  <2> QED BY <2>2, <2>3
<1> QED BY <1>3, <1>4 DEF ClaimInv

LEMMA InitClaims == Init => ClaimInv
<1> SUFFICES ASSUME Init PROVE ClaimInv
    OBVIOUS
<1>1. Indexed
  <2>1. ASSUME NEW e \in sent \ visible PROVE clock <= at[e] + MaxLag
    <3>1. clock = 0 /\ at[e] = 0
      BY DEF Init, TrackInit
    <3> QED BY <3>1, TrackAssumption
  <2> QED BY <2>1 DEF Indexed
<1>2. ASSUME NEW r \in Reader PROVE LoadedClaim(r) /\ ReadClaim(r)
  BY DEF Init, LoadedClaim, ReadClaim, HasLoaded, HasRead
<1> QED BY <1>1, <1>2 DEF ClaimInv, Init

LEMMA NextClaims ==
  ASSUME Leads \subseteq Nat
  PROVE  LegacyInv /\ ClaimInv /\ [Next]_vars => ClaimInv'
<1> SUFFICES ASSUME LegacyInv, ClaimInv, [Next]_vars PROVE ClaimInv'
    OBVIOUS
<1>1. ASSUME NEW r \in Reader, ReaderStep(r) PROVE ClaimInv'
  BY <1>1, EmptyHandedClaims, OverClaims, LoadCursorClaims, ReadWindowClaims, ShowTextClaims,
     SaveClaims, StutterClaims DEF ReaderStep, Peek
<1> QED BY <1>1, TrackStepClaims, StutterClaims DEF Next

LEMMA ClaimInvariant ==
  ASSUME Leads \subseteq Nat
  PROVE  Spec => [](LegacyInv /\ ClaimInv)
<1>1. LegacyInv /\ ClaimInv /\ [Next]_vars => ClaimInv'
  BY NextClaims
<1> QED BY <1>1, InitLegacy, InitClaims, NextLegacy, PTL DEF Spec

(* Whatever the document consumes is accounted for.                        *)
LEMMA ConsumedAccounted ==
  ASSUME LegacyInv, ClaimInv, NEW e \in Consumed
  PROVE  Accounted(e) /\ e \in Event
<1>1. cursor # None /\ cursor.seen_ids \in Seq(Event) /\ sent \subseteq Event
  BY DEF Consumed, Passed, LegacyInv, TypeOK, TrackTypeOK, Cursor
<1>2. CASE e \in Passed
  BY <1>1, <1>2 DEF Passed, ClaimInv, Covers
<1>3. CASE e \in Elements(cursor.seen_ids)
  BY <1>1, <1>3, ElementsInSet DEF ClaimInv, AllAccounted
<1> QED BY <1>1, <1>2, <1>3 DEF Consumed

-----------------------------------------------------------------------------
(* The theorems.  Those about coverage suppose that no record is dated     *)
(* into the past, as emit_event and the timers of reminders have it.       *)

(* cmd_queue keeps every variable in its type: in particular the document  *)
(* it saves parses, and only foreign readers leave audit documents.        *)
THEOREM TypeCorrect == Spec => []TypeOK
<1>1. LegacyInv => TypeOK
  BY DEF LegacyInv
<1> QED BY <1>1, LegacyInvariant, PTL

(* Last-writer-wins costs repeats, never coverage.                         *)
THEOREM CoverageIsReceived ==
  ASSUME Leads \subseteq Nat
  PROVE  Spec => []CoveredWasReceived
<1>1. LegacyInv /\ ClaimInv => CoveredWasReceived
  BY ConsumedAccounted DEF CoveredWasReceived, Accounted
<1> QED BY <1>1, ClaimInvariant, PTL

(* What only takeovers consumed left an audit document.                    *)
THEOREM TakeoversAreAudited ==
  ASSUME Leads \subseteq Nat
  PROVE  Spec => []TakeoverIsAudited
<1>1. LegacyInv /\ ClaimInv => TakeoverIsAudited
  BY ConsumedAccounted DEF TakeoverIsAudited, Accounted, LegacyInv, Audited
<1> QED BY <1>1, ClaimInvariant, PTL

(* The cursor passes an event only after it was printed, or for a --json   *)
(* reader whose envelope is due or that died, or after an interrupt.       *)
THEOREM PrintedBeforePassed ==
  ASSUME Leads \subseteq Nat
  PROVE  Spec => []PrintThenAdvance
<1>1. LegacyInv /\ ClaimInv => PrintThenAdvance
  BY ConsumedAccounted DEF PrintThenAdvance, Accounted, LegacyInv, Enveloped
<1> QED BY <1>1, ClaimInvariant, PTL
=============================================================================
