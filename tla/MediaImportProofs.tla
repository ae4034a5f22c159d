------------------------- MODULE MediaImportProofs -------------------------
(***************************************************************************)
(* Proofs about MediaImport, for any number of importers, events and       *)
(* fingerprints: it is well typed, and no play is recorded twice but for   *)
(* records that were under way when their keys were given back.            *)
(***************************************************************************)
EXTENDS MediaImport, FiniteSetTheorems, TLAPS

-----------------------------------------------------------------------------
(* Helpers.                                                                *)

(* The next event of a run with events to claim is one of them.            *)
LEMMA MinIsMember ==
  ASSUME NEW S \in SUBSET Nat, S # {}
  PROVE  Min(S) \in S
<1>1. PICK x \in S : \A y \in S : ~(<<y, x>> \in OpToRel(<, Nat))
  BY NatLessThanWellFounded, WFMin
<1>2. \A y \in S : x <= y
  <2> SUFFICES ASSUME NEW y \in S PROVE x <= y
    OBVIOUS
  <2>1. ~(y < x)
    BY <1>1 DEF OpToRel
  <2> QED BY <2>1
<1> QED BY <1>2 DEF Min
-----------------------------------------------------------------------------
(* The inductive invariant.                                                *)

(* The keys an event of a batch was claimed with.                          *)
KeysOf(i, e) == Keys(e, run[i].prints[e])

(* The run has not posted its batch yet.                                   *)
Posting(i) == run[i].pc \in {"claim", "post"}

(* What is still to be claimed is not in the batch, and what is missing is *)
(* of the batch.                                                           *)
Shape ==
  \A i \in Importer :
    /\ run[i].todo \cap run[i].batch = {}
    /\ run[i].missing \subseteq run[i].batch
    /\ run[i].pc = "claim" => run[i].todo # {}

(* The keys of a batch are claimed, and by nobody else.                    *)
Held ==
  \A i \in Importer : \A e \in run[i].batch :
    /\ KeysOf(i, e) \subseteq claims
    /\ \A j \in Importer : \A d \in run[j].batch :
         i # j \/ e # d => KeysOf(i, e) \cap KeysOf(j, d) = {}

(* The keys of a record are claimed, or were given back while it was under *)
(* way; no other record has the keys of a batch.                           *)
Covered ==
  \A r \in Accepted :
    /\ RecordKeys(r) \subseteq claims \cup lagged
    /\ \A i \in Importer : \A e \in run[i].batch :
         Posting(i) \/ r.event # e => RecordKeys(r) \cap KeysOf(i, e) \subseteq lagged

(* The records of an event.                                                *)
Copies(e) == {r \in Accepted : r.event = e}

(* The event may be posted once more.                                      *)
Open(e) ==
  \/ e \notin claims
  \/ \E i \in Importer :
       \/ Posting(i) /\ e \in run[i].batch
       \/ run[i].pc = "heal" /\ e \in run[i].missing

(* Every copy but the first has cost a mishap.                             *)
CopiesBounded ==
  \A e \in Event :
    /\ IsFiniteSet(Copies(e))
    /\ Cardinality(Copies(e)) <= moves + 1
    /\ Open(e) => Cardinality(Copies(e)) <= moves

ImportInv == TypeOK /\ Shape /\ Held /\ Covered /\ NoDuplicates /\ CopiesBounded

-----------------------------------------------------------------------------
(* What a step of one importer leaves alone.                               *)

(* Only the run of importer i changes.                                     *)
Only(i) == \A j \in Importer \ {i} : run'[j] = run[j]

LEMMA RunChanges ==
  ASSUME TypeOK, NEW i \in Importer, NEW x, run' = [run EXCEPT ![i] = x]
  PROVE  run'[i] = x /\ Only(i)
BY DEF TypeOK, Only

(* An idle run holds nothing.                                              *)
LEMMA IdleType ==
  /\ IdleRun \in Run
  /\ IdleRun.pc = "idle" /\ IdleRun.todo = {} /\ IdleRun.batch = {} /\ IdleRun.missing = {}
BY DEF IdleRun, Run

(* The keys of a part of a batch.                                          *)
LEMMA KeysOfBatch ==
  ASSUME TypeOK, NEW i \in Importer, NEW es \in SUBSET Event
  PROVE  /\ ClaimsOf(i, es) \subseteq Key
         /\ \A k : k \in ClaimsOf(i, es) <=> \E e \in es : k \in KeysOf(i, e)
         /\ \A e \in Event : e \in ClaimsOf(i, es) <=> e \in es
<1>1. \A k : k \in ClaimsOf(i, es) <=> \E e \in es : k \in KeysOf(i, e)
  BY DEF ClaimsOf, KeysOf
<1>2. \A e \in es : run[i].prints[e] \subseteq Fingerprint
  BY DEF TypeOK, Run
<1>3. \A e \in es : KeysOf(i, e) = {e} \cup run[i].prints[e]
  BY DEF KeysOf, Keys
<1>4. ClaimsOf(i, es) \subseteq Key
  BY <1>1, <1>2, <1>3 DEF Key
<1>5. \A e \in Event : e \in ClaimsOf(i, es) <=> e \in es
  BY <1>1, <1>2, <1>3, ImportAssumption
<1> QED BY <1>1, <1>4, <1>5

(* A step that records nothing, gives no claim back and claims nothing for *)
(* a batch.                                                                *)
Quiet ==
  /\ claims \subseteq claims' /\ lagged \subseteq lagged' /\ Accepted' = Accepted
  /\ \A j \in Importer :
       /\ run'[j].batch \subseteq run[j].batch
       /\ \A e \in run'[j].batch : run'[j].prints[e] = run[j].prints[e]
       /\ Posting(j)' /\ run'[j].batch # {} => Posting(j)

LEMMA QuietKeys ==
  ASSUME Quiet, NEW j \in Importer, NEW e \in run'[j].batch
  PROVE  /\ KeysOf(j, e)' = KeysOf(j, e) /\ e \in run[j].batch
         /\ Posting(j)' => Posting(j)
BY DEF Quiet, KeysOf, Keys

LEMMA QuietStep ==
  ASSUME Held, Covered, NoDuplicates, Quiet
  PROVE  Held' /\ Covered' /\ NoDuplicates'
<1>1. Held'
  BY QuietKeys DEF Held, Quiet
<1>2. Covered'
  BY QuietKeys DEF Covered, Quiet
<1>3. NoDuplicates'
  BY DEF NoDuplicates, Quiet
<1> QED BY <1>1, <1>2, <1>3

(* The claim of an event succeeds: none of its keys was taken.             *)
LEMMA ClaimSucceeds ==
  ASSUME TypeOK, Held, Covered, NoDuplicates, UNCHANGED <<queued, stored, lagged>>,
         NEW i \in Importer, NEW h \in Event, Only(i), h \notin run[i].batch,
         run'[i].batch = run[i].batch \cup {h},
         \A e \in run[i].batch : run'[i].prints[e] = run[i].prints[e],
         Posting(i), Posting(i)',
         KeysOf(i, h)' \cap claims = {},
         claims' = claims \cup KeysOf(i, h)'
  PROVE  Held' /\ Covered' /\ NoDuplicates'
<1>1. Accepted' = Accepted
  BY DEF Accepted
<1>2. \A j \in Importer : \A e \in run[j].batch :
        KeysOf(j, e)' = KeysOf(j, e) /\ e \in run'[j].batch
  BY DEF KeysOf, Keys, Only
<1>3. \A j \in Importer : \A e \in run'[j].batch :
        e \in run[j].batch \/ (j = i /\ e = h)
  BY DEF Only
<1>4. \A j \in Importer : \A e \in run[j].batch : KeysOf(j, e) \cap KeysOf(i, h)' = {}
  BY DEF Held
<1>5. Held'
  <2> SUFFICES ASSUME NEW j \in Importer, NEW e \in run'[j].batch,
                      NEW l \in Importer, NEW d \in run'[l].batch
               PROVE  /\ KeysOf(j, e)' \subseteq claims'
                      /\ j # l \/ e # d => KeysOf(j, e)' \cap KeysOf(l, d)' = {}
    BY DEF Held
  <2>1. CASE e \in run[j].batch /\ d \in run[l].batch
    BY <2>1, <1>2 DEF Held
  <2>2. CASE e \in run[j].batch /\ l = i /\ d = h
    BY <2>2, <1>2, <1>4 DEF Held
  <2>3. CASE j = i /\ e = h /\ d \in run[l].batch
    BY <2>3, <1>2, <1>4
  <2>4. CASE j = i /\ e = h /\ l = i /\ d = h
    BY <2>4
  <2> QED BY <1>3, <2>1, <2>2, <2>3, <2>4
<1>6. Covered'
  <2> SUFFICES ASSUME NEW r \in Accepted, NEW j \in Importer, NEW e \in run'[j].batch
               PROVE  /\ RecordKeys(r) \subseteq claims' \cup lagged
                      /\ Posting(j)' \/ r.event # e
                           => RecordKeys(r) \cap KeysOf(j, e)' \subseteq lagged
    BY <1>1 DEF Covered
  <2>1. RecordKeys(r) \subseteq claims \cup lagged
    BY DEF Covered
  <2>2. CASE e \in run[j].batch
    <3>1. Posting(j)' => Posting(j)
      BY DEF Only, Posting
    <3> QED BY <2>1, <2>2, <3>1, <1>2 DEF Covered
  <2>3. CASE j = i /\ e = h
    BY <2>1, <2>3
  <2> QED BY <1>3, <2>2, <2>3
<1>7. NoDuplicates'
  BY <1>1 DEF NoDuplicates
<1> QED BY <1>5, <1>6, <1>7

(* A record of a batch has the keys the event was claimed with.            *)
LEMMA NewRecordKeys ==
  ASSUME NEW i \in Importer, NEW e \in Event
  PROVE  NewRecord(i, e).event = e /\ RecordKeys(NewRecord(i, e)) = KeysOf(i, e)
BY DEF NewRecord, RecordKeys, KeysOf

(* Records of a batch arrive; its run goes on or ends, and its claims stay *)
(* or are given back, which counts as given back under way.                *)
LEMMA RecordsArrive ==
  ASSUME TypeOK, Held, Covered, NoDuplicates, stored' = stored,
         NEW i \in Importer, NEW es \in SUBSET run[i].batch, Only(i),
         run[i].pc = "post", Queues(i, es),
         \/ run'[i].batch = run[i].batch /\ run'[i].prints = run[i].prints
         \/ run'[i].batch = {},
         ~Posting(i)',
         \/ claims' = claims /\ lagged \subseteq lagged'
         \/ /\ claims' = claims \ ClaimsOf(i, run[i].batch)
            /\ lagged' = lagged \cup ClaimsOf(i, run[i].batch)
            /\ run'[i].batch = {}
  PROVE  Held' /\ Covered' /\ NoDuplicates'
<1>0. run[i].batch \in SUBSET Event
  BY DEF TypeOK, Run
<1>1. Accepted' = Accepted \cup {NewRecord(i, e) : e \in es}
  BY DEF Accepted, Queues
<1>2. \A j \in Importer : \A e \in run'[j].batch :
        /\ e \in run[j].batch /\ KeysOf(j, e)' = KeysOf(j, e)
        /\ Posting(j)' => Posting(j) /\ j # i
  BY DEF Only, KeysOf, Keys, Posting
<1>3. lagged \subseteq lagged' /\ claims \subseteq claims' \cup lagged'
  OBVIOUS
<1>4. \A j \in Importer : \A e \in run'[j].batch : KeysOf(j, e) \subseteq claims'
  <2> SUFFICES ASSUME NEW j \in Importer, NEW e \in run'[j].batch
               PROVE  KeysOf(j, e) \subseteq claims'
    OBVIOUS
  <2>1. KeysOf(j, e) \subseteq claims
    BY <1>2 DEF Held
  <2>2. CASE claims' = claims
    BY <2>1, <2>2
  <2>3. CASE claims' = claims \ ClaimsOf(i, run[i].batch) /\ run'[i].batch = {}
    <3>1. j # i
      BY <2>3
    <3>2. \A d \in run[i].batch : KeysOf(j, e) \cap KeysOf(i, d) = {}
      BY <1>2, <3>1 DEF Held
    <3> QED BY <2>1, <2>3, <3>2, <1>0, KeysOfBatch
  <2> QED BY <2>2, <2>3
<1>5. Held'
  BY <1>2, <1>4 DEF Held
<1>6. \A r \in Accepted' :
        \/ r \in Accepted
        \/ \E d \in es : r = NewRecord(i, d) /\ r.event = d /\ RecordKeys(r) = KeysOf(i, d)
  BY <1>0, <1>1, NewRecordKeys
<1>7. Covered'
  <2>1. ASSUME NEW r \in Accepted' PROVE RecordKeys(r) \subseteq claims' \cup lagged'
    <3>1. RecordKeys(r) \subseteq claims \cup lagged
      BY <1>6 DEF Covered, Held
    <3> QED BY <3>1, <1>3
  <2>2. ASSUME NEW r \in Accepted', NEW j \in Importer, NEW e \in run'[j].batch,
               Posting(j)' \/ r.event # e
        PROVE  RecordKeys(r) \cap KeysOf(j, e) \subseteq lagged'
    <3>1. CASE r \in Accepted
      BY <2>2, <3>1, <1>2, <1>3 DEF Covered
    <3>2. ASSUME NEW d \in es, r.event = d, RecordKeys(r) = KeysOf(i, d)
          PROVE  RecordKeys(r) \cap KeysOf(j, e) = {}
      <4>1. j # i \/ e # d
        BY <2>2, <3>2, <1>2
      <4> QED BY <3>2, <4>1, <1>2 DEF Held
    <3> QED BY <1>6, <3>1, <3>2
  <2> QED BY <1>2, <2>1, <2>2 DEF Covered
<1>8. NoDuplicates'
  <2> SUFFICES ASSUME NEW r \in Accepted', NEW q \in Accepted', r # q
               PROVE  RecordKeys(r) \cap RecordKeys(q) \subseteq lagged'
    BY DEF NoDuplicates
  <2>0. Posting(i)
    BY DEF Posting
  <2>1. CASE r \in Accepted /\ q \in Accepted
    BY <2>1, <1>3 DEF NoDuplicates
  <2>2. ASSUME NEW d \in es, RecordKeys(q) = KeysOf(i, d), r \in Accepted
        PROVE  RecordKeys(r) \cap RecordKeys(q) \subseteq lagged'
    BY <2>0, <2>2, <1>3 DEF Covered
  <2>3. ASSUME NEW d \in es, RecordKeys(r) = KeysOf(i, d), q \in Accepted
        PROVE  RecordKeys(r) \cap RecordKeys(q) \subseteq lagged'
    BY <2>0, <2>3, <1>3 DEF Covered
  <2>4. ASSUME NEW d \in es, RecordKeys(r) = KeysOf(i, d), r = NewRecord(i, d),
               NEW c \in es, RecordKeys(q) = KeysOf(i, c), q = NewRecord(i, c)
        PROVE  RecordKeys(r) \cap RecordKeys(q) = {}
    <3>1. c # d
      BY <2>4
    <3> QED BY <2>4, <3>1 DEF Held
  <2> QED BY <1>6, <2>1, <2>2, <2>3, <2>4
<1> QED BY <1>5, <1>7, <1>8

(* The claims of a part of a batch are given back as its run ends.  What   *)
(* has a record of its own counts as given back under way.                 *)
LEMMA ClaimsReturned ==
  ASSUME TypeOK, Held, Covered, NoDuplicates, UNCHANGED <<queued, stored>>,
         NEW i \in Importer, NEW es \in SUBSET run[i].batch, Only(i),
         run'[i].batch = {}, ~Posting(i)',
         claims' = claims \ ClaimsOf(i, es), lagged \subseteq lagged',
         \A e \in es : \/ KeysOf(i, e) \subseteq lagged'
                       \/ Posting(i) \/ \A r \in Accepted : r.event # e
  PROVE  Held' /\ Covered' /\ NoDuplicates'
<1>0. run[i].batch \in SUBSET Event
  BY DEF TypeOK, Run
<1>1. Accepted' = Accepted
  BY DEF Accepted
<1>2. \A j \in Importer : \A e \in run'[j].batch :
        /\ e \in run[j].batch /\ KeysOf(j, e)' = KeysOf(j, e) /\ j # i
        /\ Posting(j)' => Posting(j)
  BY DEF Only, KeysOf, Keys, Posting
<1>3. \A j \in Importer : \A e \in run'[j].batch : KeysOf(j, e) \subseteq claims'
  <2> SUFFICES ASSUME NEW j \in Importer, NEW e \in run'[j].batch
               PROVE  KeysOf(j, e) \subseteq claims'
    OBVIOUS
  <2>1. KeysOf(j, e) \subseteq claims
    BY <1>2 DEF Held
  <2>2. \A d \in es : KeysOf(j, e) \cap KeysOf(i, d) = {}
    BY <1>2 DEF Held
  <2> QED BY <2>1, <2>2, <1>0, KeysOfBatch
<1>4. Held'
  BY <1>2, <1>3 DEF Held
<1>5. ASSUME NEW r \in Accepted PROVE RecordKeys(r) \subseteq claims' \cup lagged'
  <2> SUFFICES ASSUME NEW k \in RecordKeys(r), k \notin lagged, k \in ClaimsOf(i, es)
               PROVE  k \in lagged'
    BY DEF Covered
  <2>1. PICK e \in es : k \in KeysOf(i, e)
    BY <1>0, KeysOfBatch
  <2>2. ~(Posting(i) \/ r.event # e)
    BY <2>1 DEF Covered
  <2> QED BY <2>1, <2>2
<1>6. Covered'
  BY <1>1, <1>2, <1>5 DEF Covered
<1>7. NoDuplicates'
  BY <1>1 DEF NoDuplicates
<1> QED BY <1>4, <1>6, <1>7

-----------------------------------------------------------------------------
(* The number of copies.                                                   *)

LEMMA CopiesKept ==
  ASSUME TypeOK, CopiesBounded, Accepted' = Accepted, moves' \in Nat, moves' >= moves,
         \A e \in Event : Open(e)' => Open(e) \/ moves' > moves \/ Copies(e) = {}
  PROVE  CopiesBounded'
<1> SUFFICES ASSUME NEW e \in Event
             PROVE  /\ IsFiniteSet(Copies(e))'
                    /\ (Cardinality(Copies(e)) <= moves + 1)'
                    /\ (Open(e) => Cardinality(Copies(e)) <= moves)'
  BY DEF CopiesBounded
<1>1. Copies(e)' = Copies(e)
  BY DEF Copies
<1>2. /\ IsFiniteSet(Copies(e)) /\ Cardinality(Copies(e)) <= moves + 1
      /\ Open(e) => Cardinality(Copies(e)) <= moves
  BY DEF CopiesBounded
<1>3. Cardinality(Copies(e)) \in Nat
  BY <1>2, FS_CardinalityType
<1>4. Copies(e) = {} => Cardinality(Copies(e)) = 0
  BY FS_EmptySet
<1>5. moves \in Nat
  BY ImportAssumption DEF TypeOK
<1> QED BY <1>1, <1>2, <1>3, <1>4, <1>5

(* A record that arrives is well typed and one copy more.                  *)
LEMMA CopiesArrive ==
  ASSUME TypeOK, CopiesBounded, stored' = stored,
         NEW i \in Importer, NEW es \in SUBSET run[i].batch,
         run[i].pc = "post", Queues(i, es), moves' \in Nat, moves' >= moves,
         \A e \in Event : Open(e)' => moves' > moves \/ (Open(e) /\ e \notin es)
  PROVE  queued' \subseteq Record /\ CopiesBounded'
<1>0. es \subseteq Event /\ moves \in 0..MaxMoves /\ MaxMoves \in Nat
  BY ImportAssumption DEF TypeOK, Run
<1>1. Accepted' = Accepted \cup {NewRecord(i, e) : e \in es}
  BY DEF Accepted, Queues
<1>3. ASSUME NEW e \in es
      PROVE  Cardinality(Copies(e)) \in Nat /\ Cardinality(Copies(e)) <= moves
  <2>1. Open(e)
    BY <1>0 DEF Open, Posting
  <2> QED BY <1>0, <2>1, FS_CardinalityType DEF CopiesBounded
<1>4. ASSUME NEW e \in es PROVE NewRecord(i, e) \in Record
  <2>1. 1 + Cardinality(Copies(e)) \in 1..(MaxMoves + 1)
    BY <1>0, <1>3
  <2>2. run[i].prints[e] \in SUBSET Fingerprint
    BY <1>0 DEF TypeOK, Run
  <2> QED BY <1>0, <2>1, <2>2 DEF NewRecord, Record, Copies
<1>5. queued' \subseteq Record
  BY <1>4 DEF Queues, TypeOK
<1>6. ASSUME NEW e \in Event
      PROVE  /\ IsFiniteSet(Copies(e)') /\ Cardinality(Copies(e)') <= moves' + 1
             /\ Open(e)' => Cardinality(Copies(e)') <= moves'
  <2>1. CASE e \in es
    <3>1. Copies(e)' = Copies(e) \cup {NewRecord(i, e)}
      BY <1>0, <1>1, <2>1, NewRecordKeys DEF Copies
    <3>2. /\ IsFiniteSet(Copies(e)')
          /\ Cardinality(Copies(e)') \in {Cardinality(Copies(e)), Cardinality(Copies(e)) + 1}
      <4>1. IsFiniteSet(Copies(e))
        BY DEF CopiesBounded
      <4> QED BY <3>1, <4>1, FS_AddElement
    <3>3. Cardinality(Copies(e)) <= moves /\ Cardinality(Copies(e)) \in Nat
      <4>1. Open(e)
        BY <1>0, <2>1 DEF Open, Posting
      <4> QED BY <4>1, FS_CardinalityType DEF CopiesBounded
    <3>4. Open(e)' => moves' > moves
      BY <2>1
    <3> QED BY <1>0, <3>2, <3>3, <3>4
  <2>2. CASE e \notin es
    <3>1. Copies(e)' = Copies(e)
      BY <1>0, <1>1, <2>2, NewRecordKeys DEF Copies
    <3>2. Open(e)' => moves' > moves \/ Open(e)
      OBVIOUS
    <3>3. /\ IsFiniteSet(Copies(e)) /\ Cardinality(Copies(e)) \in Nat
          /\ Cardinality(Copies(e)) <= moves + 1
          /\ Open(e) => Cardinality(Copies(e)) <= moves
      BY FS_CardinalityType DEF CopiesBounded
    <3> QED BY <1>0, <3>1, <3>2, <3>3
  <2> QED BY <2>1, <2>2
<1>7. CopiesBounded'
  BY <1>6 DEF CopiesBounded
<1> QED BY <1>5, <1>7

-----------------------------------------------------------------------------
(* The steps.                                                              *)

LEMMA ImportInit ==
  ASSUME Init PROVE ImportInv
<1>1. TypeOK
  BY IdleType, ImportAssumption DEF Init, TypeOK
<1>2. Shape /\ Held /\ Covered /\ NoDuplicates
  BY IdleType DEF Init, Shape, Held, Covered, NoDuplicates, Accepted
<1>3. CopiesBounded
  <2>1. \A e \in Event : Copies(e) = {}
    BY DEF Init, Copies, Accepted
  <2> QED BY <2>1, FS_EmptySet, ImportAssumption DEF CopiesBounded, Init
<1> QED BY <1>1, <1>2, <1>3 DEF ImportInv

LEMMA PublishStep ==
  ASSUME ImportInv, NEW e \in Event, Publish(e) PROVE ImportInv'
<1> USE DEF ImportInv
<1>1. TypeOK' /\ Shape'
  BY DEF Publish, TypeOK, Shape, history
<1>2. Quiet
  BY DEF Quiet, Publish, Accepted, Posting, history
<1>3. CopiesBounded'
  BY ImportAssumption, CopiesKept DEF Publish, TypeOK, Accepted, Open, Posting, history
<1> QED BY <1>1, <1>2, <1>3, QuietStep

LEMMA StoresStep ==
  ASSUME ImportInv, NEW r \in queued, Stores(r) PROVE ImportInv'
<1> USE DEF ImportInv
<1>1. TypeOK' /\ Shape'
  BY DEF Stores, TypeOK, Shape, history, marks
<1>2. Accepted' = Accepted
  BY DEF Stores, Accepted
<1>3. Quiet
  BY <1>2 DEF Quiet, Stores, Posting, history
<1>4. CopiesBounded'
  BY <1>2, ImportAssumption, CopiesKept DEF Stores, TypeOK, Open, Posting, history
<1> QED BY <1>1, <1>3, <1>4, QuietStep

(* The run of one importer moves on, and nothing else changes but moves,   *)
(* claims that are added and what history keeps.                           *)
LEMMA RunMovesOn ==
  ASSUME ImportInv, NEW i \in Importer, Only(i), Accepted' = Accepted,
         claims \subseteq claims', lagged \subseteq lagged',
         run'[i].batch \subseteq run[i].batch,
         \A e \in run'[i].batch : run'[i].prints[e] = run[i].prints[e],
         Posting(i)' /\ run'[i].batch # {} => Posting(i),
         moves' \in Nat, moves' >= moves,
         run'[i].pc = "heal" =>
           moves' > moves \/ \A e \in run'[i].missing : \A r \in Accepted : r.event # e
  PROVE  Held' /\ Covered' /\ NoDuplicates' /\ CopiesBounded'
<1> USE DEF ImportInv
<1>1. Quiet
  BY DEF Quiet, Only, Posting
<1>2. ASSUME NEW e \in Event, Open(e)', ~(moves' > moves)
      PROVE  Open(e) \/ Copies(e) = {}
  <2>1. CASE e \notin claims'
    BY <2>1 DEF Open
  <2>2. CASE e \in claims'
    <3>1. PICK j \in Importer : \/ Posting(j)' /\ e \in run'[j].batch
                                \/ run'[j].pc = "heal" /\ e \in run'[j].missing
      BY <1>2, <2>2 DEF Open
    <3>2. CASE j = i
      <4>1. CASE Posting(i)' /\ e \in run'[i].batch
        <5>1. Posting(i) /\ e \in run[i].batch
          BY <4>1
        <5> QED BY <5>1 DEF Open
      <4>2. CASE run'[i].pc = "heal" /\ e \in run'[i].missing
        BY <1>2, <4>2 DEF Copies
      <4> QED BY <3>1, <3>2, <4>1, <4>2 DEF Posting
    <3>3. CASE j # i
      BY <3>1, <3>3 DEF Open, Only, Posting
    <3> QED BY <3>2, <3>3
  <2> QED BY <2>1, <2>2
<1>3. CopiesBounded'
  BY <1>2, CopiesKept
<1> QED BY <1>1, <1>3, QuietStep

(* What TypeOK says of the watermarks.                                     *)
MarksTyped ==
  watermark \in [Importer -> Event \cup {0}] /\ overtaken \subseteq Event

(* What TypeOK says of everything but the runs.                            *)
RestTyped ==
  /\ MarksTyped
  /\ published \subseteq Event /\ claims \subseteq Key
  /\ queued \subseteq Record /\ stored \subseteq Record /\ moves \in 0..MaxMoves
  /\ lagged \subseteq Key /\ excused \subseteq Key /\ stray \subseteq Fingerprint

(* The new run is well typed.                                              *)
LEMMA TypeOfRun ==
  ASSUME ImportInv, NEW i \in Importer, NEW x \in Run, run' = [run EXCEPT ![i] = x],
         \A e \in x.todo \cup x.batch : Owner[e] = i,
         x.todo \cap x.batch = {}, x.missing \subseteq x.batch,
         x.pc = "claim" => x.todo # {},
         RestTyped'
  PROVE  TypeOK' /\ Shape' /\ run'[i] = x /\ Only(i)
<1> USE DEF ImportInv
<1>1. run'[i] = x /\ Only(i)
  BY RunChanges
<1>2. run' \in [Importer -> Run]
  BY DEF TypeOK
<1>3. TypeOK'
  BY <1>1, <1>2 DEF TypeOK, Only, RestTyped, MarksTyped
<1>4. Shape'
  BY <1>1 DEF Shape, Only
<1> QED BY <1>1, <1>3, <1>4

(* Watermarks that stay are well typed, and so is one that moves.          *)
LEMMA MarksStay ==
  ASSUME TypeOK, UNCHANGED marks PROVE MarksTyped'
BY DEF TypeOK, MarksTyped, marks

LEMMA MarksMove ==
  ASSUME TypeOK, NEW i \in Importer, NEW newest \in Event \cup {0}, NEW kept,
         Returns(i, newest, kept)
  PROVE  MarksTyped' /\ run' = [run EXCEPT ![i] = IdleRun]
<1>1. Window(i) \subseteq Event
  BY DEF Window, Mine, TypeOK
<1> QED BY <1>1 DEF Returns, MarksTyped, TypeOK

(* The numbers a run has kept.                                             *)
LEMMA NewestType ==
  ASSUME TypeOK, NEW i \in Importer
  PROVE  run[i].newest \in Event \cup {0} /\ run[i].kept \subseteq Event
BY DEF TypeOK, Run

LEMMA ReadbackStep ==
  ASSUME ImportInv, NEW i \in Importer, Readback(i) PROVE ImportInv'
<1> USE DEF ImportInv
<1>0. PICK newest \in Window(i) :
        IF NewEvents(i) = {} THEN Returns(i, newest, Window(i))
        ELSE run' = [run EXCEPT ![i] = Begun(i, newest)] /\ UNCHANGED marks
  BY DEF Readback
<1> DEFINE prints == [e \in Event |-> IF e \in NewEvents(i) THEN Prints[e] \ Matched(e) ELSE {}]
           begun == Begun(i, newest)
           x == IF NewEvents(i) = {} THEN IdleRun ELSE begun
<1>1. /\ NewEvents(i) \subseteq Event /\ Window(i) \subseteq Event
      /\ \A e \in NewEvents(i) : Owner[e] = i
  BY DEF NewEvents, Window, Mine, TypeOK
<1>2. prints \in [Event -> SUBSET Fingerprint]
  BY ImportAssumption
<1>3. /\ begun \in Run /\ begun.todo = NewEvents(i) /\ begun.batch = {}
      /\ begun.missing = {} /\ begun.pc = "claim"
  BY <1>1, <1>2 DEF IdleRun, Run, Begun
<1>9. MarksTyped' /\ run' = [run EXCEPT ![i] = x]
  <2> HIDE DEF begun
  <2>1. CASE NewEvents(i) = {}
    BY <1>0, <1>1, <2>1, MarksMove
  <2>2. CASE NewEvents(i) # {}
    BY <1>0, <2>2, MarksStay DEF begun
  <2> QED BY <2>1, <2>2
<1> HIDE DEF begun
<1>4. /\ x \in Run /\ x.batch = {} /\ x.missing = {} /\ x.todo \subseteq NewEvents(i)
      /\ x.pc \in {"idle", "claim"} /\ (x.pc = "claim" => x.todo # {})
  BY <1>3, IdleType
<1>5. run' = [run EXCEPT ![i] = x] /\ UNCHANGED <<published, claims, queued, stored, moves, history>>
  BY <1>9 DEF Readback
<1> HIDE DEF x
<1>6. RestTyped'
  BY <1>5, <1>9 DEF TypeOK, RestTyped, history
<1>7. TypeOK' /\ Shape' /\ run'[i] = x /\ Only(i)
  <2>1. /\ \A e \in x.todo \cup x.batch : Owner[e] = i
        /\ x.todo \cap x.batch = {} /\ x.missing \subseteq x.batch
    BY <1>1, <1>4
  <2>2. x \in Run /\ run' = [run EXCEPT ![i] = x] /\ (x.pc = "claim" => x.todo # {})
    BY <1>4, <1>5
  <2> HIDE DEF ImportInv
  <2> QED BY <1>6, <2>1, <2>2, TypeOfRun
<1>8. Held' /\ Covered' /\ NoDuplicates' /\ CopiesBounded'
  <2>1. /\ Accepted' = Accepted /\ claims' = claims /\ lagged' = lagged
        /\ moves' = moves /\ moves \in Nat
    BY <1>5, ImportAssumption DEF history, Accepted, TypeOK
  <2>2. run'[i].batch = {} /\ run'[i].pc # "heal"
    BY <1>4, <1>7
  <2> HIDE DEF ImportInv
  <2> QED BY <1>7, <2>1, <2>2, RunMovesOn
<1> QED BY <1>7, <1>8

(* An event has been dealt with: the watermark stays or moves.             *)
LEMMA PassedMarks ==
  ASSUME TypeOK, NEW i \in Importer, NEW batch, NEW kept, Passed(i, batch, kept)
  PROVE  MarksTyped'
BY NewestType, MarksMove, MarksStay DEF Passed

(* An event has been dealt with: the run goes on with batch.               *)
LEMMA PassedRun ==
  ASSUME ImportInv, NEW i \in Importer, run[i].pc = "claim", RestTyped',
         NEW batch \in {run[i].batch, run[i].batch \cup {Head(i)}},
         NEW kept \in SUBSET Event, Passed(i, batch, kept)
  PROVE  /\ TypeOK' /\ Shape' /\ Only(i)
         /\ Head(i) \in Event /\ Head(i) \notin run[i].batch
         /\ HeadPrints(i) \subseteq Fingerprint
         /\ run'[i].batch = batch /\ run'[i].pc \in {"idle", "claim", "post"}
         /\ batch # {} =>
              /\ Posting(i)'
              /\ \A e \in run[i].batch : run'[i].prints[e] = run[i].prints[e]
              /\ Head(i) \in batch => run'[i].prints[Head(i)] = HeadPrints(i)
<1> USE DEF ImportInv
<1> DEFINE h == Head(i)
           todo == run[i].todo \ {h}
           hp == IF h \in batch THEN HeadPrints(i) ELSE {}
           y == [run[i] EXCEPT !.todo = todo, !.batch = batch, !.kept = kept,
                   !.pc = IF todo = {} THEN "post" ELSE "claim", !.prints[h] = hp]
           x == IF todo = {} /\ batch = {} THEN IdleRun ELSE y
<1>0. /\ run[i] \in Run /\ run[i].todo \subseteq Event /\ run[i].batch \subseteq Event
      /\ run[i].prints \in [Event -> SUBSET Fingerprint]
  BY DEF TypeOK, Run
<1>1. h \in run[i].todo
  BY <1>0, MinIsMember, ImportAssumption DEF Head, Shape
<1>2. h \in Event /\ h \notin run[i].batch /\ HeadPrints(i) \subseteq Fingerprint
  BY <1>0, <1>1 DEF Shape, HeadPrints
<1>3. batch \subseteq Event /\ run[i].batch \subseteq batch /\ todo \subseteq Event
  BY <1>0, <1>2
<1>4. hp \in SUBSET Fingerprint
  BY <1>2
<1> HIDE DEF h, hp
<1>5. /\ y \in Run /\ y.todo = todo /\ y.batch = batch /\ y.missing = run[i].missing
      /\ y.pc = (IF todo = {} THEN "post" ELSE "claim")
      /\ y.prints = [run[i].prints EXCEPT ![h] = hp]
  BY <1>0, <1>2, <1>3, <1>4 DEF Run
<1>6. run' = [run EXCEPT ![i] = x]
  BY DEF Passed, Returns, h, hp
<1> HIDE DEF y
<1>7. /\ x \in Run /\ (\A e \in x.todo \cup x.batch : Owner[e] = i)
      /\ x.todo \cap x.batch = {} /\ x.missing \subseteq x.batch
      /\ (x.pc = "claim" => x.todo # {})
  <2>1. CASE todo = {} /\ batch = {}
    BY <2>1, IdleType
  <2>2. CASE ~(todo = {} /\ batch = {})
    <3>1. \A e \in todo \cup batch : Owner[e] = i
      BY <1>1 DEF TypeOK, h
    <3>2. todo \cap batch = {} /\ run[i].missing \subseteq batch
      BY <1>3 DEF Shape, h
    <3> QED BY <2>2, <1>5, <3>1, <3>2
  <2> QED BY <2>1, <2>2
<1>8. x.batch = batch /\ x.pc \in {"idle", "claim", "post"}
  BY <1>5, IdleType
<1>9. batch # {} =>
        /\ x.pc \in {"claim", "post"}
        /\ \A e \in run[i].batch : x.prints[e] = run[i].prints[e]
        /\ h \in batch => x.prints[h] = HeadPrints(i)
  BY <1>0, <1>2, <1>5 DEF hp
<1> HIDE DEF x
<1>10. TypeOK' /\ Shape' /\ run'[i] = x /\ Only(i)
  <2> HIDE DEF ImportInv
  <2> QED BY <1>6, <1>7, TypeOfRun
<1> QED BY <1>2, <1>8, <1>9, <1>10 DEF h, Posting

LEMMA ClaimStep ==
  ASSUME ImportInv, NEW i \in Importer, Claim(i) PROVE ImportInv'
<1> USE DEF ImportInv
<1> DEFINE won == HeadKeys(i) \cap claims = {}
           batch == IF won THEN run[i].batch \cup {Head(i)} ELSE run[i].batch
           kept == IF won THEN run[i].kept ELSE run[i].kept \ {Head(i)}
<1>1. /\ run[i].pc = "claim" /\ claims' = claims \cup HeadKeys(i)
      /\ Passed(i, batch, kept) /\ lagged' = lagged
      /\ UNCHANGED <<published, queued, stored, moves>>
  BY DEF Claim, Claimed, Takes, LetsGo, history
<1>8. MarksTyped' /\ kept \in SUBSET Event
  <2> HIDE DEF batch
  <2> QED BY <1>1, NewestType, PassedMarks
<1>2. Head(i) \in Event /\ HeadPrints(i) \subseteq Fingerprint
  <2>1. run[i].todo \subseteq Event /\ run[i].prints \in [Event -> SUBSET Fingerprint]
    BY DEF TypeOK, Run
  <2>2. Head(i) \in run[i].todo
    BY <1>1, <2>1, MinIsMember, ImportAssumption DEF Head, Shape
  <2> QED BY <2>1, <2>2 DEF HeadPrints
<1>3. RestTyped'
  <2>1. HeadKeys(i) \subseteq Key
    BY <1>2 DEF HeadKeys, Keys, Key
  <2>2. stray' \subseteq Fingerprint /\ excused' \subseteq Key
    BY <1>2 DEF Claim, TypeOK, history, Key
  <2> QED BY <1>1, <1>8, <2>1, <2>2 DEF TypeOK, RestTyped
<1> HIDE DEF won, kept
<1>4. /\ TypeOK' /\ Shape' /\ Only(i) /\ Head(i) \notin run[i].batch
      /\ run'[i].batch = batch /\ run'[i].pc \in {"idle", "claim", "post"}
      /\ batch # {} =>
           /\ Posting(i)'
           /\ \A e \in run[i].batch : run'[i].prints[e] = run[i].prints[e]
           /\ Head(i) \in batch => run'[i].prints[Head(i)] = HeadPrints(i)
  <2>1. batch \in {run[i].batch, run[i].batch \cup {Head(i)}}
    OBVIOUS
  <2> HIDE DEF batch, ImportInv
  <2> QED BY <1>1, <1>3, <1>8, <2>1, PassedRun
<1>5. Accepted' = Accepted /\ moves' = moves /\ moves \in Nat /\ Posting(i)
  BY <1>1, ImportAssumption DEF Accepted, TypeOK, Posting
<1>6. CASE won
  <2>0. PICK h \in Event : h = Head(i)
    BY <1>2
  <2>1. KeysOf(i, h)' = HeadKeys(i)
    BY <1>4, <1>6, <2>0 DEF KeysOf, HeadKeys
  <2>2. Held' /\ Covered' /\ NoDuplicates'
    <3>1. /\ UNCHANGED <<queued, stored, lagged>> /\ h \notin run[i].batch
          /\ run'[i].batch = run[i].batch \cup {h} /\ Posting(i) /\ Posting(i)'
          /\ \A e \in run[i].batch : run'[i].prints[e] = run[i].prints[e]
      BY <1>1, <1>4, <1>5, <1>6, <2>0
    <3>2. KeysOf(i, h)' \cap claims = {} /\ claims' = claims \cup KeysOf(i, h)'
      BY <1>1, <1>6, <2>1 DEF won
    <3> QED BY <1>4, <3>1, <3>2, ClaimSucceeds
  <2>3. ASSUME NEW e \in Event, Open(e)' PROVE Open(e)
    <3>1. Head(i) \notin claims
      BY <1>6 DEF won, HeadKeys, Keys
    <3>2. CASE e \notin claims' \/ e = Head(i)
      BY <1>1, <3>1, <3>2 DEF Open
    <3>3. ASSUME NEW j \in Importer, e # Head(i),
                 \/ Posting(j)' /\ e \in run'[j].batch
                 \/ run'[j].pc = "heal" /\ e \in run'[j].missing
          PROVE  Open(e)
      <4>1. CASE j = i
        <5>1. e \in run[i].batch
          BY <1>4, <3>3, <4>1
        <5> QED BY <1>5, <5>1 DEF Open
      <4>2. CASE j # i
        BY <1>4, <3>3, <4>2 DEF Open, Only, Posting
      <4> QED BY <4>1, <4>2
    <3> QED BY <2>3, <3>2, <3>3 DEF Open
  <2>4. CopiesBounded'
    BY <1>5, <2>3, CopiesKept
  <2> QED BY <1>4, <2>2, <2>4
<1>7. CASE ~won
  <2>1. run'[i].batch = run[i].batch
    BY <1>4, <1>7
  <2>2. \A e \in run'[i].batch : run'[i].prints[e] = run[i].prints[e]
    BY <1>4, <2>1
  <2>3. Held' /\ Covered' /\ NoDuplicates' /\ CopiesBounded'
    <3> HIDE DEF ImportInv
    <3> QED BY <1>1, <1>4, <1>5, <2>1, <2>2, RunMovesOn
  <2> QED BY <1>4, <2>3
<1> QED BY <1>6, <1>7

(* One mishap more.                                                        *)
LEMMA MoveType ==
  ASSUME TypeOK, Move
  PROVE  moves \in Nat /\ moves' \in 0..MaxMoves /\ moves' \in Nat /\ moves' > moves
BY ImportAssumption DEF TypeOK, Move

LEMMA CannotClaimStep ==
  ASSUME ImportInv, NEW i \in Importer, CannotClaim(i) PROVE ImportInv'
<1> USE DEF ImportInv
<1> DEFINE kept == run[i].kept \ {Head(i)}
<1>1. /\ run[i].pc = "claim" /\ Passed(i, run[i].batch, kept) /\ Move
      /\ UNCHANGED <<published, claims, queued, stored, history>>
  BY DEF CannotClaim, LetsGo
<1>2. moves \in Nat /\ moves' \in 0..MaxMoves /\ moves' \in Nat /\ moves' > moves
  BY <1>1, MoveType
<1>3. RestTyped' /\ kept \in SUBSET Event
  <2>1. MarksTyped' /\ kept \in SUBSET Event
    BY <1>1, NewestType, PassedMarks
  <2> QED BY <1>1, <1>2, <2>1 DEF TypeOK, RestTyped, history
<1> HIDE DEF kept
<1>4. /\ TypeOK' /\ Shape' /\ Only(i) /\ run'[i].batch = run[i].batch
      /\ run'[i].pc # "heal"
      /\ \A e \in run[i].batch : run'[i].prints[e] = run[i].prints[e]
  <2> HIDE DEF ImportInv
  <2>1. PICK batch \in {run[i].batch, run[i].batch \cup {Head(i)}} : batch = run[i].batch
    OBVIOUS
  <2> QED BY <1>1, <1>3, <2>1, PassedRun
<1>5. Accepted' = Accepted /\ Posting(i) /\ lagged' = lagged
  BY <1>1 DEF Accepted, Posting, history
<1>6. Held' /\ Covered' /\ NoDuplicates' /\ CopiesBounded'
  <2> HIDE DEF ImportInv
  <2> QED BY <1>1, <1>2, <1>4, <1>5, RunMovesOn
<1> QED BY <1>4, <1>6

(* A run that ends.                                                        *)
LEMMA EndOfRun ==
  ASSUME ImportInv, NEW i \in Importer, run' = [run EXCEPT ![i] = IdleRun], RestTyped'
  PROVE  /\ TypeOK' /\ Shape' /\ run'[i] = IdleRun /\ Only(i)
         /\ run'[i].batch = {} /\ run'[i].pc = "idle" /\ ~Posting(i)'
<1>1. TypeOK' /\ Shape' /\ run'[i] = IdleRun /\ Only(i)
  BY IdleType, TypeOfRun
<1> QED BY <1>1, IdleType DEF Posting

(* What a run knows of its batch.                                          *)
LEMMA BatchType ==
  ASSUME ImportInv, NEW i \in Importer
  PROVE  /\ run[i] \in Run /\ run[i].batch \in SUBSET Event
         /\ run[i].missing \in SUBSET run[i].batch
         /\ \A es \in SUBSET Event : ClaimsOf(i, es) \subseteq Key
BY KeysOfBatch DEF ImportInv, TypeOK, Run, Shape

LEMMA PostStep ==
  ASSUME ImportInv, NEW i \in Importer, NEW lost, Post(i, lost) PROVE ImportInv'
<1> USE DEF ImportInv
<1> DEFINE es == run[i].batch \ lost
           x == [run[i] EXCEPT !.pc = "after"]
<1>1. /\ run[i].pc = "post" /\ Queues(i, es)
      /\ run' = [run EXCEPT ![i] = x]
      /\ UNCHANGED <<published, claims, stored, lagged, stray, marks>>
      /\ excused' = excused \cup Unrecorded(ClaimsOf(i, lost \ Gone(lost)))
      /\ lost \subseteq run[i].batch
  BY DEF Post
<1>2. es \in SUBSET run[i].batch /\ run[i] \in Run
  BY BatchType
<1>3. /\ moves \in Nat /\ moves' \in 0..MaxMoves /\ moves' \in Nat /\ moves' >= moves
      /\ moves' > moves \/ es = run[i].batch
  BY MoveType, ImportAssumption DEF Post, TypeOK
<1>4. /\ x \in Run /\ x.todo = run[i].todo /\ x.batch = run[i].batch /\ x.pc = "after"
      /\ x.prints = run[i].prints /\ x.missing = run[i].missing
  BY <1>2 DEF Run
<1> HIDE DEF x, es
<1>5. run'[i] = x /\ Only(i)
  BY <1>1, RunChanges
<1>6. ASSUME NEW e \in Event, Open(e)' PROVE moves' > moves \/ (Open(e) /\ e \notin es)
  <2> SUFFICES ASSUME ~(moves' > moves) PROVE Open(e) /\ e \notin es
    OBVIOUS
  <2>1. es = run[i].batch
    BY <1>3
  <2>2. CASE e \notin claims
    <3>1. e \notin run[i].batch
      BY <2>2 DEF Held, KeysOf, Keys
    <3> QED BY <2>1, <2>2, <3>1 DEF Open
  <2>3. ASSUME NEW j \in Importer,
               \/ Posting(j)' /\ e \in run'[j].batch
               \/ run'[j].pc = "heal" /\ e \in run'[j].missing
        PROVE  Open(e) /\ e \notin es
    <3>1. j # i
      <4> SUFFICES ASSUME j = i PROVE FALSE
        OBVIOUS
      <4> QED BY <2>3, <1>4, <1>5 DEF Posting
    <3>2. \/ Posting(j) /\ e \in run[j].batch
          \/ run[j].pc = "heal" /\ e \in run[j].missing
      BY <2>3, <3>1, <1>5 DEF Only, Posting
    <3>3. Owner[e] = j
      BY <3>2 DEF Shape, TypeOK
    <3>4. e \notin run[i].batch
      BY <3>1, <3>3 DEF TypeOK
    <3> QED BY <2>1, <3>2, <3>4 DEF Open
  <2> QED BY <1>1, <1>6, <2>2, <2>3 DEF Open
<1>7. queued' \subseteq Record /\ CopiesBounded'
  BY <1>1, <1>2, <1>3, <1>6, CopiesArrive
<1>8. TypeOK' /\ Shape'
  <2>0. lost \ Gone(lost) \in SUBSET Event
    BY <1>1, BatchType
  <2>3. excused' \subseteq Key
    BY <1>1, <2>0, BatchType DEF TypeOK, Unrecorded
  <2>1. RestTyped'
    BY <1>1, <1>3, <1>7, <2>3, MarksStay DEF TypeOK, RestTyped
  <2>2. /\ \A e \in x.todo \cup x.batch : Owner[e] = i
        /\ x.todo \cap x.batch = {} /\ x.missing \subseteq x.batch
    BY <1>4 DEF TypeOK, Shape
  <2> HIDE DEF ImportInv
  <2> QED BY <1>1, <1>4, <2>1, <2>2, TypeOfRun
<1>9. Held' /\ Covered' /\ NoDuplicates'
  <2>1. /\ run'[i].batch = run[i].batch /\ run'[i].prints = run[i].prints /\ ~Posting(i)'
        /\ claims' = claims /\ lagged' = lagged
    BY <1>1, <1>4, <1>5 DEF Posting
  <2> QED BY <1>1, <1>2, <1>5, <2>1, RecordsArrive
<1> QED BY <1>7, <1>8, <1>9

(* A POST under way arrives as its run ends.                               *)
LEMMA ArrivesAtEnd ==
  ASSUME ImportInv, NEW i \in Importer, run' = [run EXCEPT ![i] = IdleRun], Move,
         run[i].pc = "post", Queues(i, run[i].batch), stored' = stored,
         published' \subseteq Event, lagged' \subseteq Key, excused' \subseteq Key,
         stray' \subseteq Fingerprint, UNCHANGED marks,
         \/ claims' = claims /\ lagged \subseteq lagged'
         \/ /\ claims' = claims \ ClaimsOf(i, run[i].batch)
            /\ lagged' = lagged \cup ClaimsOf(i, run[i].batch)
  PROVE  ImportInv'
<1>1. moves \in Nat /\ moves' \in 0..MaxMoves /\ moves' \in Nat /\ moves' > moves
  BY MoveType DEF ImportInv
<1>2. run[i].batch \in SUBSET run[i].batch
  OBVIOUS
<1>3. queued' \subseteq Record /\ CopiesBounded'
  BY <1>1, <1>2, CopiesArrive DEF ImportInv
<1>4. RestTyped'
  BY <1>1, <1>3, MarksStay DEF ImportInv, TypeOK, RestTyped
<1>5. /\ TypeOK' /\ Shape' /\ run'[i] = IdleRun /\ Only(i)
      /\ run'[i].batch = {} /\ run'[i].pc = "idle" /\ ~Posting(i)'
  BY <1>4, EndOfRun
<1>6. Held' /\ Covered' /\ NoDuplicates'
  BY <1>2, <1>5, RecordsArrive DEF ImportInv
<1> QED BY <1>3, <1>5, <1>6 DEF ImportInv

(* A run ends with nothing more than its claims left.                      *)
LEMMA ClaimsStay ==
  ASSUME ImportInv, NEW i \in Importer, run' = [run EXCEPT ![i] = IdleRun], Move,
         UNCHANGED <<published, claims, queued, stored, lagged, stray>>,
         excused' \subseteq Key, MarksTyped'
  PROVE  ImportInv'
<1>1. moves \in Nat /\ moves' \in 0..MaxMoves /\ moves' \in Nat /\ moves' > moves
  BY MoveType DEF ImportInv
<1>2. RestTyped'
  BY <1>1 DEF ImportInv, TypeOK, RestTyped
<1>3. /\ TypeOK' /\ Shape' /\ run'[i] = IdleRun /\ Only(i)
      /\ run'[i].batch = {} /\ run'[i].pc = "idle" /\ ~Posting(i)'
  BY <1>2, EndOfRun
<1>4. Accepted' = Accepted
  BY DEF Accepted
<1>5. Held' /\ Covered' /\ NoDuplicates' /\ CopiesBounded'
  BY <1>1, <1>3, <1>4, RunMovesOn
<1> QED BY <1>3, <1>5 DEF ImportInv

LEMMA PostRaisesStep ==
  ASSUME ImportInv, NEW i \in Importer, NEW arrived \in BOOLEAN,
         NEW unclaims \in BOOLEAN, PostRaises(i, arrived, unclaims)
  PROVE  ImportInv'
<1> DEFINE keys == ClaimsOf(i, run[i].batch)
<1>1. /\ run[i].pc = "post" /\ run' = [run EXCEPT ![i] = IdleRun] /\ Move
      /\ UNCHANGED <<published, stored, stray, marks>>
      /\ IF arrived THEN Queues(i, run[i].batch) ELSE UNCHANGED queued
      /\ claims' = IF unclaims THEN claims \ keys ELSE claims
      /\ lagged' = IF arrived /\ unclaims THEN lagged \cup keys ELSE lagged
      /\ excused' = IF unclaims \/ arrived THEN excused ELSE excused \cup keys
  BY DEF PostRaises, Unclaimed
<1>2. run[i].batch \in SUBSET Event /\ keys \subseteq Key
  BY BatchType
<1>3. lagged' \subseteq Key /\ excused' \subseteq Key /\ published' \subseteq Event
      /\ stray' \subseteq Fingerprint /\ MarksTyped'
  BY <1>1, <1>2, MarksStay DEF ImportInv, TypeOK
<1>4. CASE arrived
  <2>1. \/ claims' = claims /\ lagged \subseteq lagged'
        \/ claims' = claims \ keys /\ lagged' = lagged \cup keys
    BY <1>1, <1>4
  <2> QED BY <1>1, <1>3, <1>4, <2>1, ArrivesAtEnd
<1>5. CASE ~arrived /\ ~unclaims
  BY <1>1, <1>3, <1>5, ClaimsStay
<1>6. CASE ~arrived /\ unclaims
  <2>1. claims' = claims \ keys /\ UNCHANGED <<queued, stored>> /\ lagged' = lagged
    BY <1>1, <1>6
  <2>2. moves \in Nat /\ moves' \in 0..MaxMoves /\ moves' \in Nat /\ moves' > moves
    BY <1>1, MoveType DEF ImportInv
  <2>3. RestTyped'
    BY <1>1, <1>3, <2>1, <2>2 DEF ImportInv, TypeOK, RestTyped
  <2>4. /\ TypeOK' /\ Shape' /\ Only(i) /\ run'[i].batch = {} /\ ~Posting(i)'
    BY <1>1, <2>3, EndOfRun
  <2>5. Posting(i) /\ run[i].batch \in SUBSET run[i].batch
    BY <1>1 DEF Posting
  <2>6. Held' /\ Covered' /\ NoDuplicates'
    BY <2>1, <2>4, <2>5, ClaimsReturned DEF ImportInv
  <2>7. CopiesBounded'
    BY <2>1, <2>2, CopiesKept DEF ImportInv, Accepted
  <2> QED BY <2>4, <2>6, <2>7 DEF ImportInv
<1> QED BY <1>4, <1>5, <1>6

(* A run of which some of the batch is missing waits, or is to heal.       *)
LEMMA LooksAgain ==
  ASSUME ImportInv, NEW i \in Importer, ~Posting(i),
         NEW pc \in {"verify", "heal"}, NEW missing \in SUBSET run[i].batch,
         LooksFor(i, missing, pc),
         UNCHANGED <<published, claims, queued, stored, history>>,
         moves' \in 0..MaxMoves, moves' >= moves,
         pc = "heal" =>
           moves' > moves \/ \A e \in missing : \A r \in Accepted : r.event # e
  PROVE  ImportInv'
<1> DEFINE y == [run[i] EXCEPT !.pc = pc, !.missing = missing]
           x == IF missing = {} THEN IdleRun ELSE y
<1>1. run[i] \in Run /\ run[i].batch \in SUBSET Event
  BY BatchType
<1>2. /\ y \in Run /\ y.todo = run[i].todo /\ y.batch = run[i].batch /\ y.pc = pc
      /\ y.prints = run[i].prints /\ y.missing = missing
  BY <1>1 DEF Run
<1> HIDE DEF y
<1>3. /\ x \in Run /\ x.todo \cap x.batch = {} /\ x.missing \subseteq x.batch
      /\ \A e \in x.todo \cup x.batch : Owner[e] = i
      /\ x.pc \in {"idle", pc} /\ (x.pc # "idle" => x.missing = missing)
      /\ x.batch = {} \/ (x.batch = run[i].batch /\ x.prints = run[i].prints)
  <2>1. CASE missing = {}
    BY <2>1, IdleType
  <2>2. CASE missing # {}
    BY <1>2, <2>2 DEF ImportInv, TypeOK, Shape
  <2> QED BY <2>1, <2>2
<1>4. run' = [run EXCEPT ![i] = x] /\ MarksTyped'
  <2>1. CASE missing = {}
    BY <2>1, NewestType, MarksMove DEF LooksFor, ImportInv
  <2>2. CASE missing # {}
    BY <2>2, MarksStay DEF LooksFor, ImportInv, y
  <2> QED BY <2>1, <2>2
<1> HIDE DEF x
<1>5. RestTyped'
  BY <1>4 DEF ImportInv, TypeOK, RestTyped, history
<1>6. TypeOK' /\ Shape' /\ run'[i] = x /\ Only(i)
  BY <1>3, <1>4, <1>5, TypeOfRun
<1>7. Accepted' = Accepted /\ claims' = claims /\ lagged' = lagged /\ moves' \in Nat
  BY ImportAssumption DEF Accepted, history
<1>8. ~Posting(i)'
  BY <1>3, <1>6 DEF Posting
<1>9. /\ run'[i].batch \subseteq run[i].batch
      /\ \A e \in run'[i].batch : run'[i].prints[e] = run[i].prints[e]
      /\ run'[i].pc = "heal" =>
           moves' > moves \/ \A e \in run'[i].missing : \A r \in Accepted : r.event # e
  BY <1>3, <1>6
<1>10. Held' /\ Covered' /\ NoDuplicates' /\ CopiesBounded'
  BY <1>6, <1>7, <1>8, <1>9, RunMovesOn
<1> QED BY <1>6, <1>10 DEF ImportInv

LEMMA AfterStep ==
  ASSUME ImportInv, NEW i \in Importer, After(i) PROVE ImportInv'
<1> DEFINE missing == {e \in run[i].batch : ~Visible(e)}
<1>1. /\ LooksFor(i, missing, "verify")
      /\ UNCHANGED <<published, claims, queued, stored, moves, history>>
      /\ run[i].pc = "after"
  BY DEF After
<1>2. ~Posting(i) /\ missing \in SUBSET run[i].batch
      /\ moves' \in 0..MaxMoves /\ moves' >= moves
  BY <1>1, ImportAssumption DEF Posting, ImportInv, TypeOK
<1> HIDE DEF missing
<1> QED BY <1>1, <1>2, LooksAgain

LEMMA VerifyStep ==
  ASSUME ImportInv, NEW i \in Importer, Verify(i) PROVE ImportInv'
<1> DEFINE missing == {e \in run[i].missing : ~Visible(e)}
<1>1. /\ LooksFor(i, missing, "heal")
      /\ UNCHANGED <<published, claims, queued, stored, history>>
      /\ run[i].pc = "verify"
      /\ IF missing \subseteq Gone(missing) THEN UNCHANGED moves ELSE Move
  BY DEF Verify
<1>2. ~Posting(i) /\ missing \in SUBSET run[i].batch
  BY <1>1, BatchType DEF Posting
<1>3. moves' \in 0..MaxMoves /\ moves' >= moves
  BY <1>1, MoveType, ImportAssumption DEF ImportInv, TypeOK
<1>4. moves' > moves \/ \A e \in missing : \A r \in Accepted : r.event # e
  <2>1. CASE missing \subseteq Gone(missing)
    BY <2>1 DEF Gone
  <2>2. CASE ~(missing \subseteq Gone(missing))
    BY <1>1, <2>2, MoveType DEF ImportInv
  <2> QED BY <2>1, <2>2
<1> HIDE DEF missing
<1> QED BY <1>1, <1>2, <1>3, <1>4, LooksAgain

LEMMA CannotVerifyStep ==
  ASSUME ImportInv, NEW i \in Importer, CannotVerify(i) PROVE ImportInv'
<1>1. ClaimsOf(i, run[i].batch) \subseteq Key
  BY BatchType
<1>2. excused' \subseteq Key
  BY <1>1 DEF CannotVerify, ImportInv, TypeOK, Unrecorded
<1>3. MarksTyped' /\ run' = [run EXCEPT ![i] = IdleRun]
  <2>1. CASE UNCHANGED marks /\ run' = [run EXCEPT ![i] = IdleRun]
    BY <2>1, MarksStay DEF ImportInv
  <2>2. CASE Returns(i, run[i].newest, run[i].kept)
    BY <2>2, NewestType, MarksMove DEF ImportInv
  <2> QED BY <2>1, <2>2 DEF CannotVerify
<1> QED BY <1>2, <1>3, ClaimsStay DEF CannotVerify

LEMMA KilledStep ==
  ASSUME ImportInv, NEW i \in Importer, NEW arrived \in BOOLEAN, Killed(i, arrived)
  PROVE  ImportInv'
<1>1. ClaimsOf(i, run[i].batch) \subseteq Key
  BY BatchType
<1>2. CASE arrived
  <2>1. /\ published' \subseteq Event /\ lagged' \subseteq Key /\ excused' \subseteq Key
        /\ stray' \subseteq Fingerprint
    BY <1>2 DEF Killed, ImportInv, TypeOK
  <2> QED BY <1>2, <2>1, ArrivesAtEnd DEF Killed
<1>3. CASE ~arrived
  <2>1. excused' \subseteq Key
    BY <1>1, <1>3 DEF Killed, ImportInv, TypeOK, Unrecorded
  <2>2. MarksTyped'
    BY MarksStay DEF Killed, ImportInv
  <2> QED BY <1>3, <2>1, <2>2, ClaimsStay DEF Killed
<1> QED BY <1>2, <1>3

LEMMA HealStep ==
  ASSUME ImportInv, NEW i \in Importer, Heal(i) PROVE ImportInv'
<1> DEFINE es == run[i].missing
<1>0. es \in SUBSET run[i].batch /\ es \in SUBSET Event /\ Gone(es) \subseteq es
  BY BatchType DEF Gone
<1>1. /\ run[i].pc = "heal" /\ claims' = claims \ ClaimsOf(i, es)
      /\ lagged' = lagged \cup ClaimsOf(i, es \ Gone(es))
      /\ run' = [run EXCEPT ![i] = IdleRun] /\ MarksTyped'
      /\ UNCHANGED <<published, queued, stored, moves, excused, stray>>
  BY NewestType, MarksMove DEF Heal, Unclaimed, ImportInv
<1>2. lagged' \subseteq Key /\ lagged \subseteq lagged'
  <2>1. es \ Gone(es) \in SUBSET Event
    BY <1>0
  <2> QED BY <1>1, <2>1, BatchType DEF ImportInv, TypeOK
<1>3. RestTyped'
  BY <1>1, <1>2 DEF ImportInv, TypeOK, RestTyped
<1>4. TypeOK' /\ Shape' /\ Only(i) /\ run'[i].batch = {} /\ run'[i].pc = "idle" /\ ~Posting(i)'
  BY <1>1, <1>3, EndOfRun
<1>5. ASSUME NEW e \in es
      PROVE  KeysOf(i, e) \subseteq lagged' \/ \A r \in Accepted : r.event # e
  <2>1. CASE e \in Gone(es)
    BY <2>1 DEF Gone
  <2>2. CASE e \in es \ Gone(es)
    <3>1. es \ Gone(es) \in SUBSET Event
      BY <1>0
    <3>2. \A k \in KeysOf(i, e) : k \in ClaimsOf(i, es \ Gone(es))
      BY <2>2, <3>1, KeysOfBatch DEF ImportInv
    <3> QED BY <1>1, <3>2
  <2> QED BY <2>1, <2>2
<1>6. Held' /\ Covered' /\ NoDuplicates'
  <2>1. UNCHANGED <<queued, stored>>
    BY <1>1
  <2> HIDE DEF es
  <2> QED BY <1>0, <1>1, <1>2, <1>4, <1>5, <2>1, ClaimsReturned DEF ImportInv
<1>7. ASSUME NEW e \in Event, Open(e)' PROVE Open(e)
  <2>1. CASE e \notin claims'
    <3>1. CASE e \in ClaimsOf(i, es)
      <4>1. e \in run[i].missing
        BY <1>0, <3>1, KeysOfBatch DEF ImportInv
      <4> QED BY <1>1, <4>1 DEF Open
    <3>2. CASE e \notin claims
      BY <3>2 DEF Open
    <3> QED BY <1>1, <2>1, <3>1, <3>2
  <2>2. ASSUME NEW j \in Importer,
               \/ Posting(j)' /\ e \in run'[j].batch
               \/ run'[j].pc = "heal" /\ e \in run'[j].missing
        PROVE  Open(e)
    <3>1. j # i
      <4> SUFFICES ASSUME j = i PROVE FALSE
        OBVIOUS
      <4> QED BY <1>4, <2>2
    <3> QED BY <1>4, <2>2, <3>1 DEF Open, Only, Posting
  <2> QED BY <1>7, <2>1, <2>2 DEF Open
<1>8. CopiesBounded'
  BY <1>1, <1>7, ImportAssumption, CopiesKept DEF ImportInv, TypeOK, Accepted
<1> QED BY <1>4, <1>6, <1>8 DEF ImportInv

-----------------------------------------------------------------------------
LEMMA ImportInvIsInductive ==
  ASSUME ImportInv, [Next]_vars PROVE ImportInv'
<1>1. CASE UNCHANGED vars
  <2>1. /\ published' = published /\ claims' = claims /\ queued' = queued
        /\ stored' = stored /\ run' = run /\ moves' = moves /\ lagged' = lagged
        /\ excused' = excused /\ stray' = stray /\ watermark' = watermark
        /\ overtaken' = overtaken
    BY <1>1 DEF vars, history, marks
  <2>2. TypeOK' /\ Shape'
    BY <2>1 DEF ImportInv, TypeOK, Shape
  <2>3. Quiet
    BY <2>1 DEF Quiet, Accepted, Posting
  <2>4. CopiesBounded'
    BY <2>1, ImportAssumption, CopiesKept DEF ImportInv, TypeOK, Accepted, Open, Posting
  <2> QED BY <2>2, <2>3, <2>4, QuietStep DEF ImportInv
<1>2. ASSUME NEW i \in Importer, ImportStep(i) PROVE ImportInv'
  BY <1>2, ReadbackStep, ClaimStep, PostStep, AfterStep, VerifyStep, HealStep DEF ImportStep
<1>3. ASSUME NEW i \in Importer, Misfortune(i) PROVE ImportInv'
  BY <1>3, CannotClaimStep, CannotVerifyStep, PostStep, KilledStep, PostRaisesStep
     DEF Misfortune
<1> QED BY <1>1, <1>2, <1>3, PublishStep, StoresStep DEF Next

LEMMA ImportInvHolds == Spec => []ImportInv
<1>1. Init => ImportInv
  BY ImportInit
<1>2. ImportInv /\ [Next]_vars => ImportInv'
  BY ImportInvIsInductive
<1> QED BY <1>1, <1>2, PTL DEF Spec

(* Claims, the records on Fulcra and the runs of the importers stay well   *)
(* typed; an importer only ever has its own events in hand.  That the      *)
(* copies of an event never run out of numbers rests on CopiesBounded.     *)
THEOREM TypeCorrect == Spec => []TypeOK
<1>1. ImportInv => TypeOK
  BY DEF ImportInv
<1> QED BY <1>1, ImportInvHolds, PTL

(* run_import: whatever importers run at the same time, whatever gets lost *)
(* and whoever is killed, two records share the key of a play only if that *)
(* key was given back while a record with it was still under way.          *)
THEOREM NoPlayTwice == Spec => []NoDuplicates
<1>1. ImportInv => NoDuplicates
  BY DEF ImportInv
<1> QED BY <1>1, ImportInvHolds, PTL
=============================================================================
