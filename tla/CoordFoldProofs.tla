-------------------------- MODULE CoordFoldProofs --------------------------
(***************************************************************************)
(* Proofs about CoordFold, for any number of passes, verbs, events and     *)
(* obligations, any caps, and any dates and delays of the records: it is   *)
(* well typed, and no pass, however it is raced, capped or overwritten,    *)
(* takes the cursor past an event that concerns the agent and was not      *)
(* applied, but for those that came too late for the overlap.  Every row   *)
(* has a reason, and the open set is a replay of what was applied.         *)
(***************************************************************************)
EXTENDS CoordFold, TrackLemmas

-----------------------------------------------------------------------------
(* Types.                                                                  *)

(* The empty document is well typed.                                       *)
LEMMA EmptyDocumentType == EmptyDocument \in Document
BY DEF EmptyDocument, Document

(* Applying an event keeps the rows well typed.                            *)
LEMMA AppliedRowsType ==
  ASSUME NEW rows \in [Slug -> Row \cup {None}], NEW e \in sent,
         info[e] \in Content
  PROVE  AppliedRows(rows, e) \in [Slug -> Row \cup {None}]
<1> DEFINE ev == info[e]
<1>0. /\ ev.slug \in Slug /\ ev.from \in {"me", "peer"}
      /\ ev.kind \in {"open", "note", "claim", "release", "close"}
  BY DEF Content, OwnAction
<1>1. CASE ev.kind = "open"
  BY <1>0, <1>1 DEF AppliedRows, Row
<1>2. CASE ev.kind \in {"close", "release"}
  BY <1>0, <1>2 DEF AppliedRows
<1>3. CASE ev.kind = "claim" /\ rows[ev.slug] # None
  <2>1. AppliedRows(rows, e) = [rows EXCEPT ![ev.slug].claimed_by = ev.from]
    BY <1>3 DEF AppliedRows
  <2>2. rows[ev.slug] \in Row
    BY <1>0, <1>3
  <2>3. [rows[ev.slug] EXCEPT !.claimed_by = ev.from] \in Row
    BY <1>0, <2>2 DEF Row
  <2> QED BY <1>0, <2>1, <2>3
<1>4. CASE ev.kind = "note" \/ (ev.kind = "claim" /\ rows[ev.slug] = None)
  BY <1>4 DEF AppliedRows
<1> QED BY <1>0, <1>1, <1>2, <1>3, <1>4

(* Applying an event keeps the document well typed; if the document only   *)
(* remembers what was applied to it, that stays so, and the event has been *)
(* applied to it then.                                                     *)
LEMMA AppliedToType ==
  ASSUME NEW doc \in Document, NEW e \in sent, info[e] \in Content
  PROVE  /\ AppliedTo(doc, e) \in Document
         /\ AppliedTo(doc, e).unread = doc.unread
         /\ Elements(doc.seen) \subseteq doc.done =>
              /\ Elements(AppliedTo(doc, e).seen) \subseteq AppliedTo(doc, e).done
              /\ AppliedTo(doc, e).done = doc.done \cup {e}
<1>1. CASE e \in Elements(doc.seen)
  BY <1>1 DEF AppliedTo
<1>2. CASE e \notin Elements(doc.seen)
  <2> DEFINE rows == AppliedRows(doc.open, e)
             longer == Append(doc.seen, e)
             seen == LastN(longer, SeenCap)
             new == AppliedTo(doc, e)
  <2>1. /\ doc.open \in [Slug -> Row \cup {None}] /\ doc.seen \in Seq(sent)
        /\ doc.done \in SUBSET sent
    BY DEF Document
  <2>2. rows \in [Slug -> Row \cup {None}]
    BY <2>1, AppliedRowsType
  <2>3. longer \in Seq(sent) /\ Elements(longer) \subseteq Elements(doc.seen) \cup {e}
    BY <2>1 DEF Elements
  <2>4. seen \in Seq(sent) /\ Elements(seen) \subseteq Elements(doc.seen) \cup {e}
    BY <2>3, LastNForgets, FoldAssumption
  <2> DEFINE redone == doc.redone \cup (doc.done \cap {e})
  <2>5. /\ new = [doc EXCEPT !.open = rows, !.seen = seen, !.done = doc.done \cup {e},
                             !.redone = redone]
        /\ redone \in SUBSET sent
    BY <1>2 DEF AppliedTo, Document
  <2> HIDE DEF rows, longer, seen, new, redone
  <2>6. new \in Document /\ new.unread = doc.unread
    BY <2>1, <2>2, <2>4, <2>5 DEF Document
  <2>7. new.seen = seen /\ new.done = doc.done \cup {e}
    BY <2>5 DEF Document
  <2> QED BY <2>4, <2>6, <2>7 DEF new
<1> QED BY <1>1, <1>2

(* Writing one more event keeps what is said of the written ones.          *)
LEMMA DocumentGrows ==
  ASSUME sent \subseteq sent'
  PROVE  Document \subseteq Document'
<1>1. Seq(sent) \subseteq Seq(sent')
  OBVIOUS
<1>2. Row \subseteq Row'
  BY DEF Row
<1>3. [Slug -> Row \cup {None}] \subseteq [Slug -> (Row \cup {None})']
  BY <1>2
<1> QED BY <1>1, <1>3 DEF Document

(* What the pass p leaves alone.                                           *)
OnlyPass(p) ==
  \A q \in Pass \ {p} :
    /\ pc'[q] = pc[q] /\ work'[q] = work[q] /\ todo'[q] = todo[q]
    /\ applied'[q] = applied[q] /\ limit'[q] = limit[q]

(* The types of what a pass keeps.                                         *)
PassTypeOK ==
  /\ pc \in [Pass -> {"idle", "loaded", "folding", "saving"}]
  /\ work \in [Pass -> Document]
  /\ todo \in [Pass -> Seq(sent)]
  /\ applied \in [Pass -> Nat]
  /\ limit \in [Pass -> Nat]

(* A pass that ends keeps the types.                                       *)
LEMMA GoneType ==
  ASSUME PassTypeOK, UNCHANGED sent, NEW p \in Pass, Gone(p)
  PROVE  PassTypeOK' /\ pc'[p] = "idle" /\ OnlyPass(p)
<1>1. Document \subseteq Document' /\ sent' = sent
  BY DocumentGrows
<1>2. EmptyDocument \in Document'
  BY <1>1, EmptyDocumentType
<1>3. work' \in [Pass -> Document']
  BY <1>1, <1>2 DEF PassTypeOK, Gone
<1> QED BY <1>1, <1>3 DEF PassTypeOK, Gone, OnlyPass

(* A record under a pass's eyes is a written event with a content.         *)
LEMMA AtRecordType ==
  ASSUME TypeOK, NEW p \in Pass, AtRecord(p)
  PROVE  /\ Head(todo[p]) \in sent /\ Head(todo[p]) = todo[p][1]
         /\ todo[p] \in Seq(sent) /\ Len(todo[p]) \in Nat \ {0}
         /\ Tail(todo[p]) \in Seq(sent) /\ Len(Tail(todo[p])) = Len(todo[p]) - 1
         /\ \A i \in 1..(Len(todo[p]) - 1) : Tail(todo[p])[i] = todo[p][i + 1]
<1>1. todo[p] \in Seq(sent) /\ todo[p] # << >>
  BY DEF TypeOK, AtRecord
<1> QED BY <1>1

(* Written events have a content.                                          *)
LEMMA ContentType ==
  ASSUME TypeOK, NEW e \in sent
  PROVE  e \in Event /\ info[e] \in Content
BY DEF TypeOK, TrackTypeOK

(* The channel's steps and the verbs keep the types of the passes.         *)
LEMMA PassTypesGrow ==
  ASSUME PassTypeOK, sent \subseteq sent', UNCHANGED passes
  PROVE  PassTypeOK'
<1>1. Document \subseteq Document' /\ Seq(sent) \subseteq Seq(sent')
  BY DocumentGrows
<1> QED BY <1>1 DEF PassTypeOK, passes

(* An event is written only once, and is typed.                            *)
LEMMA EmitType ==
  ASSUME TypeOK, NEW e \in Event, NEW d \in Int, Emit(e, d),
         NEW m \in Content, info' = [info EXCEPT ![e] = m]
  PROVE  /\ TrackTypeOK' /\ sent \subseteq sent'
         /\ info' \in [Event -> Content \cup {None}]
         /\ \A f \in sent' : info'[f] # None
<1>1. TrackTypeOK' /\ sent \subseteq sent'
  BY DEF TypeOK, TrackTypeOK, Emit
<1>2. None \notin Content
  BY NoneAssumption
<1> QED BY <1>1, <1>2 DEF TypeOK, Emit, TrackTypeOK

(* A step of a pass keeps the types.                                       *)
LEMMA PassStepType ==
  ASSUME TypeOK, NEW p \in Pass, PassStep(p)
  PROVE  TypeOK'
<1>1. CASE Status(p)
  BY <1>1 DEF Status, vars, track, passes, history, TypeOK, TrackTypeOK, Document, Row
<1>2. CASE ~Status(p)
  <2>1. UNCHANGED <<clock, sent, at, visible, info, want, overtaken>> /\ abandoned' \in Nat
    BY <1>2 DEF PassStep, Load, Read, PassOver, LeaveUnread, Apply, NoProgress,
      Recheck, Save, PassAbandon, track, history, TypeOK
  <2>2. Document' = Document
    BY <2>1 DEF Document, Row
  <2>0. frontier' \in Int
    <3>1. CASE Read(p)
      <4>1. PICK s \in NewestLast(Stream(p)) :
              frontier' = IF s # << >> /\ frontier < at[s[Len(s)]]
                          THEN at[s[Len(s)]] ELSE frontier
        BY <3>1 DEF Read
      <4>2. Stream(p) \in SUBSET Event /\ frontier \in Int
        BY DEF TypeOK, TrackTypeOK, Stream
      <4>3. s \in Seq(Event)
        BY <4>2, ListingOfSet
      <4>4. s # << >> => s[Len(s)] \in Event
        BY <4>3
      <4> QED BY <4>1, <4>2, <4>4 DEF TypeOK, TrackTypeOK
    <3>2. CASE ~Read(p)
      BY <1>2, <3>2 DEF PassStep, Load, PassOver, LeaveUnread, Apply, NoProgress,
        Recheck, Save, PassAbandon, history, TypeOK
    <3> QED BY <3>1, <3>2
  <2>3. SUFFICES PassTypeOK' /\ (checkpoint' = None \/ checkpoint' \in Document)
    BY <2>0, <2>1, <2>2 DEF TypeOK, PassTypeOK, TrackTypeOK
  <2>4. PassTypeOK /\ (checkpoint = None \/ checkpoint \in Document)
    BY DEF TypeOK, PassTypeOK
  <2>5. ASSUME Gone(p) PROVE PassTypeOK'
    BY <2>1, <2>4, <2>5, GoneType
  <2>6. ASSUME NEW rebuild \in Rebuild, NEW max \in MaxEvents, Load(p, rebuild, max)
        PROVE  PassTypeOK' /\ checkpoint' = checkpoint
    <3> DEFINE doc == IF checkpoint = None THEN EmptyDocument
                      ELSE IF rebuild
                      THEN [EmptyDocument EXCEPT !.generation = checkpoint.generation]
                      ELSE checkpoint
    <3>1. doc \in Document
      <4>1. CASE checkpoint = None
        BY <4>1, EmptyDocumentType
      <4>2. CASE checkpoint # None
        BY <4>2, <2>4, EmptyDocumentType DEF Document
      <4> QED BY <4>1, <4>2
    <3>2. /\ work' = [work EXCEPT ![p] = [doc EXCEPT !.unread = 0]]
          /\ pc' = [pc EXCEPT ![p] = "loaded"]
          /\ limit' = [limit EXCEPT ![p] = max] /\ max \in Nat
          /\ UNCHANGED <<checkpoint, todo, applied>>
      BY <2>6, FoldAssumption DEF Load
    <3> HIDE DEF doc
    <3>3. [doc EXCEPT !.unread = 0] \in Document
      BY <3>1 DEF Document
    <3> QED BY <2>1, <2>2, <2>4, <3>2, <3>3 DEF PassTypeOK
  <2>7. CASE Read(p)
    <3> DEFINE S == Stream(p)
    <3>1. PICK s \in NewestLast(S) : todo' = [todo EXCEPT ![p] = s]
      BY <2>7 DEF Read
    <3>2. S \in SUBSET Event /\ S \subseteq sent /\ clock \in Nat
      BY DEF TypeOK, TrackTypeOK, Stream
    <3> HIDE DEF S
    <3>3. s \in Seq(Event) /\ Elements(s) \subseteq sent
      BY <3>2, ListingOfSet
    <3>4. s \in Seq(sent)
      BY <3>3 DEF Elements
    <3>5. /\ pc' = [pc EXCEPT ![p] = "folding"]
          /\ UNCHANGED <<checkpoint, work, applied, limit>>
      BY <2>7 DEF Read
    <3> QED BY <2>1, <2>2, <2>4, <3>1, <3>2, <3>4, <3>5 DEF PassTypeOK
  <2>8. ASSUME AtRecord(p), todo' = [todo EXCEPT ![p] = Tail(@)],
               work'[p] \in Document, work' = [work EXCEPT ![p] = work'[p]],
               applied' \in [Pass -> Nat],
               UNCHANGED <<checkpoint, pc, limit>>
        PROVE  PassTypeOK' /\ checkpoint' = checkpoint
    <3>1. Tail(todo[p]) \in Seq(sent)
      BY <2>8, AtRecordType
    <3> QED BY <2>1, <2>2, <2>4, <2>8, <3>1 DEF PassTypeOK
  <2>9. CASE PassOver(p)
    <3>1. AtRecord(p) /\ work[p] \in Document /\ at[Head(todo[p])] \in Int
      BY <2>9, AtRecordType DEF PassOver, TypeOK, TrackTypeOK
    <3>2. [work[p] EXCEPT !.cursor = at[Head(todo[p])]] \in Document
      BY <3>1 DEF Document
    <3>3. work'[p] \in Document /\ work' = [work EXCEPT ![p] = work'[p]]
      BY <2>4, <2>9, <3>1, <3>2 DEF PassOver, PassTypeOK
    <3> QED BY <2>4, <2>8, <2>9, <3>1, <3>3 DEF PassOver, PassTypeOK
  <2>10. CASE LeaveUnread(p)
    <3>1. AtRecord(p) /\ work[p] \in Document
      BY <2>10 DEF LeaveUnread, TypeOK
    <3>2. [work[p] EXCEPT !.unread = @ + 1] \in Document
      BY <3>1 DEF Document
    <3>3. work'[p] \in Document /\ work' = [work EXCEPT ![p] = work'[p]]
      BY <2>4, <2>10, <3>1, <3>2 DEF LeaveUnread, PassTypeOK
    <3> QED BY <2>4, <2>8, <2>10, <3>1, <3>3 DEF LeaveUnread, PassTypeOK
  <2>11. CASE Apply(p)
    <3> DEFINE e == Head(todo[p])
               new == AppliedTo(work[p], e)
    <3>1. AtRecord(p) /\ work[p] \in Document /\ e \in sent /\ at[e] \in Int
      BY <2>11, AtRecordType DEF Apply, TypeOK, TrackTypeOK
    <3>2. new \in Document
      BY <3>1, ContentType, AppliedToType
    <3>3. [new EXCEPT !.cursor = at[e]] \in Document
      BY <3>1, <3>2 DEF Document
    <3>4. work' = [work EXCEPT ![p] = [new EXCEPT !.cursor = at[e]]]
      BY <2>11 DEF Apply
    <3> HIDE DEF new, e
    <3>5. work'[p] \in Document /\ work' = [work EXCEPT ![p] = work'[p]]
      BY <2>4, <3>3, <3>4 DEF PassTypeOK
    <3> QED BY <2>4, <2>8, <2>11, <3>1, <3>5 DEF Apply, PassTypeOK
  <2>12. CASE NoProgress(p)
    BY <2>4, <2>5, <2>12 DEF NoProgress
  <2>13. CASE Recheck(p)
    BY <2>1, <2>2, <2>4, <2>5, <2>13 DEF Recheck, PassTypeOK
  <2>14. CASE Save(p)
    <3>1. work[p] \in Document
      BY DEF TypeOK
    <3>2. [work[p] EXCEPT !.generation = @ + 1] \in Document
      BY <3>1 DEF Document
    <3> QED BY <2>5, <2>14, <3>2 DEF Save
  <2>15. CASE PassAbandon(p)
    BY <2>4, <2>5, <2>15 DEF PassAbandon
  <2> QED BY <1>2, <2>4, <2>6, <2>7, <2>9, <2>10, <2>11, <2>12, <2>13, <2>14, <2>15
      DEF PassStep
<1> QED BY <1>1, <1>2

(* A step of a verb keeps the types.                                       *)
LEMMA VerbStepType ==
  ASSUME TypeOK, NEW v \in Verb, VerbStep(v)
  PROVE  TypeOK'
<1> DEFINE Wanted == [at: Nat, says: Content \cup {None}] \cup {None}
<1>0. /\ PassTypeOK /\ (checkpoint = None \/ checkpoint \in Document)
      /\ want \in [Verb -> Wanted] /\ TrackTypeOK /\ abandoned \in Nat
      /\ clock \in Nat
  BY DEF TypeOK, PassTypeOK, TrackTypeOK
<1>1. ASSUME UNCHANGED <<track, info, checkpoint, passes, history>>,
             want' \in [Verb -> Wanted], abandoned' \in Nat
      PROVE  TypeOK'
  <2>1. UNCHANGED <<clock, sent, at, visible, pc, work, todo, applied, limit,
                    frontier, overtaken>>
    BY <1>1 DEF track, passes, history
  <2>2. Document' = Document
    BY <2>1 DEF Document, Row
  <2> QED BY <1>1, <2>1, <2>2 DEF TypeOK, TrackTypeOK
<1>2. CASE VerbStart(v)
  BY <1>0, <1>1, <1>2 DEF VerbStart
<1>3. ASSUME NEW kind \in OwnAction, NEW s \in Slug, VerbLookup(v, kind, s)
      PROVE  TypeOK'
  <2>1. checkpoint.open[s] \in Row /\ want[v] \in [at: Nat, says: Content \cup {None}]
    BY <1>0, <1>3 DEF VerbLookup, Document
  <2>2. checkpoint.open[s].event \in sent
    BY <2>1 DEF Row
  <2>3. info[checkpoint.open[s].event].from \in {"me", "peer"}
    BY <2>2, ContentType DEF Content
  <2> DEFINE m == [kind |-> kind, slug |-> s, from |-> "me",
                   to |-> info[checkpoint.open[s].event].from]
  <2>4. m \in Content
    BY <2>3 DEF Content, OwnAction
  <2>5. want' = [want EXCEPT ![v].says = m]
    BY <1>3 DEF VerbLookup
  <2> HIDE DEF m
  <2>6. want' \in [Verb -> Wanted]
    BY <1>0, <2>1, <2>4, <2>5
  <2> QED BY <1>0, <1>1, <1>3, <2>6 DEF VerbLookup
<1>4. ASSUME NEW e \in Event, VerbEmit(v, e)
      PROVE  TypeOK'
  <2>1. want[v] \in [at: Nat, says: Content \cup {None}] /\ want[v].says \in Content
    BY <1>0, <1>4 DEF VerbEmit
  <2>2. want[v].at - clock \in Int
    BY <1>0, <2>1
  <2>3. /\ TrackTypeOK' /\ sent \subseteq sent'
        /\ info' \in [Event -> Content \cup {None}]
        /\ \A f \in sent' : info'[f] # None
    BY <1>4, <2>1, <2>2, EmitType DEF VerbEmit
  <2>4. PassTypeOK' /\ Document \subseteq Document'
    BY <1>0, <1>4, <2>3, PassTypesGrow, DocumentGrows DEF VerbEmit
  <2>5. UNCHANGED <<checkpoint, abandoned, frontier, overtaken>>
        /\ want' \in [Verb -> Wanted]
    BY <1>0, <1>4 DEF VerbEmit, history
  <2> QED BY <1>0, <2>3, <2>4, <2>5 DEF TypeOK, PassTypeOK
<1>5. CASE VerbAbandon(v)
  BY <1>0, <1>1, <1>5 DEF VerbAbandon
<1> QED BY <1>2, <1>3, <1>4, <1>5 DEF VerbStep

(* A step of the channel keeps the types.                                  *)
LEMMA ChannelType ==
  ASSUME TypeOK,
         \/ Clock \/ \E e \in Event : Catchup(e)
         \/ \E e \in Event, d \in Leads, m \in Message : PeerEmit(e, d, m)
  PROVE  TypeOK'
<1>0. PassTypeOK /\ (checkpoint = None \/ checkpoint \in Document) /\ TrackTypeOK
  BY DEF TypeOK, PassTypeOK
<1>1. CASE Clock \/ \E e \in Event : Catchup(e)
  <2>1. /\ TrackTypeOK' /\ sent' = sent /\ frontier' = frontier /\ overtaken' \in SUBSET sent
        /\ UNCHANGED <<info, checkpoint, passes, want, abandoned>>
    BY <1>0, <1>1 DEF Clock, Catchup, Index, TrackTypeOK, TypeOK, history
  <2>2. PassTypeOK' /\ Document \subseteq Document'
    BY <1>0, <2>1, PassTypesGrow, DocumentGrows
  <2> QED BY <2>1, <2>2 DEF TypeOK, PassTypeOK
<1>2. ASSUME NEW e \in Event, NEW d \in Leads, NEW m \in Message, PeerEmit(e, d, m)
      PROVE  TypeOK'
  <2>1. d \in Int /\ m \in Content
    BY TrackAssumption, FoldAssumption
  <2>2. /\ TrackTypeOK' /\ sent \subseteq sent'
        /\ info' \in [Event -> Content \cup {None}]
        /\ \A f \in sent' : info'[f] # None
    BY <1>2, <2>1, EmitType DEF PeerEmit
  <2>3. PassTypeOK' /\ Document \subseteq Document'
    BY <1>0, <1>2, <2>2, PassTypesGrow, DocumentGrows DEF PeerEmit
  <2> QED BY <1>0, <1>2, <2>2, <2>3 DEF PeerEmit, TypeOK, PassTypeOK, history
<1> QED BY <1>1, <1>2

(* The initial state is well typed.                                        *)
LEMMA InitType == Init => TypeOK
<1> SUFFICES ASSUME Init PROVE TypeOK
  OBVIOUS
<1>1. TrackTypeOK
  BY DEF Init, TrackInit, TrackTypeOK
<1> QED BY <1>1, EmptyDocumentType DEF Init, TypeOK

(* Every step keeps the types.                                             *)
LEMMA NextType == TypeOK /\ [Next]_vars => TypeOK'
<1> SUFFICES ASSUME TypeOK, [Next]_vars PROVE TypeOK'
  OBVIOUS
<1>1. CASE Next
  BY <1>1, ChannelType, PassStepType, VerbStepType DEF Next
<1>2. CASE UNCHANGED vars
  BY <1>2 DEF vars, track, passes, history, TypeOK, TrackTypeOK, Document, Row
<1> QED BY <1>1, <1>2

(* Every reachable state of the fold is well typed: rows, memories and the *)
(* records a pass works on are always events somebody has written.         *)
THEOREM TypeCorrect == Spec => []TypeOK
<1>1. Init => TypeOK
  BY InitType
<1>2. TypeOK /\ [Next]_vars => TypeOK'
  BY NextType
<1> QED BY <1>1, <1>2, PTL DEF Spec
-----------------------------------------------------------------------------
(* No event is skipped but those that came too late.                       *)

(* Fields of documents are numbers.                                        *)
LEMMA Fields ==
  ASSUME NEW doc \in Document
  PROVE  /\ doc.cursor \in Int /\ doc.unread \in Nat
         /\ doc.done \in SUBSET sent /\ doc.seen \in Seq(sent)
BY DEF Document

(* The numbers the invariant compares.                                     *)
LEMMA Numbers ==
  ASSUME TypeOK
  PROVE  /\ clock \in Nat /\ at \in [Event -> Int] /\ sent \subseteq Event
         /\ visible \subseteq sent /\ frontier \in Int /\ Overlap \in Nat
         /\ \A p \in Pass : /\ work[p] \in Document
                            /\ applied[p] \in Nat /\ limit[p] \in Nat
                            /\ todo[p] \in Seq(sent)
         /\ \A v \in Verb : want[v] # None => want[v].at \in Nat
BY FoldAssumption DEF TypeOK, TrackTypeOK

(* What a step of the channel or of a verb may do: events are written,     *)
(* dated after the epoch, or indexed; passes, documents and the newest     *)
(* date read stay.                                                         *)
OutsideStep ==
  /\ UNCHANGED <<checkpoint, passes, frontier>>
  /\ sent \subseteq sent' /\ sent' \subseteq Event
  /\ \A e \in sent : at'[e] = at[e] /\ info'[e] = info[e]
  /\ \A e \in sent' \ sent : at'[e] \in Int /\ at'[e] >= 0
  /\ \A e \in sent' \ sent : e \notin visible'
  /\ visible \subseteq visible' /\ overtaken \subseteq overtaken'
  /\ \A e \in sent : e \in visible' \ visible /\ Ahead(e) => e \in overtaken'

(* An event that came too late always did.                                 *)
LEMMA OutsideOvertaken ==
  ASSUME TypeOK, OutsideStep, NEW e \in sent, Overtaken(e)
  PROVE  Overtaken(e)'
<1>1. Ahead(e) => Ahead(e)'
  BY DEF OutsideStep, Ahead
<1>2. CASE e \in overtaken
  BY <1>2 DEF OutsideStep, Overtaken
<1>3. CASE e \notin visible /\ Ahead(e)
  BY <1>1, <1>3 DEF OutsideStep, Overtaken
<1> QED BY <1>2, <1>3 DEF Overtaken

(* A new event came too late, or the overlap reaches back to it from       *)
(* everything read.                                                        *)
LEMMA NewEvent ==
  ASSUME TypeOK, OutsideStep, NEW e \in sent' \ sent
  PROVE  /\ at'[e] \in Int
         /\ Overtaken(e)' \/ frontier <= at'[e] + Overlap
<1> USE Numbers
<1>1. at'[e] \in Int /\ e \notin visible' /\ frontier' = frontier
  BY DEF OutsideStep
<1> QED BY <1>1 DEF Overtaken, Ahead

(* Steps of the channel and of the verbs are such steps.                   *)
LEMMA EmitOutside ==
  ASSUME TypeOK, NEW e \in Event, NEW d \in Int, Emit(e, d), 0 <= clock + d,
         NEW m, info' = [info EXCEPT ![e] = m],
         UNCHANGED <<checkpoint, passes, history>>
  PROVE  OutsideStep
<1>1. /\ sent' = sent \cup {e} /\ e \notin sent /\ visible' = visible
      /\ at'[e] = clock + d /\ e \notin visible
      /\ \A f \in sent : at'[f] = at[f] /\ info'[f] = info[f]
  BY DEF Emit, TypeOK, TrackTypeOK
<1>2. clock + d \in Int
  BY Numbers
<1>3. sent' \subseteq Event /\ UNCHANGED <<frontier, overtaken>>
  BY <1>1, Numbers DEF history
<1> QED BY <1>1, <1>2, <1>3 DEF OutsideStep

LEMMA ChannelOutside ==
  ASSUME TypeOK,
         \/ Clock \/ \E e \in Event : Catchup(e)
         \/ \E e \in Event, d \in Leads, m \in Message : PeerEmit(e, d, m)
         \/ UNCHANGED vars
  PROVE  OutsideStep
<1>0. sent \subseteq Event /\ visible \subseteq sent
  BY Numbers
<1>1. CASE Clock \/ UNCHANGED vars
  BY <1>0, <1>1 DEF Clock, vars, track, history, passes, OutsideStep
<1>2. ASSUME NEW e \in Event, Catchup(e) PROVE OutsideStep
  BY <1>0, <1>2 DEF Catchup, Index, OutsideStep
<1>3. ASSUME NEW e \in Event, NEW d \in Leads, NEW m \in Message, PeerEmit(e, d, m)
      PROVE  OutsideStep
  <2>1. d \in Int
    BY TrackAssumption
  <2> QED BY <1>3, <2>1, EmitOutside DEF PeerEmit
<1> QED BY <1>1, <1>2, <1>3

LEMMA VerbOutside ==
  ASSUME TypeOK, NEW v \in Verb, VerbStep(v)
  PROVE  OutsideStep
<1> USE Numbers
<1>1. ASSUME UNCHANGED <<track, info, checkpoint, passes, history>> PROVE OutsideStep
  BY <1>1 DEF track, history, OutsideStep
<1>2. ASSUME NEW e \in Event, VerbEmit(v, e) PROVE OutsideStep
  <2> DEFINE d == want[v].at - clock
  <2>1. want[v].at \in Nat
    BY <1>2 DEF VerbEmit
  <2>2. d \in Int /\ 0 <= clock + d
    BY <2>1
  <2>3. /\ Emit(e, d) /\ info' = [info EXCEPT ![e] = want[v].says]
        /\ UNCHANGED <<checkpoint, passes, history>>
    BY <1>2 DEF VerbEmit
  <2> HIDE DEF d
  <2> QED BY <2>2, <2>3, EmitOutside
<1> QED BY <1>1, <1>2 DEF VerbStep, VerbStart, VerbLookup, VerbAbandon

(* The invariant of a document survives such a step.                       *)
LEMMA DocumentLater ==
  ASSUME TypeOK, NEW doc \in Document, DocumentInv(doc), OutsideStep
  PROVE  DocumentInv(doc)'
<1> USE Numbers, Fields
<1>1. doc.cursor <= frontier'
  BY DEF DocumentInv, OutsideStep
<1>2. ASSUME NEW e \in sent', Relevant(info'[e])
      PROVE  e \in doc.done \/ at'[e] >= doc.cursor - Overlap \/ Overtaken(e)'
  <2>1. CASE e \in sent
    <3>1. at'[e] = at[e] /\ info'[e] = info[e]
      BY <2>1 DEF OutsideStep
    <3> QED BY <1>2, <2>1, <3>1, OutsideOvertaken DEF DocumentInv, Complete
  <2>2. CASE e \notin sent
    <3>1. at'[e] \in Int /\ (Overtaken(e)' \/ frontier <= at'[e] + Overlap)
      BY <2>2, NewEvent
    <3> QED BY <3>1 DEF DocumentInv
  <2> QED BY <2>1, <2>2
<1> QED BY <1>1, <1>2 DEF DocumentInv, Complete, Relevant

(* So does the invariant of a pass.                                        *)
LEMMA PassLater ==
  ASSUME TypeOK, NEW p \in Pass, PassInv(p), OutsideStep
  PROVE  PassInv(p)'
<1> USE Numbers
<1>0. /\ pc'[p] = pc[p] /\ work'[p] = work[p] /\ todo'[p] = todo[p]
      /\ applied'[p] = applied[p] /\ limit'[p] = limit[p]
      /\ frontier' = frontier /\ work[p] \in Document
  BY DEF passes, OutsideStep
<1>1. ASSUME DocumentInv(work[p]) PROVE DocumentInv(work[p])'
  <2>1. PICK doc : doc = work[p]
    OBVIOUS
  <2>2. DocumentInv(doc)'
    BY <1>0, <1>1, <2>1, DocumentLater
  <2> QED BY <1>0, <2>1, <2>2
<1>2. ASSUME FoldingInv(p) PROVE FoldingInv(p)'
  <2>1. work[p].cursor \in Int /\ work[p].cursor <= frontier
    BY <1>0, <1>2, Fields DEF FoldingInv
  <2>2. \A i \in 1..Len(todo[p]) :
          /\ todo[p][i] \in sent /\ at[todo[p][i]] \in Int
          /\ at'[todo[p][i]] = at[todo[p][i]] /\ at[todo[p][i]] <= frontier
    <3>1. \A i \in 1..Len(todo[p]) : todo[p][i] \in sent
      BY <1>0
    <3> QED BY <1>2, <3>1 DEF FoldingInv, OutsideStep
  <2>3. ASSUME NEW e \in sent', Relevant(info'[e])
        PROVE  \/ e \in work[p].done \/ e \in Elements(todo[p])
               \/ Overtaken(e)' \/ Reaches(p, e)'
    <3>1. CASE e \in sent
      <4>1. at'[e] = at[e] /\ info'[e] = info[e]
        BY <3>1 DEF OutsideStep
      <4>2. Reaches(p, e) => Reaches(p, e)'
        BY <1>0, <2>2, <4>1 DEF Reaches
      <4>3. Overtaken(e) => Overtaken(e)'
        BY <3>1, OutsideOvertaken
      <4> QED BY <1>2, <2>3, <3>1, <4>1, <4>2, <4>3 DEF FoldingInv
    <3>2. CASE e \notin sent
      <4>1. at'[e] \in Int /\ (Overtaken(e)' \/ frontier <= at'[e] + Overlap)
        BY <3>2, NewEvent
      <4>2. frontier <= at'[e] + Overlap =>
              \A i \in 1..Len(todo[p]) : at'[todo[p][i]] <= at'[e] + Overlap
        BY <2>2, <4>1
      <4>3. frontier <= at'[e] + Overlap => work[p].cursor <= at'[e] + Overlap
        BY <2>1, <4>1
      <4>4. frontier <= at'[e] + Overlap => Reaches(p, e)'
        BY <1>0, <4>2, <4>3 DEF Reaches
      <4> QED BY <4>1, <4>4
    <3> QED BY <3>1, <3>2
  <2>4. /\ \A i \in 1..Len(todo'[p]) :
             /\ work'[p].cursor - Overlap <= at'[todo'[p][i]]
             /\ at'[todo'[p][i]] <= frontier'
        /\ \A i, j \in 1..Len(todo'[p]) :
             i < j => at'[todo'[p][i]] <= at'[todo'[p][j]]
    BY <1>0, <1>2, <2>2 DEF FoldingInv
  <2>5. /\ Elements(work'[p].seen) \subseteq work'[p].done
        /\ work'[p].cursor <= frontier'
        /\ work'[p].unread > 0 => applied'[p] >= limit'[p]
    BY <1>0, <1>2 DEF FoldingInv
  <2>6. \A e \in sent' : Relevant(info[e])' =>
          \/ e \in work'[p].done \/ e \in Elements(todo'[p])
          \/ Overtaken(e)' \/ Reaches(p, e)'
    BY <1>0, <2>3 DEF Relevant
  <2> QED BY <2>4, <2>5, <2>6 DEF FoldingInv
<1> QED BY <1>0, <1>1, <1>2 DEF PassInv

(* The channel and the verbs keep the invariant.                           *)
LEMMA OutsideInv ==
  ASSUME TypeOK, FoldInv, OutsideStep
  PROVE  FoldInv'
<1> USE Numbers
<1>1. 0 <= frontier' /\ \A e \in sent' : 0 <= at'[e]
  <2>1. frontier' = frontier
    BY DEF OutsideStep
  <2>2. ASSUME NEW e \in sent' PROVE 0 <= at'[e]
    <3>1. CASE e \in sent
      BY <3>1 DEF OutsideStep, FoldInv
    <3>2. CASE e \notin sent
      BY <3>2 DEF OutsideStep
    <3> QED BY <3>1, <3>2
  <2> QED BY <2>1, <2>2 DEF FoldInv
<1>2. \A p \in Pass : PassInv(p)'
  BY PassLater DEF FoldInv
<1>3. ASSUME checkpoint # None PROVE DocumentInv(checkpoint)'
  <2>1. PICK doc : doc = checkpoint
    OBVIOUS
  <2>2. doc \in Document /\ DocumentInv(doc)
    BY <1>3, <2>1 DEF TypeOK, FoldInv
  <2>3. DocumentInv(doc)' /\ checkpoint' = doc
    BY <2>1, <2>2, DocumentLater DEF OutsideStep
  <2> QED BY <2>3
<1>4. checkpoint' # None => DocumentInv(checkpoint)'
  BY <1>3 DEF OutsideStep
<1> QED BY <1>1, <1>2, <1>4 DEF FoldInv

(* Passes leave the channel alone and read ever newer records.             *)
InsideStep ==
  /\ UNCHANGED <<track, info, overtaken>>
  /\ frontier <= frontier' /\ frontier' \in Int

(* An event that came too late always did.                                 *)
LEMMA InsideOvertaken ==
  ASSUME TypeOK, InsideStep, NEW e \in sent, Overtaken(e)
  PROVE  Overtaken(e)'
<1>1. UNCHANGED <<at, visible, overtaken>> /\ frontier <= frontier' /\ frontier' \in Int
  BY DEF InsideStep, track
<1>2. Ahead(e) => Ahead(e)'
  BY <1>1, Numbers DEF Ahead
<1> QED BY <1>1, <1>2 DEF Overtaken

(* The invariant of a document survives such a step.                       *)
LEMMA DocumentRead ==
  ASSUME TypeOK, NEW doc \in Document, DocumentInv(doc), InsideStep
  PROVE  DocumentInv(doc)'
<1> USE Numbers, Fields
<1>1. UNCHANGED <<sent, at, info>> /\ frontier <= frontier' /\ frontier' \in Int
  BY DEF InsideStep, track
<1>2. \A e \in sent : Overtaken(e) => Overtaken(e)'
  BY InsideOvertaken
<1> QED BY <1>1, <1>2 DEF DocumentInv, Complete, Relevant

(* So does the invariant of a pass that does not move.                     *)
LEMMA PassRead ==
  ASSUME TypeOK, NEW q \in Pass, PassInv(q), InsideStep,
         pc'[q] = pc[q], work'[q] = work[q], todo'[q] = todo[q],
         applied'[q] = applied[q], limit'[q] = limit[q]
  PROVE  PassInv(q)'
<1> USE Numbers
<1>0. UNCHANGED <<sent, at, info>> /\ frontier <= frontier' /\ frontier' \in Int
  BY DEF InsideStep, track
<1>1. ASSUME DocumentInv(work[q]) PROVE DocumentInv(work[q])'
  <2>1. PICK doc : doc = work[q]
    OBVIOUS
  <2>2. DocumentInv(doc)'
    BY <1>1, <2>1, DocumentRead
  <2> QED BY <2>1, <2>2
<1>2. ASSUME FoldingInv(q) PROVE FoldingInv(q)'
  <2>1. work[q].cursor \in Int /\ work[q].cursor <= frontier
    BY <1>2, Fields DEF FoldingInv
  <2>2. \A i \in 1..Len(todo[q]) : at[todo[q][i]] \in Int
    <3>1. todo[q] \in Seq(sent) /\ sent \subseteq Event
      OBVIOUS
    <3> QED BY <3>1
  <2>3. \A e \in sent : Overtaken(e) => Overtaken(e)'
    BY InsideOvertaken
  <2>4. \A e \in sent : Reaches(q, e) => Reaches(q, e)'
    BY <1>0 DEF Reaches
  <2>5. \A e \in sent : Relevant(info[e]) =>
          \/ e \in work[q].done \/ e \in Elements(todo[q])
          \/ Overtaken(e)' \/ Reaches(q, e)'
    BY <1>2, <2>3, <2>4 DEF FoldingInv
  <2>6. /\ work'[q].cursor <= frontier'
        /\ \A i \in 1..Len(todo[q]) : at[todo[q][i]] <= frontier'
    BY <1>0, <1>2, <2>1, <2>2 DEF FoldingInv
  <2> QED BY <1>0, <1>2, <2>5, <2>6 DEF FoldingInv, Relevant
<1> QED BY <1>1, <1>2 DEF PassInv

(* A step of one pass keeps the invariant if it keeps that of the pass and *)
(* that of the checkpoint.                                                 *)
LEMMA OnePassInv ==
  ASSUME TypeOK, FoldInv, NEW p \in Pass, OnlyPass(p), PassInv(p)', InsideStep,
         checkpoint' = checkpoint \/ (checkpoint' # None => DocumentInv(checkpoint)')
  PROVE  FoldInv'
<1> USE Numbers
<1>1. UNCHANGED <<sent, at>> /\ frontier <= frontier' /\ frontier' \in Int
  BY DEF InsideStep, track
<1>2. 0 <= frontier' /\ \A e \in sent' : 0 <= at'[e]
  BY <1>1 DEF FoldInv
<1>3. ASSUME NEW q \in Pass \ {p} PROVE PassInv(q)'
  BY <1>3, PassRead DEF OnlyPass, FoldInv
<1>4. checkpoint' # None => DocumentInv(checkpoint)'
  <2>1. CASE checkpoint' = checkpoint /\ checkpoint # None
    <3>1. PICK doc : doc = checkpoint
      OBVIOUS
    <3>2. doc \in Document /\ DocumentInv(doc)
      BY <2>1, <3>1 DEF TypeOK, FoldInv
    <3>3. DocumentInv(doc)'
      BY <3>2, DocumentRead
    <3> QED BY <2>1, <3>1, <3>3
  <2> QED BY <2>1
<1> QED BY <1>2, <1>3, <1>4 DEF FoldInv

(* A pass that ends leaves nothing to keep.                                *)
LEMMA GoneInv ==
  ASSUME TypeOK, FoldInv, NEW p \in Pass, Gone(p), InsideStep,
         checkpoint' = checkpoint \/ (checkpoint' # None => DocumentInv(checkpoint)')
  PROVE  FoldInv'
<1>1. pc'[p] = "idle" /\ OnlyPass(p)
  BY GoneType DEF TypeOK, PassTypeOK, track, InsideStep
<1>2. PassInv(p)'
  BY <1>1 DEF PassInv
<1> QED BY <1>1, <1>2, OnePassInv

(* Reading is a step of that kind, and takes the newest date read to the   *)
(* newest record found.                                                    *)
LEMMA ReadIsInside ==
  ASSUME TypeOK, NEW p \in Pass, Read(p)
  PROVE  /\ InsideStep
         /\ \A i \in 1..Len(todo'[p]) : at[todo'[p][i]] <= frontier'
<1> USE Numbers
<1> DEFINE S == Stream(p)
<1>1. PICK s \in NewestLast(S) :
        /\ todo' = [todo EXCEPT ![p] = s]
        /\ frontier' = IF s # << >> /\ frontier < at[s[Len(s)]]
                       THEN at[s[Len(s)]] ELSE frontier
  BY DEF Read
<1>2. S \in SUBSET Event
  BY DEF TypeOK, TrackTypeOK, Stream
<1> HIDE DEF S
<1>3. /\ s \in Seq(Event)
      /\ \A i, j \in 1..Len(s) : i < j => at[s[i]] <= at[s[j]]
  BY <1>2, ListingOfSet, ListingIsSorted
<1>4. todo'[p] = s
  BY <1>1 DEF TypeOK
<1>5. /\ frontier <= frontier' /\ frontier' \in Int
      /\ \A i \in 1..Len(s) : at[s[i]] <= frontier'
  <2>1. CASE s = << >>
    BY <1>1, <2>1
  <2>2. CASE s # << >>
    <3>1. Len(s) \in 1..Len(s) /\ Len(s) \in Nat
      BY <1>3, <2>2
    <3>2. at[s[Len(s)]] \in Int
      BY <1>3, <3>1
    <3>3. at[s[Len(s)]] <= frontier' /\ frontier <= frontier' /\ frontier' \in Int
      BY <1>1, <2>2, <3>2
    <3>4. ASSUME NEW i \in 1..Len(s) PROVE at[s[i]] <= at[s[Len(s)]] /\ at[s[i]] \in Int
      <4>1. CASE i = Len(s)
        BY <3>2, <4>1
      <4>2. CASE i # Len(s)
        <5>1. i < Len(s)
          BY <3>1, <4>2
        <5> QED BY <1>3, <3>1, <5>1
      <4> QED BY <4>1, <4>2
    <3> QED BY <3>2, <3>3, <3>4
  <2> QED BY <2>1, <2>2
<1> QED BY <1>4, <1>5 DEF Read, InsideStep

(* The pass reads the stream: what it does not find is too late, or the    *)
(* overlap reaches back to it from everything found.                       *)
LEMMA ReadInv ==
  ASSUME TypeOK, FoldInv, NEW p \in Pass, Read(p)
  PROVE  FoldInv'
<1> USE Numbers
<1> DEFINE S == {e \in visible : at[e] >= work[p].cursor - Overlap}
<1>1. PICK s \in NewestLast(S) : todo' = [todo EXCEPT ![p] = s]
  BY DEF Read, Stream
<1>2. S \in SUBSET Event
  BY DEF TypeOK, TrackTypeOK
<1>3. /\ s \in Seq(Event) /\ Elements(s) = S
      /\ \A i, j \in 1..Len(s) : i < j => at[s[i]] <= at[s[j]]
  BY <1>2, ListingOfSet, ListingIsSorted
<1>4. \A i \in 1..Len(s) : s[i] \in S /\ at[s[i]] \in Int
  BY <1>2, <1>3 DEF Elements
<1>5. DocumentInv(work[p]) /\ work[p].unread = 0 /\ work[p].cursor \in Int
  BY Fields DEF Read, FoldInv, PassInv
<1> HIDE DEF S
<1>6. /\ pc'[p] = "folding" /\ todo'[p] = s /\ work' = work
      /\ applied' = applied /\ limit' = limit /\ OnlyPass(p)
      /\ UNCHANGED <<track, info, checkpoint, overtaken>>
      /\ UNCHANGED <<clock, sent, at, visible>>
  BY <1>1 DEF Read, OnlyPass, TypeOK, track
<1>7. InsideStep
  BY ReadIsInside
<1>8. /\ frontier <= frontier' /\ frontier' \in Int
      /\ \A i \in 1..Len(s) : at[s[i]] <= frontier'
  BY <1>6, ReadIsInside DEF InsideStep
<1>9. FoldingInv(p)'
  <2>1. ASSUME NEW e \in sent, Relevant(info[e]), e \notin work[p].done, e \notin S
        PROVE  Overtaken(e)' \/ Reaches(p, e)'
    <3>1. CASE Overtaken(e)
      BY <1>7, <3>1, InsideOvertaken
    <3>2. CASE ~Overtaken(e)
      <4>1. at[e] >= work[p].cursor - Overlap /\ at[e] \in Int
        BY <1>5, <2>1, <3>2 DEF DocumentInv, Complete
      <4>2. e \notin visible
        BY <2>1, <4>1 DEF S
      <4>3. CASE at[e] + Overlap < frontier'
        BY <1>6, <4>2, <4>3 DEF Overtaken, Ahead
      <4>4. CASE ~(at[e] + Overlap < frontier')
        <5>1. ASSUME NEW i \in 1..Len(s) PROVE at[s[i]] <= at[e] + Overlap
          <6>1. /\ at[s[i]] <= frontier' /\ at[s[i]] \in Int
                /\ frontier' \in Int /\ Overlap \in Int /\ at[e] \in Int
            BY <1>4, <1>8, <4>1
          <6> QED BY ONLY <4>4, <6>1
        <5>2. work[p].cursor <= at[e] + Overlap
          BY <1>5, <4>1
        <5> QED BY <1>6, <5>1, <5>2 DEF Reaches
      <4> QED BY <4>3, <4>4
    <3> QED BY <3>1, <3>2
  <2>2. /\ Elements(work'[p].seen) \subseteq work'[p].done
        /\ work'[p].cursor <= frontier' /\ ~(work'[p].unread > 0)
    BY <1>5, <1>6, <1>8 DEF DocumentInv
  <2>3. \A i \in 1..Len(s) : work[p].cursor - Overlap <= at[s[i]]
    BY <1>4, <1>5 DEF S
  <2>4. /\ \A i \in 1..Len(todo'[p]) :
             /\ work'[p].cursor - Overlap <= at'[todo'[p][i]]
             /\ at'[todo'[p][i]] <= frontier'
        /\ \A i, j \in 1..Len(todo'[p]) :
             i < j => at'[todo'[p][i]] <= at'[todo'[p][j]]
    BY <1>3, <1>6, <1>8, <2>3
  <2>5. \A e \in sent' : Relevant(info[e])' =>
          \/ e \in work'[p].done \/ e \in Elements(todo'[p])
          \/ Overtaken(e)' \/ Reaches(p, e)'
    BY <1>3, <1>6, <2>1 DEF Relevant
  <2> QED BY <2>2, <2>4, <2>5 DEF FoldingInv
<1>10. PassInv(p)'
  BY <1>6, <1>9 DEF PassInv
<1> QED BY <1>6, <1>7, <1>10, OnePassInv

(* Looking at one record keeps the order and the bounds of the rest.       *)
LEMMA RestOfTodo ==
  ASSUME TypeOK, NEW p \in Pass, AtRecord(p), FoldingInv(p)
  PROVE  LET e == Head(todo[p])
             rest == Tail(todo[p]) IN
         /\ e \in sent /\ at[e] \in Int /\ at[e] <= frontier
         /\ work[p].cursor - Overlap <= at[e]
         /\ Elements(todo[p]) = {e} \cup Elements(rest)
         /\ \A i \in 1..Len(rest) :
              /\ work[p].cursor - Overlap <= at[rest[i]]
              /\ at[e] <= at[rest[i]] /\ at[rest[i]] <= frontier
              /\ at[rest[i]] \in Int
         /\ \A i, j \in 1..Len(rest) : i < j => at[rest[i]] <= at[rest[j]]
<1> DEFINE e == Head(todo[p])
           rest == Tail(todo[p])
           n == Len(todo[p])
<1>1. /\ e \in sent /\ e = todo[p][1] /\ todo[p] \in Seq(sent) /\ n \in Nat \ {0}
      /\ rest \in Seq(sent) /\ Len(rest) = n - 1
      /\ \A i \in 1..(n - 1) : rest[i] = todo[p][i + 1]
  BY AtRecordType
<1>2. /\ \A i \in 1..n : /\ work[p].cursor - Overlap <= at[todo[p][i]]
                         /\ at[todo[p][i]] <= frontier
      /\ \A i, j \in 1..n : i < j => at[todo[p][i]] <= at[todo[p][j]]
  BY DEF FoldingInv
<1>3. sent \subseteq Event /\ at \in [Event -> Int]
  BY Numbers
<1>4. DOMAIN todo[p] = 1..n /\ DOMAIN rest = 1..(n - 1)
  BY <1>1
<1> HIDE DEF e, rest, n
<1>5. Elements(todo[p]) = {e} \cup Elements(rest)
  <2>1. \A i \in 1..n : todo[p][i] \in {e} \cup Elements(rest)
    <3> SUFFICES ASSUME NEW i \in 1..n PROVE todo[p][i] \in {e} \cup Elements(rest)
      OBVIOUS
    <3>1. CASE i = 1
      BY <1>1, <3>1
    <3>2. CASE i # 1
      <4>1. i - 1 \in 1..(n - 1) /\ (i - 1) + 1 = i
        BY <1>1, <3>2
      <4>2. todo[p][i] = rest[i - 1]
        BY <1>1, <4>1
      <4> QED BY <1>4, <4>1, <4>2 DEF Elements
    <3> QED BY <3>1, <3>2
  <2>2. \A i \in 1..(n - 1) : i + 1 \in 1..n
    BY <1>1
  <2>3. 1 \in 1..n
    BY <1>1
  <2> QED BY <1>1, <1>4, <2>1, <2>2, <2>3 DEF Elements
<1>6. \A i \in 1..(n - 1) : i + 1 \in 1..n /\ 1 < i + 1 /\ rest[i] \in sent
  BY <1>1
<1>7. 1 \in 1..n
  BY <1>1
<1>8. \A i \in 1..(n - 1) :
        /\ work[p].cursor - Overlap <= at[rest[i]]
        /\ at[e] <= at[rest[i]] /\ at[rest[i]] <= frontier /\ at[rest[i]] \in Int
  BY <1>1, <1>2, <1>3, <1>6, <1>7
<1>9. \A i, j \in 1..(n - 1) : i < j => at[rest[i]] <= at[rest[j]]
  <2> SUFFICES ASSUME NEW i \in 1..(n - 1), NEW j \in 1..(n - 1), i < j
               PROVE  at[rest[i]] <= at[rest[j]]
    OBVIOUS
  <2>1. i + 1 \in 1..n /\ j + 1 \in 1..n /\ i + 1 < j + 1
    BY <1>6
  <2>2. rest[i] = todo[p][i + 1] /\ rest[j] = todo[p][j + 1]
    BY <1>1
  <2> QED BY <1>2, <2>1, <2>2
<1> QED BY <1>1, <1>2, <1>3, <1>5, <1>7, <1>8, <1>9 DEF e, rest

(* A step that only looks at one record.                                   *)
LEMMA LookStep ==
  ASSUME TypeOK, FoldInv, NEW p \in Pass,
         PassOver(p) \/ LeaveUnread(p) \/ Apply(p)
  PROVE  /\ AtRecord(p) /\ FoldingInv(p) /\ OnlyPass(p)
         /\ pc'[p] = "folding" /\ todo'[p] = Tail(todo[p]) /\ InsideStep
         /\ UNCHANGED <<info, checkpoint, frontier, sent, at>>
         /\ \A e \in sent : Overtaken(e)' = Overtaken(e)
<1>1. /\ AtRecord(p) /\ FoldingInv(p) /\ OnlyPass(p)
      /\ pc'[p] = "folding" /\ todo'[p] = Tail(todo[p])
      /\ UNCHANGED <<track, info, checkpoint, frontier, overtaken>>
      /\ UNCHANGED <<sent, at, visible>>
  BY DEF PassOver, LeaveUnread, Apply, AtRecord, OnlyPass, TypeOK, FoldInv, PassInv, track,
    history
<1>2. InsideStep
  BY <1>1, Numbers DEF InsideStep
<1> QED BY <1>1, <1>2 DEF Overtaken, Ahead

(* The overlap still reaches back to an event when the cursor moves to the *)
(* record looked at, or stays.                                             *)
LEMMA ReachesOn ==
  ASSUME TypeOK, NEW p \in Pass, AtRecord(p), FoldingInv(p), NEW f \in sent,
         Reaches(p, f), at' = at, todo'[p] = Tail(todo[p]),
         work'[p].unread = work[p].unread,
         work'[p].cursor = IF work[p].unread = 0 THEN at[Head(todo[p])]
                           ELSE work[p].cursor
  PROVE  Reaches(p, f)'
<1>1. /\ Head(todo[p]) = todo[p][1] /\ Len(todo[p]) \in Nat \ {0}
      /\ Len(Tail(todo[p])) = Len(todo[p]) - 1
      /\ \A i \in 1..(Len(todo[p]) - 1) : Tail(todo[p])[i] = todo[p][i + 1]
  BY AtRecordType
<1>2. CASE work[p].unread = 0
  <2>1. /\ 1 \in 1..Len(todo[p])
        /\ \A i \in 1..(Len(todo[p]) - 1) : i + 1 \in 1..Len(todo[p])
    BY <1>1
  <2>2. \A i \in 1..Len(todo[p]) : at[todo[p][i]] <= at[f] + Overlap
    BY <1>2 DEF Reaches
  <2> QED BY <1>1, <1>2, <2>1, <2>2 DEF Reaches
<1>3. CASE work[p].unread # 0
  BY <1>3 DEF Reaches
<1> QED BY <1>2, <1>3

(* A record that does not concern the agent is passed over safely.         *)
LEMMA PassOverInv ==
  ASSUME TypeOK, FoldInv, NEW p \in Pass, PassOver(p)
  PROVE  FoldInv'
<1> USE Numbers
<1> DEFINE e == Head(todo[p])
           rest == Tail(todo[p])
           old == work[p]
           new == work'[p]
<1>1. /\ AtRecord(p) /\ FoldingInv(p) /\ OnlyPass(p)
      /\ pc'[p] = "folding" /\ todo'[p] = rest /\ InsideStep
      /\ UNCHANGED <<info, checkpoint, frontier, sent, at>>
      /\ \A f \in sent : Overtaken(f)' = Overtaken(f)
  BY LookStep
<1>2. /\ e \in sent /\ at[e] \in Int /\ at[e] <= frontier
      /\ Elements(todo[p]) = {e} \cup Elements(rest)
      /\ \A i \in 1..Len(rest) :
           /\ old.cursor - Overlap <= at[rest[i]]
           /\ at[e] <= at[rest[i]] /\ at[rest[i]] <= frontier /\ at[rest[i]] \in Int
      /\ \A i, j \in 1..Len(rest) : i < j => at[rest[i]] <= at[rest[j]]
  BY <1>1, RestOfTodo
<1>3. old \in Document /\ old.cursor \in Int /\ old.unread \in Nat
  BY Fields
<1>4. /\ new = IF old.unread = 0 THEN [old EXCEPT !.cursor = at[e]] ELSE old
      /\ applied'[p] = applied[p] /\ limit'[p] = limit[p] /\ ~Relevant(info[e])
  BY DEF PassOver, TypeOK
<1>5. /\ new.seen = old.seen /\ new.done = old.done /\ new.unread = old.unread
      /\ new.cursor = IF old.unread = 0 THEN at[e] ELSE old.cursor
  BY <1>3, <1>4 DEF Document
<1> HIDE DEF e, rest, old, new
<1>6. new.cursor <= frontier
  BY <1>1, <1>2, <1>5 DEF FoldingInv, old
<1>7. \A i \in 1..Len(rest) : new.cursor - Overlap <= at[rest[i]] /\ at[rest[i]] <= frontier
  BY <1>2, <1>3, <1>5
<1>8. ASSUME NEW f \in sent, Reaches(p, f) PROVE Reaches(p, f)'
  BY <1>1, <1>5, <1>8, ReachesOn DEF old, new, e, rest
<1>9. \A f \in sent : Relevant(info[f]) =>
        \/ f \in new.done \/ f \in Elements(rest)
        \/ Overtaken(f)' \/ Reaches(p, f)'
  BY <1>1, <1>2, <1>4, <1>5, <1>8 DEF FoldingInv, old
<1>10. FoldingInv(p)'
  BY <1>1, <1>2, <1>4, <1>5, <1>6, <1>7, <1>9 DEF FoldingInv, Relevant, old, new
<1> QED BY <1>1, <1>10, OnePassInv DEF PassInv

(* An event beyond the cap is left unread safely: the cursor stays.        *)
LEMMA LeaveUnreadInv ==
  ASSUME TypeOK, FoldInv, NEW p \in Pass, LeaveUnread(p)
  PROVE  FoldInv'
<1> USE Numbers
<1> DEFINE e == Head(todo[p])
           rest == Tail(todo[p])
           old == work[p]
           new == work'[p]
<1>1. /\ AtRecord(p) /\ FoldingInv(p) /\ OnlyPass(p)
      /\ pc'[p] = "folding" /\ todo'[p] = rest /\ InsideStep
      /\ UNCHANGED <<info, checkpoint, frontier, sent, at>>
      /\ \A f \in sent : Overtaken(f)' = Overtaken(f)
  BY LookStep
<1>2. /\ e \in sent /\ at[e] \in Int /\ old.cursor - Overlap <= at[e]
      /\ Elements(todo[p]) = {e} \cup Elements(rest)
      /\ \A i \in 1..Len(rest) :
           old.cursor - Overlap <= at[rest[i]] /\ at[rest[i]] <= frontier
      /\ \A i, j \in 1..Len(rest) : i < j => at[rest[i]] <= at[rest[j]]
  BY <1>1, RestOfTodo
<1>3. old \in Document /\ old.cursor \in Int /\ old.unread \in Nat
  BY Fields
<1>4. /\ new = [old EXCEPT !.unread = @ + 1]
      /\ applied'[p] = applied[p] /\ limit'[p] = limit[p] /\ applied[p] >= limit[p]
  BY DEF LeaveUnread, AtCap, TypeOK
<1>5. /\ new.seen = old.seen /\ new.done = old.done /\ new.unread = old.unread + 1
      /\ new.cursor = old.cursor
  BY <1>3, <1>4 DEF Document
<1> HIDE DEF e, rest, old, new
<1>6. old.cursor <= frontier
  BY <1>1 DEF FoldingInv, old
<1>7. ASSUME NEW f \in sent, Reaches(p, f) PROVE Reaches(p, f)'
  <2>1. ~(new.unread = 0)
    BY <1>3, <1>5
  <2> QED BY <1>1, <1>5, <1>7, <2>1 DEF Reaches, old, new
<1>8. ASSUME NEW f \in sent, f = e PROVE Reaches(p, f)'
  <2>1. ~(new.unread = 0) /\ old.cursor <= at[f] + Overlap
    BY <1>2, <1>3, <1>5, <1>8
  <2> QED BY <1>1, <1>5, <2>1 DEF Reaches, new
<1>9. \A f \in sent : Relevant(info[f]) =>
        \/ f \in new.done \/ f \in Elements(rest)
        \/ Overtaken(f)' \/ Reaches(p, f)'
  BY <1>1, <1>2, <1>5, <1>7, <1>8 DEF FoldingInv, old
<1>10. FoldingInv(p)'
  BY <1>1, <1>2, <1>4, <1>5, <1>6, <1>9 DEF FoldingInv, Relevant, old, new
<1> QED BY <1>1, <1>10, OnePassInv DEF PassInv

(* Applying an event takes the cursor to it, past nothing that is still to *)
(* be applied.                                                             *)
LEMMA ApplyInv ==
  ASSUME TypeOK, FoldInv, NEW p \in Pass, Apply(p)
  PROVE  FoldInv'
<1> USE Numbers
<1> DEFINE e == Head(todo[p])
           rest == Tail(todo[p])
           old == work[p]
           mid == AppliedTo(old, e)
           new == work'[p]
<1>1. /\ AtRecord(p) /\ FoldingInv(p) /\ OnlyPass(p)
      /\ pc'[p] = "folding" /\ todo'[p] = rest /\ InsideStep
      /\ UNCHANGED <<info, checkpoint, frontier, sent, at>>
      /\ \A f \in sent : Overtaken(f)' = Overtaken(f)
  BY LookStep
<1>2. /\ e \in sent /\ at[e] \in Int /\ at[e] <= frontier
      /\ Elements(todo[p]) = {e} \cup Elements(rest)
      /\ \A i \in 1..Len(rest) :
           /\ at[e] <= at[rest[i]] /\ at[rest[i]] <= frontier /\ at[rest[i]] \in Int
      /\ \A i, j \in 1..Len(rest) : i < j => at[rest[i]] <= at[rest[j]]
  BY <1>1, RestOfTodo
<1>3. old \in Document /\ old.cursor \in Int /\ old.unread \in Nat
      /\ Elements(old.seen) \subseteq old.done
  BY <1>1, Fields DEF FoldingInv
<1>4. /\ new = [mid EXCEPT !.cursor = at[e]]
      /\ applied'[p] = applied[p] + 1 /\ limit'[p] = limit[p] /\ applied[p] < limit[p]
  BY FoldAssumption DEF Apply, AtCap, TypeOK
<1>5. /\ mid \in Document /\ mid.unread = old.unread
      /\ Elements(mid.seen) \subseteq mid.done /\ mid.done = old.done \cup {e}
  BY <1>2, <1>3, ContentType, AppliedToType
<1>6. old.unread = 0
  BY <1>1, <1>3, <1>4, FoldAssumption DEF FoldingInv
<1> HIDE DEF e, rest, old, mid, new
<1>7. /\ Elements(new.seen) \subseteq new.done /\ new.done = old.done \cup {e}
      /\ new.unread = 0 /\ new.cursor = at[e]
  BY <1>4, <1>5, <1>6 DEF Document
<1>8. \A i \in 1..Len(rest) : at[e] - Overlap <= at[rest[i]] /\ at[rest[i]] <= frontier
  BY <1>2
<1>9. ASSUME NEW f \in sent, Reaches(p, f) PROVE Reaches(p, f)'
  BY <1>1, <1>6, <1>7, <1>9, ReachesOn DEF old, new, e, rest
<1>10. \A f \in sent : Relevant(info[f]) =>
         \/ f \in new.done \/ f \in Elements(rest)
         \/ Overtaken(f)' \/ Reaches(p, f)'
  BY <1>1, <1>2, <1>7, <1>9 DEF FoldingInv, old
<1>11. FoldingInv(p)'
  BY <1>1, <1>2, <1>7, <1>8, <1>10 DEF FoldingInv, Relevant, new
<1> QED BY <1>1, <1>11, OnePassInv DEF PassInv

(* A pass begins with a document that satisfies the invariant.             *)
LEMMA LoadInv ==
  ASSUME TypeOK, FoldInv, NEW p \in Pass, NEW rebuild \in Rebuild,
         NEW max \in MaxEvents, Load(p, rebuild, max)
  PROVE  FoldInv'
<1> USE Numbers
<1> DEFINE doc == IF checkpoint = None THEN EmptyDocument
                  ELSE IF rebuild
                  THEN [EmptyDocument EXCEPT !.generation = checkpoint.generation]
                  ELSE checkpoint
           new == work'[p]
<1>1. /\ new = [doc EXCEPT !.unread = 0] /\ pc'[p] = "loaded" /\ OnlyPass(p)
      /\ InsideStep /\ checkpoint' = checkpoint
      /\ UNCHANGED <<sent, at, visible, info, frontier, overtaken>>
  BY Numbers DEF Load, OnlyPass, TypeOK, track, history, InsideStep
<1>2. doc \in Document /\ DocumentInv(doc)
  <2>1. CASE doc = EmptyDocument \/
             (checkpoint # None /\
              doc = [EmptyDocument EXCEPT !.generation = checkpoint.generation])
    <3>1. /\ doc \in Document /\ doc.cursor = 0 /\ doc.seen = << >> /\ doc.done = {}
      <4> HIDE DEF doc
      <4>1. CASE doc = EmptyDocument
        BY <4>1, EmptyDocumentType DEF EmptyDocument
      <4>2. CASE checkpoint # None /\
                 doc = [EmptyDocument EXCEPT !.generation = checkpoint.generation]
        <5>1. checkpoint.generation \in Nat
          BY <4>2 DEF TypeOK, Document
        <5> QED BY <4>2, <5>1, EmptyDocumentType DEF Document, EmptyDocument
      <4> QED BY <2>1, <4>1, <4>2
    <3> HIDE DEF doc
    <3>2. Elements(doc.seen) = {}
      BY <3>1 DEF Elements
    <3>3. \A e \in sent : at[e] >= 0 - Overlap
      BY DEF FoldInv
    <3>4. 0 <= frontier
      BY DEF FoldInv
    <3> QED BY <3>1, <3>2, <3>3, <3>4 DEF DocumentInv, Complete
  <2>2. CASE checkpoint # None /\ doc = checkpoint
    BY <2>2 DEF TypeOK, FoldInv
  <2> QED BY <2>1, <2>2
<1> HIDE DEF doc, new
<1>3. /\ new.cursor = doc.cursor /\ new.seen = doc.seen /\ new.done = doc.done
      /\ new.unread = 0
  BY <1>1, <1>2 DEF Document
<1>4. DocumentInv(new)
  BY <1>2, <1>3 DEF DocumentInv, Complete
<1>5. PassInv(p)'
  BY <1>1, <1>3, <1>4 DEF PassInv, DocumentInv, Complete, Overtaken, Ahead, new
<1> QED BY <1>1, <1>5, OnePassInv

(* A pass that has looked at every record holds a complete document.       *)
LEMMA FoldedIsComplete ==
  ASSUME TypeOK, NEW p \in Pass, FoldingInv(p), todo[p] = << >>
  PROVE  DocumentInv(work[p])
<1> USE Numbers
<1>1. work[p].cursor \in Int
  BY Fields
<1>2. Elements(todo[p]) = {}
  BY DEF Elements
<1>3. ASSUME NEW e \in sent, Relevant(info[e])
      PROVE  e \in work[p].done \/ at[e] >= work[p].cursor - Overlap \/ Overtaken(e)
  BY <1>1, <1>2, <1>3 DEF FoldingInv, Reaches
<1> QED BY <1>3 DEF DocumentInv, Complete, FoldingInv

(* Steps of a pass keep the invariant.                                     *)
LEMMA PassStepInv ==
  ASSUME TypeOK, FoldInv, NEW p \in Pass, PassStep(p)
  PROVE  FoldInv'
<1> USE Numbers
<1>1. ASSUME NEW rebuild \in Rebuild, NEW max \in MaxEvents, Load(p, rebuild, max)
      PROVE  FoldInv'
  BY <1>1, LoadInv
<1>2. CASE Read(p)
  BY <1>2, ReadInv
<1>3. CASE PassOver(p)
  BY <1>3, PassOverInv
<1>4. CASE LeaveUnread(p)
  BY <1>4, LeaveUnreadInv
<1>5. CASE Apply(p)
  BY <1>5, ApplyInv
<1>6. CASE NoProgress(p) \/ PassAbandon(p)
  <2>1. Gone(p) /\ InsideStep /\ checkpoint' = checkpoint
    BY <1>6 DEF NoProgress, PassAbandon, InsideStep, history
  <2> QED BY <2>1, GoneInv
<1>7. CASE Recheck(p)
  <2>1. /\ InsideStep /\ checkpoint' = checkpoint
        /\ UNCHANGED <<sent, at, visible, info, frontier, overtaken>>
    BY <1>7 DEF Recheck, InsideStep, history, track
  <2>2. CASE Gone(p)
    BY <2>1, <2>2, GoneInv
  <2>3. CASE ~Gone(p)
    <3>1. pc'[p] = "saving" /\ work' = work /\ OnlyPass(p)
      BY <1>7, <2>3 DEF Recheck, OnlyPass, TypeOK
    <3>2. DocumentInv(work[p])
      BY <1>7, FoldedIsComplete DEF Recheck, FoldInv, PassInv
    <3>3. PassInv(p)'
      BY <2>1, <3>1, <3>2 DEF PassInv, DocumentInv, Complete, Overtaken, Ahead
    <3> QED BY <2>1, <3>1, <3>3, OnePassInv
  <2> QED BY <2>2, <2>3
<1>8. CASE Save(p)
  <2>1. DocumentInv(work[p]) /\ work[p] \in Document
    BY <1>8 DEF Save, FoldInv, PassInv, TypeOK
  <2> DEFINE new == [work[p] EXCEPT !.generation = @ + 1]
  <2>2. new.cursor = work[p].cursor /\ new.seen = work[p].seen /\ new.done = work[p].done
    BY <2>1 DEF Document
  <2>3. checkpoint' = new /\ Gone(p) /\ InsideStep
        /\ UNCHANGED <<sent, at, visible, info, frontier, overtaken>>
    BY <1>8 DEF Save, InsideStep, history, track
  <2> HIDE DEF new
  <2>4. DocumentInv(checkpoint)'
    BY <2>1, <2>2, <2>3 DEF DocumentInv, Complete, Overtaken, Ahead
  <2> QED BY <2>3, <2>4, GoneInv
<1>9. CASE Status(p)
  BY <1>9, ChannelOutside, OutsideInv DEF Status
<1> QED BY <1>1, <1>2, <1>3, <1>4, <1>5, <1>6, <1>7, <1>8, <1>9 DEF PassStep

(* The initial state satisfies the invariant.                              *)
LEMMA InitInv == Init => FoldInv
BY DEF Init, TrackInit, FoldInv, PassInv

(* Every step keeps it, whatever the clocks do.                            *)
LEMMA NextInv == TypeOK /\ FoldInv /\ [Next]_vars => FoldInv'
<1> SUFFICES ASSUME TypeOK, FoldInv, [Next]_vars PROVE FoldInv'
  OBVIOUS
<1> QED BY ChannelOutside, VerbOutside, OutsideInv, PassStepInv DEF Next

(* The fold skips nothing but what came too late.  Without any assumption  *)
(* on how long records take to be indexed, how long verbs run and how far  *)
(* records are dated ahead: no checkpoint that any pass ever saves has its *)
(* cursor, less the overlap, beyond an event that concerns the agent and   *)
(* was not applied, unless some pass had read a record dated more than the *)
(* overlap later before the event was indexed; for any number of passes    *)
(* that race, fail and overwrite each other, any --max-events and any      *)
(* bound on the remembered ids.                                            *)
THEOREM FoldSkipsNothing == Spec => []NothingSkipped
<1>1. Init => TypeOK /\ FoldInv
  BY InitType, InitInv
<1>2. TypeOK /\ FoldInv /\ [Next]_vars => TypeOK' /\ FoldInv'
  BY NextType, NextInv
<1>3. FoldInv => NothingSkipped
  BY DEF FoldInv, DocumentInv, NothingSkipped
<1> QED BY <1>1, <1>2, <1>3, PTL DEF Spec

-----------------------------------------------------------------------------
(* Rows have reasons.                                                      *)

(* What makes the row of s in a document reasoned.                         *)
RowReasoned(row, done, s) ==
  /\ row.event \in done
  /\ Opens(row.event, s)
  /\ \/ info[row.event].to = "me"
     \/ info[row.event].to = "all" /\ info[row.event].from = "peer"
  /\ row.claimed_by # None =>
       \E e \in done :
         info[e].kind = "claim" /\ info[e].slug = s /\ info[e].from = row.claimed_by

(* A document is reasoned when each of its rows is.                        *)
LEMMA ReasonedRows ==
  ASSUME NEW doc
  PROVE  Reasoned(doc) <=>
           \A s \in Slug : doc.open[s] # None => RowReasoned(doc.open[s], doc.done, s)
BY DEF Reasoned, RowReasoned

(* A reason stays one when more events have been applied.                  *)
LEMMA ReasonsGrow ==
  ASSUME NEW row, NEW s, NEW done, NEW more, done \subseteq more,
         RowReasoned(row, done, s)
  PROVE  RowReasoned(row, more, s)
BY DEF RowReasoned

(* No rows, nothing to give reasons for.                                   *)
LEMMA EmptyReasoned ==
  ASSUME NEW doc, doc.open = [s \in Slug |-> None]
  PROVE  Reasoned(doc)
BY DEF Reasoned

(* Only the rows and the applied events of a document matter.              *)
LEMMA SameRowsReasoned ==
  ASSUME NEW old, NEW new, Reasoned(old), new.open = old.open, new.done = old.done
  PROVE  Reasoned(new)
BY DEF Reasoned

(* A row that an event leaves or makes has a reason, if the event concerns *)
(* the agent.                                                              *)
LEMMA AppliedRowsReasoned ==
  ASSUME NEW rows \in [Slug -> Row \cup {None}], NEW done \in SUBSET sent,
         NEW e \in sent, info[e] \in Content, Relevant(info[e]),
         \A s \in Slug : rows[s] # None => RowReasoned(rows[s], done, s)
  PROVE  \A s \in Slug : AppliedRows(rows, e)[s] # None =>
           RowReasoned(AppliedRows(rows, e)[s], done \cup {e}, s)
<1> DEFINE ev == info[e]
<1>0. /\ ev.slug \in Slug /\ ev.from \in {"me", "peer"}
      /\ ev.kind \in {"open", "note", "claim", "release", "close"}
  BY DEF Content, OwnAction
<1>1. \A s \in Slug : rows[s] # None => RowReasoned(rows[s], done \cup {e}, s)
  BY ReasonsGrow
<1>2. CASE ev.kind = "open"
  <2> DEFINE row == [event |-> e, claimed_by |-> None]
  <2>1. AppliedRows(rows, e) = [rows EXCEPT ![ev.slug] = row]
    BY <1>2 DEF AppliedRows
  <2>2. ev.to = "me" \/ (ev.to = "all" /\ ev.from = "peer")
    BY <1>0, <1>2 DEF Relevant, OwnAction
  <2>3. RowReasoned(row, done \cup {e}, ev.slug)
    BY <1>2, <2>2 DEF RowReasoned, Opens
  <2> QED BY <1>0, <1>1, <2>1, <2>3
<1>3. CASE ev.kind \in {"close", "release"}
  <2>1. AppliedRows(rows, e) = [rows EXCEPT ![ev.slug] = None]
    BY <1>3 DEF AppliedRows
  <2> QED BY <1>0, <1>1, <2>1
<1>4. CASE ev.kind = "claim" /\ rows[ev.slug] # None
  <2> DEFINE row == [rows[ev.slug] EXCEPT !.claimed_by = ev.from]
  <2>1. AppliedRows(rows, e) = [rows EXCEPT ![ev.slug] = row]
    BY <1>4 DEF AppliedRows
  <2>2. rows[ev.slug] \in Row /\ RowReasoned(rows[ev.slug], done \cup {e}, ev.slug)
    BY <1>0, <1>1, <1>4
  <2>3. row.event = rows[ev.slug].event /\ row.claimed_by = ev.from
    BY <2>2 DEF Row
  <2>4. RowReasoned(row, done \cup {e}, ev.slug)
    BY <1>4, <2>2, <2>3 DEF RowReasoned
  <2> QED BY <1>0, <1>1, <2>1, <2>4
<1>5. CASE ev.kind = "note" \/ (ev.kind = "claim" /\ rows[ev.slug] = None)
  BY <1>1, <1>5 DEF AppliedRows
<1> QED BY <1>0, <1>2, <1>3, <1>4, <1>5

(* Applying an event that concerns the agent keeps a document reasoned.    *)
LEMMA AppliedToReasoned ==
  ASSUME NEW doc \in Document, NEW e \in sent, info[e] \in Content,
         Relevant(info[e]), Reasoned(doc)
  PROVE  Reasoned(AppliedTo(doc, e))
<1>1. CASE e \in Elements(doc.seen)
  BY <1>1 DEF AppliedTo
<1>2. CASE e \notin Elements(doc.seen)
  <2> DEFINE rows == AppliedRows(doc.open, e)
             new == AppliedTo(doc, e)
  <2>1. doc.open \in [Slug -> Row \cup {None}] /\ doc.done \in SUBSET sent
    BY DEF Document
  <2>2. \A s \in Slug : doc.open[s] # None => RowReasoned(doc.open[s], doc.done, s)
    BY ReasonedRows
  <2>3. \A s \in Slug : rows[s] # None => RowReasoned(rows[s], doc.done \cup {e}, s)
    BY <2>1, <2>2, AppliedRowsReasoned
  <2>4. new.open = rows /\ new.done = doc.done \cup {e}
    BY <1>2 DEF AppliedTo, Document
  <2> HIDE DEF rows, new
  <2>5. \A s \in Slug : new.open[s] # None => RowReasoned(new.open[s], new.done, s)
    BY <2>3, <2>4
  <2>6. Reasoned(new)
    BY <2>5, ReasonedRows
  <2> QED BY <2>6 DEF new
<1> QED BY <1>1, <1>2

(* What was said of an event that has been applied stays said.             *)
LEMMA ReasonsStay ==
  ASSUME NEW doc \in Document, Reasoned(doc), \A e \in sent : info'[e] = info[e]
  PROVE  Reasoned(doc)'
<1>1. doc.done \subseteq sent /\ doc.open \in [Slug -> Row \cup {None}]
  BY DEF Document
<1>2. \A s \in Slug : doc.open[s] # None => doc.open[s] \in Row
  BY <1>1
<1>3. \A s \in Slug : doc.open[s] # None => doc.open[s].event \in sent
  BY <1>2 DEF Row
<1> QED BY <1>1, <1>3 DEF Reasoned, Opens

(* The checkpoint and the copies that a step leaves alone stay reasoned.   *)
LEMMA KeptReasons ==
  ASSUME TypeOK, ReasonsInv, \A e \in sent : info'[e] = info[e]
  PROVE  /\ checkpoint' = checkpoint => RowsHaveReasons'
         /\ \A p \in Pass : work'[p] = work[p] => Reasoned(work[p])'
<1>1. ASSUME checkpoint' = checkpoint PROVE RowsHaveReasons'
  <2>1. PICK doc : doc = checkpoint
    OBVIOUS
  <2>2. CASE doc = None
    BY <1>1, <2>1, <2>2 DEF RowsHaveReasons
  <2>3. CASE doc # None
    <3>1. doc \in Document /\ Reasoned(doc)
      BY <2>1, <2>3 DEF TypeOK, ReasonsInv, RowsHaveReasons
    <3>2. Reasoned(doc)'
      BY <3>1, ReasonsStay
    <3> QED BY <1>1, <2>1, <3>2 DEF RowsHaveReasons
  <2> QED BY <2>2, <2>3
<1>2. ASSUME NEW p \in Pass, work'[p] = work[p] PROVE Reasoned(work[p])'
  <2>1. PICK doc : doc = work[p]
    OBVIOUS
  <2>2. doc \in Document /\ Reasoned(doc)
    BY <2>1 DEF TypeOK, ReasonsInv
  <2>3. Reasoned(doc)'
    BY <2>2, ReasonsStay
  <2> QED BY <1>2, <2>1, <2>3
<1> QED BY <1>1, <1>2

(* A step that changes the copy of one pass, to a reasoned one.            *)
LEMMA OneCopyReasons ==
  ASSUME TypeOK, ReasonsInv, NEW p \in Pass, OnlyPass(p), UNCHANGED <<info, checkpoint>>,
         NEW new, new = work'[p], Reasoned(new)
  PROVE  ReasonsInv'
<1>1. Reasoned(new)'
  BY DEF Reasoned, Opens
<1>2. RowsHaveReasons' /\ \A q \in Pass : work'[q] = work[q] => Reasoned(work[q])'
  BY KeptReasons
<1> QED BY <1>1, <1>2 DEF ReasonsInv, OnlyPass

(* Events are written, time passes, verbs run: the documents stay.         *)
LEMMA OutsideReasons ==
  ASSUME TypeOK, ReasonsInv, UNCHANGED <<checkpoint, passes>>,
         \A e \in sent : info'[e] = info[e]
  PROVE  ReasonsInv'
<1>1. checkpoint' = checkpoint /\ work' = work
  BY DEF passes
<1> QED BY <1>1, KeptReasons DEF ReasonsInv

(* A step of a pass keeps every document reasoned.                         *)
LEMMA PassStepReasons ==
  ASSUME TypeOK, ReasonsInv, NEW p \in Pass, PassStep(p)
  PROVE  ReasonsInv'
<1>0. work \in [Pass -> Document] /\ work[p] \in Document /\ Reasoned(work[p])
  BY DEF TypeOK, ReasonsInv
<1>1. ASSUME Gone(p) PROVE OnlyPass(p) /\ work'[p] = EmptyDocument
  BY <1>0, <1>1 DEF Gone, OnlyPass, TypeOK
<1>2. Reasoned(EmptyDocument)
  BY EmptyReasoned DEF EmptyDocument
<1>3. ASSUME NEW rebuild \in Rebuild, NEW max \in MaxEvents, Load(p, rebuild, max)
      PROVE  ReasonsInv'
  <2> DEFINE doc == IF checkpoint = None THEN EmptyDocument
                    ELSE IF rebuild
                    THEN [EmptyDocument EXCEPT !.generation = checkpoint.generation]
                    ELSE checkpoint
             cleared == [EmptyDocument EXCEPT !.generation = checkpoint.generation]
  <2>1. OnlyPass(p) /\ UNCHANGED <<info, checkpoint>>
        /\ work'[p] = [doc EXCEPT !.unread = 0]
    BY <1>0, <1>3 DEF Load, OnlyPass, TypeOK
  <2>2. CASE checkpoint # None /\ doc = checkpoint
    <3>1. checkpoint \in Document /\ Reasoned(checkpoint)
      BY <2>2 DEF TypeOK, ReasonsInv, RowsHaveReasons
    <3>2. /\ [checkpoint EXCEPT !.unread = 0].open = checkpoint.open
          /\ [checkpoint EXCEPT !.unread = 0].done = checkpoint.done
      BY <3>1 DEF Document
    <3>3. Reasoned([checkpoint EXCEPT !.unread = 0])
      BY <3>1, <3>2, SameRowsReasoned
    <3> QED BY <2>1, <2>2, <3>3, OneCopyReasons
  <2>3. CASE doc = EmptyDocument \/ doc = cleared
    <3>1. [EmptyDocument EXCEPT !.unread = 0].open = [s \in Slug |-> None]
      BY DEF EmptyDocument
    <3>2. [cleared EXCEPT !.unread = 0].open = [s \in Slug |-> None]
      BY DEF EmptyDocument
    <3> HIDE DEF doc, cleared
    <3>3. work'[p].open = [s \in Slug |-> None]
      BY <2>1, <2>3, <3>1, <3>2
    <3>4. Reasoned(work'[p])
      BY <3>3, EmptyReasoned
    <3> QED BY <2>1, <3>4, OneCopyReasons
  <2> QED BY <2>2, <2>3
<1>4. CASE Read(p) \/ PassOver(p) \/ LeaveUnread(p)
  <2>1. /\ OnlyPass(p) /\ UNCHANGED <<info, checkpoint>>
        /\ work'[p].open = work[p].open /\ work'[p].done = work[p].done
    BY <1>0, <1>4 DEF Read, PassOver, LeaveUnread, OnlyPass, TypeOK, Document
  <2>2. Reasoned(work'[p])
    BY <1>0, <2>1, SameRowsReasoned
  <2> QED BY <2>1, <2>2, OneCopyReasons
<1>5. CASE Apply(p)
  <2> DEFINE e == Head(todo[p])
             mid == AppliedTo(work[p], e)
  <2>1. AtRecord(p) /\ Relevant(info[e])
    BY <1>5 DEF Apply
  <2>2. e \in sent /\ info[e] \in Content
    BY <2>1, AtRecordType, ContentType
  <2>3. mid \in Document /\ Reasoned(mid)
    BY <1>0, <2>1, <2>2, AppliedToReasoned, AppliedToType
  <2>4. /\ OnlyPass(p) /\ UNCHANGED <<info, checkpoint>>
        /\ work'[p] = [mid EXCEPT !.cursor = at[e]]
    BY <1>0, <1>5 DEF Apply, OnlyPass, TypeOK
  <2> HIDE DEF mid, e
  <2>5. work'[p].open = mid.open /\ work'[p].done = mid.done
    BY <2>3, <2>4 DEF Document
  <2>6. Reasoned(work'[p])
    BY <2>3, <2>5, SameRowsReasoned
  <2> QED BY <2>4, <2>6, OneCopyReasons
<1>6. CASE NoProgress(p) \/ PassAbandon(p)
  <2>1. Gone(p) /\ UNCHANGED <<info, checkpoint>>
    BY <1>6 DEF NoProgress, PassAbandon
  <2> QED BY <1>1, <1>2, <2>1, OneCopyReasons
<1>7. CASE Recheck(p)
  <2>1. UNCHANGED <<info, checkpoint>>
    BY <1>7 DEF Recheck
  <2>2. CASE Gone(p)
    BY <1>1, <1>2, <2>1, <2>2, OneCopyReasons
  <2>3. CASE ~Gone(p)
    <3>1. OnlyPass(p) /\ work' = work
      BY <1>7, <2>3 DEF Recheck, OnlyPass, TypeOK
    <3> QED BY <1>0, <2>1, <3>1, OneCopyReasons
  <2> QED BY <2>2, <2>3
<1>8. CASE Save(p)
  <2>1. PICK doc : doc = checkpoint'
    OBVIOUS
  <2>2. doc.open = work[p].open /\ doc.done = work[p].done
    BY <1>0, <1>8, <2>1 DEF Save, Document
  <2>3. Reasoned(doc) /\ info' = info /\ Gone(p)
    BY <1>0, <1>8, <2>2, SameRowsReasoned DEF Save
  <2>4. PICK empty : empty = EmptyDocument
    OBVIOUS
  <2>5. Reasoned(doc)' /\ Reasoned(empty)'
    BY <1>2, <2>3, <2>4 DEF Reasoned, Opens
  <2>6. \A q \in Pass : work'[q] = work[q] => Reasoned(work[q])'
    BY <2>3, KeptReasons
  <2>7. \A q \in Pass : Reasoned(work[q])'
    BY <1>1, <2>3, <2>4, <2>5, <2>6 DEF OnlyPass
  <2> QED BY <2>1, <2>5, <2>7 DEF ReasonsInv, RowsHaveReasons
<1>9. CASE Status(p)
  BY <1>9, OutsideReasons DEF Status, vars, passes
<1> QED BY <1>3, <1>4, <1>5, <1>6, <1>7, <1>8, <1>9 DEF PassStep

(* Every step keeps every document reasoned.                               *)
LEMMA NextReasons ==
  ASSUME TypeOK, ReasonsInv, [Next]_vars
  PROVE  ReasonsInv'
<1>1. ASSUME NEW e \in Event, NEW d, NEW m, Emit(e, d), info' = [info EXCEPT ![e] = m],
             UNCHANGED <<checkpoint, passes>>
      PROVE  ReasonsInv'
  <2>1. \A f \in sent : info'[f] = info[f]
    BY <1>1 DEF Emit, TypeOK, TrackTypeOK
  <2> QED BY <1>1, <2>1, OutsideReasons
<1>2. ASSUME UNCHANGED <<info, checkpoint, passes>> PROVE ReasonsInv'
  BY <1>2, OutsideReasons
<1>3. CASE Clock \/ (\E e \in Event : Catchup(e)) \/ UNCHANGED vars
  BY <1>2, <1>3 DEF Clock, Catchup, vars
<1>4. ASSUME NEW e \in Event, NEW d \in Leads, NEW m \in Message, PeerEmit(e, d, m)
      PROVE  ReasonsInv'
  BY <1>1, <1>4 DEF PeerEmit
<1>5. ASSUME NEW p \in Pass, PassStep(p) PROVE ReasonsInv'
  BY <1>5, PassStepReasons
<1>6. ASSUME NEW v \in Verb, VerbStep(v) PROVE ReasonsInv'
  <2>1. ASSUME NEW e \in Event, VerbEmit(v, e) PROVE ReasonsInv'
    BY <1>1, <2>1 DEF VerbEmit
  <2>2. CASE ~\E e \in Event : VerbEmit(v, e)
    BY <1>2, <1>6, <2>2 DEF VerbStep, VerbStart, VerbLookup, VerbAbandon
  <2> QED BY <2>1, <2>2
<1> QED BY <1>3, <1>4, <1>5, <1>6 DEF Next

(* Whatever the clocks do (no assumption on how records are dated or how   *)
(* late they are indexed), for any number of passes that race and          *)
(* overwrite each other and however few ids are remembered: a row of the   *)
(* checkpoint is there for an event that was applied to it, opened that    *)
(* obligation and was addressed to the agent or broadcast by a peer, and   *)
(* its claimant did write a claim that was applied.                        *)
THEOREM RowsAreReasoned == Spec => []RowsHaveReasons
<1>1. Init => TypeOK /\ ReasonsInv
  <2> SUFFICES ASSUME Init PROVE ReasonsInv
    BY InitType
  <2>1. checkpoint = None /\ \A p \in Pass : work[p] = EmptyDocument
    BY DEF Init
  <2>2. Reasoned(EmptyDocument)
    BY EmptyReasoned DEF EmptyDocument
  <2> QED BY <2>1, <2>2 DEF ReasonsInv, RowsHaveReasons
<1>2. TypeOK /\ ReasonsInv /\ [Next]_vars => TypeOK' /\ ReasonsInv'
  BY NextType, NextReasons
<1>3. ReasonsInv => RowsHaveReasons
  BY DEF ReasonsInv
<1> QED BY <1>1, <1>2, <1>3, PTL DEF Spec

-----------------------------------------------------------------------------
(* The open set is a replay.                                               *)

(* A row is not None.                                                      *)
LEMMA RowIsSomething ==
  ASSUME TypeOK, NEW row \in Row
  PROVE  row # None
<1>1. sent \subseteq Event
  BY DEF TypeOK, TrackTypeOK
<1>2. row \in [event: Event, claimed_by: {"me", "peer", None}]
  BY <1>1 DEF Row
<1> QED BY <1>2, NoneAssumption

(* What an event does to a row that is a replay, if the event is new and   *)
(* came too late, or nothing applied before it is newer by more than the   *)
(* overlap.                                                                *)
LEMMA AppliedRowsReplayed ==
  ASSUME TypeOK, NEW rows \in [Slug -> Row \cup {None}], NEW done \in SUBSET sent,
         NEW e \in sent, info[e] \in Content,
         Overtaken(e) \/ \A f \in done : at[f] <= at[e] + Overlap,
         NEW s \in Slug, RowReplayed(rows[s], done, s)
  PROVE  RowReplayed(AppliedRows(rows, e)[s], done \cup {e}, s)
<1> DEFINE ev == info[e]
<1>0. /\ ev.slug \in Slug
      /\ ev.kind \in {"open", "note", "claim", "release", "close"}
  BY DEF Content, OwnAction
<1>1. ASSUME ~Opens(e, s), ~Settles(e, s), NEW row,
             row # None <=> rows[s] # None,
             rows[s] # None => row.event = rows[s].event
      PROVE  RowReplayed(row, done \cup {e}, s)
  BY <1>1 DEF RowReplayed
<1>2. CASE ev.slug # s
  <2>1. AppliedRows(rows, e)[s] = rows[s]
    BY <1>0, <1>2 DEF AppliedRows
  <2>2. ~Opens(e, s) /\ ~Settles(e, s)
    BY <1>2 DEF Opens, Settles
  <2> QED BY <1>1, <2>1, <2>2
<1>3. CASE ev.slug = s /\ ev.kind = "open"
  <2> DEFINE row == [event |-> e, claimed_by |-> None]
  <2>1. AppliedRows(rows, e)[s] = row
    BY <1>0, <1>3 DEF AppliedRows
  <2>2. row # None /\ row.event = e
    BY NoneAssumption, RowIsSomething DEF Row
  <2>3. Opens(e, s) /\ ~Settles(e, s)
    BY <1>3 DEF Opens, Settles
  <2> HIDE DEF row
  <2> QED BY <2>1, <2>2, <2>3 DEF RowReplayed
<1>4. CASE ev.slug = s /\ ev.kind \in {"close", "release"}
  <2>1. AppliedRows(rows, e)[s] = None
    BY <1>0, <1>4 DEF AppliedRows
  <2>2. Settles(e, s) /\ ~Opens(e, s)
    BY <1>4 DEF Opens, Settles
  <2> QED BY <2>1, <2>2 DEF RowReplayed
<1>5. CASE ev.slug = s /\ ev.kind \in {"note", "claim"}
  <2>1. ~Opens(e, s) /\ ~Settles(e, s)
    BY <1>5 DEF Opens, Settles
  <2>2. CASE ev.kind = "claim" /\ rows[s] # None
    <3> DEFINE row == [rows[s] EXCEPT !.claimed_by = ev.from]
    <3>1. AppliedRows(rows, e)[s] = row
      BY <1>0, <1>5, <2>2 DEF AppliedRows
    <3>2. rows[s] \in Row /\ ev.from \in {"me", "peer"}
      BY <2>2 DEF Content
    <3>3. row \in Row /\ row.event = rows[s].event
      BY <3>2 DEF Row
    <3>4. row # None
      BY <3>3, RowIsSomething
    <3> HIDE DEF row
    <3> QED BY <1>1, <2>1, <2>2, <3>1, <3>3, <3>4
  <2>3. CASE ~(ev.kind = "claim" /\ rows[s] # None)
    <3>1. AppliedRows(rows, e)[s] = rows[s]
      BY <1>0, <1>5, <2>3 DEF AppliedRows
    <3> QED BY <1>1, <2>1, <3>1
  <2> QED BY <2>2, <2>3
<1> QED BY <1>0, <1>2, <1>3, <1>4, <1>5

(* Applying an event that is not remembered keeps what seen remembers.     *)
LEMMA SeenGrows ==
  ASSUME NEW seen \in Seq(sent), NEW done \in SUBSET sent, NEW e \in sent,
         IsFiniteSet(done),
         Cardinality(done) <= SeenCap =>
           done \subseteq Elements(seen) /\ Len(seen) <= Cardinality(done),
         e \notin Elements(seen)
  PROVE  LET more == done \cup {e}
             kept == LastN(Append(seen, e), SeenCap) IN
         /\ IsFiniteSet(more) /\ Cardinality(done) \in Nat
         /\ Cardinality(more) \in Nat /\ Cardinality(done) <= Cardinality(more)
         /\ Cardinality(more) <= SeenCap =>
              more \subseteq Elements(kept) /\ Len(kept) <= Cardinality(more)
         /\ e \in done => Cardinality(done) > SeenCap
<1> DEFINE more == done \cup {e}
           longer == Append(seen, e)
           kept == LastN(longer, SeenCap)
<1>1. IsFiniteSet(more) /\ Cardinality(done) \in Nat /\ Cardinality(more) \in Nat
      /\ Cardinality(more) = IF e \in done THEN Cardinality(done) ELSE Cardinality(done) + 1
  BY FS_AddElement, FS_CardinalityType
<1>2. SeenCap \in Nat
  BY FoldAssumption
<1>3. e \in done => Cardinality(done) > SeenCap
  BY <1>1, <1>2
<1>4. ASSUME Cardinality(more) <= SeenCap
      PROVE  more \subseteq Elements(kept) /\ Len(kept) <= Cardinality(more)
  <2>1. /\ e \notin done /\ Cardinality(more) = Cardinality(done) + 1
        /\ done \subseteq Elements(seen) /\ Len(seen) <= Cardinality(done)
    BY <1>1, <1>2, <1>3, <1>4
  <2>2. longer \in Seq(sent) /\ Len(longer) = Len(seen) + 1 /\ Len(seen) \in Nat
        /\ Elements(longer) = Elements(seen) \cup {e}
    <3>1. /\ longer = seen \o << e >> /\ << e >> \in Seq(sent) /\ longer \in Seq(sent)
          /\ Len(longer) = Len(seen) + 1 /\ Len(seen) \in Nat
      BY AppendIsConcat
    <3>2. Elements(<< e >>) = {e}
      BY DEF Elements
    <3>3. Elements(seen \o << e >>) = Elements(seen) \cup Elements(<< e >>)
      BY <3>1, ElementsOfConcat
    <3> HIDE DEF longer
    <3> QED BY <3>1, <3>2, <3>3
  <2>3. Len(longer) <= SeenCap
    BY <1>1, <1>2, <1>4, <2>1, <2>2
  <2>4. kept = longer
    BY <2>3 DEF LastN
  <2> HIDE DEF kept, longer, more
  <2>5. Len(kept) <= Cardinality(more)
    BY <1>1, <2>1, <2>2, <2>4
  <2>6. more \subseteq Elements(kept)
    BY <2>1, <2>2, <2>4 DEF more
  <2> QED BY <2>5, <2>6
<1> QED BY <1>1, <1>3, <1>4

(* Applying an event that concerns the agent keeps a document a replay, if *)
(* the events still to be applied are too late or not older by more than   *)
(* the overlap.                                                            *)
LEMMA AppliedToReplayed ==
  ASSUME TypeOK, NEW doc \in Document, NEW e \in sent, info[e] \in Content,
         Relevant(info[e]), DocumentReplayed(doc), at[e] <= frontier,
         \A g \in sent \ (doc.done \cup {e}) :
           Relevant(info[g]) => at[e] <= at[g] + Overlap \/ Overtaken(g)
  PROVE  DocumentReplayed(AppliedTo(doc, e))
<1>1. CASE e \in Elements(doc.seen)
  BY <1>1 DEF AppliedTo
<1>2. CASE e \notin Elements(doc.seen)
  <2> DEFINE rows == AppliedRows(doc.open, e)
             new == AppliedTo(doc, e)
             kept == LastN(Append(doc.seen, e), SeenCap)
  <2>1. /\ doc.open \in [Slug -> Row \cup {None}] /\ doc.done \in SUBSET sent
        /\ doc.seen \in Seq(sent) /\ doc.redone \in SUBSET sent
    BY DEF Document
  <2>2. /\ new.open = rows /\ new.done = doc.done \cup {e} /\ new.seen = kept
        /\ new.redone = doc.redone \cup (doc.done \cap {e})
    BY <1>2 DEF AppliedTo, Document
  <2>3. /\ IsFiniteSet(doc.done)
        /\ Cardinality(doc.done) <= SeenCap =>
             doc.done \subseteq Elements(doc.seen) /\ Len(doc.seen) <= Cardinality(doc.done)
        /\ doc.redone # {} => Cardinality(doc.done) > SeenCap
    BY DEF DocumentReplayed, SeenInv
  <2>4. /\ IsFiniteSet(new.done) /\ Cardinality(doc.done) \in Nat
        /\ Cardinality(new.done) \in Nat /\ Cardinality(doc.done) <= Cardinality(new.done)
        /\ Cardinality(new.done) <= SeenCap =>
             new.done \subseteq Elements(kept) /\ Len(kept) <= Cardinality(new.done)
        /\ e \in doc.done => Cardinality(doc.done) > SeenCap
    BY <1>2, <2>1, <2>2, <2>3, SeenGrows
  <2> HIDE DEF rows, new, kept
  <2>5. SeenInv(new)
    <3>1. new.redone # {} => doc.redone # {} \/ e \in doc.done
      BY <2>2
    <3>2. new.redone # {} => Cardinality(new.done) > SeenCap
      BY <2>3, <2>4, <3>1, FoldAssumption
    <3> QED BY <2>2, <2>4, <3>2 DEF SeenInv
  <2>6. DatedDone(new)
    <3> SUFFICES ASSUME NEW f \in new.done, NEW g \in sent \ new.done, Relevant(info[g])
                 PROVE  at[f] <= at[g] + Overlap \/ Overtaken(g)
      BY <2>2 DEF DatedDone, DocumentReplayed
    <3>1. g \in sent \ (doc.done \cup {e})
      BY <2>2
    <3>2. CASE f = e
      BY <3>1, <3>2
    <3>3. CASE f # e
      BY <2>2, <3>1, <3>3 DEF DocumentReplayed, DatedDone
    <3> QED BY <3>2, <3>3
  <2>7. ASSUME NEW s \in Slug
        PROVE  (\E g \in new.redone : info[g].slug = s) \/ RowReplayed(new.open[s], new.done, s)
    <3>1. CASE \E g \in doc.redone : info[g].slug = s
      BY <2>2, <3>1
    <3>2. CASE e \in doc.done /\ info[e].slug = s
      BY <2>2, <3>2
    <3>3. CASE RowReplayed(doc.open[s], doc.done, s) /\ e \in doc.done /\ info[e].slug # s
      <4>1. rows[s] = doc.open[s]
        BY <2>1, <3>3 DEF rows, AppliedRows
      <4>2. new.done = doc.done
        BY <2>2, <3>3
      <4> QED BY <2>2, <3>3, <4>1, <4>2
    <3>4. CASE RowReplayed(doc.open[s], doc.done, s) /\ e \notin doc.done
      <4>1. Overtaken(e) \/ \A f \in doc.done : at[f] <= at[e] + Overlap
        BY <3>4 DEF DocumentReplayed, DatedDone
      <4>2. RowReplayed(rows[s], doc.done \cup {e}, s)
        BY <2>1, <3>4, <4>1, AppliedRowsReplayed DEF rows
      <4> QED BY <2>2, <4>2
    <3> QED BY <3>1, <3>2, <3>3, <3>4 DEF DocumentReplayed
  <2>8. DocumentReplayed(new)
    BY <2>5, <2>6, <2>7 DEF DocumentReplayed
  <2> QED BY <2>8 DEF new
<1> QED BY <1>1, <1>2

(* A document with no events applied is a replay of none.                  *)
LEMMA EmptyReplayed ==
  ASSUME NEW doc, doc.open = [s \in Slug |-> None], doc.done = {},
         doc.seen = << >>, doc.redone = {}
  PROVE  DocumentReplayed(doc)
<1>1. IsFiniteSet({}) /\ Cardinality({}) = 0
  BY FS_EmptySet
<1>2. SeenInv(doc)
  BY <1>1 DEF SeenInv
<1> QED BY <1>2 DEF DocumentReplayed, DatedDone, RowReplayed

(* Only the rows and the applied events of a document matter.              *)
LEMMA SameReplayed ==
  ASSUME NEW old, NEW new, DocumentReplayed(old), new.open = old.open,
         new.done = old.done, new.seen = old.seen, new.redone = old.redone
  PROVE  DocumentReplayed(new)
BY DEF DocumentReplayed, DatedDone, SeenInv

(* A document stays a replay when events are written and indexed and       *)
(* records read: what came too late always did, and what was applied stays *)
(* in its place.                                                           *)
LEMMA ReplayedStays ==
  ASSUME TypeOK, NEW doc \in Document, DocumentReplayed(doc),
         frontier <= frontier', frontier' \in Int, sent \subseteq sent',
         \A e \in sent : /\ at'[e] = at[e] /\ info'[e] = info[e]
                         /\ Overtaken(e) => Overtaken(e)',
         \A e \in sent' \ sent :
           /\ at'[e] \in Int
           /\ Overtaken(e)' \/ frontier <= at'[e] + Overlap
  PROVE  DocumentReplayed(doc)'
<1> USE Numbers
<1>1. /\ doc.done \in SUBSET sent /\ doc.redone \in SUBSET sent
  BY DEF Document
<1>2. DatedDone(doc)'
  <2>1. ASSUME NEW f \in doc.done PROVE at'[f] = at[f] /\ at[f] \in Int /\ at[f] <= frontier
    BY <1>1, <2>1 DEF DocumentReplayed, DatedDone
  <2>2. ASSUME NEW f \in doc.done, NEW e \in sent' \ doc.done, Relevant(info'[e])
        PROVE  at'[f] <= at'[e] + Overlap \/ Overtaken(e)'
    <3>1. CASE e \in sent
      BY <1>1, <2>2, <3>1 DEF DocumentReplayed, DatedDone
    <3>2. CASE e \notin sent
      BY <2>1, <3>2
    <3> QED BY <3>1, <3>2
  <2>3. \A f \in doc.done : at'[f] <= frontier'
    BY <2>1
  <2> QED BY <2>2, <2>3 DEF DatedDone, Relevant
<1>3. SeenInv(doc)'
  BY DEF DocumentReplayed, SeenInv
<1>4. ASSUME NEW s \in Slug, RowReplayed(doc.open[s], doc.done, s)
      PROVE  RowReplayed(doc.open[s], doc.done, s)'
  BY <1>1, <1>4 DEF RowReplayed, Opens, Settles
<1>5. ASSUME NEW s \in Slug
      PROVE  \/ \E e \in doc.redone : info'[e].slug = s
             \/ RowReplayed(doc.open[s], doc.done, s)'
  BY <1>1, <1>4 DEF DocumentReplayed
<1> QED BY <1>2, <1>3, <1>5 DEF DocumentReplayed

(* That is so for the steps of the channel and the verbs, and of a pass.   *)
LEMMA AnyReplayStays ==
  ASSUME TypeOK, NEW doc \in Document, DocumentReplayed(doc),
         OutsideStep \/ InsideStep
  PROVE  DocumentReplayed(doc)'
<1> USE Numbers
<1>1. CASE OutsideStep
  <2>1. /\ frontier <= frontier' /\ frontier' \in Int /\ sent \subseteq sent'
        /\ \A e \in sent : at'[e] = at[e] /\ info'[e] = info[e]
    BY <1>1 DEF OutsideStep
  <2> QED BY <1>1, <2>1, OutsideOvertaken, NewEvent, ReplayedStays
<1>2. CASE InsideStep
  <2>1. /\ frontier <= frontier' /\ frontier' \in Int
        /\ UNCHANGED <<sent, at, info>>
    BY <1>2 DEF InsideStep, track
  <2> QED BY <1>2, <2>1, InsideOvertaken, ReplayedStays
<1> QED BY <1>1, <1>2

(* The channel and the verbs leave the documents alone.                    *)
LEMMA OutsideReplay ==
  ASSUME TypeOK, ReplayInv, OutsideStep
  PROVE  ReplayInv'
<1>1. checkpoint' = checkpoint /\ work' = work
  BY DEF passes, OutsideStep
<1>2. ASSUME checkpoint # None PROVE DocumentReplayed(checkpoint)'
  <2>1. PICK doc : doc = checkpoint
    OBVIOUS
  <2>2. doc \in Document /\ DocumentReplayed(doc)
    BY <1>2, <2>1 DEF TypeOK, ReplayInv
  <2>3. DocumentReplayed(doc)'
    BY <2>2, AnyReplayStays
  <2> QED BY <1>1, <2>1, <2>3
<1>3. ASSUME NEW p \in Pass PROVE DocumentReplayed(work[p])'
  <2>1. PICK doc : doc = work[p]
    OBVIOUS
  <2>2. doc \in Document /\ DocumentReplayed(doc)
    BY <2>1 DEF TypeOK, ReplayInv
  <2>3. DocumentReplayed(doc)'
    BY <2>2, AnyReplayStays
  <2> QED BY <1>1, <2>1, <2>3
<1> QED BY <1>1, <1>2, <1>3 DEF ReplayInv

(* A step of a pass: its copy and the checkpoint become documents that are *)
(* replays, the other copies stay.                                         *)
LEMMA OnePassReplay ==
  ASSUME TypeOK, ReplayInv, NEW p \in Pass, OnlyPass(p), InsideStep,
         NEW new \in Document, new = work'[p], DocumentReplayed(new),
         NEW saved, saved = checkpoint',
         saved # None => saved \in Document /\ DocumentReplayed(saved)
  PROVE  ReplayInv'
<1>1. ASSUME NEW q \in Pass PROVE DocumentReplayed(work[q])'
  <2>1. PICK doc : doc = work[q]
    OBVIOUS
  <2>2. DocumentReplayed(doc)'
    BY <2>1, AnyReplayStays DEF ReplayInv, TypeOK
  <2>3. DocumentReplayed(new)'
    BY AnyReplayStays
  <2> QED BY <2>1, <2>2, <2>3 DEF OnlyPass
<1>2. saved # None => DocumentReplayed(saved)'
  BY AnyReplayStays
<1> QED BY <1>1, <1>2 DEF ReplayInv

(* A pass applies an event: the overlap reaches from it back to whatever   *)
(* the pass has not applied, will not come to, and did not come too late.  *)
LEMMA ApplyReplay ==
  ASSUME TypeOK, FoldInv, ReplayInv, NEW p \in Pass, Apply(p)
  PROVE  DocumentReplayed(work'[p])
<1> USE Numbers
<1> DEFINE e == Head(todo[p])
           rest == Tail(todo[p])
           mid == AppliedTo(work[p], e)
<1>1. AtRecord(p) /\ FoldingInv(p) /\ Relevant(info[e])
  BY LookStep DEF Apply
<1>2. /\ e \in sent /\ at[e] \in Int /\ at[e] <= frontier
      /\ Elements(todo[p]) = {e} \cup Elements(rest)
      /\ \A i \in 1..Len(rest) : at[e] <= at[rest[i]]
      /\ rest \in Seq(sent)
  BY <1>1, RestOfTodo, AtRecordType
<1>3. work[p] \in Document /\ work[p].unread = 0 /\ DocumentReplayed(work[p])
  <2>1. work[p] \in Document /\ work[p].unread \in Nat /\ ~(applied[p] >= limit[p])
    BY Fields DEF Apply, AtCap
  <2> QED BY <1>1, <2>1 DEF FoldingInv, ReplayInv
<1> HIDE DEF e, rest
<1>4. ASSUME NEW g \in sent \ (work[p].done \cup {e}), Relevant(info[g])
      PROVE  at[e] <= at[g] + Overlap \/ Overtaken(g)
  <2>1. at[g] \in Int
    OBVIOUS
  <2>2. g \in Elements(rest) \/ Overtaken(g) \/ Reaches(p, g)
    BY <1>1, <1>2, <1>3, <1>4 DEF FoldingInv
  <2>3. g \in Elements(rest) => at[e] <= at[g]
    <3>1. DOMAIN rest = 1..Len(rest)
      BY <1>2
    <3> QED BY <1>2, <3>1 DEF Elements
  <2>4. Reaches(p, g) => at[e] <= at[g] + Overlap
    <3>1. e = todo[p][1] /\ 1 \in 1..Len(todo[p])
      BY <1>1, AtRecordType DEF e
    <3> QED BY <1>3, <3>1 DEF Reaches
  <2> QED BY <1>2, <2>1, <2>2, <2>3, <2>4
<1>5. mid \in Document /\ DocumentReplayed(mid)
  BY <1>1, <1>2, <1>3, <1>4, ContentType, AppliedToType, AppliedToReplayed
<1>6. work'[p] = [mid EXCEPT !.cursor = at[e]]
  BY DEF Apply, TypeOK, e
<1> HIDE DEF mid
<1>7. /\ work'[p].open = mid.open /\ work'[p].done = mid.done
      /\ work'[p].seen = mid.seen /\ work'[p].redone = mid.redone
  BY <1>5, <1>6 DEF Document
<1> QED BY <1>5, <1>7, SameReplayed

(* A step of a pass keeps every document a replay.                         *)
LEMMA PassStepReplay ==
  ASSUME TypeOK, FoldInv, ReplayInv, NEW p \in Pass, PassStep(p)
  PROVE  ReplayInv'
<1>0. /\ work \in [Pass -> Document] /\ work[p] \in Document
      /\ DocumentReplayed(work[p])
      /\ checkpoint # None => checkpoint \in Document /\ DocumentReplayed(checkpoint)
  BY DEF TypeOK, ReplayInv
<1>1. InsideStep /\ Document' = Document
  <2>1. UNCHANGED <<track, info, overtaken>>
    BY DEF PassStep, Load, Read, PassOver, LeaveUnread, Apply, NoProgress, Recheck,
      Save, PassAbandon, Status, vars, history
  <2>2. frontier <= frontier' /\ frontier' \in Int
    <3>1. CASE Read(p)
      BY <3>1, ReadIsInside DEF InsideStep
    <3>2. CASE ~Read(p)
      <4>1. frontier' = frontier
        BY <3>2 DEF PassStep, Load, PassOver, LeaveUnread, Apply, NoProgress, Recheck,
          Save, PassAbandon, Status, vars, history
      <4> QED BY <4>1, Numbers
    <3> QED BY <3>1, <3>2
  <2>3. Document' = Document
    BY <2>1 DEF track, Document, Row
  <2> QED BY <2>1, <2>2, <2>3 DEF InsideStep
<1>2. ASSUME Gone(p)
      PROVE  OnlyPass(p) /\ work'[p] \in Document /\ DocumentReplayed(work'[p])
  <2>1. OnlyPass(p) /\ work'[p] = EmptyDocument
    BY <1>0, <1>2 DEF Gone, OnlyPass, TypeOK
  <2> QED BY <2>1, EmptyReplayed, EmptyDocumentType DEF EmptyDocument
<1>10. work'[p] \in Document /\ (checkpoint' # None => checkpoint' \in Document)
  BY <1>1, PassStepType DEF TypeOK
<1>3. ASSUME NEW rebuild \in Rebuild, NEW max \in MaxEvents, Load(p, rebuild, max)
      PROVE  ReplayInv'
  <2> DEFINE doc == IF checkpoint = None THEN EmptyDocument
                    ELSE IF rebuild
                    THEN [EmptyDocument EXCEPT !.generation = checkpoint.generation]
                    ELSE checkpoint
             cleared == [EmptyDocument EXCEPT !.generation = checkpoint.generation]
  <2>1. OnlyPass(p) /\ checkpoint' = checkpoint
        /\ work'[p] = [doc EXCEPT !.unread = 0]
    BY <1>0, <1>3 DEF Load, OnlyPass, TypeOK
  <2>2. CASE checkpoint # None /\ doc = checkpoint
    <3> DEFINE new == [checkpoint EXCEPT !.unread = 0]
    <3>1. /\ new.open = checkpoint.open /\ new.done = checkpoint.done
          /\ new.seen = checkpoint.seen /\ new.redone = checkpoint.redone
      BY <1>0, <2>2 DEF Document
    <3> HIDE DEF new
    <3>2. DocumentReplayed(new)
      BY <1>0, <2>2, <3>1, SameReplayed
    <3>3. work'[p] = new
      BY <2>1, <2>2 DEF new
    <3> QED BY <1>0, <1>1, <1>10, <2>1, <3>2, <3>3, OnePassReplay
  <2>3. CASE doc = EmptyDocument \/ doc = cleared
    <3> DEFINE Blank(d) == /\ d.open = [s \in Slug |-> None] /\ d.done = {}
                           /\ d.seen = << >> /\ d.redone = {}
    <3>1. Blank([EmptyDocument EXCEPT !.unread = 0])
      BY DEF EmptyDocument
    <3>2. Blank([cleared EXCEPT !.unread = 0])
      BY DEF EmptyDocument
    <3> HIDE DEF doc, cleared
    <3>3. Blank(work'[p])
      BY <2>1, <2>3, <3>1, <3>2
    <3>4. DocumentReplayed(work'[p])
      BY <3>3, EmptyReplayed
    <3> QED BY <1>0, <1>1, <1>10, <2>1, <3>4, OnePassReplay
  <2> QED BY <2>2, <2>3
<1>4. CASE Read(p) \/ PassOver(p) \/ LeaveUnread(p)
  <2>1. /\ OnlyPass(p) /\ checkpoint' = checkpoint
        /\ work'[p].open = work[p].open /\ work'[p].done = work[p].done
        /\ work'[p].seen = work[p].seen /\ work'[p].redone = work[p].redone
    BY <1>0, <1>4 DEF Read, PassOver, LeaveUnread, OnlyPass, TypeOK, Document
  <2>2. DocumentReplayed(work'[p])
    BY <1>0, <2>1, SameReplayed
  <2> QED BY <1>0, <1>1, <1>10, <2>1, <2>2, OnePassReplay
<1>5. CASE Apply(p)
  <2>1. OnlyPass(p) /\ checkpoint' = checkpoint
    BY <1>5, LookStep
  <2> QED BY <1>0, <1>1, <1>10, <1>5, <2>1, ApplyReplay, OnePassReplay
<1>6. CASE NoProgress(p) \/ PassAbandon(p)
  <2>1. Gone(p) /\ checkpoint' = checkpoint
    BY <1>6 DEF NoProgress, PassAbandon
  <2> QED BY <1>0, <1>1, <1>2, <2>1, OnePassReplay
<1>7. CASE Recheck(p)
  <2>1. checkpoint' = checkpoint
    BY <1>7 DEF Recheck
  <2>2. CASE Gone(p)
    BY <1>0, <1>1, <1>2, <2>1, <2>2, OnePassReplay
  <2>3. CASE ~Gone(p)
    <3>1. OnlyPass(p) /\ work' = work
      BY <1>7, <2>3 DEF Recheck, OnlyPass, TypeOK
    <3> QED BY <1>0, <1>1, <2>1, <3>1, OnePassReplay
  <2> QED BY <2>2, <2>3
<1>8. CASE Save(p)
  <2>1. /\ checkpoint'.open = work[p].open /\ checkpoint'.done = work[p].done
        /\ checkpoint'.seen = work[p].seen /\ checkpoint'.redone = work[p].redone
        /\ Gone(p)
    BY <1>0, <1>8 DEF Save, Document
  <2>2. DocumentReplayed(checkpoint')
    BY <1>0, <2>1, SameReplayed
  <2> QED BY <1>1, <1>2, <1>10, <2>1, <2>2, OnePassReplay
<1>9. CASE Status(p)
  BY <1>9, ChannelOutside, OutsideReplay DEF Status
<1> QED BY <1>3, <1>4, <1>5, <1>6, <1>7, <1>8, <1>9 DEF PassStep

(* Every step keeps every document a replay.                               *)
LEMMA NextReplay ==
  ASSUME TypeOK, FoldInv, ReplayInv, [Next]_vars
  PROVE  ReplayInv'
BY ChannelOutside, VerbOutside, OutsideReplay, PassStepReplay DEF Next

(* A document that is a replay by the invariant is one by the property.    *)
LEMMA ReplayedIsReplay ==
  ASSUME NEW doc, DocumentReplayed(doc), NEW s \in Slug
  PROVE  Replaced(doc, s) \/ Replayed(doc, s)
<1>1. CASE \E e \in doc.redone : info[e].slug = s
  BY <1>1 DEF DocumentReplayed, SeenInv, Replaced
<1>2. CASE RowReplayed(doc.open[s], doc.done, s)
  BY <1>2 DEF RowReplayed, Replayed
<1> QED BY <1>1, <1>2 DEF DocumentReplayed

(* Without any assumption on dates, lags and the run of verbs: for any     *)
(* number of passes that race, fail, rebuild and overwrite each other, any *)
(* --max-events and any bound on the remembered ids, the open set of every *)
(* saved checkpoint is what replaying the applied events by date gives, up *)
(* to the overlap; a row may go against the dates only where the event     *)
(* that decided it came too late for the overlap, or where one of its      *)
(* events was forgotten and applied again, and until SeenCap events have   *)
(* been applied none is forgotten.                                         *)
THEOREM OpenSetIsAReplay == Spec => []OpenSetIsReplay
<1>1. Init => TypeOK /\ FoldInv /\ ReplayInv
  <2> SUFFICES ASSUME Init PROVE ReplayInv
    BY InitType, InitInv
  <2>1. checkpoint = None /\ \A p \in Pass : work[p] = EmptyDocument
    BY DEF Init
  <2>2. DocumentReplayed(EmptyDocument)
    BY EmptyReplayed DEF EmptyDocument
  <2> QED BY <2>1, <2>2 DEF ReplayInv
<1>2. TypeOK /\ FoldInv /\ ReplayInv /\ [Next]_vars => TypeOK' /\ FoldInv' /\ ReplayInv'
  BY NextType, NextInv, NextReplay
<1>3. ReplayInv => OpenSetIsReplay
  BY ReplayedIsReplay DEF ReplayInv, OpenSetIsReplay
<1> QED BY <1>1, <1>2, <1>3, PTL DEF Spec
=============================================================================
