---------------------- MODULE ServiceSupervisorProofs ----------------------
(***************************************************************************)
(* Proofs about ServiceSupervisor, for any number of services and any      *)
(* timing of the ticks, the crashes and the user: it is well typed, its    *)
(* restart policy bounds the rate of failures, and no degraded service is  *)
(* beyond recovery.                                                        *)
(***************************************************************************)
EXTENDS ServiceSupervisor, FiniteSetTheorems, TLAPS

-----------------------------------------------------------------------------
(* Ages.                                                                   *)

(* Sets of ages are finite.                                                *)
LEMMA AgesAreFinite ==
  ASSUME NEW S \in SUBSET Age
  PROVE  /\ IsFiniteSet(S)
         /\ IsFiniteSet(InWindow(S))
         /\ Cardinality(InWindow(S)) \in Nat
<1>1. IsFiniteSet(Age)
  BY FS_Interval, SupervisorAssumption DEF Age
<1>2. InWindow(S) \in SUBSET Age
  BY DEF InWindow
<1> QED BY <1>1, <1>2, FS_Subset, FS_CardinalityType

(* Time passing: ages stay ages and none is 0, what is in the window was   *)
(* in it before, and so it holds no more of them than before.              *)
LEMMA OlderAges ==
  ASSUME NEW S \in SUBSET Age, NEW d \in Nat \ {0}
  PROVE  /\ Older(S, d) \in SUBSET Age
         /\ 0 \notin Older(S, d)
         /\ S # {} => Older(S, d) # {}
         /\ Cardinality(InWindow(Older(S, d))) <= Cardinality(InWindow(S))
<1> USE SupervisorAssumption
<1>1. Older(S, d) \in SUBSET Age /\ 0 \notin Older(S, d)
  BY DEF Older, Age
<1>2. S # {} => Older(S, d) # {}
  BY DEF Older
<1> DEFINE T == {a \in InWindow(S) : a + d <= CrashWindow}
           f == [a \in T |-> a + d]
           W == InWindow(Older(S, d))
<1>3. f \in [T -> W]
  <2> SUFFICES ASSUME NEW a \in T PROVE a + d \in W
    OBVIOUS
  <2>1. a \in S /\ a \in Nat /\ a + d <= CrashWindow
    BY DEF InWindow, Age
  <2>2. a + d = IF a + d > Cooldown THEN Cooldown + 1 ELSE a + d
    BY <2>1
  <2>3. a + d \in Older(S, d)
    BY <2>1, <2>2 DEF Older
  <2> QED BY <2>1, <2>3 DEF InWindow
<1>4. \A w \in W : \E a \in T : f[a] = w
  <2> SUFFICES ASSUME NEW w \in W PROVE \E a \in T : f[a] = w
    OBVIOUS
  <2>1. PICK a \in S : w = IF a + d > Cooldown THEN Cooldown + 1 ELSE a + d
    BY DEF InWindow, Older
  <2>2. w <= CrashWindow /\ a \in Nat
    BY DEF InWindow, Age
  <2>3. w = a + d
    BY <2>1, <2>2
  <2>4. a \in T
    BY <2>2, <2>3 DEF InWindow
  <2> QED BY <2>3, <2>4
<1>5. f \in Surjection(T, W)
  BY <1>3, <1>4 DEF Surjection
<1>6. /\ IsFiniteSet(T) /\ Cardinality(T) \in Nat
      /\ Cardinality(T) <= Cardinality(InWindow(S))
  <2>1. T \in SUBSET InWindow(S)
    OBVIOUS
  <2> QED BY <2>1, AgesAreFinite, FS_Subset, FS_CardinalityType
<1>7. Cardinality(W) <= Cardinality(T)
  BY <1>5, <1>6, FS_Surjection
<1>8. Cardinality(W) \in Nat /\ Cardinality(InWindow(S)) \in Nat
  BY <1>1, AgesAreFinite
<1>9. Cardinality(W) <= Cardinality(InWindow(S))
  BY <1>6, <1>7, <1>8
<1> QED BY <1>1, <1>2, <1>9

(* Two sets of ages grow older alike.                                      *)
LEMMA OlderInWindow ==
  ASSUME NEW S \in SUBSET Age, NEW F \in SUBSET Age, NEW d \in Nat \ {0},
         InWindow(F) \subseteq InWindow(S)
  PROVE  InWindow(Older(F, d)) \subseteq InWindow(Older(S, d))
BY SupervisorAssumption DEF InWindow, Older, Age

(* One failure more uses up one unit of the budget.                        *)
LEMMA OneMore ==
  ASSUME NEW S \in SUBSET Age, ~CrashLoop(S)
  PROVE  LET T == S \cup {0} IN
         /\ T \in SUBSET Age
         /\ InWindow(T) = InWindow(S) \cup {0}
         /\ Cardinality(InWindow(T)) \in 1..CrashLoopThreshold
<1> USE SupervisorAssumption
<1> DEFINE T == S \cup {0}
<1>1. T \in SUBSET Age
  BY DEF Age
<1>2. InWindow(T) = InWindow(S) \cup {0}
  BY DEF InWindow
<1>3. Cardinality(InWindow(S)) \in Nat /\ Cardinality(InWindow(S)) < CrashLoopThreshold
  BY AgesAreFinite DEF CrashLoop
<1>4. Cardinality(InWindow(T)) =
        IF 0 \in InWindow(S) THEN Cardinality(InWindow(S))
        ELSE Cardinality(InWindow(S)) + 1
  BY <1>2, AgesAreFinite, FS_AddElement
<1>5. Cardinality(InWindow(T)) # 0
  BY <1>1, <1>2, AgesAreFinite, FS_EmptySet
<1> QED BY <1>1, <1>2, <1>3, <1>4, <1>5

-----------------------------------------------------------------------------
(* One service.                                                            *)

(* The backoff is a time as long as the service is not in a crash loop.    *)
LEMMA BackoffType ==
  ASSUME NEW S \in SUBSET Age, Cardinality(InWindow(S)) \in 1..CrashLoopThreshold
  PROVE  Backoff(S) \in Nat
<1> DEFINE n == Cardinality(InWindow(S)) - 1
<1>1. n \in 0..CrashLoopThreshold
  BY SupervisorAssumption
<1> DEFINE pow == 2^n
<1>2. pow \in Nat
  BY <1>1, PowerAssumption
<1> HIDE DEF pow
<1>3. BaseBackoff * pow \in Nat
  BY <1>2, SupervisorAssumption
<1>4. Backoff(S) = IF BaseBackoff * pow < MaxBackoff THEN BaseBackoff * pow ELSE MaxBackoff
  BY DEF Backoff, pow
<1> QED BY <1>3, <1>4, SupervisorAssumption

(* What a failure makes of a service that has no worker and is not in a    *)
(* crash loop.                                                             *)
Failed(s, t) ==
  /\ t \in Service
  /\ t.proc = "none"
  /\ t.exits = s.exits \cup {0}
  /\ (t.degraded <=> CrashLoop(t.exits))

LEMMA FailureOutcome ==
  ASSUME NEW s \in Service, s.proc = "none", ~s.degraded, ~CrashLoop(s.exits)
  PROVE  Failed(s, Crashed(s)) /\ Failed(s, Launched(s, TRUE))
<1> DEFINE exits == s.exits \cup {0}
<1>1. /\ exits \in SUBSET Age
      /\ Cardinality(InWindow(exits)) \in 1..CrashLoopThreshold
  BY OneMore DEF Service
<1>2. Backoff(exits) \in Nat
  BY <1>1, BackoffType
<1> DEFINE down == [s EXCEPT !.exits = exits, !.degraded = TRUE]
           off == [s EXCEPT !.exits = exits, !.degraded = TRUE, !.backoff = 0]
           wait == [s EXCEPT !.exits = exits, !.backoff = Backoff(exits)]
<1>3. /\ down \in Service /\ down.proc = "none" /\ down.exits = exits
      /\ down.degraded = TRUE
  BY <1>1 DEF Service
<1>4. /\ off \in Service /\ off.proc = "none" /\ off.exits = exits
      /\ off.degraded = TRUE
  BY <1>1 DEF Service
<1>5. /\ wait \in Service /\ wait.proc = "none" /\ wait.exits = exits
      /\ wait.degraded = FALSE
  BY <1>1, <1>2 DEF Service
<1>6. Crashed(s) = IF CrashLoop(exits) THEN down ELSE wait
  BY DEF Crashed
<1>7. Launched(s, TRUE) = IF CrashLoop(exits) THEN off ELSE wait
  BY DEF Launched
<1> HIDE DEF exits, down, off, wait
<1>8. CASE CrashLoop(exits)
  BY <1>3, <1>4, <1>6, <1>7, <1>8 DEF Failed, exits
<1>9. CASE ~CrashLoop(exits)
  BY <1>5, <1>6, <1>7, <1>9 DEF Failed, exits
<1> QED BY <1>8, <1>9

(* The bookkeeping of a failure.                                           *)
LEMMA FailureKeepsInv ==
  ASSUME NEW s \in Service, NEW t, NEW F \in SUBSET Age,
         ~CrashLoop(s.exits), InWindow(F) \subseteq InWindow(s.exits), Failed(s, t)
  PROVE  ServiceInv(t, F \cup {0})
<1>1. /\ InWindow(t.exits) = InWindow(s.exits) \cup {0}
      /\ Cardinality(InWindow(t.exits)) \in 1..CrashLoopThreshold
  BY OneMore DEF Failed, Service
<1>2. InWindow(F \cup {0}) \subseteq InWindow(F) \cup {0}
  BY DEF InWindow
<1> QED BY <1>1, <1>2, SupervisorAssumption DEF Failed, ServiceInv

(* Time keeps the invariant of a service.                                  *)
LEMMA AgedKeepsInv ==
  ASSUME NEW s \in Service, NEW F \in SUBSET Age, NEW d \in Nat \ {0},
         ServiceInv(s, F)
  PROVE  /\ Aged(s, d) \in Service
         /\ ServiceInv(Aged(s, d), Older(F, d))
         /\ 0 \notin Aged(s, d).exits
<1>1. s.exits \in SUBSET Age
  BY DEF Service
<1>2. /\ Aged(s, d).exits = Older(s.exits, d)
      /\ Aged(s, d).proc = s.proc
      /\ Aged(s, d).degraded = s.degraded
  BY DEF Aged, Service
<1>3. Aged(s, d) \in Service
  <2>1. Older(s.exits, d) \in SUBSET Age
    BY <1>1, OlderAges
  <2>2. (IF s.backoff > d THEN s.backoff - d ELSE 0) \in Nat
    BY DEF Service
  <2> QED BY <2>1, <2>2 DEF Aged, Service
<1>4. /\ Cardinality(InWindow(s.exits)) \in Nat
      /\ Cardinality(InWindow(Older(s.exits, d))) \in Nat
  BY <1>1, OlderAges, AgesAreFinite
<1> QED BY <1>1, <1>2, <1>3, <1>4, OlderAges, OlderInWindow, SupervisorAssumption
  DEF ServiceInv, CrashLoop

(* So does the second chance of a degraded service: what it forgets is too *)
(* old for the window.                                                     *)
LEMMA RecoveredKeepsInv ==
  ASSUME NEW s \in Service, NEW F \in SUBSET Age, ServiceInv(s, F)
  PROVE  /\ Recovered(s) \in Service
         /\ ServiceInv(Recovered(s), F)
         /\ 0 \notin s.exits => 0 \notin Recovered(s).exits
<1>1. CASE s.degraded /\ CooledDown(s)
  <2> DEFINE r == Recovered(s)
  <2>1. /\ r = [s EXCEPT !.degraded = FALSE, !.exits = {}]
        /\ r \in Service /\ r.exits = {} /\ r.degraded = FALSE
    BY <1>1 DEF Recovered, Service
  <2>2. InWindow(s.exits) = {}
    BY <1>1, SupervisorAssumption DEF CooledDown, InWindow, Service, Age
  <2>3. InWindow({}) = {}
    BY DEF InWindow
  <2>4. ~CrashLoop({})
    BY <2>3, FS_EmptySet, SupervisorAssumption DEF CrashLoop
  <2> QED BY <2>1, <2>2, <2>3, <2>4, FS_EmptySet, SupervisorAssumption DEF ServiceInv
<1>2. CASE ~(s.degraded /\ CooledDown(s))
  BY <1>2 DEF Recovered
<1> QED BY <1>1, <1>2

(* A tick keeps the invariant of a service that is enabled.                *)
LEMMA SupervisedKeepsInv ==
  ASSUME NEW s \in Service, NEW F \in SUBSET Age, NEW fails \in BOOLEAN,
         ServiceInv(s, F), 0 \notin s.exits
  PROVE  LET t == Supervised(s, fails) IN
         /\ t \in Service
         /\ ServiceInv(t, F \cup (IF 0 \in t.exits THEN {0} ELSE {}))
<1> DEFINE r == Recovered(s)
           t == Supervised(s, fails)
           G == F \cup (IF 0 \in t.exits THEN {0} ELSE {})
<1>1. r \in Service /\ ServiceInv(r, F) /\ 0 \notin r.exits
  BY RecoveredKeepsInv
<1> HIDE DEF r
<1>2. /\ Reaped(r) \in Service /\ Reaped(r).proc = "none"
      /\ Reaped(r).exits = r.exits /\ Reaped(r).degraded = r.degraded
  BY <1>1 DEF Reaped, Service
<1>3. ~r.degraded => ~CrashLoop(r.exits) /\ InWindow(F) \subseteq InWindow(r.exits)
  BY <1>1 DEF ServiceInv
<1>4. ASSUME ~r.degraded, Failed(Reaped(r), t) PROVE t \in Service /\ ServiceInv(t, G)
  <2>1. 0 \in t.exits /\ t \in Service
    BY <1>4 DEF Failed
  <2>2. ServiceInv(t, F \cup {0})
    BY <1>2, <1>3, <1>4, FailureKeepsInv
  <2> QED BY <2>1, <2>2
<1>5. ASSUME t \in Service, t.exits = r.exits, t.degraded = r.degraded,
             r.degraded => t.proc = r.proc
      PROVE  t \in Service /\ ServiceInv(t, G)
  BY <1>1, <1>5 DEF ServiceInv
<1>6. CASE Launches(s) /\ fails
  <2>1. t = Launched(Reaped(r), TRUE) /\ ~r.degraded
    BY <1>6 DEF Supervised, Launches, r
  <2> QED BY <2>1, <1>2, <1>3, <1>4, FailureOutcome
<1>7. CASE Launches(s) /\ ~fails
  <2>1. t = Launched(Reaped(r), FALSE) /\ ~r.degraded
    BY <1>7 DEF Supervised, Launches, r
  <2>2. t = [Reaped(r) EXCEPT !.proc = "running"]
    BY <2>1 DEF Launched
  <2>3. t \in Service /\ t.exits = r.exits /\ t.degraded = r.degraded
    BY <2>2, <1>2 DEF Service
  <2> QED BY <2>1, <2>3, <1>5
<1>8. CASE ~Launches(s) /\ ~r.degraded /\ r.proc = "crashed"
  <2>1. t = Crashed(Reaped(r))
    BY <1>8 DEF Supervised, r
  <2> QED BY <2>1, <1>2, <1>3, <1>4, <1>8, FailureOutcome
<1>9. CASE ~Launches(s) /\ ~(~r.degraded /\ r.proc = "crashed")
  <2>1. t = r
    BY <1>9 DEF Supervised, r
  <2> QED BY <2>1, <1>1, <1>5
<1> QED BY <1>6, <1>7, <1>8, <1>9

-----------------------------------------------------------------------------
(* All services.                                                           *)

(* A supervisor that knows nothing satisfies the invariant.                *)
LEMMA CleanInv == CleanService \in Service /\ ServiceInv(CleanService, {})
<1>1. CleanService \in Service /\ CleanService.exits = {} /\ ~CleanService.degraded
  BY DEF CleanService, Service
<1>2. InWindow({}) = {}
  BY DEF InWindow
<1> QED BY <1>1, <1>2, FS_EmptySet, SupervisorAssumption DEF ServiceInv, CrashLoop

(* A tick keeps it.                                                        *)
LEMMA TickInv ==
  ASSUME TypeOK, SupervisorInv, NEW d \in Gap, NEW failing \in SUBSET Plugin,
         Tick(d, failing)
  PROVE  TypeOK' /\ SupervisorInv'
<1> USE SupervisorAssumption
<1> DEFINE seen(p) == Aged(svc[p], d)
           old(p) == Older(failures[p], d)
<1>1. d \in Nat \ {0}
  OBVIOUS
<1>2. ASSUME NEW p \in Plugin
      PROVE  /\ seen(p) \in Service /\ ServiceInv(seen(p), old(p))
             /\ 0 \notin seen(p).exits /\ old(p) \in SUBSET Age
  <2>1. svc[p] \in Service /\ failures[p] \in SUBSET Age
    BY DEF TypeOK
  <2>2. ServiceInv(svc[p], failures[p])
    BY DEF SupervisorInv
  <2> QED BY <1>1, <2>1, <2>2, AgedKeepsInv, OlderAges
<1>3. ASSUME NEW p \in Plugin
      PROVE  svc'[p] \in Service /\ failures'[p] \in SUBSET Age
             /\ ServiceInv(svc'[p], failures'[p])
  <2>1. CASE p \in enabled
    <3>1. svc'[p] = Supervised(seen(p), p \in failing)
      BY <2>1 DEF Tick
    <3>2. failures'[p] = old(p) \cup (IF 0 \in svc'[p].exits THEN {0} ELSE {})
      BY <2>1 DEF Tick
    <3>3. 0 \in Age
      BY DEF Age
    <3>4. (p \in failing) \in BOOLEAN
      OBVIOUS
    <3>5. /\ svc'[p] \in Service
          /\ ServiceInv(svc'[p], old(p) \cup (IF 0 \in svc'[p].exits THEN {0} ELSE {}))
      <4> HIDE DEF seen, old
      <4> QED BY <1>2, <3>1, <3>4, SupervisedKeepsInv
    <3> QED BY <1>2, <3>2, <3>3, <3>5
  <2>2. CASE p \notin enabled
    <3>1. svc'[p] = Unsupervised(seen(p)) /\ failures'[p] = {}
      BY <2>2 DEF Tick
    <3>2. ServiceInv(seen(p), {})
      BY <1>2 DEF ServiceInv, InWindow
    <3> QED BY <1>2, <3>1, <3>2, CleanInv DEF Unsupervised
  <2> QED BY <2>1, <2>2
<1>4. svc' \in [Plugin -> Service] /\ failures' \in [Plugin -> SUBSET Age]
  <2>1. svc' = [p \in Plugin |-> svc'[p]] /\ failures' = [p \in Plugin |-> failures'[p]]
    BY DEF Tick
  <2> QED BY <1>3, <2>1
<1>5. launched' \in SUBSET Plugin /\ enabled' = enabled
  BY DEF Tick, TypeOK
<1> QED BY <1>3, <1>4, <1>5 DEF TypeOK, SupervisorInv

(* A worker's end does not concern the invariant: only a service with a    *)
(* worker, which is not degraded, changes.                                 *)
LEMMA WorkerExitsInv ==
  ASSUME TypeOK, SupervisorInv, NEW p \in Plugin, NEW how \in {"exited", "crashed"},
         WorkerExits(p, how)
  PROVE  TypeOK' /\ SupervisorInv'
<1>1. svc[p] \in Service /\ svc[p].proc = "running"
  BY DEF TypeOK, WorkerExits
<1>2. svc' = [svc EXCEPT ![p] = [svc[p] EXCEPT !.proc = how]]
  BY <1>1 DEF WorkerExits, TypeOK
<1>3. LET t == [svc[p] EXCEPT !.proc = how] IN
      t \in Service /\ t.exits = svc[p].exits /\ t.degraded = svc[p].degraded
  BY <1>1 DEF Service
<1>4. ServiceInv([svc[p] EXCEPT !.proc = how], failures[p])
  BY <1>1, <1>3 DEF SupervisorInv, ServiceInv
<1> QED BY <1>2, <1>3, <1>4 DEF WorkerExits, TypeOK, SupervisorInv, hist

(* The initial state satisfies the invariant and every step keeps it.      *)
LEMMA InitInv == Init => TypeOK /\ SupervisorInv
BY CleanInv, SupervisorAssumption DEF Init, TypeOK, SupervisorInv

LEMMA NextInv == TypeOK /\ SupervisorInv /\ [Next]_vars => TypeOK' /\ SupervisorInv'
<1> SUFFICES ASSUME TypeOK, SupervisorInv, [Next]_vars
             PROVE  TypeOK' /\ SupervisorInv'
  OBVIOUS
<1>1. CASE Ticks
  BY <1>1, TickInv DEF Ticks
<1>2. ASSUME NEW p \in Plugin,
             WorkerExits(p, "exited") \/ WorkerExits(p, "crashed")
      PROVE  TypeOK' /\ SupervisorInv'
  BY <1>2, WorkerExitsInv
<1>3. ASSUME NEW p \in Plugin, Toggle(p) PROVE TypeOK' /\ SupervisorInv'
  BY <1>3 DEF Toggle, hist, TypeOK, SupervisorInv
<1>4. CASE DaemonRestart
  BY <1>4, CleanInv, SupervisorAssumption DEF DaemonRestart, TypeOK, SupervisorInv
<1>5. CASE UNCHANGED vars
  BY <1>5 DEF vars, hist, TypeOK, SupervisorInv
<1> QED BY <1>1, <1>2, <1>3, <1>4, <1>5 DEF Next

(* The supervisor is well typed.                                           *)
THEOREM TypeCorrect == Spec => []TypeOK
<1>1. Init => TypeOK /\ SupervisorInv
  BY InitInv
<1>2. TypeOK /\ SupervisorInv /\ [Next]_vars => TypeOK' /\ SupervisorInv'
  BY NextInv
<1> QED BY <1>1, <1>2, PTL DEF Spec

(* However ticks are spaced and whenever workers die or cannot be started, *)
(* no CRASH_WINDOW sees more than CRASH_LOOP_THRESHOLD failures of a       *)
(* service that stays enabled.                                             *)
THEOREM FailureRateIsBounded == Spec => []FailureRateBounded
<1>1. Init => TypeOK /\ SupervisorInv
  BY InitInv
<1>2. TypeOK /\ SupervisorInv /\ [Next]_vars => TypeOK' /\ SupervisorInv'
  BY NextInv
<1>3. TypeOK /\ SupervisorInv => FailureRateBounded
  <2> SUFFICES ASSUME TypeOK, SupervisorInv, NEW p \in Plugin
               PROVE  Cardinality(InWindow(failures[p])) <= CrashLoopThreshold
    BY DEF FailureRateBounded
  <2>1. svc[p].exits \in SUBSET Age /\ failures[p] \in SUBSET Age
    BY DEF TypeOK, Service
  <2>2. /\ InWindow(failures[p]) \subseteq InWindow(svc[p].exits)
        /\ Cardinality(InWindow(svc[p].exits)) <= CrashLoopThreshold
    BY DEF SupervisorInv, ServiceInv
  <2>3. Cardinality(InWindow(failures[p])) <= Cardinality(InWindow(svc[p].exits))
    BY <2>1, <2>2, AgesAreFinite, FS_Subset
  <2>4. /\ Cardinality(InWindow(failures[p])) \in Nat
        /\ Cardinality(InWindow(svc[p].exits)) \in Nat
    BY <2>1, AgesAreFinite
  <2> QED BY <2>2, <2>3, <2>4, SupervisorAssumption
<1> QED BY <1>1, <1>2, <1>3, PTL DEF Spec

(* A degraded service has no worker and keeps the exit whose age ends its  *)
(* degradation.                                                            *)
THEOREM DegradedIsNotForGood == Spec => []DegradedCanRecover
<1>1. Init => TypeOK /\ SupervisorInv
  BY InitInv
<1>2. TypeOK /\ SupervisorInv /\ [Next]_vars => TypeOK' /\ SupervisorInv'
  BY NextInv
<1>3. SupervisorInv => DegradedCanRecover
  BY DEF SupervisorInv, ServiceInv, DegradedCanRecover
<1> QED BY <1>1, <1>2, <1>3, PTL DEF Spec
=============================================================================
