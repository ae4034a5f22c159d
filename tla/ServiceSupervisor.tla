------------------------- MODULE ServiceSupervisor -------------------------
(***************************************************************************)
(* fulcra-collect: the supervisor that keeps the workers of service        *)
(* plugins alive.  The daemon loop calls tick about every 30 seconds with  *)
(* the services that are enabled; workers exit and the user enables and    *)
(* disables services in between.                                           *)
(*                                                                         *)
(* The code keeps points in time and compares them with now.  The model    *)
(* keeps ages (now - t) and the time left of a backoff, which change when  *)
(* a tick takes its now; ages beyond the cooldown are not told apart, so   *)
(* time needs no bound.                                                    *)
(***************************************************************************)
EXTENDS Integers, FiniteSets

CONSTANTS
  Plugin,              \* the service plugins of the registry
  Gap,                 \* the times that may pass from one tick to the next
  CrashWindow,         \* CRASH_WINDOW
  CrashLoopThreshold,  \* CRASH_LOOP_THRESHOLD
  BaseBackoff,         \* BASE_BACKOFF_S
  MaxBackoff,          \* MAX_BACKOFF_S
  Cooldown             \* DEGRADED_RECOVERY_COOLDOWN

ASSUME SupervisorAssumption ==
  /\ Gap \subseteq Nat \ {0}
  /\ CrashWindow \in Nat /\ Cooldown \in Nat /\ CrashWindow <= Cooldown
  /\ CrashLoopThreshold \in Nat \ {0}
  /\ BaseBackoff \in Nat \ {0} /\ MaxBackoff \in Nat \ {0}

(* What decide_restart raises two to.                                      *)
ASSUME PowerAssumption == \A n \in 0..CrashLoopThreshold : 2^n \in Nat

VARIABLES
  enabled,   \* config.enabled
  svc,       \* per service: what the supervisor keeps of it, and its worker
  launched,  \* history: the services the last tick tried to launch
  failures   \* history, per service: the ages of its crashes and failed
             \* launches since a tick last saw it disabled

hist == <<launched, failures>>
vars == <<enabled, svc, hist>>

(* Everything older than the cooldown is equally old.                      *)
Age == 0..(Cooldown + 1)

(* `proc` is what poll() says of the tracked process: it runs, it has      *)
(* exited with 0 or with another code.                                     *)
Service ==
  [proc: {"none", "running", "exited", "crashed"},
   exits: SUBSET Age, backoff: Nat, degraded: BOOLEAN]

(* ServiceSupervisor(): nothing is known of the service.                   *)
CleanService ==
  [proc |-> "none", exits |-> {}, backoff |-> 0, degraded |-> FALSE]

TypeOK ==
  /\ enabled \in SUBSET Plugin
  /\ svc \in [Plugin -> Service]
  /\ launched \in SUBSET Plugin
  /\ failures \in [Plugin -> SUBSET Age]

Init ==
  /\ enabled \in SUBSET Plugin
  /\ svc = [p \in Plugin |-> CleanService]
  /\ launched = {}
  /\ failures = [p \in Plugin |-> {}]

-----------------------------------------------------------------------------
(* Time.                                                                   *)

Older(ages, d) == {IF a + d > Cooldown THEN Cooldown + 1 ELSE a + d : a \in ages}

(* Mutant: the backoff is counted below zero.                              *)
AgedBelowZero(s, d) ==
  [s EXCEPT !.exits = Older(@, d), !.backoff = @ - d]

(* The service s as the tick sees it d later.                              *)
Aged(s, d) ==
  [s EXCEPT !.exits = Older(@, d), !.backoff = IF @ > d THEN @ - d ELSE 0]

-----------------------------------------------------------------------------
(* The restart policy.                                                     *)

InWindow(exits) == {a \in exits : a <= CrashWindow}

(* Mutant: one exit too many is tolerated.                                 *)
MoreThanThreshold(exits) == Cardinality(InWindow(exits)) > CrashLoopThreshold

(* decide_restart: a crash loop.                                           *)
CrashLoop(exits) == Cardinality(InWindow(exits)) >= CrashLoopThreshold

(* decide_restart: the backoff otherwise; exits holds the one that just    *)
(* happened.                                                               *)
Backoff(exits) ==
  LET b == BaseBackoff * 2^(Cardinality(InWindow(exits)) - 1)
  IN IF b < MaxBackoff THEN b ELSE MaxBackoff

(* _spawn: a worker, or a launch error that counts as a crash.             *)
Launched(s, fails) ==
  LET exits == s.exits \cup {0} IN
  IF ~fails THEN [s EXCEPT !.proc = "running"]
  ELSE IF CrashLoop(exits)
  THEN [s EXCEPT !.exits = exits, !.degraded = TRUE, !.backoff = 0]
  ELSE [s EXCEPT !.exits = exits, !.backoff = Backoff(exits)]

(* Mutant: a service that gives up also forgets why.                       *)
CrashedAndForgot(s) ==
  LET exits == s.exits \cup {0} IN
  IF CrashLoop(exits) THEN [s EXCEPT !.exits = {}, !.degraded = TRUE]
  ELSE [s EXCEPT !.exits = exits, !.backoff = Backoff(exits)]

(* tick: a worker was found dead with a code other than 0.  The backoff is *)
(* positive, so the same tick never launches it again.                     *)
Crashed(s) ==
  LET exits == s.exits \cup {0} IN
  IF CrashLoop(exits) THEN [s EXCEPT !.exits = exits, !.degraded = TRUE]
  ELSE [s EXCEPT !.exits = exits, !.backoff = Backoff(exits)]

(* Mutant: a degraded service gets no second chance.                       *)
NeverCools(s) == FALSE

(* tick: a degraded service whose last exit is older than the cooldown.    *)
CooledDown(s) == s.exits # {} /\ \A a \in s.exits : a > Cooldown

(* tick: a degraded service that has cooled down starts afresh.            *)
Recovered(s) ==
  IF s.degraded /\ CooledDown(s)
  THEN [s EXCEPT !.degraded = FALSE, !.exits = {}] ELSE s

(* The tracked process is dropped.                                         *)
Reaped(s) == [s EXCEPT !.proc = "none"]

(* tick launches the service s.                                            *)
Launches(s) ==
  LET r == Recovered(s) IN
  /\ ~r.degraded
  /\ \/ r.proc = "exited"
     \/ r.proc = "none" /\ r.backoff = 0

(* tick, for a service that is enabled.                                    *)
Supervised(s, fails) ==
  LET r == Recovered(s) IN
  CASE Launches(s) -> Launched(Reaped(r), fails)
    [] ~r.degraded /\ r.proc = "crashed" -> Crashed(Reaped(r))
    [] OTHER -> r

(* tick, for a service that is not: if it has a process, that is           *)
(* terminated and everything about the service is dropped.                 *)
Unsupervised(s) == IF s.proc = "none" THEN s ELSE CleanService

-----------------------------------------------------------------------------
(* serve: one round of the daemon loop, d after the last; the launches of  *)
(* the services in `failing` fail with an OSError.                         *)
Tick(d, failing) ==
  LET seen(p) == Aged(svc[p], d)
      failed == {p \in enabled : 0 \in svc'[p].exits}
  IN
  /\ svc' = [p \in Plugin |->
       IF p \in enabled THEN Supervised(seen(p), p \in failing)
       ELSE Unsupervised(seen(p))]
  /\ launched' = {p \in enabled : Launches(seen(p))}
  /\ failures' = [p \in Plugin |->
       IF p \notin enabled THEN {}
       ELSE Older(failures[p], d) \cup (IF p \in failed THEN {0} ELSE {})]
  /\ UNCHANGED enabled

(* A worker comes to its end.                                              *)
WorkerExits(p, how) ==
  /\ svc[p].proc = "running"
  /\ svc' = [svc EXCEPT ![p].proc = how]
  /\ UNCHANGED <<enabled, hist>>

(* The user enables or disables a service.                                 *)
Toggle(p) ==
  /\ enabled' = IF p \in enabled THEN enabled \ {p} ELSE enabled \cup {p}
  /\ UNCHANGED <<svc, hist>>

(* The daemon ends, shutdown_all terminates the workers, and a new daemon  *)
(* begins with a new supervisor.                                           *)
DaemonRestart ==
  /\ svc' = [p \in Plugin |-> CleanService]
  /\ launched' = {}
  /\ failures' = [p \in Plugin |-> {}]
  /\ UNCHANGED enabled

Ticks == \E d \in Gap, failing \in SUBSET Plugin : Tick(d, failing)

Next ==
  \/ Ticks
  \/ \E p \in Plugin :
       WorkerExits(p, "exited") \/ WorkerExits(p, "crashed") \/ Toggle(p)
  \/ DaemonRestart

Spec == Init /\ [][Next]_vars

(* The daemon loop goes on; nothing in it waits for a worker.              *)
FairSpec == Spec /\ WF_vars(Ticks)

-----------------------------------------------------------------------------
(* Properties.                                                             *)

(* A service that keeps crashing is started ever more rarely and then not  *)
(* at all: while it stays enabled, no CRASH_WINDOW sees more than          *)
(* CRASH_LOOP_THRESHOLD of its crashes and failed launches, the second     *)
(* chance after the cooldown included.                                     *)
FailureRateBounded ==
  \A p \in Plugin : Cardinality(InWindow(failures[p])) <= CrashLoopThreshold

(* A degraded service has no worker, and has the exit on record whose age  *)
(* alone can end its degradation: without one the auto-recovery of tick    *)
(* skips it for ever.                                                      *)
DegradedCanRecover ==
  \A p \in Plugin : svc[p].degraded => svc[p].proc = "none" /\ svc[p].exits # {}

(* A service that stays enabled runs or is launched again and again,       *)
(* whatever its backoffs, crash loops and failed launches.                 *)
KeptAlive ==
  \A p \in Plugin :
    []<>(p \notin enabled \/ svc[p].proc = "running" \/ p \in launched)
-----------------------------------------------------------------------------
(* The inductive invariant behind FailureRateBounded: the supervisor still *)
(* knows every failure that the window can see, and a service that is not  *)
(* degraded has not used up its budget.                                    *)
ServiceInv(s, failed) ==
  /\ InWindow(failed) \subseteq InWindow(s.exits)
  /\ Cardinality(InWindow(s.exits)) <= CrashLoopThreshold
  /\ CrashLoop(s.exits) => s.degraded
  /\ s.degraded => s.proc = "none" /\ s.exits # {}

SupervisorInv == \A p \in Plugin : ServiceInv(svc[p], failures[p])
=============================================================================
