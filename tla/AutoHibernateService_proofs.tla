---------------------- MODULE AutoHibernateService_proofs ----------------------
(* What TLAPS proves of the service, for every configuration and whatever  *)
(* may fail: it uses the idle monitor as the monitor's specification       *)
(* allows, and the invariants that follow.                                 *)
EXTENDS AutoHibernateService, IdleMonitor_proofs

-------------------------------------------------------------------------------
(* The service implements the monitor: each of its steps calls the monitor *)
(* once or leaves it alone.                                                *)

(* For the monitor the start of a new process is a Reset: its state is     *)
(* that of a new monitor.                                                  *)
LEMMA NewIsReset ==
  ASSUME mon \in MonitorState
  PROVE  ResetMonitor = NewIdleMonitor
<1>1. /\ ResetWarning(mon) \in MonitorState
      /\ ResetWarning(mon).noUsersSince = Unset /\ ResetWarning(mon).allDiscSince = Unset
      /\ ResetWarning(mon).warnAt = Unset /\ ResetWarning(mon).warning = "None"
      /\ ResetWarning(mon).condition = "None"
  BY ResetWarningType DEF ResetWarning, MonitorState
<1>2. \A m \in MonitorState :
         m = [noUsersSince |-> m.noUsersSince, allDiscSince |-> m.allDiscSince,
              warnAt |-> m.warnAt, warning |-> m.warning,
              condition |-> m.condition, current |-> m.current]
  BY DEF MonitorState
<1>3. ResetMonitor \in MonitorState /\ ResetMonitor.current = {}
  BY <1>1 DEF ResetMonitor, MonitorState
<1>4. /\ ResetMonitor.noUsersSince = Unset /\ ResetMonitor.allDiscSince = Unset
      /\ ResetMonitor.warnAt = Unset /\ ResetMonitor.warning = "None"
      /\ ResetMonitor.condition = "None"
  BY <1>1 DEF ResetMonitor, MonitorState
<1> QED
  BY <1>2, <1>3, <1>4 DEF NewIdleMonitor

(* Each step of the service is a step of the monitor or leaves it alone.   *)
LEMMA StepImplementsMonitor ==
  ASSUME MonitorInv, Next
  PROVE  [MonitorNext]_monitorVars
<1> USE DEF monitorVars
<1>1. CASE CheckIdle
  <2>1. Check
    BY <1>1 DEF CheckIdle, Check
  <2> QED
    BY <2>1 DEF MonitorNext
<1>2. CASE WarningSent \/ WarningDismissed \/ CancellationSent
  BY <1>2 DEF WarningSent, WarningDismissed, CancellationSent
<1>3. CASE RequestHibernation
  <2>1. Reset
    BY <1>3 DEF RequestHibernation, Reset
  <2> QED
    BY <2>1 DEF MonitorNext
<1>4. CASE HibernationAnswered \/ Schedule \/ TimerFires \/ LoopStops \/ AzureAccepts
  BY <1>4 DEF HibernationAnswered, Schedule, TimerFires, LoopStops, AzureAccepts
<1>5. CASE \E e \in PowerEvents : HandlePowerEvent(e)
  <2>1. SetResumeTime
    BY <1>5 DEF HandlePowerEvent, SetResumeTime
  <2> QED
    BY <2>1 DEF MonitorNext
<1>6. CASE StopRequested \/ Suspend \/ Resume
  BY <1>6 DEF StopRequested, Suspend, Resume
<1>7. CASE ProcessExits
  <2>1. Reset
    BY <1>7, NewIsReset DEF ProcessExits, Reset, NewService, MonitorInv, MonitorTypeOK
  <2> QED
    BY <2>1 DEF MonitorNext
<1>8. CASE ServiceStarts
  <2>1. SetResumeTime
    BY <1>8 DEF ServiceStarts, SetResumeTime, NewService
  <2> QED
    BY <2>1 DEF MonitorNext
<1>9. CASE Tick
  BY <1>9 DEF Tick, MonitorNext
<1>10. CASE UserActs
  <2>1. MonitorUser
    BY <1>10 DEF UserActs, MonitorUser
  <2> QED
    BY <2>1 DEF MonitorNext
<1> QED
  BY <1>1, <1>2, <1>3, <1>4, <1>5, <1>6, <1>7, <1>8, <1>9, <1>10 DEF Next, LoopStep

(* The same for a step that may stutter.                                   *)
LEMMA ServiceStepMonitor == MonitorInv /\ [Next]_vars => [MonitorNext]_monitorVars
<1>1. UNCHANGED vars => UNCHANGED monitorVars
  BY DEF vars, monitorVars
<1> QED
  BY <1>1, StepImplementsMonitor

(* The invariant of the monitor holds inside the service.                  *)
LEMMA ServiceMonitorInv == Spec => []MonitorInv
<1>1. Init => MonitorInv
  BY MonitorInitInv DEF Init
<1>2. MonitorInv /\ [Next]_vars => MonitorInv'
  BY ServiceStepMonitor, MonitorStepInv
<1> QED
  BY <1>1, <1>2, PTL DEF Spec

(* Every behaviour of the service is one of the monitor, which allows its  *)
(* callers everything: so what holds of the monitor under every caller     *)
(* holds of it inside the service.                                         *)
LEMMA ServiceImplementsMonitor == Spec => MonitorSpec
<1>1. Init => MonitorInit
  BY DEF Init
<1> QED
  BY <1>1, ServiceMonitorInv, ServiceStepMonitor, PTL DEF Spec, MonitorSpec, monitorVars

(* In the service, too, a warning is coherent whatever fails.              *)
THEOREM ServiceWarningCoherent == Spec => []WarningCoherent
BY ServiceImplementsMonitor, MonitorWarningCoherent, PTL

-------------------------------------------------------------------------------
(* The timer the loop sets is within the horizon: the least of what is     *)
(* left until each threshold, the warning interval, or a default.          *)

(* Every constant the timer is computed from is an age.                    *)
LEMMA ThresholdTypes ==
  /\ Horizon \in Nat /\ Horizon > 0 /\ 0 \in Age
  /\ \A t \in Thresholds : t \in Age
  /\ WarningCheckInterval \in Age /\ MinCheckInterval \in Age
  /\ MaxSend \in Age /\ MaxCall \in Age /\ MinimumUptime \in Age
BY HorizonAssumption, ConfigAssumption, ServiceAssumption DEF Age

(* What is left until a threshold is an age.                               *)
LEMMA LeftType ==
  ASSUME NEW t \in Age, NEW a \in Age
  PROVE  Left(t, a) \in Age
BY HorizonAssumption DEF Left, Age

(* The default interval is an age.                                         *)
LEMMA DefaultIntervalType == DefaultInterval \in Age
<1> DEFINE S == {t \in Thresholds : t > 0}
<1>1. S \subseteq Nat /\ S # {}
  BY ConfigAssumption, ThresholdTypes DEF Age
<1>2. Min(S) \in S
  BY <1>1, LeastNatural
<1> QED
  BY <1>2, ThresholdTypes DEF DefaultInterval

(* The time until the next threshold is an age.                            *)
LEMMA TimeUntilType ==
  ASSUME TypeOK, NEW readable \in SnapshotReadings
  PROVE  TimeUntilThresholds(readable) \in Age
<1>1. readable \subseteq Users
  BY DEF SnapshotReadings, Present
<1>2. /\ NoUsersThreshold \in Age /\ AllDisconnectedThreshold \in Age
      /\ InactiveUserThreshold \in Age
  BY ThresholdTypes DEF Thresholds
<1>3. /\ \A a \in {mon.noUsersSince} \ {Unset} : a \in Age
      /\ \A a \in {mon.allDiscSince} \ {Unset} : a \in Age
  BY DEF TypeOK, MonitorTypeOK, MonitorState, OptAge
<1>4. \A r \in {readable} \ {{}} : Min({idle[u] : u \in r}) \in Age
  <2> SUFFICES ASSUME readable # {} PROVE Min({idle[u] : u \in readable}) \in Age
    OBVIOUS
  <2> DEFINE S == {idle[u] : u \in readable}
  <2>1. \A x \in S : x \in Age
    BY <1>1 DEF TypeOK, SessionsTypeOK
  <2>2. S \subseteq Nat /\ S # {}
    BY <2>1 DEF Age
  <2>3. Min(S) \in S
    BY <2>2, LeastNatural
  <2> QED
    BY <2>1, <2>3
<1>5. \A x \in TimesLeft(readable) : x \in Age
  BY <1>2, <1>3, <1>4, LeftType DEF TimesLeft, If
<1>6. CASE TimesLeft(readable) = {}
  BY <1>6, ThresholdTypes DEF TimeUntilThresholds
<1>7. CASE TimesLeft(readable) # {}
  <2>1. TimesLeft(readable) \subseteq Nat
    BY <1>5 DEF Age
  <2>2. Min(TimesLeft(readable)) \in TimesLeft(readable)
    BY <1>7, <2>1, LeastNatural
  <2> QED
    BY <1>5, <1>7, <2>2 DEF TimeUntilThresholds
<1> QED
  BY <1>6, <1>7

(* The timer of the loop is an age.                                        *)
LEMMA NextCheckTimeType ==
  ASSUME NEW t \in Age
  PROVE  NextCheckTime(t) \in Age
BY ThresholdTypes, DefaultIntervalType DEF NextCheckTime, Age

-------------------------------------------------------------------------------
(* The inductive invariant of the service.  FastPollingMeansWarning speaks *)
(* of the loop while it sleeps; to be kept it must hold all the way from   *)
(* the check that reports the warning to the next one, so ModeAgrees says  *)
(* what the warning mode and the monitor's warning have to do with each    *)
(* other at every control state.                                           *)

ModeAgrees ==
  /\ inWarningMode /\ pc \in {"check", "schedule", "wait", "stopped"} => mon.warning = "Active"
  /\ pc = "warn" => mon.warning = "Active"
  /\ pc \in {"dismiss", "cancel"} => ~ inWarningMode
  /\ pc = "wait" /\ inWarningMode => timer <= WarningCheckInterval

ServiceInv == TypeOK /\ WarningCoherent /\ ModeAgrees /\ UptimeNotOverstated

(* The service's invariant contains the monitor's.                         *)
LEMMA ServiceInvMonitor == ServiceInv => MonitorInv
BY DEF ServiceInv, TypeOK, MonitorInv

(* The service's invariant holds initially.                                *)
LEMMA ServiceInitInv == Init => ServiceInv
<1> SUFFICES ASSUME Init PROVE ServiceInv
  OBVIOUS
<1>1. MonitorInv
  BY MonitorInitInv DEF Init
<1>2. TypeOK
  <2>1. timer \in Age /\ busy \in Age /\ upFor \in Age
    BY HorizonAssumption DEF Init, Age
  <2>2. lastNotification \in OptAge
    BY DEF Init, OptAge
  <2> QED
    BY <1>1, <2>1, <2>2 DEF Init, TypeOK, MonitorInv, ControlStates, Blocking, Calling
<1>3. ModeAgrees
  BY DEF Init, ModeAgrees
<1>4. UptimeNotOverstated
  BY ThresholdTypes DEF Init, MonitorInit, UptimeNotOverstated
<1> QED
  BY <1>1, <1>2, <1>3, <1>4 DEF ServiceInv, MonitorInv

(* How a check ends: what becomes of the mode and where the loop goes.     *)
LEMMA CheckEndsFacts ==
  ASSUME NEW shouldWarn \in BOOLEAN, NEW isHibernating \in BOOLEAN, NEW n \in OptAge,
         CheckEnds(shouldWarn, isHibernating, n)
  PROVE  /\ inWarningMode' = shouldWarn
         /\ lastNotification' \in OptAge
         /\ busy' = 0
         /\ pc' \in {"dismiss", "schedule"}
         /\ pc' = "dismiss" => ~ shouldWarn
BY DEF CheckEnds, OptAge

(* What a check returns agrees with the state it leaves: a warning is      *)
(* reported only while one is active, a hibernation only after the minimum *)
(* uptime.                                                                 *)
LEMMA CheckResultsAgree ==
  ASSUME SessionsTypeOK, MonitorTypeOK, WarningCoherent, NEW r \in CheckResults
  PROVE  /\ r.does \in {"nothing", "error", "warn", "hibernate"}
         /\ r.does = "warn" => r.mon.warning = "Active"
         /\ r.does = "hibernate" => ~ BelowMinimumUptime
<1>1. CASE r = [does |-> "error", mon |-> mon]
  BY <1>1
<1>2. CASE \E list \in Lists : \E r1, r2 \in Readings(list) : r = CheckResult(list, r1, r2)
  <2>0. PICK list \in Lists : \E r1, r2 \in Readings(list) : r = CheckResult(list, r1, r2)
    BY <1>2
  <2>1. PICK r1 \in Readings(list), r2 \in Readings(list) : r = CheckResult(list, r1, r2)
    BY <2>0
  <2> DEFINE seen == [mon EXCEPT !.current = ConnectedIn(list)]
             kept == IF ShouldCancelWarning(seen, list, r1) THEN ResetWarning(seen) ELSE seen
             t == RunTimers(kept, list)
             c == ConditionMet(kept, list, r2)
  <2>2. CASE BelowMinimumUptime
    BY <2>1, <2>2 DEF CheckResult
  <2>3. CASE ~ BelowMinimumUptime
    <3>1. r = Decide(t, c)
      BY <2>1, <2>3 DEF CheckResult
    <3>2. seen \in MonitorState /\ Coherent(seen)
      BY DEF MonitorTypeOK, MonitorState, WarningCoherent, Coherent, Connected, ConnectedIn
    <3>3. kept \in MonitorState /\ Coherent(kept)
      BY <3>2, ResetWarningType
    <3> HIDE DEF kept
    <3>4. t \in MonitorState /\ t.warnAt = kept.warnAt /\ t.warning = kept.warning
      BY <3>3, RunTimersType
    <3>5. t.warning = "Active" <=> t.warnAt # Unset
      BY <3>3, <3>4 DEF Coherent
    <3> HIDE DEF t, c
    <3>6. Decide(t, c).does \in {"nothing", "warn", "hibernate"}
      BY DEF Decide
    <3>7. Decide(t, c).does = "warn" => Decide(t, c).mon.warning = "Active"
      BY <3>4, <3>5, WarningPeriodType DEF Decide, MonitorState, Unset
    <3> QED
      BY <2>3, <3>1, <3>6, <3>7
  <2> QED
    BY <2>2, <2>3
<1> QED
  BY <1>1, <1>2, CheckResultsCases

(* The step that calls Check keeps the invariant.                          *)
LEMMA CheckIdleInv ==
  ASSUME ServiceInv, CheckIdle
  PROVE  TypeOK' /\ ModeAgrees' /\ UptimeNotOverstated'
<1>1. TypeOK /\ WarningCoherent /\ ModeAgrees /\ UptimeNotOverstated
  BY DEF ServiceInv
<1>2. PICK r \in CheckResults :
        /\ mon' = r.mon
        /\ CASE r.does \in {"nothing", "error"} ->
                  CheckEnds(FALSE, FALSE, lastNotification)
             [] r.does = "warn" /\ MayNotify /\ NotifierPresent ->
                  pc' = "warn" /\ UNCHANGED <<busy, inWarningMode, lastNotification>>
             [] r.does = "warn" /\ ~(MayNotify /\ NotifierPresent) ->
                  CheckEnds(TRUE, FALSE, lastNotification)
             [] r.does = "hibernate" ->
                  pc' = "reset" /\ UNCHANGED <<busy, inWarningMode, lastNotification>>
  BY DEF CheckIdle
<1>3. /\ pc = "check"
      /\ UNCHANGED <<sess, idle, resumeAge, timer, ctl, vm, upFor, azure, events, told>>
  BY DEF CheckIdle, At, sessVars, envVars
<1>4. mon' \in MonitorState
  BY <1>1, <1>2, CheckResultsKeep DEF TypeOK
<1>5. /\ r.does \in {"nothing", "error", "warn", "hibernate"}
      /\ r.does = "warn" => mon'.warning = "Active"
  BY <1>1, <1>2, CheckResultsAgree DEF TypeOK
<1>6. /\ inWarningMode' \in BOOLEAN /\ lastNotification' \in OptAge /\ busy' \in Age
      /\ \/ pc' = "schedule" /\ (inWarningMode' => mon'.warning = "Active")
         \/ pc' = "dismiss" /\ ~ inWarningMode'
         \/ pc' = "warn" /\ mon'.warning = "Active"
         \/ pc' = "reset"
  <2>1. CASE r.does \in {"nothing", "error"}
    BY <1>1, <1>2, <2>1, CheckEndsFacts, ThresholdTypes DEF TypeOK
  <2>2. CASE r.does = "warn" /\ MayNotify /\ NotifierPresent
    BY <1>1, <1>2, <1>5, <2>2 DEF TypeOK
  <2>3. CASE r.does = "warn" /\ ~(MayNotify /\ NotifierPresent)
    BY <1>1, <1>2, <1>5, <2>3, CheckEndsFacts, ThresholdTypes DEF TypeOK
  <2>4. CASE r.does = "hibernate"
    BY <1>1, <1>2, <2>4 DEF TypeOK
  <2> QED
    BY <1>5, <2>1, <2>2, <2>3, <2>4
<1>7. TypeOK'
  BY <1>1, <1>3, <1>4, <1>6 DEF TypeOK, SessionsTypeOK, MonitorTypeOK, ControlStates, Blocking, Calling
<1>8. ModeAgrees'
  BY <1>6 DEF ModeAgrees
<1> QED
  BY <1>1, <1>3, <1>7, <1>8 DEF UptimeNotOverstated

(* The other steps of the loop.                                            *)
LEMMA LoopStepInv ==
  ASSUME ServiceInv, LoopStep
  PROVE  TypeOK' /\ ModeAgrees' /\ UptimeNotOverstated'
<1>0. TypeOK /\ WarningCoherent /\ ModeAgrees /\ UptimeNotOverstated
  BY DEF ServiceInv
<1> USE DEF At, sessVars, monVars, envVars
<1>1. CASE CheckIdle
  BY <1>1, CheckIdleInv
<1>2. CASE WarningSent
  <2>1. PICK d \in Deliveries :
           Shows(d, "warning") /\ CheckEnds(TRUE, FALSE, IF d.ok THEN busy ELSE lastNotification)
    BY <1>2 DEF WarningSent
  <2>2. /\ inWarningMode' = TRUE /\ lastNotification' \in OptAge
        /\ busy' = 0 /\ pc' = "schedule"
    BY <1>0, <2>1, CheckEndsFacts DEF TypeOK, OptAge
  <2>3. told' \in {"nothing", "warning", "canceled"}
    BY <1>0, <2>1 DEF Shows, TypeOK
  <2> QED
    BY <1>0, <1>2, <2>2, <2>3, ThresholdTypes
    DEF WarningSent, TypeOK, SessionsTypeOK, MonitorTypeOK, ControlStates, Blocking, Calling,
        ModeAgrees, UptimeNotOverstated
<1>3. CASE WarningDismissed
  BY <1>0, <1>3, ThresholdTypes
  DEF WarningDismissed, TypeOK, SessionsTypeOK, MonitorTypeOK, ControlStates, Blocking, Calling,
      ModeAgrees, UptimeNotOverstated
<1>4. CASE CancellationSent
  BY <1>0, <1>4, ThresholdTypes
  DEF CancellationSent, Shows, TypeOK, SessionsTypeOK, MonitorTypeOK, ControlStates, Blocking, Calling,
      ModeAgrees, UptimeNotOverstated
<1>5. CASE RequestHibernation
  <2>1. mon' \in MonitorState
    BY <1>0, <1>5, NewIsReset, NewIdleMonitorOK
    DEF RequestHibernation, TypeOK, MonitorTypeOK
  <2> QED
    BY <1>0, <1>5, <2>1, ThresholdTypes
    DEF RequestHibernation, TypeOK, SessionsTypeOK, MonitorTypeOK, ControlStates, Blocking, Calling,
        ModeAgrees, UptimeNotOverstated
<1>6. CASE HibernationAnswered
  <2>1. /\ inWarningMode' = FALSE /\ lastNotification' \in OptAge
        /\ busy' = 0 /\ pc' \in {"dismiss", "schedule"}
    BY <1>0, <1>6, CheckEndsFacts DEF HibernationAnswered, TypeOK
  <2> QED
    BY <1>0, <1>6, <2>1, ThresholdTypes
    DEF HibernationAnswered, TypeOK, SessionsTypeOK, MonitorTypeOK, ControlStates, Blocking, Calling,
        ModeAgrees, UptimeNotOverstated
<1>7. CASE Schedule
  <2>1. PICK readable \in SnapshotReadings :
           timer' = NextCheckTime(TimeUntilThresholds(readable))
    BY <1>7 DEF Schedule
  <2>2. timer' \in Age
    BY <1>0, <2>1, TimeUntilType, NextCheckTimeType
  <2>3. inWarningMode => timer' = WarningCheckInterval
    BY <2>1 DEF NextCheckTime
  <2> QED
    BY <1>0, <1>7, <2>2, <2>3, ThresholdTypes
    DEF Schedule, TypeOK, SessionsTypeOK, MonitorTypeOK, ControlStates, Blocking, Calling,
        ModeAgrees, UptimeNotOverstated, Age
<1>8. CASE TimerFires
  BY <1>0, <1>8
  DEF TimerFires, TypeOK, SessionsTypeOK, MonitorTypeOK, ControlStates, Blocking, Calling,
      ModeAgrees, UptimeNotOverstated
<1>9. CASE LoopStops
  BY <1>0, <1>9, ThresholdTypes
  DEF LoopStops, TypeOK, SessionsTypeOK, MonitorTypeOK, ControlStates, Blocking, Calling,
      ModeAgrees, UptimeNotOverstated
<1> QED
  BY <1>1, <1>2, <1>3, <1>4, <1>5, <1>6, <1>7, <1>8, <1>9 DEF LoopStep

(* A tick.                                                                 *)
LEMMA TickInv ==
  ASSUME ServiceInv, Tick
  PROVE  TypeOK' /\ ModeAgrees' /\ UptimeNotOverstated'
<1>0. TypeOK /\ WarningCoherent /\ ModeAgrees /\ UptimeNotOverstated
  BY DEF ServiceInv
<1>1. MonitorInv'
  BY ServiceInvMonitor, MonitorStepInv DEF Tick, MonitorNext
<1>2. UNCHANGED <<pc, inWarningMode, ctl, vm, azure, events, told>>
  BY DEF Tick
<1>3. timer' \in Age /\ timer' <= timer
  BY <1>0, HorizonAssumption DEF Tick, TypeOK, Age
<1>4. busy' \in Age
  BY <1>0, ThresholdTypes DEF Tick, TypeOK, Age, Patience
<1>5. lastNotification' \in OptAge /\ upFor' \in Age
  BY <1>0, OlderType, ThresholdTypes DEF Tick, TypeOK
<1>6. TypeOK'
  BY <1>0, <1>1, <1>2, <1>3, <1>4, <1>5 DEF TypeOK, MonitorInv
<1>7. mon'.warning = mon.warning
  BY <1>0 DEF Tick, MonitorTick, AgeMonitor, TypeOK, MonitorTypeOK, MonitorState
<1>8. ModeAgrees'
  <2>1. timer \in Int /\ timer' \in Int /\ WarningCheckInterval \in Int
    BY <1>0, <1>3, ThresholdTypes DEF TypeOK, Age
  <2> QED
    BY <1>0, <1>2, <1>3, <1>7, <2>1 DEF ModeAgrees
<1>9. UptimeNotOverstated'
  BY <1>0, <1>2, HorizonAssumption
  DEF UptimeNotOverstated, Tick, MonitorTick, AgeMonitor, Older, TypeOK, MonitorTypeOK, Age
<1> QED
  BY <1>6, <1>8, <1>9

(* Every step of the service keeps the invariant.                          *)
LEMMA ServiceStepInv == ServiceInv /\ [Next]_vars => ServiceInv'
<1> SUFFICES ASSUME ServiceInv, [Next]_vars PROVE ServiceInv'
  OBVIOUS
<1>0. TypeOK /\ WarningCoherent /\ ModeAgrees /\ UptimeNotOverstated
  BY DEF ServiceInv
<1>1. WarningCoherent'
  BY ServiceInvMonitor, ServiceStepMonitor, MonitorStepInv DEF MonitorInv
<1> SUFFICES TypeOK' /\ ModeAgrees' /\ UptimeNotOverstated'
  BY <1>1 DEF ServiceInv
<1> USE DEF sessVars, monVars, loopVars, envVars
<1>2. CASE LoopStep
  BY <1>2, LoopStepInv
<1>3. CASE AzureAccepts
  BY <1>0, <1>3
  DEF AzureAccepts, At, TypeOK, SessionsTypeOK, MonitorTypeOK, ControlStates, Blocking, Calling,
      ModeAgrees, UptimeNotOverstated
<1>4. CASE \E e \in PowerEvents : HandlePowerEvent(e)
  BY <1>0, <1>4, ThresholdTypes
  DEF HandlePowerEvent, TypeOK, SessionsTypeOK, MonitorTypeOK, ModeAgrees, UptimeNotOverstated, Age
<1>5. CASE StopRequested
  BY <1>0, <1>5
  DEF StopRequested, TypeOK, SessionsTypeOK, MonitorTypeOK, ModeAgrees, UptimeNotOverstated
<1>6. CASE ProcessExits
  BY <1>0, <1>6, NewIdleMonitorOK, ThresholdTypes
  DEF ProcessExits, NewService, TypeOK, SessionsTypeOK, MonitorTypeOK, ControlStates, Blocking, Calling, OptAge,
      ModeAgrees, UptimeNotOverstated
<1>7. CASE ServiceStarts
  BY <1>0, <1>7, ThresholdTypes
  DEF ServiceStarts, NewService, TypeOK, SessionsTypeOK, MonitorTypeOK, ModeAgrees,
      UptimeNotOverstated, Age
<1>8. CASE Suspend
  BY <1>0, <1>8, ThresholdTypes
  DEF Suspend, TypeOK, SessionsTypeOK, MonitorTypeOK, ModeAgrees, UptimeNotOverstated
<1>9. CASE Resume
  BY <1>0, <1>9
  DEF Resume, TypeOK, SessionsTypeOK, MonitorTypeOK, ModeAgrees, UptimeNotOverstated, PowerEvents
<1>10. CASE Tick
  BY <1>10, TickInv
<1>11. CASE UserActs
  BY <1>0, <1>11, UserStepType
  DEF UserActs, TypeOK, SessionsTypeOK, MonitorTypeOK, ModeAgrees, UptimeNotOverstated
<1>12. CASE UNCHANGED vars
  BY <1>0, <1>12
  DEF vars, TypeOK, SessionsTypeOK, MonitorTypeOK, ModeAgrees, UptimeNotOverstated
<1> QED
  BY <1>2, <1>3, <1>4, <1>5, <1>6, <1>7, <1>8, <1>9, <1>10, <1>11, <1>12 DEF Next

(* It holds for ever.                                                      *)
LEMMA ServiceInvariant == Spec => []ServiceInv
BY ServiceInitInv, ServiceStepInv, PTL DEF Spec

(* Every variable of the service keeps its type.                           *)
THEOREM ServiceTypeCorrect == Spec => []TypeOK
<1>1. ServiceInv => TypeOK
  BY DEF ServiceInv
<1> QED
  BY <1>1, ServiceInvariant, PTL

(* When the loop sleeps in warning mode, a warning stands in the monitor   *)
(* and the next check is no further away than the warning interval.        *)
THEOREM ServiceFastPolling == Spec => []FastPollingMeansWarning
<1>1. ServiceInv => FastPollingMeansWarning
  BY DEF ServiceInv, ModeAgrees, FastPollingMeansWarning
<1> QED
  BY <1>1, ServiceInvariant, PTL

(* Once the resume is announced the monitor never overstates the uptime.   *)
THEOREM ServiceUptime == Spec => []UptimeNotOverstated
<1>1. ServiceInv => UptimeNotOverstated
  BY DEF ServiceInv
<1> QED
  BY <1>1, ServiceInvariant, PTL

(* No decision to hibernate is taken within the minimum uptime, unless the *)
(* resume has not been announced to the service yet.                       *)
THEOREM ServiceMinimumUptime == Spec => MinimumUptimeAfterEvent
<1>1. ServiceInv /\ [Next]_vars
        => [Decision /\ MinimumUptime > 0
              => upFor > MinimumUptime \/ "automatic" \in events]_vars
  <2> SUFFICES ASSUME ServiceInv, Next, Decision, MinimumUptime > 0, "automatic" \notin events
               PROVE  upFor > MinimumUptime
    OBVIOUS
  <2>1. CheckIdle
    BY DEF Next, LoopStep, Decision, WarningSent, WarningDismissed, CancellationSent,
           RequestHibernation, HibernationAnswered, Schedule, TimerFires, LoopStops, At,
           AzureAccepts, HandlePowerEvent, StopRequested, ProcessExits, NewService,
           ServiceStarts, Suspend, Resume, Tick, UserActs, loopVars
  <2>2. vm = "running"
    BY <2>1 DEF CheckIdle, At, LoopRuns
  <2>3. PICK r \in CheckResults : r.does = "hibernate"
    <3>1. PICK r \in CheckResults :
            CASE r.does \in {"nothing", "error"} ->
                      CheckEnds(FALSE, FALSE, lastNotification)
                 [] r.does = "warn" /\ MayNotify /\ NotifierPresent ->
                      pc' = "warn" /\ UNCHANGED <<busy, inWarningMode, lastNotification>>
                 [] r.does = "warn" /\ ~(MayNotify /\ NotifierPresent) ->
                      CheckEnds(TRUE, FALSE, lastNotification)
                 [] r.does = "hibernate" ->
                      pc' = "reset" /\ UNCHANGED <<busy, inWarningMode, lastNotification>>
      BY <2>1 DEF CheckIdle
    <3>2. r.does \in {"nothing", "error", "warn", "hibernate"}
      BY CheckResultsAgree DEF ServiceInv, TypeOK
    <3> QED
      BY <3>1, <3>2 DEF Decision, CheckEnds
  <2>4. ~ BelowMinimumUptime
    BY <2>3, CheckResultsAgree DEF ServiceInv, TypeOK
  <2> QED
    BY <2>2, <2>4, ThresholdTypes
    DEF BelowMinimumUptime, EffectiveUptime, ServiceInv, UptimeNotOverstated,
        TypeOK, MonitorTypeOK, Age
<1> QED
  BY <1>1, ServiceInvariant, PTL DEF Spec, MinimumUptimeAfterEvent

(* A countdown that users have been told of is never silently restarted,   *)
(* by the service any more than by the monitor alone: neither a restart    *)
(* nor a resume gives a warning that stands a new start.                   *)
THEOREM ServiceCountdown ==
  ASSUME "idle" \notin Faults, RecentActivityThreshold <= InactiveUserThreshold
  PROVE  Spec => CountdownNeverRestarts
BY ServiceImplementsMonitor, MonitorCountdown, PTL
===============================================================================
