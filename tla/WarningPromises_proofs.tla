------------------------- MODULE WarningPromises_proofs -------------------------
(* What TLAPS proves of the promises the service makes to its users: they  *)
(* are warned before they are hibernated, their input counts until the     *)
(* last moment, a warning is polled, repeated no faster than the throttle  *)
(* allows, and canceled for the reason given.  None of these holds         *)
(* whatever fails: each theorem names the faults that must not occur, and  *)
(* with the others the runs find counterexamples.                          *)
EXTENDS AutoHibernateService_proofs

-------------------------------------------------------------------------------
(* The steps of the loop that end a check, one case for each way they end. *)

(* The check has called the monitor, which answered r.                     *)
Outcome(r) ==
  /\ r \in CheckResults /\ mon' = r.mon
  /\ \/ /\ r.does \in {"nothing", "error"}
        /\ inWarningMode' = FALSE /\ busy' = 0
        /\ lastNotification' = IF inWarningMode THEN Unset ELSE lastNotification
        /\ \/ pc' = "dismiss" /\ inWarningMode
           \/ pc' = "schedule"
     \/ /\ r.does = "warn" /\ MayNotify /\ NotifierPresent
        /\ pc' = "warn" /\ UNCHANGED <<busy, inWarningMode, lastNotification>>
     \/ /\ r.does = "warn" /\ ~(MayNotify /\ NotifierPresent)
        /\ inWarningMode' = TRUE /\ busy' = 0
        /\ lastNotification' = lastNotification /\ pc' = "schedule"
     \/ /\ r.does = "hibernate"
        /\ pc' = "reset" /\ UNCHANGED <<busy, inWarningMode, lastNotification>>

(* What a check leaves alone.                                              *)
CheckLeaves == UNCHANGED <<sess, idle, resumeAge, timer, ctl, vm, upFor, azure, events, told>>

(* Every check has one of these outcomes.                                  *)
LEMMA CheckOutcomes ==
  ASSUME ServiceInv, CheckIdle
  PROVE  pc = "check" /\ LoopRuns /\ CheckLeaves /\ \E r \in CheckResults : Outcome(r)
<1>1. PICK r \in CheckResults :
        /\ mon' = r.mon
        /\ CASE r.does \in {"nothing", "error"} ->
                  CheckEnds(FALSE, FALSE, lastNotification)
             [] r.does = "warn" /\ MayNotify /\ NotifierPresent ->
                  pc' = "warn" /\ UNCHANGED <<busy, inWarningMode, lastNotification>>
             [] r.does = "warn" /\ ~(MayNotify /\ NotifierPresent) ->
                  CheckEnds(TRUE, FALSE, lastNotification)
             [] r.does = "hibernate" ->
                  pc' = "reset" /\ UNCHANGED <<busy, inWarningMode, lastNotification>>
  BY DEF CheckIdle
<1>2. pc = "check" /\ LoopRuns /\ CheckLeaves
  BY DEF CheckIdle, At, sessVars, envVars, CheckLeaves
<1>3. r.does \in {"nothing", "error", "warn", "hibernate"}
  BY CheckResultsAgree DEF ServiceInv, TypeOK
<1>4. inWarningMode \in BOOLEAN
  BY DEF ServiceInv, TypeOK
<1>5. CASE r.does \in {"nothing", "error"}
  <2>1. CheckEnds(FALSE, FALSE, lastNotification)
    BY <1>1, <1>5
  <2> QED
    BY <1>1, <1>2, <1>4, <1>5, <2>1 DEF CheckEnds, Outcome
<1>6. CASE r.does = "warn" /\ MayNotify /\ NotifierPresent
  BY <1>1, <1>2, <1>6 DEF Outcome
<1>7. CASE r.does = "warn" /\ ~(MayNotify /\ NotifierPresent)
  <2>1. CheckEnds(TRUE, FALSE, lastNotification)
    BY <1>1, <1>7
  <2> QED
    BY <1>1, <1>2, <1>7, <2>1 DEF CheckEnds, Outcome
<1>8. CASE r.does = "hibernate"
  BY <1>1, <1>2, <1>8 DEF Outcome
<1> QED
  BY <1>2, <1>3, <1>5, <1>6, <1>7, <1>8

(* How the two blocking calls that end a check return.                     *)
LEMMA WarningSentOutcome ==
  ASSUME ServiceInv, WarningSent
  PROVE  /\ pc = "warn" /\ pc' = "schedule" /\ inWarningMode' = TRUE /\ busy' = 0
         /\ lastNotification' \in {busy, lastNotification}
         /\ "notify" \notin Faults => lastNotification' = busy /\ told' = "warning"
         /\ UNCHANGED <<sess, idle, mon, resumeAge, timer, ctl, vm, upFor, azure, events>>
<1>1. PICK d \in Deliveries :
        Shows(d, "warning") /\ CheckEnds(TRUE, FALSE, IF d.ok THEN busy ELSE lastNotification)
  BY DEF WarningSent
<1>2. "notify" \notin Faults => d.seen /\ d.ok
  BY DEF Deliveries, If
<1> QED
  BY <1>1, <1>2 DEF WarningSent, At, CheckEnds, Shows, sessVars, monVars, envVars

LEMMA HibernationAnsweredOutcome ==
  ASSUME ServiceInv, HibernationAnswered
  PROVE  /\ pc \in Calling /\ inWarningMode' = FALSE /\ busy' = 0
         /\ lastNotification' = IF inWarningMode THEN Unset ELSE lastNotification
         /\ pc' \in {"dismiss", "schedule"}
         /\ pc' = "dismiss" => {"azure", "late"} \cap Faults # {}
         /\ UNCHANGED <<sess, idle, mon, resumeAge, timer, ctl, vm, upFor, azure, events, told>>
<1>1. \/ CheckEnds(FALSE, TRUE, lastNotification)
      \/ CheckEnds(FALSE, FALSE, lastNotification) /\ {"azure", "late"} \cap Faults # {}
  BY DEF HibernationAnswered
<1>2. inWarningMode \in BOOLEAN
  BY DEF ServiceInv, TypeOK
<1> QED
  BY <1>1, <1>2 DEF HibernationAnswered, At, Calling, CheckEnds, sessVars, monVars, envVars

-------------------------------------------------------------------------------
(* What a check found out, told from what it returns.                      *)

(* The monitor's warning is active or it is not.                           *)
LEMMA WarningType == TypeOK => mon.warning \in {"None", "Active"} /\ mon.warnAt \in OptAge
BY DEF TypeOK, MonitorTypeOK, MonitorState

(* A check that fails has not touched the monitor.                         *)
LEMMA ErrorTouchesNothing ==
  ASSUME NEW r \in CheckResults, r.does = "error"
  PROVE  r.mon = mon /\ "enumerate" \in Faults
<1>1. \A m, c : Decide(m, c).does # "error"
  BY DEF Decide
<1>2. \A list, r1, r2 : CheckResult(list, r1, r2).does # "error"
  BY <1>1 DEF CheckResult
<1>3. CASE r \in UNION {Answers(list) : list \in Lists}
  BY <1>2, <1>3 DEF Answers
<1>4. CASE "enumerate" \in Faults /\ r = [does |-> "error", mon |-> mon]
  BY <1>4
<1> QED
  BY <1>3, <1>4 DEF CheckResults

(* A check that does not see the minimum uptime out leaves the warning as  *)
(* it is; any other leaves none behind when it reports nothing.            *)
LEMMA CheckResultWarning ==
  ASSUME ServiceInv, NEW r \in CheckResults, r.does # "error"
  PROVE  /\ BelowMinimumUptime => r.does = "nothing" /\ r.mon.warning = mon.warning
         /\ ~ BelowMinimumUptime /\ r.does = "nothing" => r.mon.warning = "None"
         /\ r.does \in {"nothing", "warn", "hibernate"}
<1>1. PICK list \in Lists : \E r1, r2 \in Readings(list) : r = CheckResult(list, r1, r2)
  BY CheckResultsCases
<1>2. PICK r1 \in Readings(list), r2 \in Readings(list) : r = CheckResult(list, r1, r2)
  BY <1>1
<1> DEFINE seen == [mon EXCEPT !.current = ConnectedIn(list)]
           kept == IF ShouldCancelWarning(seen, list, r1) THEN ResetWarning(seen) ELSE seen
           t == RunTimers(kept, list)
           c == ConditionMet(kept, list, r2)
<1>3. /\ seen \in MonitorState /\ Coherent(seen) /\ seen.warning = mon.warning
  BY DEF ServiceInv, TypeOK, MonitorTypeOK, MonitorState, WarningCoherent, Coherent, Connected, ConnectedIn
<1>4. CASE BelowMinimumUptime
  BY <1>2, <1>3, <1>4 DEF CheckResult
<1>5. CASE ~ BelowMinimumUptime
  <2>1. r = Decide(t, c)
    BY <1>2, <1>5 DEF CheckResult
  <2>2. kept \in MonitorState /\ Coherent(kept)
    BY <1>3, ResetWarningType
  <2> HIDE DEF kept
  <2>3. t \in MonitorState /\ t.warnAt = kept.warnAt /\ t.warning = kept.warning
    BY <2>2, RunTimersType
  <2>4. t.warnAt = Unset => t.warning = "None"
    BY <2>2, <2>3 DEF Coherent, MonitorState
  <2>5. ResetWarning(t).warning = "None"
    BY <2>3 DEF ResetWarning, MonitorState
  <2> HIDE DEF t, c
  <2> QED
    BY <1>5, <2>1, <2>4, <2>5 DEF Decide
<1> QED
  BY <1>4, <1>5

(* A hibernation that is decided while somebody is connected and listed    *)
(* rests on a warning that has run its full period, whose start it keeps.  *)
LEMMA HibernateAfterWarning ==
  ASSUME ServiceInv, "hide" \notin Faults, Connected # {}, WarningPeriod > 0,
         NEW r \in CheckResults, r.does = "hibernate"
  PROVE  /\ mon.warning = "Active" /\ mon.warnAt >= WarningPeriod
         /\ r.mon.warning = "Active" /\ r.mon.warnAt = mon.warnAt
<1>1. PICK list \in Lists : \E r1, r2 \in Readings(list) : r = CheckResult(list, r1, r2)
  BY CheckResultsCases
<1>2. PICK r1 \in Readings(list), r2 \in Readings(list) : r = CheckResult(list, r1, r2)
  BY <1>1
<1>3. list = Present /\ ConnectedIn(list) = Connected
  BY DEF Lists, ConnectedIn, Connected, Present
<1> DEFINE seen == [mon EXCEPT !.current = ConnectedIn(list)]
           kept == IF ShouldCancelWarning(seen, list, r1) THEN ResetWarning(seen) ELSE seen
           t == RunTimers(kept, list)
           c == ConditionMet(kept, list, r2)
<1>4. /\ seen \in MonitorState /\ seen.warning = mon.warning /\ seen.warnAt = mon.warnAt
      /\ mon.warning = "Active" <=> mon.warnAt # Unset
  BY <1>3 DEF ServiceInv, TypeOK, MonitorTypeOK, MonitorState, WarningCoherent, Coherent, Connected
<1>5. r = Decide(t, c)
  BY <1>2 DEF CheckResult
<1>6. /\ kept \in MonitorState /\ kept.warnAt \in {Unset, mon.warnAt}
      /\ kept.warnAt # Unset => kept = seen
  BY <1>4, ResetWarningType DEF ResetWarning, MonitorState
<1>7. c \in {"InactiveUser", "None"}
  BY <1>3, ConnectedListed DEF ConditionMet, NoUsersMet, AllDisconnectedMet
<1> HIDE DEF kept, c
<1>8. t \in MonitorState /\ t.warnAt = kept.warnAt /\ t.warning = kept.warning
  BY <1>6, RunTimersType
<1> HIDE DEF t
<1>9. /\ t.warnAt # Unset /\ t.warnAt \notin 0..(WarningPeriod - 1)
      /\ r.mon = [t EXCEPT !.condition = c]
  BY <1>5, <1>7 DEF Decide
<1>10. r.mon.warnAt = t.warnAt /\ r.mon.warning = t.warning
  BY <1>8, <1>9 DEF MonitorState
<1>11. t.warnAt = mon.warnAt /\ mon.warning = "Active" /\ t.warning = "Active"
  BY <1>4, <1>6, <1>8, <1>9
<1>12. t.warnAt \in Age
  BY <1>8, <1>9 DEF MonitorState, OptAge
<1> QED
  BY <1>9, <1>10, <1>11, <1>12, WarningPeriodType, HorizonAssumption DEF Age, Unset

(* A warning that stands after a check has just begun, or it stood before  *)
(* and nobody's last input is recent enough to have mattered.              *)
LEMMA CheckSeesInput ==
  ASSUME ServiceInv, {"hide", "idle"} \cap Faults = {}, ~ BelowMinimumUptime,
         NEW r \in CheckResults, r.does # "error", r.mon.warning = "Active"
  PROVE  \/ r.mon.warnAt = 0
         \/ /\ r.mon.warnAt = mon.warnAt /\ mon.warning = "Active"
            /\ \A u \in Connected : /\ idle[u] >= RecentActivityThreshold
                                    /\ idle[u] >= InactiveUserThreshold
<1>1. PICK list \in Lists : \E r1, r2 \in Readings(list) : r = CheckResult(list, r1, r2)
  BY CheckResultsCases
<1>2. r = CheckResult(list, Connected, Connected) /\ list = Present /\ ConnectedIn(list) = Connected
  <2>1. list = Present /\ ConnectedIn(list) = Connected
    BY DEF Lists, ConnectedIn, Connected, Present
  <2> QED
    BY <1>1, <2>1 DEF Readings
<1> DEFINE seen == [mon EXCEPT !.current = ConnectedIn(list)]
           kept == IF ShouldCancelWarning(seen, list, Connected) THEN ResetWarning(seen) ELSE seen
           t == RunTimers(kept, list)
           c == ConditionMet(kept, list, Connected)
<1>3. /\ seen \in MonitorState /\ Coherent(seen)
      /\ seen.warning = mon.warning /\ seen.warnAt = mon.warnAt
  BY <1>2 DEF ServiceInv, TypeOK, MonitorTypeOK, MonitorState, WarningCoherent, Coherent, Connected
<1>4. r = Decide(t, c)
  BY <1>2 DEF CheckResult
<1>5. kept \in MonitorState /\ Coherent(kept)
  BY <1>3, ResetWarningType
<1>6. kept.warnAt # Unset => kept = seen /\ ~ ShouldCancelWarning(seen, list, Connected)
  BY <1>3 DEF ResetWarning, MonitorState
<1>7. t \in MonitorState /\ t.warnAt = kept.warnAt /\ t.warning = kept.warning
  <2> HIDE DEF kept
  <2> QED
    BY <1>5, RunTimersType
<1>8. c = "None" \/ c # "InactiveUser" \/ InactiveUserMet(Connected)
  BY DEF ConditionMet
<1>9. c \in Conditions /\ (c \in {"NoUsers", "AllDisconnected"} => kept.warning # "Active")
  <2> HIDE DEF kept
  <2>1. Connected \in Readings(list)
    BY <1>2 DEF Readings
  <2> QED
    BY <1>5, <2>1, ConditionMetSound
<1> HIDE DEF t, c
<1>10. CASE t.warnAt = Unset
  <2>1. t.warning # "Active"
    BY <1>5, <1>7, <1>10 DEF Coherent
  <2> QED
    BY <1>4, <1>7, <1>10, <2>1, WarningPeriodType DEF Decide, MonitorState, Unset
<1>11. CASE t.warnAt # Unset
  <2>1. /\ ~ ShouldCancelWarning(seen, list, Connected)
        /\ mon.warning = "Active" /\ t.warning = "Active" /\ t.warnAt = mon.warnAt
        /\ seen.condition = "InactiveUser" /\ seen.warning = "Active"
    BY <1>3, <1>5, <1>6, <1>7, <1>11 DEF Coherent
  <2>2. c = "InactiveUser"
    <3>1. c # "None"
      BY <1>4, <1>7, <1>11 DEF Decide, ResetWarning, MonitorState
    <3>2. kept.warning = "Active"
      BY <1>7, <2>1
    <3> QED
      BY <1>9, <3>1, <3>2 DEF Conditions
  <2>3. r.mon.warnAt = t.warnAt
    BY <1>4, <1>7, <1>11, <2>2, WarningPeriodType DEF Decide, MonitorState
  <2>4. \A u \in Connected : idle[u] >= InactiveUserThreshold
    BY <1>8, <2>2 DEF InactiveUserMet
  <2>5. \A u \in Connected : ~(idle[u] < RecentActivityThreshold)
    BY <2>1 DEF ShouldCancelWarning
  <2>6. /\ \A u \in Connected : idle[u] \in Int
        /\ RecentActivityThreshold \in Int
    BY ConfigAssumption DEF ServiceInv, TypeOK, SessionsTypeOK, Age, Connected
  <2> QED
    BY <2>1, <2>3, <2>4, <2>5, <2>6
<1> QED
  BY <1>10, <1>11

(* A check that has read everybody and finds nothing to do has found       *)
(* nobody, or somebody who is not idle.                                    *)
LEMMA NothingMeansActivity ==
  ASSUME ServiceInv, {"hide", "idle"} \cap Faults = {}, ~ BelowMinimumUptime,
         NEW r \in CheckResults, r.does = "nothing"
  PROVE  Connected = {} \/ \E u \in Connected : idle[u] < InactiveUserThreshold
<1>1. PICK list \in Lists : \E r1, r2 \in Readings(list) : r = CheckResult(list, r1, r2)
  BY CheckResultsCases
<1>2. r = CheckResult(list, Connected, Connected)
  BY <1>1 DEF Lists, Readings, ConnectedIn, Connected, Present
<1>3. PICK m, k : r = Decide(m, ConditionMet(k, list, Connected))
  BY <1>2 DEF CheckResult
<1>4. ConditionMet(k, list, Connected) = "None"
  BY <1>3 DEF Decide
<1>5. ~ InactiveUserMet(Connected)
  BY <1>4 DEF ConditionMet
<1>6. /\ \A u \in Connected : idle[u] \in Int
      /\ InactiveUserThreshold \in Int
  BY ConfigAssumption DEF ServiceInv, TypeOK, SessionsTypeOK, Age, Connected, Thresholds
<1> QED
  BY <1>5, <1>6 DEF InactiveUserMet

-------------------------------------------------------------------------------
(* What holds of the loop whatever fails: a process that is gone has left  *)
(* nothing behind, the time of the last notification belongs to the        *)
(* warning mode, a notification under way was due, and a call to the       *)
(* notifiers returns in time.                                              *)
ModeInv ==
  /\ ctl # "running" => "restart" \in Faults
  /\ ctl = "exited" => pc = "check" /\ ~ inWarningMode /\ mon.warning = "None"
  /\ ~ inWarningMode => lastNotification = Unset
  /\ pc = "warn" => MayNotify /\ NotifierPresent
  /\ pc \notin Calling => busy <= MaxSend

(* It holds initially.                                                     *)
LEMMA ModeInitInv == Init => ModeInv
BY ThresholdTypes DEF Init, MonitorInit, NewIdleMonitor, ModeInv, Age

(* A tick keeps it.                                                        *)
LEMMA ModeTick ==
  ASSUME ServiceInv, ModeInv, Tick
  PROVE  ModeInv'
<1>1. UNCHANGED <<pc, inWarningMode, ctl>>
  BY DEF Tick
<1>2. mon'.warning = mon.warning
  BY DEF Tick, MonitorTick, AgeMonitor, ServiceInv, TypeOK, MonitorTypeOK, MonitorState
<1>3. /\ lastNotification = Unset => lastNotification' = Unset
      /\ MayNotify => MayNotify'
  <2>1. lastNotification' = OlderOpt(lastNotification) /\ lastNotification \in OptAge
    BY DEF Tick, ServiceInv, TypeOK
  <2>2. lastNotification' >= lastNotification /\ lastNotification' \in OptAge
    BY <2>1, OlderType
  <2>3. NotificationThrottle \in Nat
    BY ServiceAssumption
  <2> QED
    BY <2>1, <2>2, <2>3, HorizonAssumption DEF MayNotify, OlderOpt, OptAge, Age, Unset
<1>4. pc \notin Calling /\ busy <= MaxSend => busy' <= MaxSend
  BY ThresholdTypes DEF Tick, Patience, ServiceInv, TypeOK, Age
<1> QED
  BY <1>1, <1>2, <1>3, <1>4 DEF ModeInv

(* Every other step keeps it.                                              *)
LEMMA ModeStepInv == ServiceInv /\ ModeInv /\ [Next]_vars => ModeInv'
<1> SUFFICES ASSUME ServiceInv, ModeInv, [Next]_vars PROVE ModeInv'
  OBVIOUS
<1>0. /\ 0 <= MaxSend /\ MaxSend \in Nat
      /\ inWarningMode \in BOOLEAN
  BY ThresholdTypes DEF Age, ServiceInv, TypeOK
<1> USE DEF ModeInv, MayNotify, Calling
<1>1. CASE CheckIdle
  <2>1. PICK r \in CheckResults : Outcome(r)
    BY <1>1, CheckOutcomes
  <2>2. pc = "check" /\ LoopRuns /\ CheckLeaves
    BY <1>1, CheckOutcomes
  <2> QED
    BY <1>0, <2>1, <2>2 DEF Outcome, LoopRuns, CheckLeaves
<1>2. CASE WarningSent
  BY <1>0, <1>2, WarningSentOutcome DEF WarningSent, At, LoopRuns
<1>3. CASE HibernationAnswered
  BY <1>0, <1>3, HibernationAnsweredOutcome DEF HibernationAnswered, At, LoopRuns
<1>4. CASE WarningDismissed \/ CancellationSent \/ RequestHibernation
  BY <1>0, <1>4 DEF WarningDismissed, CancellationSent, RequestHibernation, At, LoopRuns
<1>5. CASE Schedule \/ TimerFires \/ LoopStops
  BY <1>0, <1>5 DEF Schedule, TimerFires, LoopStops, At, LoopRuns
<1>6. CASE AzureAccepts \/ (\E e \in PowerEvents : HandlePowerEvent(e)) \/ StopRequested
  BY <1>0, <1>6 DEF AzureAccepts, HandlePowerEvent, StopRequested, At, loopVars, sessVars, monVars
<1>7. CASE ProcessExits
  BY <1>0, <1>7 DEF ProcessExits, NewService, NewIdleMonitor
<1>8. CASE ServiceStarts \/ Suspend \/ Resume \/ UserActs \/ UNCHANGED vars
  BY <1>0, <1>8
  DEF ServiceStarts, Suspend, Resume, UserActs, vars, loopVars, sessVars, monVars, envVars
<1>9. CASE Tick
  BY <1>9, ModeTick
<1> QED
  BY <1>1, <1>2, <1>3, <1>4, <1>5, <1>6, <1>7, <1>8, <1>9 DEF Next, LoopStep

(* The loop's invariant: types, modes and what follows holds for ever.     *)
LoopInv == ServiceInv /\ ModeInv

LEMMA LoopInvariant == Spec => []LoopInv
<1>1. Init => LoopInv
  BY ServiceInitInv, ModeInitInv DEF LoopInv
<1>2. LoopInv /\ [Next]_vars => LoopInv'
  BY ServiceStepInv, ModeStepInv DEF LoopInv
<1> QED
  BY <1>1, <1>2, PTL DEF Spec

-------------------------------------------------------------------------------
(* Repeated warnings.                                                      *)

(* While a warning stands, the time of its last notification is known.     *)
SentInv == NotifierPresent /\ inWarningMode => lastNotification # Unset

LEMMA SentStepInv ==
  ASSUME "notify" \notin Faults
  PROVE  LoopInv /\ SentInv /\ [Next]_vars => SentInv'
<1> SUFFICES ASSUME LoopInv, SentInv, [Next]_vars PROVE SentInv'
  OBVIOUS
<1> USE DEF SentInv, LoopInv, Calling
<1>0. inWarningMode \in BOOLEAN /\ busy \in Age /\ busy # Unset /\ lastNotification \in OptAge
  BY HorizonAssumption DEF ServiceInv, TypeOK, Age, Unset
<1>1. CASE CheckIdle
  <2>1. PICK r \in CheckResults : Outcome(r)
    BY <1>1, CheckOutcomes
  <2> QED
    BY <1>0, <2>1 DEF Outcome, MayNotify
<1>2. CASE WarningSent
  BY <1>0, <1>2, WarningSentOutcome
<1>3. CASE HibernationAnswered
  BY <1>3, HibernationAnsweredOutcome
<1>4. CASE WarningDismissed \/ CancellationSent \/ RequestHibernation
  BY <1>4 DEF WarningDismissed, CancellationSent, RequestHibernation
<1>5. CASE Schedule \/ TimerFires \/ LoopStops
  BY <1>5 DEF Schedule, TimerFires, LoopStops
<1>6. CASE AzureAccepts \/ (\E e \in PowerEvents : HandlePowerEvent(e)) \/ StopRequested
  BY <1>6 DEF AzureAccepts, HandlePowerEvent, StopRequested, loopVars
<1>7. CASE ProcessExits
  BY <1>7 DEF ProcessExits, NewService
<1>8. CASE ServiceStarts \/ Suspend \/ Resume \/ UserActs \/ UNCHANGED vars
  BY <1>8 DEF ServiceStarts, Suspend, Resume, UserActs, vars, loopVars
<1>9. CASE Tick
  BY <1>0, <1>9, OlderType DEF Tick
<1> QED
  BY <1>1, <1>2, <1>3, <1>4, <1>5, <1>6, <1>7, <1>8, <1>9 DEF Next, LoopStep

(* README, Warning Phase: a warning that stands is not shown again before  *)
(* the throttle has run out, for any throttle and whatever fails but the   *)
(* notifications themselves.                                               *)
THEOREM ServiceRepeatsAreThrottled ==
  ASSUME "notify" \notin Faults
  PROVE  Spec => RepeatsAreThrottled
<1>1. Init => SentInv
  BY DEF Init, SentInv
<1>2. Spec => []SentInv
  BY <1>1, LoopInvariant, SentStepInv, PTL DEF Spec
<1>3. LoopInv /\ SentInv
        => [pc = "warn" /\ pc' # "warn" /\ inWarningMode /\ told = "warning"
              => lastNotification # Unset /\ lastNotification >= NotificationThrottle]_vars
  BY DEF LoopInv, ModeInv, MayNotify, SentInv
<1> QED
  BY <1>2, <1>3, LoopInvariant, PTL DEF RepeatsAreThrottled

-------------------------------------------------------------------------------
(* A warning and the suspension of the machine.  When the machine suspends *)
(* only at the loop's request and the loop does not run ahead of the event *)
(* of the resume, no warning outlives a suspension.                        *)

(* Nobody else suspends the machine, Azure does so at once, and nothing    *)
(* comes between: with a minimum uptime the loop must not see the resume   *)
(* before the service is told; without one, a new process could warn while *)
(* the request of the old one is carried out.                              *)
AtRequest == /\ {"suspend", "slow"} \cap Faults = {}
             /\ IF MinimumUptime > 0 THEN "lateEvent" \notin Faults ELSE "restart" \notin Faults

(* From the request to the resume there is no warning and no warning mode. *)
SuspendInv ==
  /\ azure = "accepted" =>
       /\ vm = "running"
       /\ mon.warning = "None"
       /\ pc \notin Calling => ~ inWarningMode
       /\ \/ pc \in {"answer", "dismiss", "cancel", "schedule", "stopped"}
          \/ pc = "wait" /\ timer > 0
          \/ ctl = "exited"
          \/ BelowMinimumUptime
  /\ vm = "suspended" => mon.warning = "None" /\ (pc \notin Calling => ~ inWarningMode)
  /\ pc \in Calling => mon.warning = "None"

(* A warning is the act of a check that saw the minimum uptime out, and so *)
(* it is still out.                                                        *)
UptimeOut == mon.warning = "Active" => ~ BelowMinimumUptime

UptimeInv ==
  /\ UptimeOut
  /\ events # {} /\ ctl = "running" /\ MinimumUptime > 0 => mon.warning = "None"

(* The timer the loop sets is not zero.                                    *)
LEMMA NextCheckTimePositive ==
  ASSUME NEW t \in Age
  PROVE  NextCheckTime(t) > 0
<1> DEFINE S == {x \in Thresholds : x > 0}
<1>1. S \subseteq Nat /\ S # {}
  BY ConfigAssumption, ThresholdTypes DEF Age
<1>2. Min(S) \in S
  BY <1>1, LeastNatural
<1>3. DefaultInterval > 0
  BY <1>2 DEF DefaultInterval
<1> QED
  BY <1>3, ServiceAssumption, HorizonAssumption DEF NextCheckTime, Age

(* The uptime only grows in a tick.                                        *)
LEMMA TickUptime ==
  ASSUME TypeOK, Tick
  PROVE  ~ BelowMinimumUptime => ~ BelowMinimumUptime'
<1>1. resumeAge' = Older(resumeAge) /\ resumeAge \in Age /\ MinimumUptime \in 0..(Horizon - 1)
  BY ConfigAssumption DEF Tick, MonitorTick, AgeMonitor, TypeOK, MonitorTypeOK
<1> QED
  BY <1>1, HorizonAssumption DEF BelowMinimumUptime, EffectiveUptime, Older, Age

(* A tick keeps both.                                                      *)
LEMMA SuspendTick ==
  ASSUME AtRequest, LoopInv, SuspendInv, UptimeInv, Tick
  PROVE  SuspendInv' /\ UptimeInv'
<1>1. UNCHANGED <<pc, inWarningMode, ctl, vm, azure, events>>
  BY DEF Tick
<1>2. mon'.warning = mon.warning /\ mon.warning \in {"None", "Active"}
  BY DEF Tick, MonitorTick, AgeMonitor, LoopInv, ServiceInv, TypeOK, MonitorTypeOK, MonitorState
<1>3. azure = "accepted" => ctl = "exited"
  BY DEF Tick, AtRequest, SuspendInv
<1>4. UptimeInv'
  BY <1>1, <1>2, TickUptime DEF UptimeInv, UptimeOut, LoopInv, ServiceInv
<1>5. SuspendInv'
  BY <1>1, <1>2, <1>3 DEF SuspendInv
<1> QED
  BY <1>4, <1>5

(* A check keeps both.                                                     *)
LEMMA SuspendCheck ==
  ASSUME AtRequest, LoopInv, SuspendInv, UptimeInv, CheckIdle
  PROVE  SuspendInv' /\ UptimeInv'
<1>1. PICK r \in CheckResults : Outcome(r)
  BY CheckOutcomes DEF LoopInv
<1>2. pc = "check" /\ LoopRuns /\ CheckLeaves
  BY CheckOutcomes DEF LoopInv
<1>3. BelowMinimumUptime' <=> BelowMinimumUptime
  BY <1>2 DEF CheckLeaves, BelowMinimumUptime, EffectiveUptime
<1>4. mon' \in MonitorState
  BY <1>1, CheckResultsKeep DEF LoopInv, ServiceInv, TypeOK, Outcome
<1>5. /\ BelowMinimumUptime => mon'.warning = mon.warning /\ r.does \in {"nothing", "error"}
      /\ r.does \in {"nothing", "error", "warn", "hibernate"}
  BY <1>1, ErrorTouchesNothing, CheckResultWarning DEF LoopInv, Outcome
<1>6. mon.warning \in {"None", "Active"} /\ mon'.warning \in {"None", "Active"}
  BY <1>4, WarningType DEF LoopInv, ServiceInv, MonitorState
<1>7. vm = "running" /\ ctl # "exited"
  BY <1>2 DEF LoopRuns
<1>8. UptimeInv'
  <2>1. events # {} /\ ctl = "running" /\ MinimumUptime > 0 => FALSE
    BY <1>2 DEF AtRequest, LoopRuns
  <2> QED
    BY <1>2, <1>3, <1>5, <1>6, <2>1 DEF UptimeInv, UptimeOut, CheckLeaves
<1>9. SuspendInv'
  <2>1. CASE azure = "accepted"
    <3>1. BelowMinimumUptime /\ mon.warning = "None"
      BY <1>2, <1>7, <2>1 DEF SuspendInv
    <3> QED
      BY <1>1, <1>2, <1>5, <1>7, <2>1, <3>1 DEF SuspendInv, CheckLeaves, Outcome, Calling
  <2>2. CASE azure # "accepted"
    BY <1>1, <1>2, <1>7, <2>2 DEF SuspendInv, CheckLeaves, Outcome, Calling
  <2> QED
    BY <2>1, <2>2
<1> QED
  BY <1>8, <1>9

(* So does every other step.                                               *)
LEMMA SuspendStepInv ==
  ASSUME AtRequest
  PROVE  LoopInv /\ SuspendInv /\ UptimeInv /\ [Next]_vars => (SuspendInv /\ UptimeInv)'
<1> SUFFICES ASSUME LoopInv, SuspendInv, UptimeInv, [Next]_vars PROVE SuspendInv' /\ UptimeInv'
  OBVIOUS
<1> USE DEF SuspendInv, UptimeInv, UptimeOut, BelowMinimumUptime, EffectiveUptime, Calling
<1>0. /\ ServiceInv /\ ModeInv
      /\ mon.warning \in {"None", "Active"} /\ inWarningMode \in BOOLEAN
      /\ MinimumUptime \in Nat
  BY WarningType, ConfigAssumption DEF LoopInv, ServiceInv, TypeOK
<1>1. CASE CheckIdle
  BY <1>1, SuspendCheck
<1>2. CASE WarningSent
  <2>1. mon.warning = "Active"
    BY <1>0, <1>2 DEF WarningSent, At, ServiceInv, ModeAgrees
  <2> QED
    BY <1>0, <1>2, <2>1, WarningSentOutcome DEF WarningSent, At, LoopRuns
<1>3. CASE HibernationAnswered
  BY <1>0, <1>3, HibernationAnsweredOutcome DEF HibernationAnswered, At, LoopRuns
<1>4. CASE WarningDismissed \/ CancellationSent
  BY <1>0, <1>4 DEF WarningDismissed, CancellationSent, At, LoopRuns, envVars, monVars
<1>5. CASE RequestHibernation
  <2>1. mon'.warning = "None"
    BY <1>0, <1>5, NewIsReset
    DEF RequestHibernation, NewIdleMonitor, ServiceInv, TypeOK, MonitorTypeOK
  <2> QED
    BY <1>0, <1>5, <2>1 DEF RequestHibernation, At, LoopRuns, envVars
<1>6. CASE Schedule
  <2>1. timer' > 0
    BY <1>0, <1>6, TimeUntilType, NextCheckTimePositive DEF Schedule, ServiceInv
  <2> QED
    BY <1>0, <1>6, <2>1 DEF Schedule, At, LoopRuns, envVars, monVars
<1>7. CASE TimerFires \/ LoopStops
  BY <1>0, <1>7 DEF TimerFires, LoopStops, At, LoopRuns, envVars, monVars
<1>8. CASE AzureAccepts
  BY <1>0, <1>8 DEF AzureAccepts, At, LoopRuns, loopVars, monVars
<1>9. CASE \E e \in PowerEvents : HandlePowerEvent(e)
  BY <1>0, <1>9 DEF HandlePowerEvent, loopVars
<1>10. CASE StopRequested
  BY <1>0, <1>10 DEF StopRequested, loopVars, monVars, envVars
<1>11. CASE ProcessExits
  BY <1>0, <1>11 DEF ProcessExits, NewService, NewIdleMonitor, envVars
<1>12. CASE ServiceStarts
  BY <1>0, <1>12 DEF ServiceStarts, NewService, ModeInv, AtRequest, loopVars
<1>13. CASE Suspend
  BY <1>0, <1>13 DEF Suspend, AtRequest, loopVars, monVars
<1>14. CASE Resume
  BY <1>0, <1>14 DEF Resume, AtRequest, loopVars, monVars
<1>15. CASE UserActs \/ UNCHANGED vars
  BY <1>15 DEF UserActs, vars, loopVars, monVars, envVars
<1>16. CASE Tick
  BY <1>16, SuspendTick
<1> QED
  BY <1>1, <1>2, <1>3, <1>4, <1>5, <1>6, <1>7, <1>8, <1>9, <1>10, <1>11, <1>12, <1>13, <1>14,
     <1>15, <1>16 DEF Next, LoopStep

(* At a request there has been no warning to outlive.                      *)
LEMMA SuspendInitInv == Init => SuspendInv /\ UptimeInv
BY DEF Init, MonitorInit, NewIdleMonitor, SuspendInv, UptimeInv, UptimeOut

LEMMA SuspendInvariant ==
  ASSUME AtRequest
  PROVE  Spec => [](SuspendInv /\ UptimeInv)
BY SuspendInitInv, LoopInvariant, SuspendStepInv, PTL DEF Spec

(* A warning stands only beyond the minimum uptime: because there is none, *)
(* or because no warning outlives a suspension.                            *)
LEMMA UptimeStaysOut ==
  ASSUME MinimumUptime = 0 \/ {"suspend", "slow", "lateEvent"} \cap Faults = {}
  PROVE  Spec => []UptimeOut
<1>1. CASE MinimumUptime = 0
  <2>1. UptimeOut
    BY <1>1 DEF UptimeOut, BelowMinimumUptime
  <2> QED
    BY <2>1, PTL
<1>2. CASE MinimumUptime # 0
  <2>1. AtRequest
    BY <1>2, ConfigAssumption DEF AtRequest
  <2>2. UptimeInv => UptimeOut
    BY DEF UptimeInv
  <2> QED
    BY <2>1, <2>2, SuspendInvariant, PTL
<1> QED
  BY <1>1, <1>2

-------------------------------------------------------------------------------
(* Polling.                                                                *)

(* When every check can read the sessions and none is too early, the loop  *)
(* is in warning mode whenever the monitor's warning is active, but for    *)
(* the steps in which it acts on the result of a check.                    *)
PolledInv ==
  /\ pc \in {"check", "schedule", "wait", "stopped"} /\ mon.warning = "Active" => inWarningMode
  /\ pc \in {"dismiss", "cancel"} \cup Calling => mon.warning = "None"

LEMMA PolledStepInv ==
  ASSUME "enumerate" \notin Faults
  PROVE  LoopInv /\ UptimeOut /\ PolledInv /\ [Next]_vars => PolledInv'
<1> SUFFICES ASSUME LoopInv, UptimeOut, PolledInv, [Next]_vars PROVE PolledInv'
  OBVIOUS
<1> USE DEF PolledInv, Calling
<1>0. ServiceInv /\ ModeInv /\ mon.warning \in {"None", "Active"}
  BY WarningType DEF LoopInv, ServiceInv
<1>1. CASE CheckIdle
  <2>1. PICK r \in CheckResults : Outcome(r)
    BY <1>0, <1>1, CheckOutcomes
  <2>2. r.does # "error"
    BY ErrorTouchesNothing
  <2>3. r.does = "nothing" => mon'.warning = "None"
    BY <1>0, <2>1, <2>2, CheckResultWarning DEF UptimeOut, Outcome
  <2> QED
    BY <2>1, <2>2, <2>3 DEF Outcome
<1>2. CASE WarningSent
  BY <1>0, <1>2, WarningSentOutcome
<1>3. CASE HibernationAnswered
  BY <1>0, <1>3, HibernationAnsweredOutcome
<1>4. CASE WarningDismissed \/ CancellationSent
  BY <1>0, <1>4 DEF WarningDismissed, CancellationSent, At, monVars
<1>5. CASE RequestHibernation
  BY <1>0, <1>5, NewIsReset
  DEF RequestHibernation, NewIdleMonitor, ServiceInv, TypeOK, MonitorTypeOK
<1>6. CASE Schedule \/ TimerFires \/ LoopStops
  BY <1>0, <1>6 DEF Schedule, TimerFires, LoopStops, At, monVars
<1>7. CASE AzureAccepts \/ (\E e \in PowerEvents : HandlePowerEvent(e)) \/ StopRequested
  BY <1>7 DEF AzureAccepts, HandlePowerEvent, StopRequested, At, loopVars, monVars
<1>8. CASE ProcessExits
  BY <1>8 DEF ProcessExits, NewService, NewIdleMonitor
<1>9. CASE ServiceStarts \/ Suspend \/ Resume \/ UserActs \/ UNCHANGED vars
  BY <1>9 DEF ServiceStarts, Suspend, Resume, UserActs, vars, loopVars, monVars
<1>10. CASE Tick
  BY <1>10
  DEF Tick, MonitorTick, AgeMonitor, LoopInv, ServiceInv, TypeOK, MonitorTypeOK, MonitorState
<1> QED
  BY <1>1, <1>2, <1>3, <1>4, <1>5, <1>6, <1>7, <1>8, <1>9, <1>10 DEF Next, LoopStep

LEMMA PolledInvariant ==
  ASSUME "enumerate" \notin Faults,
         MinimumUptime = 0 \/ {"suspend", "slow", "lateEvent"} \cap Faults = {}
  PROVE  Spec => []PolledInv
<1>1. Init => PolledInv
  BY DEF Init, MonitorInit, NewIdleMonitor, PolledInv
<1> QED
  BY <1>1, LoopInvariant, UptimeStaysOut, PolledStepInv, PTL DEF Spec

(* README, Dynamic Polling: a warning that stands is polled at the warning *)
(* interval, whatever users, notifiers and Azure do, as long as sessions   *)
(* can be enumerated and no warning is caught in a suspension.             *)
THEOREM ServiceWarningIsPolled ==
  ASSUME "enumerate" \notin Faults,
         MinimumUptime = 0 \/ {"suspend", "slow", "lateEvent"} \cap Faults = {}
  PROVE  Spec => []WarningIsPolled
<1>1. LoopInv /\ PolledInv => WarningIsPolled
  BY DEF LoopInv, ServiceInv, ModeAgrees, PolledInv, WarningIsPolled
<1> QED
  BY <1>1, LoopInvariant, PolledInvariant, PTL

(* CHANGELOG and the text of the message: hibernation is canceled "due to  *)
(* user activity" only when a connected session is not idle or none is     *)
(* left, or the request has failed, when sessions and idle times can be    *)
(* read: then no other step leaves the warning mode.                       *)
THEOREM ServiceCanceledForActivity ==
  ASSUME {"enumerate", "hide", "idle"} \cap Faults = {},
         MinimumUptime = 0 \/ {"suspend", "slow", "lateEvent"} \cap Faults = {}
  PROVE  Spec => CanceledForActivity
<1> DEFINE Act == \/ Connected = {} \/ \E u \in Connected : idle[u] < InactiveUserThreshold
                  \/ RequestMayFail
<1>1. LoopInv /\ UptimeOut /\ [Next]_vars => [pc # "dismiss" /\ pc' = "dismiss" => Act]_vars
  <2> SUFFICES ASSUME LoopInv, UptimeOut, Next, pc # "dismiss", pc' = "dismiss" PROVE Act
    OBVIOUS
  <2>0. ServiceInv
    BY DEF LoopInv
  <2> SUFFICES ASSUME ~ RequestMayFail PROVE Act
    OBVIOUS
  <2>1. CheckIdle
    <3>1. ~ HibernationAnswered
      BY DEF HibernationAnswered, At, CheckEnds, RequestMayFail
    <3>2. ~ WarningSent
      BY <2>0, WarningSentOutcome
    <3> QED
      BY <3>1, <3>2
      DEF Next, LoopStep, WarningDismissed, CancellationSent, RequestHibernation, Schedule,
          TimerFires, LoopStops, AzureAccepts, HandlePowerEvent, StopRequested, ProcessExits,
          NewService, ServiceStarts, Suspend, Resume, Tick, UserActs, loopVars
  <2>2. PICK r \in CheckResults : Outcome(r)
    BY <2>0, <2>1, CheckOutcomes
  <2>3. pc = "check"
    BY <2>0, <2>1, CheckOutcomes
  <2>4. r.does = "nothing" /\ inWarningMode
    BY <2>2, ErrorTouchesNothing DEF Outcome
  <2>5. mon.warning = "Active"
    BY <2>0, <2>3, <2>4 DEF ServiceInv, ModeAgrees
  <2> QED
    BY <2>0, <2>4, <2>5, NothingMeansActivity DEF UptimeOut
<1> QED
  BY <1>1, LoopInvariant, UptimeStaysOut, PTL DEF Spec, CanceledForActivity

-------------------------------------------------------------------------------
(* Warning before hibernation.                                             *)

(* What the users were shown last is the warning, as long as the loop is   *)
(* in warning mode and hibernation has not been requested.                 *)
ToldInv == inWarningMode /\ pc \notin Calling => told = "warning"

LEMMA ToldStepInv ==
  ASSUME NotifierPresent, "notify" \notin Faults, {"suspend", "slow"} \cap Faults = {}
  PROVE  LoopInv /\ SuspendInv /\ ToldInv /\ [Next]_vars => ToldInv'
<1> SUFFICES ASSUME LoopInv, SuspendInv, ToldInv, [Next]_vars PROVE ToldInv'
  OBVIOUS
<1> USE DEF ToldInv, Calling
<1>0. ServiceInv /\ ModeInv /\ inWarningMode \in BOOLEAN
  BY DEF LoopInv, ServiceInv, TypeOK
<1>1. CASE CheckIdle
  <2>1. PICK r \in CheckResults : Outcome(r)
    BY <1>0, <1>1, CheckOutcomes
  <2>2. pc = "check" /\ told' = told
    BY <1>0, <1>1, CheckOutcomes DEF CheckLeaves
  <2>3. ~ MayNotify => inWarningMode
    BY <1>0 DEF ModeInv, MayNotify
  <2> QED
    BY <2>1, <2>2, <2>3 DEF Outcome
<1>2. CASE WarningSent
  BY <1>0, <1>2, WarningSentOutcome
<1>3. CASE HibernationAnswered
  BY <1>0, <1>3, HibernationAnsweredOutcome
<1>4. CASE WarningDismissed \/ CancellationSent
  BY <1>0, <1>4 DEF WarningDismissed, CancellationSent, At, ServiceInv, ModeAgrees
<1>5. CASE RequestHibernation \/ Schedule \/ TimerFires \/ LoopStops
  BY <1>5 DEF RequestHibernation, Schedule, TimerFires, LoopStops, At
<1>6. CASE AzureAccepts \/ (\E e \in PowerEvents : HandlePowerEvent(e)) \/ StopRequested
  BY <1>6 DEF AzureAccepts, HandlePowerEvent, StopRequested, loopVars
<1>7. CASE ProcessExits
  BY <1>7 DEF ProcessExits, NewService
<1>8. CASE Suspend
  BY <1>8 DEF Suspend, SuspendInv, loopVars
<1>9. CASE ServiceStarts \/ Resume \/ UserActs \/ UNCHANGED vars
  BY <1>9 DEF ServiceStarts, Resume, UserActs, vars, loopVars
<1>10. CASE Tick
  BY <1>10 DEF Tick
<1> QED
  BY <1>1, <1>2, <1>3, <1>4, <1>5, <1>6, <1>7, <1>8, <1>9, <1>10 DEF Next, LoopStep

(* Only a check takes the decision, and it is the monitor's.               *)
LEMMA DecisionIsACheck ==
  ASSUME ServiceInv, Next, Decision
  PROVE  CheckIdle /\ \E r \in CheckResults : Outcome(r) /\ r.does = "hibernate"
<1>1. CheckIdle
  BY DEF Next, LoopStep, Decision, WarningSent, WarningDismissed, CancellationSent,
         RequestHibernation, HibernationAnswered, Schedule, TimerFires, LoopStops, At,
         AzureAccepts, HandlePowerEvent, StopRequested, ProcessExits, NewService,
         ServiceStarts, Suspend, Resume, Tick, UserActs, loopVars
<1> QED
  BY <1>1, CheckOutcomes DEF Outcome, Decision

(* The assumption about suspensions that the polling rests on.             *)
LEMMA AtRequestPolls ==
  ASSUME AtRequest
  PROVE  MinimumUptime = 0 \/ {"suspend", "slow", "lateEvent"} \cap Faults = {}
BY ConfigAssumption DEF AtRequest

(* README, Idle Detection: connected users are hibernated only after a     *)
(* warning has run its full period, with the warning the last thing they   *)
(* were shown: for every configuration, any number of users, unreadable    *)
(* idle times, refused or unanswered requests and restarts.                *)
THEOREM ServiceWarnedBeforeHibernation ==
  ASSUME NotifierPresent, AtRequest, {"enumerate", "hide", "notify"} \cap Faults = {}
  PROVE  Spec => WarnedBeforeHibernation
<1>1. Init => ToldInv
  BY DEF Init, ToldInv
<1>2. Spec => []ToldInv
  <2>1. LoopInv /\ SuspendInv /\ ToldInv /\ [Next]_vars => ToldInv'
    BY ToldStepInv DEF AtRequest
  <2> QED
    BY <1>1, <2>1, LoopInvariant, SuspendInvariant, PTL DEF Spec
<1>3. LoopInv /\ ToldInv /\ PolledInv /\ [Next]_vars
        => [Decision /\ Connected # {} /\ WarningPeriod > 0
              => mon.warnAt >= WarningPeriod /\ told = "warning"]_vars
  <2> SUFFICES ASSUME LoopInv, ToldInv, PolledInv, Next, Decision, Connected # {}, WarningPeriod > 0
               PROVE  mon.warnAt >= WarningPeriod /\ told = "warning"
    OBVIOUS
  <2>1. PICK r \in CheckResults : Outcome(r) /\ r.does = "hibernate"
    BY DecisionIsACheck DEF LoopInv
  <2>2. mon.warning = "Active" /\ mon.warnAt >= WarningPeriod
    BY <2>1, HibernateAfterWarning DEF LoopInv
  <2> QED
    BY <2>2 DEF Decision, PolledInv, ToldInv
<1>4. Spec => []PolledInv
  BY PolledInvariant, AtRequestPolls
<1> QED
  BY <1>2, <1>3, <1>4, LoopInvariant, PTL DEF Spec, WarnedBeforeHibernation

-------------------------------------------------------------------------------
(* Input during the warning period.                                        *)

(* The most that can have passed since the last check ended.               *)
SinceCheck ==
  CASE pc = "warn"     -> busy
    [] pc = "schedule" -> MaxSend
    [] pc = "wait"     -> MaxSend + (WarningCheckInterval - timer)
    [] OTHER           -> MaxSend + WarningCheckInterval

(* Input that came after the warning has come since the last check: an     *)
(* older one was seen by that check, which canceled the warning.           *)
InputInv ==
  mon.warning = "Active" /\ pc # "stopped"
    => \A u \in Connected : idle[u] >= mon.warnAt \/ idle[u] <= SinceCheck

(* The next check comes before input has stopped to count.                 *)
SeenInTime == \/ MaxSend + WarningCheckInterval < RecentActivityThreshold
              \/ MaxSend + WarningCheckInterval < InactiveUserThreshold

(* The constants and ages that are compared are numbers.                   *)
LEMMA InputTypes ==
  ASSUME LoopInv
  PROVE  /\ MaxSend \in Nat /\ WarningCheckInterval \in Nat /\ Horizon \in Nat
         /\ RecentActivityThreshold \in Nat /\ InactiveUserThreshold \in Nat
         /\ busy \in Nat /\ timer \in Nat /\ mon.warnAt \in Int
         /\ \A u \in Users : idle[u] \in 0..Horizon
BY HorizonAssumption, ConfigAssumption, ServiceAssumption
DEF LoopInv, ServiceInv, TypeOK, SessionsTypeOK, MonitorTypeOK, MonitorState, OptAge, Age, Unset, Thresholds

(* A user who is connected after a step of the users has just been there,  *)
(* or was connected and idle as long before.                               *)
LEMMA UsersTouch ==
  ASSUME SessionsTypeOK, UserStep
  PROVE  \A v \in Connected' : idle'[v] = 0 \/ (v \in Connected /\ idle'[v] = idle[v])
<1>1. PICK u \in Users : Connect(u) \/ Disconnect(u) \/ LogOff(u) \/ Input(u)
  BY DEF UserStep
<1>2. \A state \in SessionStates :
         Touch(u, state) => \A v \in Users :
            \/ v = u /\ idle'[v] = 0
            \/ sess'[v] = sess[v] /\ idle'[v] = idle[v]
  BY DEF Touch, SessionsTypeOK
<1>3. CASE Connect(u) \/ LogOff(u) \/ Input(u)
  BY <1>2, <1>3 DEF Connect, LogOff, Input, SessionStates, Connected
<1>4. CASE Disconnect(u)
  BY <1>4 DEF Disconnect, Connected, SessionsTypeOK
<1> QED
  BY <1>1, <1>3, <1>4

(* A check that lets a warning stand has seen all input.                   *)
LEMMA InputCheck ==
  ASSUME {"enumerate", "hide", "idle"} \cap Faults = {}, SeenInTime,
         LoopInv, UptimeOut, InputInv, CheckIdle, mon'.warning = "Active"
  PROVE  \A u \in Connected : idle[u] >= mon'.warnAt
<1>1. PICK r \in CheckResults : Outcome(r)
  BY CheckOutcomes DEF LoopInv
<1>2. r.does # "error" /\ r.mon = mon'
  BY <1>1, ErrorTouchesNothing DEF Outcome
<1>3. ~ BelowMinimumUptime
  BY <1>2, CheckResultWarning DEF LoopInv, UptimeOut
<1>4. pc = "check"
  BY CheckOutcomes DEF LoopInv
<1>5. \/ mon'.warnAt = 0
      \/ /\ mon'.warnAt = mon.warnAt /\ mon.warning = "Active"
         /\ \A u \in Connected : /\ idle[u] >= RecentActivityThreshold
                                 /\ idle[u] >= InactiveUserThreshold
  BY <1>2, <1>3, CheckSeesInput DEF LoopInv
<1>6. SinceCheck = MaxSend + WarningCheckInterval
  BY <1>4 DEF SinceCheck
<1> QED
  BY <1>4, <1>5, <1>6, InputTypes DEF InputInv, SeenInTime, Connected

(* In a tick everything ages alike.                                        *)
LEMMA InputTick ==
  ASSUME LoopInv, SuspendInv, PolledInv, InputInv, Tick, {"suspend", "slow"} \cap Faults = {}
  PROVE  InputInv'
<1> SUFFICES ASSUME mon'.warning = "Active", pc' # "stopped", NEW u \in Connected'
             PROVE  idle'[u] >= mon'.warnAt \/ idle'[u] <= SinceCheck'
  BY DEF InputInv
<1>1. /\ pc' = pc /\ pc # "stopped"
      /\ mon.warning = "Active" /\ mon'.warnAt = OlderOpt(mon.warnAt)
      /\ u \in Connected /\ u \in Users /\ idle'[u] = Older(idle[u])
  BY DEF Tick, MonitorTick, AgeMonitor, AgeSessions, Connected,
         LoopInv, ServiceInv, TypeOK, MonitorTypeOK, MonitorState, SessionsTypeOK
<1>2. LoopWaits
  BY <1>1 DEF Tick, SuspendInv, LoopInv, ModeInv
<1>3. pc \in {"wait", "warn"}
  BY <1>1, <1>2 DEF LoopWaits, Blocking, Calling, PolledInv
<1>4. SinceCheck' = SinceCheck + 1
  <2>1. CASE pc = "wait"
    <3>1. timer > 0 /\ timer' = timer - 1
      BY <1>2, <2>1 DEF LoopWaits, Tick, Blocking, Calling
    <3>2. /\ SinceCheck = MaxSend + (WarningCheckInterval - timer)
          /\ SinceCheck' = MaxSend + (WarningCheckInterval - timer')
      BY <1>1, <2>1 DEF SinceCheck
    <3> QED
      BY <3>1, <3>2, InputTypes
  <2>2. CASE pc = "warn"
    <3>1. busy < MaxSend /\ busy' = busy + 1
      BY <1>2, <2>2 DEF LoopWaits, Tick, Blocking, Calling, Patience
    <3> QED
      BY <1>1, <2>2, <3>1 DEF SinceCheck
  <2> QED
    BY <1>3, <2>1, <2>2
<1>5. mon.warnAt # Unset /\ mon.warnAt \in 0..Horizon
  BY <1>1 DEF LoopInv, ServiceInv, WarningCoherent, Coherent, TypeOK, MonitorTypeOK, MonitorState,
              OptAge, Age
<1>6. idle[u] >= mon.warnAt \/ idle[u] <= SinceCheck
  BY <1>1 DEF InputInv
<1>7. SinceCheck \in Int
  BY <1>3, InputTypes DEF SinceCheck
<1> QED
  BY <1>1, <1>4, <1>5, <1>6, <1>7, InputTypes DEF Older, OlderOpt

(* Every step keeps it.                                                    *)
LEMMA InputStepInv ==
  ASSUME {"enumerate", "hide", "idle"} \cap Faults = {}, AtRequest, SeenInTime
  PROVE  LoopInv /\ SuspendInv /\ UptimeOut /\ PolledInv /\ InputInv /\ [Next]_vars => InputInv'
<1> SUFFICES ASSUME LoopInv, SuspendInv, UptimeOut, PolledInv, InputInv, [Next]_vars,
                    mon'.warning = "Active", pc' # "stopped"
             PROVE  \A u \in Connected' : idle'[u] >= mon'.warnAt \/ idle'[u] <= SinceCheck'
  BY DEF InputInv
<1>0. ServiceInv /\ ModeInv /\ ModeAgrees /\ SessionsTypeOK
  BY DEF LoopInv, ServiceInv, TypeOK
<1>1. CASE CheckIdle
  <2>1. UNCHANGED <<sess, idle>>
    BY <1>0, <1>1, CheckOutcomes DEF CheckLeaves
  <2> QED
    BY <1>1, <2>1, InputCheck DEF Connected
<1>2. CASE WarningSent
  <2>1. SinceCheck = busy /\ busy <= MaxSend /\ SinceCheck' = MaxSend
    BY <1>0, <1>2, WarningSentOutcome DEF SinceCheck, ModeInv, Calling
  <2> QED
    BY <1>0, <1>2, <2>1, WarningSentOutcome, InputTypes DEF InputInv, Connected
<1>3. CASE Schedule
  <2>1. inWarningMode /\ mon' = mon
    BY <1>3 DEF Schedule, At, PolledInv, monVars
  <2>2. timer' = WarningCheckInterval
    BY <1>3, <2>1 DEF Schedule, NextCheckTime
  <2>3. SinceCheck = MaxSend /\ SinceCheck' = MaxSend
    BY <1>3, <2>2, InputTypes DEF Schedule, At, SinceCheck
  <2> QED
    BY <1>3, <2>1, <2>3 DEF Schedule, At, InputInv, Connected, sessVars
<1>4. CASE TimerFires
  <2>1. SinceCheck' = SinceCheck
    BY <1>4, InputTypes DEF TimerFires, At, SinceCheck
  <2> QED
    BY <1>4, <2>1 DEF TimerFires, At, InputInv, Connected, sessVars, monVars
<1>5. CASE LoopStops
  BY <1>5 DEF LoopStops
<1>6. CASE WarningDismissed \/ CancellationSent \/ HibernationAnswered \/ AzureAccepts
  BY <1>0, <1>6, HibernationAnsweredOutcome
  DEF WarningDismissed, CancellationSent, AzureAccepts, At, PolledInv, Calling, monVars
<1>7. CASE RequestHibernation
  BY <1>0, <1>7, NewIsReset
  DEF RequestHibernation, NewIdleMonitor, ServiceInv, TypeOK, MonitorTypeOK
<1>8. CASE ProcessExits
  BY <1>8 DEF ProcessExits, NewService, NewIdleMonitor
<1>9. CASE \/ \E e \in PowerEvents : HandlePowerEvent(e)
           \/ StopRequested \/ ServiceStarts \/ Suspend \/ Resume \/ UNCHANGED vars
  <2>1. UNCHANGED <<sess, idle, mon, pc, busy, timer>>
    BY <1>9 DEF HandlePowerEvent, StopRequested, ServiceStarts, Suspend, Resume,
                vars, loopVars, sessVars, monVars
  <2> QED
    BY <2>1 DEF InputInv, Connected, SinceCheck
<1>10. CASE UserActs
  <2>1. UNCHANGED <<mon, pc, busy, timer>> /\ UserStep
    BY <1>10 DEF UserActs, monVars, loopVars
  <2>2. SinceCheck' = SinceCheck
    BY <2>1 DEF SinceCheck
  <2>3. SinceCheck >= 0
    <3>1. pc = "wait" => timer <= WarningCheckInterval
      BY <1>0, <2>1 DEF ModeAgrees, PolledInv
    <3> QED
      BY <3>1, InputTypes DEF SinceCheck
  <2> QED
    BY <1>0, <2>1, <2>2, <2>3, UsersTouch DEF InputInv
<1>11. CASE Tick
  BY <1>11, InputTick DEF AtRequest, InputInv
<1> QED
  BY <1>1, <1>2, <1>3, <1>4, <1>5, <1>6, <1>7, <1>8, <1>9, <1>10, <1>11 DEF Next, LoopStep

(* CHANGELOG: any input during the warning period cancels hibernation.  No *)
(* decision is taken against a connected user who has touched anything     *)
(* since the warning, for any number of users and however their input      *)
(* falls between two checks, if the time between two checks of a warning   *)
(* is shorter than the input counts as recent.                             *)
THEOREM ServiceNoInputSinceWarning ==
  ASSUME {"enumerate", "hide", "idle"} \cap Faults = {}, AtRequest, SeenInTime
  PROVE  Spec => NoInputSinceWarning
<1>1. Init => InputInv
  BY DEF Init, MonitorInit, NewIdleMonitor, InputInv
<1>2. Spec => []PolledInv /\ []UptimeOut
  BY PolledInvariant, UptimeStaysOut, AtRequestPolls
<1>3. Spec => []SuspendInv
  BY SuspendInvariant, PTL
<1>4. Spec => []InputInv
  BY <1>1, <1>2, <1>3, LoopInvariant, InputStepInv, PTL DEF Spec
<1>5. LoopInv /\ UptimeOut /\ InputInv /\ [Next]_vars
        => [Decision /\ Connected # {} /\ WarningPeriod > 0
              => \A u \in Connected : idle[u] >= mon.warnAt]_vars
  <2> SUFFICES ASSUME LoopInv, UptimeOut, InputInv, Next, Decision, Connected # {}, WarningPeriod > 0
               PROVE  \A u \in Connected : idle[u] >= mon.warnAt
    OBVIOUS
  <2>1. PICK r \in CheckResults : CheckIdle /\ Outcome(r) /\ r.does = "hibernate"
    BY DecisionIsACheck DEF LoopInv
  <2>2. mon'.warning = "Active" /\ mon'.warnAt = mon.warnAt
    BY <2>1, HibernateAfterWarning DEF LoopInv, Outcome
  <2> QED
    BY <2>1, <2>2, InputCheck
<1> QED
  BY <1>2, <1>4, <1>5, LoopInvariant, PTL DEF Spec, NoInputSinceWarning
-------------------------------------------------------------------------------
(* A clean resume.                                                         *)

(* The monitor counts nothing.                                             *)
Clean == mon.noUsersSince = Unset /\ mon.allDiscSince = Unset /\ mon.warnAt = Unset

(* Nobody else suspends the machine, Azure does so at once, and a new      *)
(* process does not begin to count while the request of the old one is     *)
(* carried out.                                                            *)
SuspendsAtRequest == /\ {"suspend", "slow"} \cap Faults = {}
                     /\ MinimumUptime > 0 \/ "restart" \notin Faults

(* From the request to the resume the monitor stays as Reset has left it.  *)
CleanInv ==
  /\ azure = "accepted" =>
       /\ vm = "running" /\ Clean
       /\ \/ pc \in {"answer", "dismiss", "cancel", "schedule", "stopped"}
          \/ pc = "wait" /\ timer > 0
          \/ ctl = "exited"
          \/ BelowMinimumUptime
  /\ vm = "suspended" => Clean
  /\ pc \in Calling => Clean
  /\ CountsFromResume

(* Each of the counts of m is one of those of n, begins, or is dropped.    *)
NoneOlder(m, n) == /\ m.noUsersSince \in {Unset, 0, n.noUsersSince}
                   /\ m.allDiscSince \in {Unset, 0, n.allDiscSince}
                   /\ m.warnAt \in {Unset, 0, n.warnAt}

SameCounts(m, n) == /\ m.noUsersSince = n.noUsersSince
                    /\ m.allDiscSince = n.allDiscSince
                    /\ m.warnAt = n.warnAt

LEMMA ResetWarningCounts ==
  ASSUME NEW m \in MonitorState
  PROVE  NoneOlder(ResetWarning(m), m)
BY DEF ResetWarning, MonitorState, NoneOlder

LEMMA RunTimersCounts ==
  ASSUME NEW m \in MonitorState, NEW list
  PROVE  NoneOlder(RunTimers(m, list), m)
<1>1. /\ RunTimers(m, list).noUsersSince =
           IF list # {} THEN Unset ELSE IF m.noUsersSince = Unset THEN 0 ELSE m.noUsersSince
      /\ RunTimers(m, list).allDiscSince =
           IF ConnectedIn(list) # {} THEN Unset
           ELSE IF list # {} /\ m.allDiscSince = Unset THEN 0 ELSE m.allDiscSince
      /\ RunTimers(m, list).warnAt = m.warnAt
  BY DEF RunTimers, MonitorState
<1> QED
  BY <1>1 DEF NoneOlder

LEMMA DecideCounts ==
  ASSUME NEW m \in MonitorState, NEW c
  PROVE  NoneOlder(Decide(m, c).mon, m)
<1> DEFINE kept == [m EXCEPT !.condition = c]
<1>1. SameCounts(kept, m) /\ NoneOlder([kept EXCEPT !.warnAt = 0, !.warning = "Active"], m)
  BY DEF MonitorState, NoneOlder, SameCounts
<1>2. \/ Decide(m, c).mon \in {m, ResetWarning(m), kept}
      \/ Decide(m, c).mon = [kept EXCEPT !.warnAt = 0, !.warning = "Active"]
  BY DEF Decide
<1> QED
  BY <1>1, <1>2, ResetWarningCounts DEF NoneOlder, SameCounts

(* A check starts a count, keeps it or drops it, and below the minimum     *)
(* uptime it keeps every one.                                              *)
LEMMA CheckCounts ==
  ASSUME mon \in MonitorState, NEW r \in CheckResults
  PROVE  /\ NoneOlder(r.mon, mon)
         /\ BelowMinimumUptime => SameCounts(r.mon, mon) /\ r.does \in {"nothing", "error"}
<1>1. CASE r = [does |-> "error", mon |-> mon]
  BY <1>1 DEF NoneOlder, SameCounts
<1>2. CASE \E list \in Lists : \E r1, r2 \in Readings(list) : r = CheckResult(list, r1, r2)
  <2>0. PICK list \in Lists : \E r1, r2 \in Readings(list) : r = CheckResult(list, r1, r2)
    BY <1>2
  <2>1. PICK r1 \in Readings(list), r2 \in Readings(list) : r = CheckResult(list, r1, r2)
    BY <2>0
  <2> DEFINE seen == [mon EXCEPT !.current = ConnectedIn(list)]
             kept == IF ShouldCancelWarning(seen, list, r1) THEN ResetWarning(seen) ELSE seen
             timed == RunTimers(kept, list)
  <2>2. seen \in MonitorState /\ SameCounts(seen, mon)
    BY DEF MonitorState, Connected, ConnectedIn, SameCounts
  <2>3. CASE BelowMinimumUptime
    <3>1. r = [does |-> "nothing", mon |-> seen]
      BY <2>1, <2>3 DEF CheckResult
    <3> HIDE DEF seen
    <3> QED
      BY <2>2, <3>1 DEF NoneOlder, SameCounts
  <2>4. CASE ~ BelowMinimumUptime
    <3>1. r = Decide(timed, ConditionMet(kept, list, r2))
      BY <2>1, <2>4 DEF CheckResult
    <3> HIDE DEF seen
    <3>2. kept \in MonitorState /\ NoneOlder(kept, mon)
      BY <2>2, ResetWarningType, ResetWarningCounts DEF NoneOlder, SameCounts
    <3> HIDE DEF kept
    <3>3. timed \in MonitorState /\ NoneOlder(timed, mon)
      BY <3>2, RunTimersType, RunTimersCounts DEF NoneOlder
    <3> HIDE DEF timed
    <3> QED
      BY <2>4, <3>1, <3>3, DecideCounts DEF NoneOlder
  <2> QED
    BY <2>3, <2>4
<1> QED
  BY <1>1, <1>2, CheckResultsCases

(* The count of time grows by as much as the uptime of the machine.        *)
LEMMA CleanTick ==
  ASSUME SuspendsAtRequest, LoopInv, CleanInv, Tick
  PROVE  CleanInv'
<1>1. UNCHANGED <<pc, ctl, vm, azure>> /\ (vm = "running" => upFor' = Older(upFor))
  BY DEF Tick
<1>2. azure = "accepted" => ctl = "exited"
  BY DEF Tick, SuspendsAtRequest, CleanInv
<1>3. /\ mon'.noUsersSince = OlderOpt(mon.noUsersSince)
      /\ mon'.allDiscSince = OlderOpt(mon.allDiscSince)
      /\ mon'.warnAt = OlderOpt(mon.warnAt)
  BY DEF Tick, MonitorTick, AgeMonitor, LoopInv, ServiceInv, TypeOK, MonitorTypeOK, MonitorState
<1>4. Clean => Clean'
  BY <1>3 DEF Clean, OlderOpt
<1>5. \A a \in {Unset} \cup 0..upFor : OlderOpt(a) \in {Unset} \cup 0..Older(upFor)
  BY HorizonAssumption DEF OlderOpt, Older, Unset, Age, LoopInv, ServiceInv, TypeOK
<1>6. CountsFromResume'
  BY <1>1, <1>3, <1>5 DEF CleanInv, CountsFromResume
<1> QED
  BY <1>1, <1>2, <1>4, <1>6 DEF CleanInv, Calling

(* A check while the machine is about to suspend comes from a process that *)
(* is too young to count.                                                  *)
LEMMA CleanCheck ==
  ASSUME LoopInv, CleanInv, CheckIdle
  PROVE  CleanInv'
<1>1. PICK r \in CheckResults : Outcome(r)
  BY CheckOutcomes DEF LoopInv
<1>2. pc = "check" /\ LoopRuns /\ CheckLeaves
  BY CheckOutcomes DEF LoopInv
<1>3. mon \in MonitorState /\ upFor \in Nat
  BY DEF LoopInv, ServiceInv, TypeOK, MonitorTypeOK, Age
<1>4. /\ NoneOlder(mon', mon)
      /\ BelowMinimumUptime => SameCounts(mon', mon) /\ r.does \in {"nothing", "error"}
  BY <1>1, <1>3, CheckCounts DEF Outcome
<1>5. vm = "running" /\ ctl # "exited" /\ UNCHANGED <<vm, ctl, azure, upFor>>
  BY <1>2 DEF LoopRuns, CheckLeaves
<1>6. CountsFromResume'
  BY <1>3, <1>4, <1>5 DEF CleanInv, CountsFromResume, NoneOlder
<1>7. azure = "accepted" => Clean' /\ pc' \in {"dismiss", "schedule"}
  BY <1>1, <1>2, <1>4, <1>5 DEF CleanInv, Clean, SameCounts, Outcome
<1>8. pc' \notin Calling
  BY <1>1 DEF Outcome, Calling
<1> QED
  BY <1>5, <1>6, <1>7, <1>8 DEF CleanInv

(* Every other step keeps it: Reset leaves nothing, and until the machine  *)
(* has suspended no check comes.                                           *)
LEMMA CleanStepInv ==
  ASSUME SuspendsAtRequest
  PROVE  LoopInv /\ CleanInv /\ [Next]_vars => CleanInv'
<1> SUFFICES ASSUME LoopInv, CleanInv, [Next]_vars PROVE CleanInv'
  OBVIOUS
<1> USE DEF CleanInv, Clean, CountsFromResume, Calling, BelowMinimumUptime, EffectiveUptime
<1>0. ServiceInv /\ ModeInv /\ MinimumUptime \in Nat
  BY ConfigAssumption DEF LoopInv
<1>1. CASE CheckIdle
  BY <1>1, CleanCheck
<1>2. CASE WarningSent
  BY <1>0, <1>2, WarningSentOutcome DEF WarningSent, At, LoopRuns, envVars, monVars
<1>3. CASE HibernationAnswered
  BY <1>0, <1>3, HibernationAnsweredOutcome DEF HibernationAnswered, At, LoopRuns, envVars, monVars
<1>4. CASE WarningDismissed \/ CancellationSent
  BY <1>4 DEF WarningDismissed, CancellationSent, At, LoopRuns, envVars, monVars
<1>5. CASE RequestHibernation
  <2>1. mon' = NewIdleMonitor
    BY <1>0, <1>5, NewIsReset DEF RequestHibernation, ServiceInv, TypeOK, MonitorTypeOK
  <2> QED
    BY <1>5, <2>1 DEF RequestHibernation, At, LoopRuns, envVars, NewIdleMonitor
<1>6. CASE Schedule
  <2>1. timer' > 0
    BY <1>0, <1>6, TimeUntilType, NextCheckTimePositive DEF Schedule, ServiceInv
  <2> QED
    BY <1>6, <2>1 DEF Schedule, At, LoopRuns, envVars, monVars
<1>7. CASE TimerFires \/ LoopStops
  BY <1>7 DEF TimerFires, LoopStops, At, LoopRuns, envVars, monVars
<1>8. CASE AzureAccepts
  BY <1>8 DEF AzureAccepts, At, LoopRuns, monVars
<1>9. CASE \E e \in PowerEvents : HandlePowerEvent(e)
  BY <1>0, <1>9 DEF HandlePowerEvent, loopVars
<1>10. CASE StopRequested
  BY <1>10 DEF StopRequested, loopVars, monVars, envVars
<1>11. CASE ProcessExits
  BY <1>11 DEF ProcessExits, NewService, NewIdleMonitor, envVars
<1>12. CASE ServiceStarts
  BY <1>0, <1>12 DEF ServiceStarts, NewService, ModeInv, SuspendsAtRequest, loopVars
<1>13. CASE Suspend
  BY <1>13 DEF Suspend, SuspendsAtRequest, loopVars, monVars
<1>14. CASE Resume
  BY <1>14 DEF Resume, loopVars, monVars
<1>15. CASE UserActs \/ UNCHANGED vars
  BY <1>15 DEF UserActs, vars, loopVars, monVars, envVars
<1>16. CASE Tick
  BY <1>16, CleanTick
<1> QED
  BY <1>1, <1>2, <1>3, <1>4, <1>5, <1>6, <1>7, <1>8, <1>9, <1>10, <1>11, <1>12, <1>13, <1>14,
     <1>15, <1>16 DEF Next, LoopStep

(* service.go:325, a clean state when the machine resumes: no timer and no *)
(* warning counts from before the resume, whatever users, notifiers and    *)
(* the queries of the sessions do, and also when a request is refused or   *)
(* its answer lost, as long as Azure carries out at once what it accepts.  *)
THEOREM ServiceCountsFromResume ==
  ASSUME SuspendsAtRequest
  PROVE  Spec => []CountsFromResume
<1>1. Init => CleanInv
  BY DEF Init, MonitorInit, NewIdleMonitor, CleanInv, Clean, CountsFromResume, Calling
<1>2. CleanInv => CountsFromResume
  BY DEF CleanInv
<1> QED
  BY <1>1, <1>2, LoopInvariant, CleanStepInv, PTL DEF Spec
===============================================================================
