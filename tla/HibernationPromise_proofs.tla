------------------------ MODULE HibernationPromise_proofs ------------------------
(* What TLAPS proves of the service as its users see it: that it keeps     *)
(* HibernationPromise.  Each step of the service, whatever its control     *)
(* state and for any number of users, is a step of the promise or leaves   *)
(* the machine, the screens and the countdown alone.                       *)
EXTENDS WarningPromises_proofs

-------------------------------------------------------------------------------
(* The two expressions the promise's variables stand for.                  *)
countdown == IF pc = "reset" THEN Unset ELSE mon.warnAt
leaving == pc \in {"reset", "hibernate"} \/ azure = "accepted"

promiseVars == <<sess, idle, vm, told, countdown, leaving>>

(* The sessions of the promise are those of the service.                   *)
LEMMA SameSessions ==
  /\ Promise!Unset = Unset /\ Promise!Connected = Connected
  /\ Promise!UserStep <=> UserStep
  /\ Promise!AgeSessions <=> AgeSessions
  /\ \A a : Promise!OlderOpt(a) = OlderOpt(a)
<1>1. Promise!Unset = Unset /\ Promise!Connected = Connected
  BY DEF Promise!Unset, Unset, Promise!Connected, Connected
<1>2. \A a : Promise!Older(a) = Older(a)
  BY DEF Promise!Older, Older
<1>3. \A u : \A s : Promise!Touch(u, s) <=> Touch(u, s)
  BY DEF Promise!Touch, Touch
<1>4. Promise!UserStep <=> UserStep
  BY <1>3 DEF Promise!UserStep, UserStep, Promise!Connect, Connect, Promise!Disconnect, Disconnect,
              Promise!LogOff, LogOff, Promise!Input, Input
<1>5. Promise!AgeSessions <=> AgeSessions
  BY <1>2 DEF Promise!AgeSessions, AgeSessions
<1> QED
  BY <1>1, <1>2, <1>4, <1>5 DEF Promise!OlderOpt, OlderOpt

(* The promise begins where the service does.                              *)
LEMMA InitPromise == Init => Promise!Init
BY DEF Init, MonitorInit, NewIdleMonitor, SessionsInit, SessionsTypeOK, SessionStates, Age, Unset,
       Promise!Init, Promise!SessionsInit, Promise!SessionsTypeOK, Promise!SessionStates, Promise!Age,
       Promise!Unset

-------------------------------------------------------------------------------
(* A request is made once: when Azure has taken it, and until the machine  *)
(* is back, the loop is not on its way to make another.                    *)
OnceInv == azure = "accepted" \/ vm = "suspended" => pc \notin {"reset", "hibernate"}

LEMMA OnceStepInv ==
  ASSUME "suspend" \notin Faults
  PROVE  LoopInv /\ SuspendInv /\ OnceInv /\ [Next]_vars => OnceInv'
<1> SUFFICES ASSUME LoopInv, SuspendInv, OnceInv, [Next]_vars PROVE OnceInv'
  OBVIOUS
<1> USE DEF OnceInv, Calling
<1>0. ServiceInv
  BY DEF LoopInv
<1>1. CASE CheckIdle
  <2>1. PICK r \in CheckResults : Outcome(r)
    BY <1>0, <1>1, CheckOutcomes
  <2>2. pc = "check" /\ LoopRuns /\ CheckLeaves
    BY <1>0, <1>1, CheckOutcomes
  <2>3. azure = "accepted" => BelowMinimumUptime
    BY <2>2 DEF SuspendInv, LoopRuns
  <2>4. azure = "accepted" => r.does # "hibernate"
    BY <1>0, <2>1, <2>3, CheckResultsAgree DEF ServiceInv, TypeOK
  <2> QED
    BY <2>1, <2>2, <2>4 DEF Outcome, CheckLeaves, LoopRuns
<1>2. CASE WarningSent
  BY <1>0, <1>2, WarningSentOutcome
<1>3. CASE HibernationAnswered
  BY <1>0, <1>3, HibernationAnsweredOutcome
<1>4. CASE WarningDismissed \/ CancellationSent \/ RequestHibernation
  BY <1>4 DEF WarningDismissed, CancellationSent, RequestHibernation, At, envVars
<1>5. CASE Schedule \/ TimerFires \/ LoopStops
  BY <1>5 DEF Schedule, TimerFires, LoopStops
<1>6. CASE AzureAccepts
  BY <1>6 DEF AzureAccepts
<1>7. CASE (\E e \in PowerEvents : HandlePowerEvent(e)) \/ StopRequested
  BY <1>7 DEF HandlePowerEvent, StopRequested, loopVars, envVars
<1>8. CASE ProcessExits
  BY <1>8 DEF ProcessExits, NewService
<1>9. CASE Suspend
  BY <1>9 DEF Suspend, loopVars
<1>10. CASE ServiceStarts \/ Resume \/ UserActs \/ UNCHANGED vars
  BY <1>10 DEF ServiceStarts, Resume, UserActs, vars, loopVars, envVars
<1>11. CASE Tick
  BY <1>11 DEF Tick
<1> QED
  BY <1>1, <1>2, <1>3, <1>4, <1>5, <1>6, <1>7, <1>8, <1>9, <1>10, <1>11 DEF Next, LoopStep

-------------------------------------------------------------------------------
(* The steps of the service as steps of the promise.                       *)

(* What must not fail: what the monitor reads and what the users are told. *)
NothingHidden == {"enumerate", "hide", "idle", "notify"} \cap Faults = {}

(* The invariants of the warning, together.                                *)
PromiseInv == LoopInv /\ SuspendInv /\ UptimeOut /\ PolledInv /\ ToldInv /\ InputInv /\ OnceInv

(* A check that acts has found the users it acts on inactive.              *)
LEMMA ActsOnInactivity ==
  ASSUME ServiceInv, {"hide", "idle"} \cap Faults = {}, NEW r \in CheckResults
  PROVE  /\ r.does = "warn" => Connected # {} /\ InactiveUserMet(Connected)
         /\ r.does = "warn" /\ mon.warnAt = Unset => r.mon.warnAt = 0
         /\ r.does = "hibernate" => Connected = {} \/ InactiveUserMet(Connected)
<1>1. CASE r = [does |-> "error", mon |-> mon]
  BY <1>1
<1>2. CASE \E list \in Lists : \E r1, r2 \in Readings(list) : r = CheckResult(list, r1, r2)
  <2>1. /\ Lists = {Present} /\ ConnectedIn(Present) = Connected
        /\ Readings(Present) = {Connected}
    BY DEF Lists, ConnectedIn, Connected, Present, Readings
  <2>2. r = CheckResult(Present, Connected, Connected)
    BY <1>2, <2>1
  <2> DEFINE seen == [mon EXCEPT !.current = ConnectedIn(Present)]
             kept == IF ShouldCancelWarning(seen, Present, Connected) THEN ResetWarning(seen) ELSE seen
             t == RunTimers(kept, Present)
             c == ConditionMet(kept, Present, Connected)
  <2>3. CASE BelowMinimumUptime
    BY <2>2, <2>3 DEF CheckResult
  <2>4. CASE ~ BelowMinimumUptime
    <3>1. r = Decide(t, c)
      BY <2>2, <2>4 DEF CheckResult
    <3>2. /\ c = "InactiveUser" => InactiveUserMet(Connected)
          /\ c \in {"NoUsers", "AllDisconnected"} => Connected = {}
          /\ c \in {"NoUsers", "AllDisconnected", "InactiveUser", "None"}
      BY <2>1, ConnectedListed DEF ConditionMet, NoUsersMet, AllDisconnectedMet
    <3>3. InactiveUserMet(Connected) => Connected # {}
      BY DEF InactiveUserMet
    <3>4. kept \in MonitorState /\ (mon.warnAt = Unset => kept.warnAt = Unset)
      <4>1. seen \in MonitorState /\ seen.warnAt = mon.warnAt
        BY <2>1 DEF ServiceInv, TypeOK, MonitorTypeOK, MonitorState, Connected
      <4> QED
        BY <4>1, ResetWarningType DEF ResetWarning, MonitorState
    <3> HIDE DEF kept, c
    <3>5. t \in MonitorState /\ t.warnAt = kept.warnAt
      BY <3>4, RunTimersType
    <3> HIDE DEF t
    <3>6. /\ r.does = "warn" => c = "InactiveUser"
          /\ r.does = "hibernate" => c # "None"
      BY <3>1 DEF Decide
    <3>7. r.does = "warn" /\ t.warnAt = Unset => r.mon.warnAt = 0
      BY <3>1, <3>5, WarningPeriodType DEF Decide, MonitorState, Unset
    <3> QED
      BY <3>2, <3>3, <3>4, <3>5, <3>6, <3>7
  <2> QED
    BY <2>3, <2>4
<1> QED
  BY <1>1, <1>2, CheckResultsCases

(* A check announces, cancels, decides to leave, or changes nothing.       *)
LEMMA CheckPromise ==
  ASSUME NotifierPresent, NothingHidden, SeenInTime,
         RecentActivityThreshold <= InactiveUserThreshold,
         PromiseInv, PromiseInv', CheckIdle
  PROVE  Promise!Next \/ UNCHANGED promiseVars
<1>0. /\ ServiceInv /\ ServiceInv' /\ MonitorInv
      /\ {"hide", "idle"} \cap Faults = {} /\ "idle" \notin Faults
      /\ {"enumerate", "hide", "idle"} \cap Faults = {}
  BY ServiceInvMonitor DEF PromiseInv, LoopInv, NothingHidden
<1>1. PICK r \in CheckResults : Outcome(r)
  BY <1>0, CheckOutcomes
<1>2. pc = "check" /\ LoopRuns /\ CheckLeaves
  BY <1>0, CheckOutcomes
<1>3. r.does \in {"nothing", "warn", "hibernate"}
  BY <1>0, <1>1, ErrorTouchesNothing, CheckResultsAgree DEF ServiceInv, TypeOK
<1>4. /\ mon.warning = "Active" <=> mon.warnAt # Unset
      /\ mon'.warning = "Active" <=> mon'.warnAt # Unset
  BY <1>0 DEF ServiceInv, WarningCoherent, Coherent
<1>5. mon.warnAt # Unset => mon'.warnAt \in {Unset, mon.warnAt}
  BY <1>0, <1>1, CheckKeepsCountdown DEF Outcome
<1>6. countdown = mon.warnAt /\ (pc' # "reset" => countdown' = mon'.warnAt)
  BY <1>2 DEF countdown
<1>7. azure' = azure /\ vm = "running" /\ UNCHANGED <<sess, idle, vm, told>>
  BY <1>2 DEF CheckLeaves, LoopRuns
<1>8. r.does # "nothing" => azure # "accepted"
  <2>1. azure = "accepted" => BelowMinimumUptime
    BY <1>2 DEF PromiseInv, SuspendInv, LoopRuns, Calling
  <2> QED
    BY <1>0, <1>1, <1>3, <2>1, CheckResultWarning
<1>9. CASE r.does = "nothing"
  <2>1. pc' \in {"dismiss", "schedule"}
    BY <1>1, <1>9 DEF Outcome
  <2>2. leaving' = leaving
    BY <1>2, <1>7, <2>1 DEF leaving
  <2>3. CASE mon'.warnAt = mon.warnAt
    BY <1>6, <1>7, <2>1, <2>2, <2>3 DEF promiseVars
  <2>4. CASE mon'.warnAt # mon.warnAt
    <3>1. r.mon.warning = mon.warning \/ r.mon.warning = "None"
      BY <1>0, <1>9, CheckResultWarning
    <3>2. mon.warnAt # Unset /\ mon'.warnAt = Unset
      BY <1>1, <1>4, <1>5, <2>4, <3>1 DEF Outcome
    <3>3. ~ BelowMinimumUptime
      BY <1>4, <3>2 DEF PromiseInv, UptimeOut
    <3>4. Connected = {} \/ \E u \in Connected : idle[u] < InactiveUserThreshold
      BY <1>0, <1>9, <3>3, NothingMeansActivity
    <3>5. Connected = {} \/ ~ Promise!Inactive
      <4>1. /\ \A u \in Connected : idle[u] \in Int
            /\ InactiveUserThreshold \in Int
        BY <1>0, ConfigAssumption DEF ServiceInv, TypeOK, SessionsTypeOK, Age, Connected, Thresholds
      <4> QED
        BY <3>4, <4>1, SameSessions DEF Promise!Inactive
    <3>6. Promise!Cancel
      BY <1>6, <1>7, <2>1, <2>2, <3>2, <3>5, SameSessions
      DEF Promise!Cancel, Promise!sessVars, countdown, leaving
    <3> QED
      BY <3>6 DEF Promise!Next
  <2> QED
    BY <2>3, <2>4
<1>10. CASE r.does = "warn"
  <2>1. pc' \in {"warn", "schedule"}
    BY <1>1, <1>10 DEF Outcome
  <2>2. leaving' = leaving /\ ~ leaving
    BY <1>2, <1>7, <1>8, <1>10, <2>1 DEF leaving
  <2>3. Connected # {} /\ InactiveUserMet(Connected)
    BY <1>0, <1>10, ActsOnInactivity
  <2>4. mon'.warnAt # Unset
    BY <1>0, <1>1, <1>4, <1>10, CheckResultsAgree DEF Outcome, ServiceInv, TypeOK
  <2>5. CASE mon.warnAt # Unset
    BY <1>5, <1>6, <1>7, <2>1, <2>2, <2>4, <2>5 DEF promiseVars
  <2>6. CASE mon.warnAt = Unset
    <3>1. mon'.warnAt = 0
      BY <1>0, <1>1, <1>10, <2>6, ActsOnInactivity DEF Outcome
    <3>2. Promise!Announce
      BY <1>6, <1>7, <2>1, <2>2, <2>3, <2>6, <3>1, SameSessions
      DEF Promise!Announce, Promise!Inactive, Promise!sessVars, InactiveUserMet, countdown, leaving
    <3> QED
      BY <3>2 DEF Promise!Next
  <2> QED
    BY <2>5, <2>6
<1>11. CASE r.does = "hibernate"
  <2>1. pc' = "reset" /\ mon' = r.mon
    BY <1>1, <1>11 DEF Outcome
  <2>2. ~ leaving /\ leaving' /\ countdown' = Unset
    BY <1>2, <1>8, <1>11, <2>1 DEF leaving, countdown
  <2>3. Promise!MayLeave
    <3>1. CASE Connected = {}
      BY <3>1, SameSessions DEF Promise!MayLeave
    <3>2. CASE Connected # {} /\ WarningPeriod = 0
      <4>1. InactiveUserMet(Connected)
        BY <1>0, <1>11, <3>2, ActsOnInactivity
      <4> QED
        BY <3>2, <4>1, SameSessions DEF Promise!MayLeave, Promise!Inactive, InactiveUserMet
    <3>3. CASE Connected # {} /\ WarningPeriod # 0
      <4>1. WarningPeriod > 0
        BY <3>3, WarningPeriodType
      <4>2. /\ mon.warning = "Active" /\ mon.warnAt >= WarningPeriod
            /\ mon'.warning = "Active" /\ mon'.warnAt = mon.warnAt
        BY <1>0, <1>11, <2>1, <3>3, <4>1, HibernateAfterWarning
      <4>3. told = "warning"
        BY <1>2, <4>2 DEF PromiseInv, PolledInv, ToldInv, Calling
      <4>4. \A u \in Connected : idle[u] >= mon.warnAt
        BY <1>0, <4>2, InputCheck DEF PromiseInv
      <4> QED
        BY <1>6, <4>2, <4>3, <4>4, SameSessions DEF Promise!MayLeave, countdown
    <3> QED
      BY <3>1, <3>2, <3>3
  <2>4. Promise!Leave
    BY <1>7, <2>2, <2>3, SameSessions DEF Promise!Leave, Promise!sessVars, countdown, leaving
  <2> QED
    BY <2>4 DEF Promise!Next
<1> QED
  BY <1>3, <1>9, <1>10, <1>11

(* So does every other step, each in its own way.                          *)
LEMMA StepPromise ==
  ASSUME NotifierPresent, NothingHidden, SeenInTime, AtRequest,
         RecentActivityThreshold <= InactiveUserThreshold,
         PromiseInv, PromiseInv', [Next]_vars
  PROVE  Promise!Next \/ UNCHANGED promiseVars
<1> USE DEF At, Calling
<1>0. /\ ServiceInv /\ ModeInv /\ MonitorInv /\ PolledInv /\ OnceInv /\ SuspendInv
      /\ mon.warning = "Active" <=> mon.warnAt # Unset
      /\ "notify" \notin Faults
  BY ServiceInvMonitor
  DEF PromiseInv, LoopInv, ServiceInv, WarningCoherent, Coherent, NothingHidden
<1>1. CASE CheckIdle
  BY <1>1, CheckPromise
<1>2. CASE WarningSent
  <2>1. /\ pc = "warn" /\ pc' = "schedule" /\ told' = "warning"
        /\ UNCHANGED <<sess, idle, mon, vm, azure>>
    BY <1>0, <1>2, WarningSentOutcome
  <2>2. mon.warnAt # Unset
    BY <1>0, <2>1 DEF ServiceInv, ModeAgrees
  <2>3. Promise!ShowWarning
    BY <2>1, <2>2, SameSessions DEF Promise!ShowWarning, Promise!sessVars
  <2> QED
    BY <2>3 DEF Promise!Next
<1>3. CASE CancellationSent
  <2>1. /\ pc = "cancel" /\ pc' = "schedule" /\ told' = "canceled"
        /\ UNCHANGED <<sess, idle, mon, vm, azure>>
    BY <1>0, <1>3 DEF CancellationSent, Deliveries, Shows, If, sessVars, monVars, envVars
  <2>2. mon.warnAt = Unset
    BY <1>0, <2>1 DEF PolledInv
  <2>3. Promise!ShowCanceled
    BY <2>1, <2>2, SameSessions DEF Promise!ShowCanceled, Promise!sessVars
  <2> QED
    BY <2>3 DEF Promise!Next
<1>4. CASE HibernationAnswered
  <2>1. /\ pc \in Calling /\ pc' \in {"dismiss", "schedule"}
        /\ UNCHANGED <<sess, idle, mon, vm, azure, told>>
    BY <1>0, <1>4, HibernationAnsweredOutcome
  <2>2. CASE pc = "answer"
    BY <2>1, <2>2 DEF promiseVars, countdown, leaving
  <2>3. CASE pc = "hibernate"
    <3>1. azure # "accepted"
      BY <1>0, <2>3 DEF OnceInv
    <3>2. Promise!StayAfterAll
      BY <2>1, <2>3, <3>1 DEF Promise!StayAfterAll, Promise!sessVars
    <3> QED
      BY <3>2 DEF Promise!Next
  <2> QED
    BY <2>1, <2>2, <2>3
<1>5. CASE RequestHibernation
  <2>1. mon'.warnAt = Unset
    BY <1>0, <1>5, NewIsReset DEF RequestHibernation, NewIdleMonitor, MonitorInv, MonitorTypeOK
  <2> QED
    BY <1>5, <2>1 DEF RequestHibernation, promiseVars, countdown, leaving, sessVars, envVars
<1>6. CASE WarningDismissed \/ Schedule \/ TimerFires \/ LoopStops
  BY <1>6 DEF WarningDismissed, Schedule, TimerFires, LoopStops, promiseVars, countdown, leaving,
              sessVars, monVars, envVars
<1>7. CASE AzureAccepts
  BY <1>7 DEF AzureAccepts, promiseVars, countdown, leaving, sessVars, monVars
<1>8. CASE (\E e \in PowerEvents : HandlePowerEvent(e)) \/ StopRequested \/ ServiceStarts
  BY <1>8 DEF HandlePowerEvent, StopRequested, ServiceStarts, promiseVars, countdown, leaving,
              sessVars, monVars, loopVars, envVars
<1>9. CASE ProcessExits
  <2>1. "restart" \in Faults
    BY <1>0, <1>9 DEF ProcessExits, ModeInv
  <2>2. /\ pc' = "check" /\ mon'.warnAt = Unset
        /\ UNCHANGED <<sess, idle, vm, azure, told>>
    BY <1>9 DEF ProcessExits, NewService, NewIdleMonitor, sessVars, envVars
  <2>3. Promise!Forget
    BY <2>1, <2>2, SameSessions DEF Promise!Forget, Promise!sessVars
  <2> QED
    BY <2>3 DEF Promise!Next
<1>10. CASE Suspend
  <2>1. azure = "accepted" /\ pc \notin {"reset", "hibernate"}
    BY <1>0, <1>10 DEF Suspend, AtRequest, OnceInv
  <2>2. Promise!Suspend
    BY <1>10, <2>1 DEF Suspend, Promise!Suspend, Promise!sessVars, sessVars, monVars, loopVars
  <2> QED
    BY <2>2 DEF Promise!Next
<1>11. CASE Resume
  <2>1. Promise!Resume
    BY <1>11 DEF Resume, Promise!Resume, Promise!sessVars, sessVars, monVars, loopVars
  <2> QED
    BY <2>1 DEF Promise!Next
<1>12. CASE UserActs
  <2>1. Promise!UserActs
    BY <1>12, SameSessions DEF UserActs, Promise!UserActs, monVars, loopVars, envVars
  <2> QED
    BY <2>1 DEF Promise!Next
<1>13. CASE Tick
  <2>1. /\ mon'.warnAt = OlderOpt(mon.warnAt) /\ AgeSessions
        /\ UNCHANGED <<pc, vm, azure, told>>
    BY <1>0, <1>13 DEF Tick, MonitorTick, AgeMonitor, MonitorInv, MonitorTypeOK, MonitorState
  <2>2. OlderOpt(Unset) = Unset
    BY DEF OlderOpt
  <2>3. Promise!Tick
    BY <2>1, <2>2, SameSessions DEF Promise!Tick
  <2> QED
    BY <2>3 DEF Promise!Next
<1>14. CASE UNCHANGED vars
  BY <1>14 DEF vars, promiseVars, countdown, leaving, sessVars, monVars, loopVars, envVars
<1> QED
  BY <1>1, <1>2, <1>3, <1>4, <1>5, <1>6, <1>7, <1>8, <1>9, <1>10, <1>11, <1>12, <1>13, <1>14
  DEF Next, LoopStep

(* The service keeps HibernationPromise: users are warned and left their   *)
(* time, nothing but their activity takes a warning back, and the machine  *)
(* is suspended once for each decision, for any number of users and        *)
(* sessions, any intervals, refused, lost or late answers of Azure and     *)
(* restarts, when sessions can be read, notifications arrive, input stays  *)
(* recent until it is looked for, and a warning does not outlive a         *)
(* suspension.                                                             *)
THEOREM ServiceKeepsPromise ==
  ASSUME NotifierPresent, NothingHidden, SeenInTime, AtRequest,
         RecentActivityThreshold <= InactiveUserThreshold
  PROVE  Spec => KeepsPromise
<1>0. /\ "enumerate" \notin Faults /\ "notify" \notin Faults /\ "suspend" \notin Faults
      /\ {"suspend", "slow"} \cap Faults = {}
      /\ {"enumerate", "hide", "idle"} \cap Faults = {}
  BY DEF NothingHidden, AtRequest
<1>1. Spec => [](SuspendInv /\ UptimeInv)
  BY SuspendInvariant
<1>2. Spec => []PolledInv /\ []UptimeOut
  BY <1>0, PolledInvariant, UptimeStaysOut, AtRequestPolls
<1>3. Init => ToldInv /\ InputInv /\ OnceInv
  BY DEF Init, MonitorInit, NewIdleMonitor, ToldInv, InputInv, OnceInv
<1>4. LoopInv /\ SuspendInv /\ ToldInv /\ [Next]_vars => ToldInv'
  BY <1>0, ToldStepInv
<1>5. LoopInv /\ SuspendInv /\ UptimeOut /\ PolledInv /\ InputInv /\ [Next]_vars => InputInv'
  BY <1>0, InputStepInv
<1>6. LoopInv /\ SuspendInv /\ OnceInv /\ [Next]_vars => OnceInv'
  BY <1>0, OnceStepInv
<1>7. Spec => []PromiseInv
  BY <1>1, <1>2, <1>3, <1>4, <1>5, <1>6, LoopInvariant, PTL DEF Spec, PromiseInv
<1>8. PromiseInv /\ PromiseInv' /\ [Next]_vars => [Promise!Next]_(Promise!vars)
  BY StepPromise DEF promiseVars, countdown, leaving, Promise!vars, Promise!sessVars
<1> QED
  BY <1>7, <1>8, InitPromise, PTL DEF Spec, KeepsPromise, Promise!Spec
===============================================================================
