-------------------------- MODULE AutoHibernateService --------------------------
(***************************************************************************)
(* The hibernation service (internal/service/service.go): the goroutine    *)
(* that runs monitorLoop, the goroutine that runs Execute and takes stop   *)
(* requests and power events from Windows, the virtual machine they run    *)
(* in, and Azure, which is asked to hibernate it.                          *)
(*                                                                         *)
(* The loop is a program with a control state pc.  What it does without    *)
(* blocking is one step and takes no time; a call that blocks (a message   *)
(* to the notifiers, the request to Azure) is a state of its own in which  *)
(* time passes.  The operating system schedules the loop without delay:    *)
(* no tick passes while it can run.                                        *)
(***************************************************************************)
EXTENDS IdleMonitor

CONSTANTS WarningCheckInterval, MinCheckInterval, NotificationThrottle,
          NotifierPresent,  \* FALSE: notifierManager is nil
          MaxSend,          \* bound of the model: ticks one notifier call may take
          MaxCall           \* the context timeout of the hibernation request

ASSUME ServiceAssumption ==
    /\ {WarningCheckInterval, MinCheckInterval} \subseteq 1..Horizon
    /\ {NotificationThrottle, MaxSend, MaxCall} \subseteq 0..Horizon
    /\ NotifierPresent \in BOOLEAN

VARIABLES pc,             \* where the monitor goroutine is
          timer,          \* what is left of time.After(nextCheckDuration)
          busy,           \* ticks spent in the call it is blocked in
          inWarningMode,
          lastNotification,  \* age of lastNotificationTime, Unset when IsZero
          ctl,            \* the goroutine of Execute
          vm, upFor,      \* the machine, and how long it has been up
          azure,          \* the hibernation request as Azure sees it
          events,         \* power events Windows has yet to deliver
          told            \* what the users were last shown

loopVars == <<pc, timer, busy, inWarningMode, lastNotification>>
envVars == <<vm, upFor, azure, events>>
vars == <<sessVars, monVars, loopVars, ctl, envVars, told>>

(* The call of HibernateVM is at "hibernate" until Azure takes the request *)
(* and at "answer" from then on.                                           *)
Calling == {"hibernate", "answer"}
Blocking == {"warn", "dismiss", "cancel"} \cup Calling
ControlStates == {"check", "reset", "schedule", "wait", "stopped"} \cup Blocking
PowerEvents == {"automatic", "user"}

TypeOK == /\ SessionsTypeOK /\ MonitorTypeOK
          /\ pc \in ControlStates
          /\ timer \in Age /\ busy \in Age
          /\ inWarningMode \in BOOLEAN
          /\ lastNotification \in OptAge
          /\ ctl \in {"running", "stopping", "exited"}
          /\ vm \in {"running", "suspended"} /\ upFor \in Age
          /\ azure \in {"idle", "accepted"}
          /\ events \subseteq PowerEvents
          /\ told \in {"nothing", "warning", "canceled"}

(* NewAutoHibernateService: what a process of the service starts from.     *)
NewService == [mon |-> NewIdleMonitor, resumeAge |-> 0, pc |-> "check", timer |-> 0, busy |-> 0,
               inWarningMode |-> FALSE, lastNotification |-> Unset]

Init == /\ MonitorInit
        /\ pc = "check" /\ timer = 0 /\ busy = 0
        /\ inWarningMode = FALSE /\ lastNotification = Unset
        /\ ctl = "running"
        /\ vm = "running" /\ upFor \in {0, Horizon}
        /\ azure = "idle" /\ events = {}
        /\ told = "nothing"

-------------------------------------------------------------------------------
(* The monitor loop.                                                       *)

LoopRuns == /\ vm = "running" /\ ctl # "exited"
            /\ events # {} /\ ctl = "running" => "lateEvent" \in Faults
At(label) == LoopRuns /\ pc = label

(* Mutants of CheckEnds: warning mode is not left; a cancellation is sent  *)
(* after a check that finds no reason to warn, in warning mode or not;     *)
(* none is ever sent.                                                      *)
CheckEndsInMode(shouldWarn, isHibernating, notified) ==
    /\ inWarningMode' = (inWarningMode \/ shouldWarn)
    /\ lastNotification' = notified
    /\ pc' = "schedule" /\ busy' = 0

CheckEndsCanceling(shouldWarn, isHibernating, notified) ==
    LET leaving == ~shouldWarn IN
    /\ inWarningMode' = shouldWarn
    /\ lastNotification' = IF leaving THEN Unset ELSE notified
    /\ pc' = IF leaving /\ ~isHibernating /\ NotifierPresent THEN "dismiss" ELSE "schedule"
    /\ busy' = 0

CheckEndsSilently(shouldWarn, isHibernating, notified) ==
    /\ inWarningMode' = shouldWarn
    /\ lastNotification' = notified
    /\ pc' = "schedule" /\ busy' = 0

(* performMonitorCheck once checkAndHibernate has returned: the warning    *)
(* mode follows shouldWarn, and leaving it for any reason but an accepted  *)
(* hibernation tells the users of a cancellation.                          *)
CheckEnds(shouldWarn, isHibernating, notified) ==
    LET leaving == inWarningMode /\ ~shouldWarn IN
    /\ inWarningMode' = shouldWarn
    /\ lastNotification' = IF leaving THEN Unset ELSE notified
    /\ pc' = IF leaving /\ ~isHibernating /\ NotifierPresent THEN "dismiss" ELSE "schedule"
    /\ busy' = 0

(* Mutant of MayNotify: no throttle.                                       *)
MayNotifyAlways == TRUE

MayNotify == lastNotification = Unset \/ lastNotification >= NotificationThrottle

(* One call of checkAndHibernate up to where it blocks.                    *)
CheckIdle ==
    /\ At("check")
    /\ \E r \in CheckResults :
          /\ mon' = r.mon
          /\ CASE r.does \in {"nothing", "error"} ->
                    CheckEnds(FALSE, FALSE, lastNotification)
               [] r.does = "warn" /\ MayNotify /\ NotifierPresent ->
                    pc' = "warn" /\ UNCHANGED <<busy, inWarningMode, lastNotification>>
               [] r.does = "warn" /\ ~(MayNotify /\ NotifierPresent) ->
                    CheckEnds(TRUE, FALSE, lastNotification)
               [] r.does = "hibernate" ->
                    pc' = "reset" /\ UNCHANGED <<busy, inWarningMode, lastNotification>>
    /\ UNCHANGED <<sessVars, resumeAge, timer, ctl, envVars, told>>

(* What a broadcast may come to: [seen, ok]: whether users saw it and      *)
(* whether the call returned nil.                                          *)
Deliveries == {[seen |-> TRUE, ok |-> TRUE]}
              \cup If("notify" \in Faults, [seen : BOOLEAN, ok : BOOLEAN])

Shows(d, message) == told' = IF d.seen THEN message ELSE told

(* SendWarning returns.  lastNotificationTime is the time before the call. *)
WarningSent ==
    /\ At("warn")
    /\ \E d \in Deliveries :
          /\ Shows(d, "warning")
          /\ CheckEnds(TRUE, FALSE, IF d.ok THEN busy ELSE lastNotification)
    /\ UNCHANGED <<sessVars, monVars, timer, ctl, envVars>>

(* DismissWarning returns; the notifier does nothing with the message.     *)
WarningDismissed ==
    /\ At("dismiss")
    /\ pc' = "cancel" /\ busy' = 0
    /\ UNCHANGED <<sessVars, monVars, timer, inWarningMode, lastNotification, ctl, envVars, told>>

CancellationSent ==
    /\ At("cancel")
    /\ \E d \in Deliveries : Shows(d, "canceled")
    /\ pc' = "schedule" /\ busy' = 0
    /\ UNCHANGED <<sessVars, monVars, timer, inWarningMode, lastNotification, ctl, envVars>>

(* Mutant of RequestHibernation: the monitor is not reset.                 *)
RequestHibernationUnreset ==
    /\ At("reset")
    /\ pc' = "hibernate" /\ busy' = 0
    /\ UNCHANGED <<sessVars, monVars, timer, inWarningMode, lastNotification, ctl, envVars, told>>

(* The monitor is reset, then HibernateVM is called.                       *)
RequestHibernation ==
    /\ At("reset")
    /\ mon' = ResetMonitor
    /\ pc' = "hibernate" /\ busy' = 0
    /\ UNCHANGED <<sessVars, resumeAge, timer, inWarningMode, lastNotification, ctl, envVars, told>>

(* Azure takes the request: once, the call does not repeat it.             *)
AzureAccepts ==
    /\ At("hibernate")
    /\ azure' = "accepted" /\ pc' = "answer"
    /\ UNCHANGED <<sessVars, monVars, timer, busy, inWarningMode, lastNotification, ctl, vm, upFor,
                   events, told>>

(* Mutant of HibernationAnswered: a request that has not been answered in  *)
(* time is sent again.                                                     *)
HibernationAnsweredOrRepeated ==
    /\ \/ At("answer") /\ CheckEnds(FALSE, TRUE, lastNotification)
       \/ /\ At("answer") /\ busy = MaxCall
          /\ pc' = "hibernate" /\ busy' = 0
          /\ UNCHANGED <<inWarningMode, lastNotification>>
    /\ UNCHANGED <<sessVars, monVars, timer, ctl, envVars, told>>

(* HibernateVM returns nil for a 200 or a 202, or an error: refused, or    *)
(* accepted while the answer is lost or comes after the timeout.           *)
HibernationAnswered ==
    /\ \/ /\ At("answer")
          /\ CheckEnds(FALSE, TRUE, lastNotification)
       \/ /\ (At("hibernate") /\ "azure" \in Faults) \/ (At("answer") /\ "late" \in Faults)
          /\ CheckEnds(FALSE, FALSE, lastNotification)
    /\ UNCHANGED <<sessVars, monVars, timer, ctl, envVars, told>>

(* calculateNextCheckTime.                                                 *)
DefaultInterval == Min({t \in Thresholds : t > 0})

(* Mutants of NextCheckTime: warning mode polls no faster; the clamp to    *)
(* the minimum interval is gone and the loop wakes up ahead of time.       *)
NextCheckTimeUnhurried(timeUntil) ==
    IF timeUntil = 0 THEN DefaultInterval
    ELSE IF timeUntil < MinCheckInterval THEN MinCheckInterval ELSE timeUntil

NextCheckTimeUnclamped(timeUntil) ==
    IF inWarningMode THEN WarningCheckInterval ELSE timeUntil - WarningCheckInterval

NextCheckTime(timeUntil) ==
    CASE inWarningMode                   -> WarningCheckInterval
      [] ~inWarningMode /\ timeUntil = 0 -> DefaultInterval
      [] OTHER -> IF timeUntil < MinCheckInterval THEN MinCheckInterval ELSE timeUntil

Schedule ==
    /\ At("schedule")
    /\ \E readable \in SnapshotReadings : timer' = NextCheckTime(TimeUntilThresholds(readable))
    /\ pc' = "wait"
    /\ UNCHANGED <<sessVars, monVars, busy, inWarningMode, lastNotification, ctl, envVars, told>>

(* The select of the loop: the timer, or stopChan, or either.              *)
TimerFires ==
    /\ At("wait") /\ timer = 0
    /\ pc' = "check"
    /\ UNCHANGED <<sessVars, monVars, timer, busy, inWarningMode, lastNotification, ctl, envVars, told>>

LoopStops ==
    /\ At("wait") /\ ctl = "stopping"
    /\ pc' = "stopped" /\ timer' = 0
    /\ UNCHANGED <<sessVars, monVars, busy, inWarningMode, lastNotification, ctl, envVars, told>>

LoopStep == \/ CheckIdle \/ WarningSent \/ WarningDismissed \/ CancellationSent
            \/ RequestHibernation \/ HibernationAnswered
            \/ Schedule \/ TimerFires \/ LoopStops

-------------------------------------------------------------------------------
(* Execute: power events and the life of the service.                      *)

(* Mutant of HandlePowerEvent: PBT_APMRESUMEAUTOMATIC is not handled.      *)
HandlePowerEventUserOnly(e) ==
    /\ vm = "running" /\ ctl = "running"
    /\ e \in events
    /\ events' = events \ {e}
    /\ resumeAge' = IF e = "user" THEN 0 ELSE resumeAge
    /\ UNCHANGED <<sessVars, mon, loopVars, ctl, vm, upFor, azure, told>>

HandlePowerEvent(e) ==
    /\ vm = "running" /\ ctl = "running"
    /\ e \in events
    /\ events' = events \ {e}
    /\ resumeAge' = 0
    /\ UNCHANGED <<sessVars, mon, loopVars, ctl, vm, upFor, azure, told>>

(* A stop request: stopChan is closed.                                     *)
StopRequested ==
    /\ "restart" \in Faults
    /\ vm = "running" /\ ctl = "running"
    /\ ctl' = "stopping"
    /\ UNCHANGED <<sessVars, monVars, loopVars, envVars, told>>

(* Execute returns after its grace period and the process ends, wherever   *)
(* the monitor goroutine is.                                               *)
ProcessExits ==
    /\ vm = "running" /\ ctl = "stopping"
    /\ ctl' = "exited"
    /\ mon' = NewService.mon /\ pc' = NewService.pc
    /\ timer' = NewService.timer /\ busy' = NewService.busy
    /\ inWarningMode' = NewService.inWarningMode
    /\ lastNotification' = NewService.lastNotification
    /\ UNCHANGED <<sessVars, resumeAge, envVars, told>>

(* A new process; power events are not kept for it.                        *)
ServiceStarts ==
    /\ vm = "running" /\ ctl = "exited"
    /\ ctl' = "running"
    /\ resumeAge' = NewService.resumeAge
    /\ events' = {}
    /\ UNCHANGED <<sessVars, mon, loopVars, vm, upFor, azure, told>>

-------------------------------------------------------------------------------
(* The virtual machine.  It suspends when Azure hibernates it or, as a     *)
(* fault, when somebody else suspends it.  All the program's clocks count  *)
(* the time it is suspended.  Users come back to a screen without toasts.  *)

Suspend ==
    /\ vm = "running"
    /\ \/ azure = "accepted" /\ (pc = "answer" => "late" \in Faults)
       \/ "suspend" \in Faults
    /\ vm' = "suspended" /\ azure' = "idle"
    /\ upFor' = 0
    /\ told' = "nothing"
    /\ UNCHANGED <<sessVars, monVars, loopVars, ctl, events>>

(* Windows announces the resume, and again once a user shows up: at once,  *)
(* or after the loop has run again when events may be late, but never a    *)
(* whole tick late for the automatic one.                                  *)
Resume ==
    /\ vm = "suspended"
    /\ vm' = "running"
    /\ events' = PowerEvents
    /\ UNCHANGED <<sessVars, monVars, loopVars, ctl, upFor, azure, told>>

EventDue == IF "lateEvent" \in Faults THEN "automatic" \in events ELSE events # {}

Patience == IF pc \in Calling THEN MaxCall ELSE MaxSend

LoopWaits == CASE pc = "wait"      -> timer > 0
               [] pc = "stopped"   -> TRUE
               [] pc \in Blocking  -> busy < Patience
               [] OTHER            -> FALSE

Tick ==
    /\ \/ vm = "suspended"
       \/ ctl = "exited"
       \/ /\ LoopWaits
          /\ EventDue => ctl # "running"
          /\ azure = "accepted" => "slow" \in Faults
    /\ MonitorTick
    /\ timer' = IF timer > 0 THEN timer - 1 ELSE 0
    /\ busy' = IF pc \in Blocking /\ busy < Patience THEN busy + 1 ELSE busy
    /\ lastNotification' = OlderOpt(lastNotification)
    /\ upFor' = IF vm = "running" THEN Older(upFor) ELSE 0
    /\ UNCHANGED <<pc, inWarningMode, ctl, vm, azure, events, told>>

UserActs == /\ vm = "running"
            /\ UserStep
            /\ UNCHANGED <<monVars, loopVars, ctl, envVars, told>>

-------------------------------------------------------------------------------
Next == \/ LoopStep \/ AzureAccepts
        \/ \E e \in PowerEvents : HandlePowerEvent(e)
        \/ StopRequested \/ ProcessExits \/ ServiceStarts
        \/ Suspend \/ Resume \/ Tick \/ UserActs

Spec == Init /\ [][Next]_vars

(* The operating system runs the two goroutines and the clock goes on;     *)
(* Azure takes a request that is waiting and carries out one it took.      *)
(* Nothing is assumed of the users, nor of those who stop or suspend.      *)
Fairness == /\ WF_vars(LoopStep) /\ WF_vars(Tick)
            /\ WF_vars(\E e \in PowerEvents : HandlePowerEvent(e))
            /\ WF_vars(AzureAccepts)
            /\ SF_vars(azure = "accepted" /\ Suspend)

FairSpec == Spec /\ Fairness

-------------------------------------------------------------------------------
(* Safety.                                                                 *)

(* The monitor decides that the machine is to be hibernated.               *)
Decision == pc = "check" /\ pc' = "reset"

(* The loop polls fast only because of a warning that stands: when it      *)
(* sleeps in warning mode, the monitor's warning is active and the next    *)
(* check is at most one warning interval away, whatever failed before.     *)
FastPollingMeansWarning ==
    pc = "wait" /\ inWarningMode => mon.warning = "Active" /\ timer <= WarningCheckInterval

(* README, Dynamic Polling: the loop polls every 5 seconds while a warning *)
(* stands, so that activity is seen at once.                               *)
WarningIsPolled ==
    pc = "wait" /\ mon.warning = "Active" => inWarningMode /\ timer <= WarningCheckInterval

(* Once the power event is handled the monitor never believes the machine  *)
(* to be up for longer than it is.                                         *)
UptimeNotOverstated ==
    vm = "running" /\ "automatic" \notin events => resumeAge <= upFor

(* "Reset idle monitor state before hibernation; this ensures clean state  *)
(* when VM resumes": a machine that was woken up is given every threshold  *)
(* and the warning period anew, no countdown is older than the resume.     *)
CountsFromResume ==
    vm = "running" => {mon.noUsersSince, mon.allDiscSince, mon.warnAt} \subseteq {Unset} \cup 0..upFor

(* README, Parameters: no hibernation within the minimum uptime after boot *)
(* or resume, except by a check that runs before the event of the resume   *)
(* is delivered.                                                           *)
MinimumUptimeAfterEvent ==
    [][Decision /\ MinimumUptime > 0 => upFor > MinimumUptime \/ "automatic" \in events]_vars

(* README, Idle Detection: users who are logged on and connected are       *)
(* hibernated only after a warning has run its full period, and the last   *)
(* thing they were shown is that warning, not that it was canceled.        *)
WarnedBeforeHibernation ==
    [][Decision /\ Connected # {} /\ WarningPeriod > 0
         => mon.warnAt >= WarningPeriod /\ told = "warning"]_vars

(* CHANGELOG: any input during the warning period cancels hibernation.  At *)
(* the decision no connected session has seen input since the warning.     *)
NoInputSinceWarning ==
    [][Decision /\ Connected # {} /\ WarningPeriod > 0
         => \A u \in Connected : idle[u] >= mon.warnAt]_vars

(* The call of HibernateVM may return an error.                            *)
RequestMayFail == \/ pc = "hibernate" /\ "azure" \in Faults
                  \/ pc = "answer" /\ "late" \in Faults

(* The cancellation message says "due to user activity": the loop starts   *)
(* to send it only when a connected session is not idle or none is left,   *)
(* or when its request has failed, which is announced in the same words.   *)
CanceledForActivity ==
    [][pc # "dismiss" /\ pc' = "dismiss"
         => \/ Connected = {} \/ \E u \in Connected : idle[u] < InactiveUserThreshold
            \/ RequestMayFail]_vars

(* README, Warning Phase: warnings are throttled.  Users who were shown a  *)
(* warning are not shown it again before the throttle has run out, as long *)
(* as the same warning stands.                                             *)
RepeatsAreThrottled ==
    [][pc = "warn" /\ pc' # "warn" /\ inWarningMode /\ told = "warning"
         => lastNotification # Unset /\ lastNotification >= NotificationThrottle]_vars

(* A threshold of zero disables its condition: no decision rests on it.    *)
DisabledNeverHibernates ==
    [][Decision => CASE Present = {}   -> NoUsersThreshold > 0
                     [] Connected # {} -> InactiveUserThreshold > 0
                     [] OTHER          -> AllDisconnectedThreshold > 0]_vars

(* All of it together, as the users of the machine see it: the service     *)
(* keeps HibernationPromise.  A machine may be suspended from the decision *)
(* until Azure has done so or the request has failed; the countdown is the *)
(* monitor's.                                                              *)
Promise == INSTANCE HibernationPromise WITH
    countdown <- IF pc = "reset" THEN Unset ELSE mon.warnAt,
    leaving <- pc \in {"reset", "hibernate"} \/ azure = "accepted",
    MayRestart <- "restart" \in Faults

KeepsPromise == Promise!Spec

-------------------------------------------------------------------------------
(* Liveness.                                                               *)

(* A machine nobody uses any more is hibernated, again and again if        *)
(* somebody wakes it up.                                                   *)
EmptyMachineHibernates == <>[](Present = {}) => []<>(vm = "suspended")
LeftMachineHibernates == <>[](Present # {} /\ Connected = {}) => []<>(vm = "suspended")
IdleMachineHibernates ==
    <>[](Connected # {} /\ \A u \in Connected : idle[u] >= InactiveUserThreshold)
      => []<>(vm = "suspended")

(* A user who acts while the warning stands is told that it is canceled,   *)
(* unless the machine was already being hibernated.                        *)
ActivityIsAnswered ==
    (/\ told = "warning" /\ inWarningMode /\ pc = "wait"
     /\ \E u \in Connected : idle[u] = 0) ~> (told # "warning")
===============================================================================
