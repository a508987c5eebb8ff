------------------------------ MODULE IdleMonitor ------------------------------
(***************************************************************************)
(* The idle monitor (internal/monitor/idle.go): a state machine that, each *)
(* time Check is called, reads the sessions and decides whether the VM     *)
(* should be left alone, its users warned, or the VM hibernated.           *)
(*                                                                         *)
(* Check runs within milliseconds, so it is one step.  It queries the idle *)
(* time of each session twice, and each query may fail on its own: the     *)
(* list of sessions and the sets of those whose query succeeds are its     *)
(* arguments.  CurrentSessions   *)
(* is kept as the set of its connected sessions, which is all that is ever *)
(* read of it; WarningReason and LastActivityTime are written and never    *)
(* read by a decision, so they are left out.                               *)
(***************************************************************************)
EXTENDS Sessions, FiniteSets, FiniteSetsExt

CONSTANTS NoUsersThreshold, AllDisconnectedThreshold, InactiveUserThreshold,
          WarningPeriod,            \* 0: inactivity hibernates without a warning
          MinimumUptime,            \* 0: no minimum uptime
          RecentActivityThreshold,  \* input younger than this cancels a warning
          Faults                    \* what may fail in this instance

FaultKinds == {"enumerate",   \* WTSEnumerateSessions fails
               "hide",        \* the user name of a session cannot be read
               "idle",        \* the idle time of a session cannot be read
               "notify",      \* a notification fails or reaches only some
               "azure",       \* the hibernation request is refused
               "late",        \* it is accepted but the answer is lost
               "slow",        \* it takes Azure a while to carry it out
               "suspend",     \* the VM is suspended by someone else
               "lateEvent",   \* the loop runs before a resume is announced
               "restart"}     \* the service is stopped and started again

Thresholds == {NoUsersThreshold, AllDisconnectedThreshold, InactiveUserThreshold}

(* config.Validate: nothing negative, at least one threshold positive.  An *)
(* age must be able to outgrow whatever it is compared with.               *)
ASSUME ConfigAssumption ==
    /\ Thresholds \cup {WarningPeriod, MinimumUptime, RecentActivityThreshold} \subseteq 0..(Horizon - 1)
    /\ \E t \in Thresholds : t > 0
    /\ Faults \subseteq FaultKinds

VARIABLES mon,       \* IdleState of the code
          resumeAge  \* time since resumeAt

monVars == <<mon, resumeAge>>

Conditions == {"None", "NoUsers", "AllDisconnected", "InactiveUser"}

MonitorState == [noUsersSince : OptAge, allDiscSince : OptAge,
                 warnAt : OptAge, warning : {"None", "Active"},
                 condition : Conditions, current : SUBSET Users]

MonitorTypeOK == mon \in MonitorState /\ resumeAge \in Age

NewIdleMonitor == [noUsersSince |-> Unset, allDiscSince |-> Unset,
                   warnAt |-> Unset, warning |-> "None",
                   condition |-> "None", current |-> {}]

-------------------------------------------------------------------------------
(* The lists GetActiveSessions may return: a session whose user name       *)
(* cannot be read is left out of it, which is no error.                    *)
Lists == IF "hide" \in Faults THEN SUBSET Present ELSE {Present}

ConnectedIn(list) == list \cap Connected

(* The sessions a round of idle time queries can answer for.               *)
Readings(list) == IF "idle" \in Faults THEN SUBSET ConnectedIn(list) ELSE {ConnectedIn(list)}

(* Mutant of ResetWarning: the start of the warning is left behind.        *)
ResetWarningKeepsStart(m) == [m EXCEPT !.condition = "None", !.warning = "None",
                                       !.noUsersSince = Unset, !.allDiscSince = Unset]

(* resetWarning: both condition timers go with the warning.                *)
ResetWarning(m) == [m EXCEPT !.condition = "None", !.warnAt = Unset, !.warning = "None",
                             !.noUsersSince = Unset, !.allDiscSince = Unset]

(* The minimum of system uptime and time since resume.  The service is     *)
(* created, and resumes, after the system boots, so the minimum is the     *)
(* time since resumeAt.                                                    *)
EffectiveUptime == resumeAge

(* Mutant of BelowMinimumUptime: the bound itself is let through.          *)
BelowMinimumUptimeStrictly == MinimumUptime > 0 /\ EffectiveUptime < MinimumUptime

BelowMinimumUptime == MinimumUptime > 0 /\ EffectiveUptime <= MinimumUptime

ShouldCancelWarning(m, list, readable) ==
    /\ m.warning = "Active"
    /\ \/ m.condition = "NoUsers" /\ list # {}
       \/ m.condition = "AllDisconnected" /\ ConnectedIn(list) # {}
       \/ /\ m.condition = "InactiveUser"
          /\ \E u \in readable : idle[u] < RecentActivityThreshold

(* Mutant of RunTimers: the nil checks are the wrong way round.            *)
RunTimersInverted(m, list) ==
    [m EXCEPT !.noUsersSince = IF list # {} THEN Unset ELSE IF @ # Unset THEN 0 ELSE @,
              !.allDiscSince = IF ConnectedIn(list) # {} THEN Unset
                               ELSE IF list # {} /\ @ # Unset THEN 0 ELSE @]

(* The two timers: the first check that sees the condition starts it.  The *)
(* disconnected timer is left alone when nobody is logged on.              *)
RunTimers(m, list) ==
    [m EXCEPT !.noUsersSince = IF list # {} THEN Unset ELSE IF @ = Unset THEN 0 ELSE @,
              !.allDiscSince = IF ConnectedIn(list) # {} THEN Unset
                               ELSE IF list # {} /\ @ = Unset THEN 0 ELSE @]

(* A timer counts from the check that started it on, a threshold of zero   *)
(* being one that any running timer has reached.                           *)
NoUsersMet(m, list) == list = {} /\ m.noUsersSince # Unset /\ m.noUsersSince >= NoUsersThreshold

AllDisconnectedMet(m, list) == /\ list # {} /\ ConnectedIn(list) = {}
                               /\ m.allDiscSince # Unset /\ m.allDiscSince >= AllDisconnectedThreshold

(* The least idle time over the sessions that can be read.                 *)
InactiveUserMet(readable) == /\ readable # {}
                             /\ \A u \in readable : idle[u] >= InactiveUserThreshold

ConditionMet(m, list, readable) ==
    CASE NoUsersMet(m, list)         -> "NoUsers"
      [] AllDisconnectedMet(m, list) -> "AllDisconnected"
      [] InactiveUserMet(readable)   -> "InactiveUser"
      [] OTHER                       -> "None"

(* Mutants of Decide: every check in the warning period restarts the       *)
(* countdown; the period ends a tick early.                                *)
DecideRestarting(m, c) ==
    LET kept == [m EXCEPT !.condition = c] IN
    CASE c = "None" ->
           [does |-> "nothing", mon |-> IF m.warnAt = Unset THEN m ELSE ResetWarning(m)]
      [] c = "InactiveUser" /\ WarningPeriod > 0 /\ m.warnAt < WarningPeriod ->
           [does |-> "warn", mon |-> [kept EXCEPT !.warnAt = 0, !.warning = "Active"]]
      [] OTHER ->
           [does |-> "hibernate", mon |-> kept]

DecideEarly(m, c) ==
    LET kept == [m EXCEPT !.condition = c] IN
    CASE c = "None" ->
           [does |-> "nothing", mon |-> IF m.warnAt = Unset THEN m ELSE ResetWarning(m)]
      [] c = "InactiveUser" /\ WarningPeriod > 0 /\ m.warnAt = Unset ->
           [does |-> "warn", mon |-> [kept EXCEPT !.warnAt = 0, !.warning = "Active"]]
      [] c = "InactiveUser" /\ m.warnAt \in 0..(WarningPeriod - 2) ->
           [does |-> "warn", mon |-> kept]
      [] OTHER ->
           [does |-> "hibernate", mon |-> kept]

(* What Check returns (ShouldWarn, ShouldHibernate) and leaves behind once *)
(* the condition is known.                                                 *)
Decide(m, c) ==
    LET kept == [m EXCEPT !.condition = c] IN
    CASE c = "None" ->
           [does |-> "nothing", mon |-> IF m.warnAt = Unset THEN m ELSE ResetWarning(m)]
      [] c = "InactiveUser" /\ WarningPeriod > 0 /\ m.warnAt = Unset ->
           [does |-> "warn", mon |-> [kept EXCEPT !.warnAt = 0, !.warning = "Active"]]
      [] c = "InactiveUser" /\ WarningPeriod > 0 /\ m.warnAt \in 0..(WarningPeriod - 1) ->
           [does |-> "warn", mon |-> kept]
      [] OTHER ->
           [does |-> "hibernate", mon |-> kept]

(* Mutant of CheckResult: a warning that has run out is acted on before it *)
(* is asked whether anybody is back.                                       *)
CheckResultExpiryFirst(list, forCancel, forInactive) ==
    LET seen == [mon EXCEPT !.current = ConnectedIn(list)]
        kept == IF ShouldCancelWarning(seen, list, forCancel) THEN ResetWarning(seen) ELSE seen
    IN  CASE BelowMinimumUptime ->
               [does |-> "nothing", mon |-> seen]
          [] ~BelowMinimumUptime /\ seen.warnAt >= WarningPeriod /\ ConnectedIn(list) # {} ->
               [does |-> "hibernate", mon |-> seen]
          [] OTHER ->
               Decide(RunTimers(kept, list), ConditionMet(kept, list, forInactive))

(* Check, when the sessions can be enumerated.  The early return on        *)
(* minimum uptime leaves timers and warning as they are.                   *)
CheckResult(list, forCancel, forInactive) ==
    LET seen == [mon EXCEPT !.current = ConnectedIn(list)]
        kept == IF ShouldCancelWarning(seen, list, forCancel) THEN ResetWarning(seen) ELSE seen
    IN  IF BelowMinimumUptime
        THEN [does |-> "nothing", mon |-> seen]
        ELSE Decide(RunTimers(kept, list), ConditionMet(kept, list, forInactive))

Answers(list) == {CheckResult(list, r1, r2) : r1, r2 \in Readings(list)}

(* Everything a call of Check may return: an error when the enumeration    *)
(* fails, and then the monitor is not touched.                             *)
CheckResults ==
    (UNION {Answers(list) : list \in Lists})
    \cup IF "enumerate" \in Faults THEN {[does |-> "error", mon |-> mon]} ELSE {}

(* Reset, called before the hibernation request.                           *)
ResetMonitor == [ResetWarning(mon) EXCEPT !.current = {}]

-------------------------------------------------------------------------------
(* GetTimeUntilThresholds: what is left until each enabled condition that  *)
(* is running, never negative; no disabled threshold counts here.          *)
Left(threshold, elapsed) == IF elapsed < threshold THEN threshold - elapsed ELSE 0

If(enabled, S) == IF enabled THEN S ELSE {}

TimesLeft(readable) ==
    {Left(NoUsersThreshold, a) :
        a \in If(NoUsersThreshold > 0, {mon.noUsersSince} \ {Unset})}
    \cup
    {Left(AllDisconnectedThreshold, a) :
        a \in If(AllDisconnectedThreshold > 0, {mon.allDiscSince} \ {Unset})}
    \cup
    {Left(InactiveUserThreshold, Min({idle[u] : u \in r})) :
        r \in If(InactiveUserThreshold > 0, {readable} \ {{}})}

TimeUntilThresholds(readable) ==
    IF TimesLeft(readable) = {} THEN 0 ELSE Min(TimesLeft(readable))

(* It asks again for the idle time of the sessions of the last check, some *)
(* of which may be gone by now.                                            *)
SnapshotReadings == LET there == mon.current \cap Present
                    IN  IF "idle" \in Faults THEN SUBSET there ELSE {there}

-------------------------------------------------------------------------------
(* The monitor on its own: Check, Reset and SetResumeTime called at any    *)
(* time and in any order, among users who do as they please.               *)

MonitorInit == /\ SessionsInit
               /\ mon = NewIdleMonitor
               /\ resumeAge = 0

Check == /\ \E r \in CheckResults : mon' = r.mon
         /\ UNCHANGED <<sessVars, resumeAge>>

Reset == /\ mon' = ResetMonitor
         /\ UNCHANGED <<sessVars, resumeAge>>

SetResumeTime == /\ resumeAge' = 0
                 /\ UNCHANGED <<sessVars, mon>>

AgeMonitor == /\ mon' = [mon EXCEPT !.noUsersSince = OlderOpt(@),
                                    !.allDiscSince = OlderOpt(@),
                                    !.warnAt = OlderOpt(@)]
              /\ resumeAge' = Older(resumeAge)

MonitorTick == AgeSessions /\ AgeMonitor

MonitorUser == UserStep /\ UNCHANGED monVars

MonitorNext == Check \/ Reset \/ SetResumeTime \/ MonitorTick \/ MonitorUser

MonitorSpec == MonitorInit /\ [][MonitorNext]_<<sessVars, monVars>>

-------------------------------------------------------------------------------
(* The warning is one thing: its state, its start and the condition it is  *)
(* about agree, it exists only for an inactive user, and no other          *)
(* countdown runs beside it, whatever fails and whenever Check is called.  *)
Coherent(m) == /\ (m.warning = "Active") <=> (m.warnAt # Unset)
               /\ m.warning = "Active" => /\ WarningPeriod > 0
                                          /\ m.condition = "InactiveUser"
                                          /\ m.noUsersSince = Unset
                                          /\ m.allDiscSince = Unset

WarningCoherent == Coherent(mon)

(* A countdown the users have been told of is never silently restarted: a  *)
(* step leaves its start where it is or drops the warning altogether.      *)
CountdownNeverRestarts ==
    [][mon.warnAt # Unset => mon'.warnAt = Unset \/ mon'.warnAt >= mon.warnAt]_<<sessVars, monVars>>
===============================================================================
