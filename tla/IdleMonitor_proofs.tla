-------------------------- MODULE IdleMonitor_proofs --------------------------
(* What TLAPS proves of the idle monitor, for every configuration. *)
EXTENDS IdleMonitor, WellFoundedInduction, TLAPS

(* The least element of a set of numbers, which the scheduler takes.       *)
LEMMA LeastNatural ==
  ASSUME NEW S, S \subseteq Nat, S # {}
  PROVE  Min(S) \in S /\ \A y \in S : Min(S) <= y
<1>1. \E x \in S : \A y \in S : ~ (<<y, x>> \in OpToRel(<, Nat))
  BY NatLessThanWellFounded, WFMin
<1>2. PICK x \in S : \A y \in S : ~ (<<y, x>> \in OpToRel(<, Nat))
  BY <1>1
<1>3. \A y \in S : ~(y < x)
  BY <1>2 DEF OpToRel
<1>4. \E z \in S : \A y \in S : z =< y
  BY <1>3
<1> QED
  BY <1>4 DEF Min

-------------------------------------------------------------------------------
(* The operators Check is built from keep the type and the coherence of    *)
(* the state they are given.                                               *)

(* Resetting a warning always gives a coherent state.                      *)
LEMMA ResetWarningType ==
  ASSUME NEW m \in MonitorState
  PROVE  ResetWarning(m) \in MonitorState /\ Coherent(ResetWarning(m))
BY DEF ResetWarning, MonitorState, Coherent, Conditions, OptAge, Age, Unset

(* Whoever is connected is listed.                                         *)
LEMMA ConnectedListed ==
  ASSUME NEW list
  PROVE  ConnectedIn(list) # {} => list # {}
BY DEF ConnectedIn

(* The timers leave the warning alone, and stop while a user is connected. *)
LEMMA RunTimersType ==
  ASSUME NEW m \in MonitorState, NEW list
  PROVE  /\ RunTimers(m, list) \in MonitorState
         /\ RunTimers(m, list).warnAt = m.warnAt /\ RunTimers(m, list).warning = m.warning
         /\ RunTimers(m, list).condition = m.condition
         /\ ConnectedIn(list) # {} => RunTimers(m, list).noUsersSince = Unset /\ RunTimers(m, list).allDiscSince = Unset
<1>1. RunTimers(m, list) \in MonitorState
  <2> DEFINE a == IF list # {} THEN Unset
                  ELSE IF m.noUsersSince = Unset THEN 0 ELSE m.noUsersSince
             b == IF ConnectedIn(list) # {} THEN Unset
                  ELSE IF list # {} /\ m.allDiscSince = Unset THEN 0 ELSE m.allDiscSince
  <2>1. a \in OptAge /\ b \in OptAge
    BY HorizonAssumption DEF MonitorState, OptAge, Age, Unset
  <2>2. RunTimers(m, list) = [m EXCEPT !.noUsersSince = a, !.allDiscSince = b]
    BY DEF RunTimers
  <2> HIDE DEF a, b
  <2> QED
    BY <2>1, <2>2 DEF MonitorState
<1>2. ConnectedIn(list) # {} => RunTimers(m, list).noUsersSince = Unset /\ RunTimers(m, list).allDiscSince = Unset
  BY ConnectedListed DEF RunTimers, MonitorState
<1> QED
  BY <1>1, <1>2 DEF RunTimers, MonitorState

(* A condition found to hold agrees with who is logged on, and a timer     *)
(* that has run out never coincides with a warning.                        *)
LEMMA ConditionMetSound ==
  ASSUME NEW m \in MonitorState, Coherent(m), NEW list, NEW readable \in Readings(list)
  PROVE  /\ ConditionMet(m, list, readable) \in Conditions
         /\ ConditionMet(m, list, readable) = "InactiveUser" => ConnectedIn(list) # {}
         /\ ConditionMet(m, list, readable) \in {"NoUsers", "AllDisconnected"} => m.warning # "Active"
BY DEF ConditionMet, Conditions, InactiveUserMet, Readings, ConnectedIn,
       NoUsersMet, AllDisconnectedMet, Coherent

(* The warning period is a number of ticks.                                *)
LEMMA WarningPeriodType == WarningPeriod \in Nat
BY ConfigAssumption, HorizonAssumption

(* Decide, applied to the state after the timers have run.                 *)
LEMMA DecideKeeps ==
  ASSUME NEW m \in MonitorState, Coherent(m), NEW list,
         NEW c \in Conditions, c = "InactiveUser" => ConnectedIn(list) # {},
         c \in {"NoUsers", "AllDisconnected"} => m.warning # "Active"
  PROVE  LET d == Decide(RunTimers(m, list), c)
         IN  d.mon \in MonitorState /\ Coherent(d.mon)
<1> DEFINE t == RunTimers(m, list)
<1>1. /\ t \in MonitorState
      /\ t.warnAt = m.warnAt /\ t.warning = m.warning /\ t.condition = m.condition
      /\ ConnectedIn(list) # {} => t.noUsersSince = Unset /\ t.allDiscSince = Unset
  BY RunTimersType
<1>2. Decide(t, c).mon \in MonitorState /\ Coherent(Decide(t, c).mon)
  <2> HIDE DEF t
  <2> DEFINE kept == [t EXCEPT !.condition = c]
  <2>1. CASE c = "None" /\ t.warnAt = Unset
    BY <1>1, <2>1 DEF Decide, Coherent, MonitorState
  <2>2. CASE c = "None" /\ t.warnAt # Unset
    BY <1>1, <2>2, ResetWarningType DEF Decide
  <2>3. CASE c = "InactiveUser" /\ WarningPeriod > 0 /\ t.warnAt = Unset
    <3>1. Decide(t, c).mon = [kept EXCEPT !.warnAt = 0, !.warning = "Active"]
      BY <2>3, WarningPeriodType DEF Decide, Unset
    <3> QED
      <4>1. 0 \in OptAge /\ 0 # Unset
        BY HorizonAssumption DEF OptAge, Age, Unset
      <4> QED
        BY <1>1, <2>3, <3>1, <4>1 DEF Coherent, MonitorState
  <2>4. CASE c = "InactiveUser" /\ ~ (WarningPeriod > 0 /\ t.warnAt = Unset)
    <3>1. Decide(t, c).mon = kept
      BY <2>4 DEF Decide
    <3> QED
      BY <1>1, <2>4, <3>1 DEF Coherent, MonitorState
  <2>5. CASE c \in {"NoUsers", "AllDisconnected"}
    <3>1. Decide(t, c).mon = kept
      BY <2>5 DEF Decide
    <3> QED
      BY <1>1, <2>5, <3>1 DEF Coherent, MonitorState
  <2> QED
    BY <2>1, <2>2, <2>3, <2>4, <2>5 DEF Conditions
<1> QED
  BY <1>2

(* What Check returns is an error, or the result of one list and two       *)
(* rounds of queries.                                                      *)
LEMMA CheckResultsCases ==
  ASSUME NEW r \in CheckResults
  PROVE  \/ r = [does |-> "error", mon |-> mon]
         \/ \E list \in Lists : \E r1, r2 \in Readings(list) : r = CheckResult(list, r1, r2)
<1>1. r \in UNION {Answers(list) : list \in Lists} \/ r = [does |-> "error", mon |-> mon]
  BY DEF CheckResults
<1>2. CASE r \in UNION {Answers(list) : list \in Lists}
  <2>1. PICK list \in Lists : r \in Answers(list)
    BY <1>2
  <2> QED
    BY <2>1 DEF Answers
<1> QED
  BY <1>1, <1>2

(* Whatever Check returns, the state it leaves is coherent.                *)
LEMMA CheckResultsKeep ==
  ASSUME SessionsTypeOK, MonitorTypeOK, WarningCoherent, NEW r \in CheckResults
  PROVE  r.mon \in MonitorState /\ Coherent(r.mon)
<1>1. CASE r = [does |-> "error", mon |-> mon]
  BY <1>1 DEF MonitorTypeOK, WarningCoherent
<1>2. CASE \E list \in Lists : \E r1, r2 \in Readings(list) : r = CheckResult(list, r1, r2)
  <2>0. PICK list \in Lists : \E r1, r2 \in Readings(list) : r = CheckResult(list, r1, r2)
    BY <1>2
  <2>1. PICK r1 \in Readings(list), r2 \in Readings(list) : r = CheckResult(list, r1, r2)
    BY <2>0
  <2> DEFINE seen == [mon EXCEPT !.current = ConnectedIn(list)]
             kept == IF ShouldCancelWarning(seen, list, r1) THEN ResetWarning(seen) ELSE seen
  <2>2. seen \in MonitorState /\ Coherent(seen)
    BY DEF MonitorTypeOK, MonitorState, WarningCoherent, Coherent, Connected, ConnectedIn
  <2>3. kept \in MonitorState /\ Coherent(kept)
    BY <2>2, ResetWarningType
  <2>4. CASE BelowMinimumUptime
    BY <2>1, <2>2, <2>4 DEF CheckResult
  <2>5. CASE ~ BelowMinimumUptime
    <3>1. r = Decide(RunTimers(kept, list), ConditionMet(kept, list, r2))
      BY <2>1, <2>5 DEF CheckResult
    <3> HIDE DEF kept
    <3> QED
      BY <2>3, <3>1, ConditionMetSound, DecideKeeps
  <2> QED
    BY <2>4, <2>5
<1> QED
  BY <1>1, <1>2, CheckResultsCases

-------------------------------------------------------------------------------
(* Ageing.                                                                 *)

(* Ageing keeps an age an age, and a timer that runs running.              *)
LEMMA OlderType ==
  /\ \A a \in Age : Older(a) \in Age /\ Older(a) >= a
  /\ \A a \in OptAge : /\ OlderOpt(a) \in OptAge
                       /\ OlderOpt(a) >= a
                       /\ OlderOpt(a) = Unset <=> a = Unset
BY HorizonAssumption DEF Older, OlderOpt, OptAge, Age, Unset

(* The passage of time keeps the monitor coherent.                         *)
LEMMA AgeMonitorKeeps ==
  ASSUME MonitorTypeOK, WarningCoherent, AgeMonitor
  PROVE  MonitorTypeOK' /\ WarningCoherent'
<1> DEFINE aged == [mon EXCEPT !.noUsersSince = OlderOpt(@),
                               !.allDiscSince = OlderOpt(@),
                               !.warnAt = OlderOpt(@)]
<1>1. mon' = aged /\ resumeAge' = Older(resumeAge)
  BY DEF AgeMonitor
<1>2. aged \in MonitorState
  BY OlderType DEF MonitorTypeOK, MonitorState
<1>3. Coherent(aged)
  BY OlderType DEF MonitorTypeOK, MonitorState, WarningCoherent, Coherent
<1> QED
  BY <1>1, <1>2, <1>3, OlderType DEF MonitorTypeOK, WarningCoherent, Coherent

(* What the users do keeps the type of their sessions.                     *)
LEMMA UserStepType ==
  ASSUME SessionsTypeOK, UserStep
  PROVE  SessionsTypeOK'
<1>1. PICK u \in Users : Connect(u) \/ Disconnect(u) \/ LogOff(u) \/ Input(u)
  BY DEF UserStep
<1>2. 0 \in Age
  BY HorizonAssumption DEF Age
<1>3. \A state \in SessionStates : Touch(u, state) => SessionsTypeOK'
  BY <1>2 DEF Touch, SessionsTypeOK
<1>4. Disconnect(u) => SessionsTypeOK'
  BY DEF Disconnect, SessionsTypeOK, SessionStates
<1> QED
  BY <1>1, <1>3, <1>4 DEF Connect, LogOff, Input, SessionStates

-------------------------------------------------------------------------------
(* The invariant of the monitor: types and coherence of the warning.  Each *)
(* needs the other: a timer that may be of any value would let a condition *)
(* be met beside an active warning.                                        *)
MonitorInv == SessionsTypeOK /\ MonitorTypeOK /\ WarningCoherent

monitorVars == <<sessVars, monVars>>

(* A new monitor is coherent.                                              *)
LEMMA NewIdleMonitorOK == NewIdleMonitor \in MonitorState /\ Coherent(NewIdleMonitor)
BY DEF NewIdleMonitor, MonitorState, Coherent, Conditions, OptAge, Unset

(* The invariant of the monitor holds initially.                           *)
LEMMA MonitorInitInv == MonitorInit => MonitorInv
<1> SUFFICES ASSUME MonitorInit PROVE MonitorInv
  OBVIOUS
<1>1. 0 \in Age
  BY HorizonAssumption DEF Age
<1> QED
  BY <1>1, NewIdleMonitorOK
  DEF MonitorInit, SessionsInit, MonitorInv, MonitorTypeOK, WarningCoherent

(* Every call of the monitor, and everything the users do, keeps it.       *)
LEMMA MonitorStepInv == MonitorInv /\ [MonitorNext]_monitorVars => MonitorInv'
<1> SUFFICES ASSUME MonitorInv, [MonitorNext]_monitorVars PROVE MonitorInv'
  OBVIOUS
<1> USE DEF MonitorInv
<1>1. CASE Check
  <2>1. PICK r \in CheckResults : mon' = r.mon
    BY <1>1 DEF Check
  <2>2. mon' \in MonitorState /\ Coherent(mon')
    BY <2>1, CheckResultsKeep
  <2> QED
    BY <1>1, <2>2 DEF Check, sessVars, SessionsTypeOK, MonitorTypeOK, WarningCoherent, Coherent
<1>2. CASE Reset
  <2>1. ResetMonitor \in MonitorState /\ Coherent(ResetMonitor)
    BY ResetWarningType DEF ResetMonitor, MonitorTypeOK, MonitorState, Coherent
  <2> QED
    BY <1>2, <2>1 DEF Reset, sessVars, SessionsTypeOK, MonitorTypeOK, WarningCoherent, Coherent
<1>3. CASE SetResumeTime
  BY <1>3, HorizonAssumption
  DEF SetResumeTime, sessVars, SessionsTypeOK, MonitorTypeOK, WarningCoherent, Coherent, Age
<1>4. CASE MonitorTick
  <2>1. SessionsTypeOK'
    BY <1>4, OlderType, HorizonAssumption
    DEF MonitorTick, AgeSessions, SessionsTypeOK, Age
  <2> QED
    BY <1>4, <2>1, AgeMonitorKeeps DEF MonitorTick
<1>5. CASE MonitorUser
  BY <1>5, UserStepType
  DEF MonitorUser, monVars, MonitorTypeOK, WarningCoherent, Coherent
<1>6. CASE UNCHANGED monitorVars
  BY <1>6
  DEF monitorVars, sessVars, monVars, SessionsTypeOK, MonitorTypeOK, WarningCoherent, Coherent
<1> QED
  BY <1>1, <1>2, <1>3, <1>4, <1>5, <1>6 DEF MonitorNext

(* Whoever calls the monitor, and whenever: the state of a warning, its    *)
(* start and its condition agree, and no other countdown runs beside it.   *)
THEOREM MonitorWarningCoherent == MonitorSpec => []WarningCoherent
<1>1. MonitorSpec => []MonitorInv
  BY MonitorInitInv, MonitorStepInv, PTL DEF MonitorSpec, monitorVars
<1>2. MonitorInv => WarningCoherent
  BY DEF MonitorInv
<1> QED
  BY <1>1, <1>2, PTL

(* Every variable of the monitor keeps its type.                           *)
THEOREM MonitorTypeCorrect == MonitorSpec => [](SessionsTypeOK /\ MonitorTypeOK)
<1>1. MonitorSpec => []MonitorInv
  BY MonitorInitInv, MonitorStepInv, PTL DEF MonitorSpec, monitorVars
<1>2. MonitorInv => SessionsTypeOK /\ MonitorTypeOK
  BY DEF MonitorInv
<1> QED
  BY <1>1, <1>2, PTL

-------------------------------------------------------------------------------
(* A countdown the users know of is not restarted.  It takes two           *)
(* assumptions: every connected session can be read, and input recent      *)
(* enough to cancel a warning is too recent to be inactivity, so that a    *)
(* check cannot cancel a warning and issue the next one in one go.         *)

KeepsCountdown == mon'.warnAt = Unset \/ mon'.warnAt >= mon.warnAt

(* A check leaves the start of the countdown where it is or drops the      *)
(* warning.                                                                *)
LEMMA CheckKeepsCountdown ==
  ASSUME "idle" \notin Faults, RecentActivityThreshold <= InactiveUserThreshold,
         MonitorInv, mon.warnAt # Unset,
         NEW r \in CheckResults
  PROVE  r.mon.warnAt \in {Unset, mon.warnAt}
<1> USE DEF MonitorInv
<1>1. CASE r = [does |-> "error", mon |-> mon]
  BY <1>1
<1>2. CASE \E list \in Lists : r = CheckResult(list, ConnectedIn(list), ConnectedIn(list))
  <2>0. PICK list \in Lists : r = CheckResult(list, ConnectedIn(list), ConnectedIn(list))
    BY <1>2
  <2> DEFINE seen == [mon EXCEPT !.current = ConnectedIn(list)]
             kept == IF ShouldCancelWarning(seen, list, ConnectedIn(list)) THEN ResetWarning(seen) ELSE seen
             c == ConditionMet(kept, list, ConnectedIn(list))
  <2>1. /\ seen \in MonitorState /\ Coherent(seen)
        /\ seen.warnAt = mon.warnAt /\ seen.warning = "Active" /\ seen.condition = "InactiveUser"
    BY DEF MonitorTypeOK, MonitorState, WarningCoherent, Coherent, Connected, ConnectedIn
  <2>2. kept \in MonitorState /\ kept.warnAt \in {Unset, mon.warnAt}
    BY <2>1, ResetWarningType DEF ResetWarning, MonitorState
  <2>3. CASE BelowMinimumUptime
    BY <2>0, <2>1, <2>3 DEF CheckResult
  <2>4. CASE ~ BelowMinimumUptime
    <3>1. r = Decide(RunTimers(kept, list), c)
      BY <2>0, <2>4 DEF CheckResult
    <3>2. RunTimers(kept, list) \in MonitorState /\ RunTimers(kept, list).warnAt = kept.warnAt
      BY <2>2, RunTimersType
    <3>3. kept.warnAt = Unset => c # "InactiveUser"
      <4>1. SUFFICES ASSUME kept.warnAt = Unset PROVE ~ InactiveUserMet(ConnectedIn(list))
        BY DEF ConditionMet
      <4>2. ShouldCancelWarning(seen, list, ConnectedIn(list))
        BY <2>1, <4>1
      <4>3. PICK u \in ConnectedIn(list) : idle[u] < RecentActivityThreshold
        BY <2>1, <4>2 DEF ShouldCancelWarning
      <4>4. /\ idle[u] \in Nat
            /\ RecentActivityThreshold \in Nat /\ InactiveUserThreshold \in Nat
        BY ConfigAssumption, HorizonAssumption
        DEF SessionsTypeOK, Age, Connected, ConnectedIn, Thresholds
      <4> QED
        BY <4>3, <4>4 DEF InactiveUserMet
    <3> HIDE DEF c, kept
    <3>4. Decide(RunTimers(kept, list), c).mon.warnAt \in {Unset, kept.warnAt}
      BY <3>2, <3>3, WarningPeriodType DEF Decide, ResetWarning, MonitorState
    <3> QED
      BY <2>2, <3>1, <3>4
  <2> QED
    BY <2>3, <2>4
<1> QED
  BY <1>1, <1>2, CheckResultsCases DEF Readings

(* A countdown is never restarted, when idle times can be read and input   *)
(* young enough to cancel a warning is too young to be inactivity.         *)
THEOREM MonitorCountdown ==
  ASSUME "idle" \notin Faults, RecentActivityThreshold <= InactiveUserThreshold
  PROVE  MonitorSpec => CountdownNeverRestarts
<1>1. MonitorSpec => []MonitorInv
  BY MonitorInitInv, MonitorStepInv, PTL DEF MonitorSpec, monitorVars
<1>2. MonitorInv /\ [MonitorNext]_monitorVars
        => [mon.warnAt # Unset => KeepsCountdown]_monitorVars
  <2> SUFFICES ASSUME MonitorInv, MonitorNext, mon.warnAt # Unset
               PROVE  KeepsCountdown
    OBVIOUS
  <2>0. mon.warnAt \in Int
    BY HorizonAssumption DEF MonitorInv, MonitorTypeOK, MonitorState, OptAge, Age, Unset
  <2>1. CASE Check
    <3>1. PICK r \in CheckResults : mon' = r.mon
      BY <2>1 DEF Check
    <3> QED
      BY <2>0, <3>1, CheckKeepsCountdown DEF KeepsCountdown
  <2>2. CASE Reset
    BY <2>2 DEF Reset, ResetMonitor, ResetWarning, KeepsCountdown,
                MonitorInv, MonitorTypeOK, MonitorState
  <2>3. CASE SetResumeTime \/ MonitorUser
    BY <2>0, <2>3 DEF SetResumeTime, MonitorUser, monVars, KeepsCountdown
  <2>4. CASE MonitorTick
    <3>1. mon'.warnAt = OlderOpt(mon.warnAt)
      BY <2>4 DEF MonitorTick, AgeMonitor, MonitorInv, MonitorTypeOK, MonitorState
    <3> QED
      BY <2>0, <3>1, OlderType DEF KeepsCountdown, MonitorInv, MonitorTypeOK, MonitorState
  <2> QED
    BY <2>1, <2>2, <2>3, <2>4 DEF MonitorNext
<1> QED
  BY <1>1, <1>2, PTL DEF MonitorSpec, CountdownNeverRestarts, KeepsCountdown, monitorVars
===============================================================================
