# A verification development for AzureAutoHibernate

AzureAutoHibernate is a Windows service that hibernates the Azure virtual machine it runs in
when nobody uses it: when nobody is logged on, when everybody is disconnected, or when every
connected user has been inactive. Inactive users are warned first, by a notifier process in
their session, and any input of theirs cancels.

This directory holds TLA+ modules for the parts of the program where order and failure matter,
TLC configurations that check them on small instances, and proofs that TLAPS checks for every
value of the constants. `PROJECT.json` maps every definition to the lines of `src/` it stands
for and lists the runs, the hazards, the findings and the theorems.

## 1. The system

| component | state it keeps | operations | talks to |
|---|---|---|---|
| user sessions (`monitor/session.go`) | none; asks Windows | `GetActiveSessions`, `GetSessionIdleTime` | called by the monitor and the notifier manager |
| idle monitor (`monitor/idle.go`) | `IdleState`: two condition timers, the warning and its start, the sessions last seen; `resumeAt` | `Check`, `Reset`, `SetResumeTime`, `GetTimeUntilThresholds` | called by the loop; `SetResumeTime` from the goroutine of `Execute`, without a lock |
| service (`service/service.go`) | `inWarningMode`, `lastNotificationTime`, the timer of the loop, `stopChan` | `monitorLoop`, `performMonitorCheck`, `checkAndHibernate`, `calculateNextCheckTime`, `Execute`, `handlePowerEvent`, `updateLoop` | monitor, notifier manager, Azure, update client |
| notifier manager (`service/notifier_manager.go`) | the map session → notifier process, `startupNotificationSent`, an RW mutex | `Start`, `Stop`, `checkSessions`, `SendWarning`, `SendCancellation`, `DismissWarning`, `SendInfo` | called by its own `monitorSessions` goroutine, the loop, and `Execute` |
| pipe (`pipe/`) | one mutex per session | `SendCommand`, `Ping` | a named pipe served by the notifier |
| notifier (`notifier/`, `cmd/notifier`) | one process per session, `stopChan` | `listenLoop`, `handleConnection`, `HandleCommand`, toasts, `Stop` | the pipe, PowerShell |
| Azure client (`azure/`) | none | `HibernateVM`, metadata, capability | HTTP |
| configuration (`config/`) | the thresholds | `Load`, `Validate` | read once, when a process starts |
| update client (`updater/`) | a directory with a downloaded release | `CheckForUpdate`, `DownloadUpdate`, `TriggerUpdate` | GitHub; spawns the helper |
| update helper (`cmd/updater`) | the files of the program, their `.old` backups, `config.json` | stop, wait, replace each file, merge, start | Windows service manager, file system |
| installer (`installer/`) | whether the service and its event log source are registered | `Install`, `Uninstall` | Windows service manager, Azure client |
| entry point (`cmd/autohibernate`) | none | dispatch; configuration, metadata, then the service | all of them |
| logger | none | | |

What is hard in it:

* **Two state machines that must agree.** The monitor keeps a warning (`WarningState`,
  `WarningIssuedAt`), the service keeps `inWarningMode`; each is left by its own paths (error,
  refused request, early return on minimum uptime, reset before the request).
* **Time that passes while the loop is blocked**: in a notification, in the request to Azure, in
  a suspension. Clocks count the time the machine was suspended; the power event that tells the
  program may be handled after the loop has run.
* **Requests that are half done**: accepted by Azure while the answer is lost, or accepted and
  carried out only after the loop has gone on.
* **Goroutines on one map**: `monitorSessions` and the loop refresh the notifiers at the same
  time, `checkSessions` calls `SendInfo`, which calls `checkSessions`, and pipe calls are made
  with the lock held.
* **Two processes on one pipe**, either of which may end between any two of the other's calls.
* **A program that replaces itself**: the helper stops its parent, then renames and writes one file
  after the other. It may be cut short anywhere, and what it leaves behind is where the next one starts.
* **Restarts**: of the service, of notifiers, of the machine, of a user's session.

What makes each part correct is stated in section 4; the full list of hazards, each at its line
with the properties that would catch it, is in `PROJECT.json`.

## 2. Modules

```
Sessions            who is logged on, connected, idle; what users do
  └ IdleMonitor     the monitor alone, called by anybody at any time
      └ AutoHibernateService   loop, Execute, virtual machine, Azure      (implements HibernationPromise)
HibernationPromise  what the service promises to users of the machine     (abstract)

NotifierManager     the notifier manager, its goroutines, and notifiers; a pipe call is
                    sent in one step and answered in another
NotifierCalls       what one pipe promises to its callers                 (abstract)
NotifierPipe        SendCommand and the listen loop, call by call         (implements NotifierCalls)

Installation        what updates promise to the owner of a machine        (abstract)
ServiceManager      the installed program as Windows sees it: files, service, entry point
  └ SelfUpdate      update loop, update client, helper, configuration, power failures
      └ Deployment  the same with installer and administrator             (implements Installation)

MC…                 the same for TLC
…_proofs            theorems and proofs, for IdleMonitor, AutoHibernateService (also in
                    WarningPromises_proofs and HibernationPromise_proofs), NotifierManager,
                    NotifierPipe and Deployment
```

The three groups meet at narrow interfaces. The service sees a notification as a call that takes time, returns
nil or an error, and was or was not seen (`Deliveries`), and this is what NotifierManager's calls do; NotifierManager takes for
one step (`Answered`) what NotifierPipe does in eight; to SelfUpdate the service is a process that
the service manager starts and that stops when told to, or not in time (`"slow"`), which is what `Stop` of
NotifierManager does under a hung notifier.

Operators named "Mutant of …" are plausible mistakes in the code, kept beside the definition they
distort. No specification uses them; `PROJECT.json` says which property each of them breaks.

### Sessions and time
A user is one session. `sess[u]` is what Windows reports, `idle[u]` the time since the last
input. There is no clock: every moment the code stores (`NoUsersSince`, `WarningIssuedAt`,
`lastNotificationTime`, `resumeAt`) is kept as its age in ticks, and ages saturate at `Horizon`.
`Horizon` is larger than every threshold (`ConfigAssumption`), so a saturated age compares with
every threshold as the real one would. One tick stands for the warning poll of five seconds; the
minutes of the configuration are scaled to a few ticks, keeping their order.

### IdleMonitor
`mon` is `IdleState`. `CheckResult` follows `Check` in the code's order: record the sessions,
cancel a warning on activity (`ShouldCancelWarning`), return early below the minimum uptime, run the timers,
find the condition, decide (`Decide`). `Check` takes milliseconds and is one step, but it asks for the
list of sessions, which silently leaves out a session whose user name cannot be read (`Lists`, fault
`"hide"`), and twice for the idle times, either of which may fail for any session (`Readings`): what it was told is its
argument. `EffectiveUptime` is the time since `resumeAt` alone: the code takes the minimum of
that and `GetTickCount64`, and the service is created and resumed after the system boots.
`MonitorSpec` lets anybody call the monitor at any time. It is not a promise of the service, which could hardly break it; it
is what the theorems of IdleMonitor_proofs are about, so that they hold under every caller.
Left out: `LastActivityTime` and `WarningReason`, which no decision reads, and a failing
`GetTickCount64`.

### AutoHibernateService
The loop is a program with a control state `pc`: `check` → (`warn` | `reset` → `hibernate` → `answer` |
`dismiss` → `cancel`) → `schedule` → `wait`. The call of `HibernateVM` is two states, before and after Azure
has taken the request, so that one call makes one request. What does not block is one step and takes no time: no
tick passes while the loop can run. Calls that block are states of their own, in which at most
`MaxSend` or `MaxCall` ticks pass. `CheckEnds` is `performMonitorCheck` after
`checkAndHibernate` has returned and is shared by every path that returns. `Execute` is `ctl`,
`StopRequested`, `ProcessExits` (wherever the loop is: the service waits two seconds, not for the
loop), `ServiceStarts`, `HandlePowerEvent`. The machine is `vm` and `upFor`, Azure is `azure`, and
`told` is a history variable: what the users were last shown, `"nothing"` after a resume.

`Faults` selects what may go wrong, so that a run can say under which faults a promise holds:
enumeration errors, hidden sessions, unreadable idle times, notifications that fail or arrive without the caller knowing, refused requests,
lost answers (`late`), Azure taking its time (`slow`), foreign suspensions, power events after the
loop has run (`lateEvent`), restarts. Without `lateEvent` a power event is handled before the loop runs;
without `slow` the machine suspends before the next tick after the request is accepted; without
`late` not while the call is under way. `resumeAt` is read and written without synchronisation; it is
one machine word, so a reader sees the old or the new pointer, and either is a state in which the event
has or has not been handled.
Left out: the recovery from a panic.

### HibernationPromise
The service without a loop, a monitor or a request: the sessions, the machine, what was shown, the age of the warning
(`countdown`), and whether the machine may be suspended (`leaving`). A warning is announced only to users who are all inactive and
taken back only for activity; the machine may be left (`MayLeave`) when nobody is connected, when users are not to be
warned, or when the warning has run its period, is what they were last shown, and nobody has touched anything since; it is
suspended once for each time it may be left, and not while it may not. In the refinement `countdown` is the
monitor's `WarningIssuedAt` until the decision, and `leaving` lasts from the decision until Azure has suspended the machine or the
request has failed. `MayRestart` allows what a restart takes back (`Forget`).

### NotifierManager
Two goroutines work in the manager, `startup` (`monitorSessions`) and `loop`; `go[t]` is what each is
doing: a label, a stack of at most two calls (a Send method or `checkSessions`, and a `SendInfo`
in it), and the locals of `checkSessions`. `writer` and `readers` are the RW mutex; the mutex of a pipe is the condition of `SendCommand`. One step is what happens between two points where another goroutine or process can
interfere: reading the session list, taking the lock, each session of the loop, each pipe call.
A notifier process is `serving`, `deaf` (runs without serving its pipe), `hung` (takes a command
and does not answer) or `dead`. Opening a pipe that is not there fails after five seconds, which here is an answer that may come at
any time; reading the answer has no timeout, and from a hung notifier none comes. Process
identifiers are reused. `infos[s]` counts the startup messages shown in a session, up to two. What the Send methods
return is left to the service's view.
Left out: formatting of the messages, and the privilege `Start` asks for, which decides
`NotifierPresent` in the service.

### NotifierCalls and NotifierPipe
`NotifierPipe` is one session's pipe. Each member of `Calls` is a call of `SendCommand`, made at most once;
`Messages` are those whose command is a toast. `call[c]` is where the call is and its end of the pipe,
`notifier[n]` the listen loop of a notifier and the instance of the pipe it has created. The steps are the system
calls: `Open`, `Write`, `Read`, `Broken` (the other end is closed) on one side, `Listen`, `Accept`, `Receive`,
`ClientGone`, `HandleCommand`, `Answer` on the other. What they assume of Windows: an instance serves the
one client that opens it, also before `ConnectNamedPipe`; what was written can still be read after the
writer has closed its end; `ConnectNamedPipe` fails when the client has come and gone
(`ERROR_NO_DATA`); a dead process closes its handles. More than one notifier may serve a session's pipe, because a
service that is killed leaves its notifiers behind. PowerShell may fail before or after the toast is on the
screen (`Toasts`). An answer that does not fit into the buffer carries the output of
PowerShell and status "error", so failing to unmarshal it is the same error. The deadline may be over whenever no
instance is listening. A notifier that hangs is not in this module, see NotifierManager.

`NotifierCalls` has neither pipes nor processes: calls are sent one at a time, a toast is shown at most once and only
while its call lasts (or after the service that sent it has ended), a call that succeeds has shown its toast.
The refinement maps the states of a call inside of `SendCommand` to "sending".

### Installation, ServiceManager, SelfUpdate and Deployment
`file[f]` is what is on disk: a release, `Absent`, or `Partial` (created and not completely written). Files are numbered in the order of
`os.ReadDir`, which sorts by name, so that the main program comes after the other programs. `config` is the text of
`config.json` (absent, torn, with a typo, rejected by `Validate`, valid) and where the value of each setting comes
from. `upd` is the helper: which step it is at, which file, and the merged configuration in its memory. Every file operation
is a step of its own: `RemoveBackup`, `RenameFile`, `CreateFile`, `CopyFile`, `ReadConfigs`, `DropSaved`, `SaveConfig`,
`TruncateConfig`, `WriteConfig`. `MachineRestarts` ends everything between any two of them. `loop` is
`checkAndApplyUpdate`, which asks GitHub twice. `inst` is the installer between any two of its calls. `choices` and
`spoiled` are history variables.

What is assumed: automatic updates are on; a release is not withdrawn; a release in which
`Shipped[r]` is empty stands for one without a `config.json`; what was written before a power failure is on the disk. The program of the running helper can be renamed but not written (`InUse`).
There is one helper at a time: it ends within about eleven minutes of being spawned (three attempts to stop, ten minutes of
waiting), and the loop checks every hour at most; an administrator who restarts the service
during the wait could make it overlap with the check one minute after the start, which is left out.

`Installation` has a version, whether it is up, and its settings: the version does not go back, a setting keeps its value, a version that comes
up has every setting it needs. In the refinement the settings change when the helper has merged them, and until they are
written they are in its memory.

## 3. Faithfulness notes

* `Reset` is called *before* `HibernateVM`, and its effect stays when the request fails.
* A threshold of zero is passed to `Check` as it is; only `GetTimeUntilThresholds` and
  `calculateNextCheckTime` treat zero as disabled. The model does as the code does.
* `CheckEnds` with an accepted request leaves warning mode without a message, any other way of
  leaving it dismisses and cancels, also when nobody acted.
* `Stop` of the manager waits for `monitorSessions` and for the lock, not for the loop.
* `Stop` of a notifier closes a channel that its loop looks at only between two connections: without a
  connection it waits for the next one. `StopEndsWithTheConnection` says what is left of "Stop stops the pipe client".
* A failure to remove or rename a backup is not looked at by the helper, which goes on; a failure to copy ends it,
  with the service stopped; a failure to start the service is only logged.
* An existing configuration that cannot be parsed is replaced without a backup; so is one that is absent.
* `updatePending` is written and never read, so it is not in the model.

## 4. Runs

All runs check deadlock. Configurations keep the order of the default thresholds and differ in size.

| run | instance | shows |
|---|---|---|
| `service` | 2 users, horizon 8; requests refused or their answers lost, restarts | `WarningIsPolled`, `CountsFromResume` (no timer and no warning is older than the resume of the machine), `WarnedBeforeHibernation` (connected users are hibernated only after a full warning that is the last thing they saw), `NoInputSinceWarning`, `CanceledForActivity`, `RepeatsAreThrottled`, `CountdownNeverRestarts`, `KeepsPromise` (it implements `HibernationPromise`) |
| `service_faults` | 1 user, horizon 6, every fault, sends of up to 2 ticks | `TypeOK`, `WarningCoherent` (the four fields of a warning agree, no timer runs beside it), `FastPollingMeansWarning`, `UptimeNotOverstated`, `MinimumUptimeAfterEvent` |
| `service_live` | 1 user, horizon 4, slow Azure, late events, fairness | `EmptyMachineHibernates`, `LeftMachineHibernates`, `IdleMachineHibernates`, `ActivityIsAnswered` |
| `notifier_manager` | 2 sessions, 2 processes, notifiers that hang | `TypeOK`, `NoStrays`, `StartupShownOnce`, `NoCircularWait`, `NotStoppedWhileServing` |
| `notifier_live` | 1 session, 2 processes, every fault but hanging, fairness | `CallsReturn`, `StopCompletes` |
| `pipe` | a message and a ping, 2 notifiers, every fault, fairness | `TypeOK`, `DeliversInOrder` (it implements `NotifierCalls`), `CallReturns`, `ListensAgain`, `StopEndsWithTheConnection` |
| `update` | 4 releases, 4 files, 2 settings; stops and downloads fail, the user edits; fairness | `KeepsPromise` (it implements `Installation`), `ReplacedOnlyWhileStopped`, `ServiceReturns`, `UpdateArrives` |
| `update_faults` | 2 releases, 2 files, 1 setting, every fault | `TypeOK`, `HelpersNotOlder`, `ChoicesKept`, `RegisteredHasSource` |

Two users are enough for what one session does to another (one active, one idle, one
disconnected); every threshold is crossed in both directions below the horizon; two sessions and two
goroutines give every interleaving of two refreshes, a nested `SendInfo` and a pipe call; two
processes let an identifier be reused. The thresholds in `service` are all different and larger than the
intervals, so a timer can fire early, on time and late. Two calls show what one does to the other's answer, and
two notifiers what an orphan does; three calls pass as well and take too long for a routine run. In `update` four releases let an update be
superseded while it is found, downloaded and applied, and four files put one before, between and behind the two programs that matter. In `update_faults` the helper's program
and the main program are the two files whose order matters, and a second release is what is mixed with the first.

**Fairness.** The loop and the goroutine of `Execute` are scheduled (weak fairness), time goes on,
Azure answers a pending request; a suspension that Azure has accepted is carried out (strong
fairness, since Azure does not wait for the program to be in a particular state). In the manager
each goroutine has strong fairness, because a Go mutex does not starve a waiter, and so has
`Stop`. At the pipe each goroutine runs (weak), the mutex of `SendCommand` does not starve (strong, for `Begin`), and
neither PowerShell nor `CreateNamedPipe` fails to return or fails for ever (weak, for the listen loop). In the deployment
the service's process, its update loop and the helper run (weak); a stop request and a download that may fail do not
fail every time (strong). Nothing is assumed of users, of administrators, of GitHub, of whoever stops or suspends, nor that anybody makes a call or starts a notifier.

**Runs that find a disagreement.** Four runs check one sentence each of a document, a comment or a
test, and TLC finds it violated:

| run | sentence | what happens |
|---|---|---|
| `zero_threshold` | a threshold of 0 is disabled (`idle_test.go:497`) | a connected user is warned and hibernated with `inactiveUserIdleMinutes = 0` |
| `blind_check` | warning period, then hibernation (`README.md:273`) | one failed enumeration cancels the warning for the users and not for the monitor, whose countdown goes on |
| `hung_notifier` | graceful degradation without notifiers (`CHANGELOG.md:154`) | an unanswered command blocks the loop for ever |
| `update_abort` | fails safely, restarts the service (`README.md:244`, `248`) | a service that is slow to stop is given up, and stays stopped when it has stopped |

Other things the models show, for which no run is kept: a request that Azure refuses makes the loop tell users that
hibernation was canceled "due to user activity" (`RequestMayFail` in `CanceledForActivity`); when Azure takes longer than a check to
carry out a request it has accepted (the fault `slow`), the loop goes on and starts timers and warnings again, so that the reset of
`service.go:325` ("This ensures clean state when VM resumes from hibernation") does not, and `CountsFromResume` and `KeepsPromise` fail; a check between a resume and its power event may decide within the minimum uptime (the
exception in `MinimumUptimeAfterEvent`); `SendWarning` returns nil when the notifier of a session could not be started;
a power failure between the replacement of the main program and that of `config.json` starts the new program with the old settings, and nothing adds the new ones
until the next release; a helper cut short while it replaces its own program leaves a machine that cannot update itself any more;
a check of the monitor loop that is under way when `Stop` runs starts a notifier after `Stop` has ended them all, and the service exits without
it (`notifier_manager.go:111`: "Stop stops the notifier manager and all notifier processes"); a user who reconnects and leaves again between two
checks does not stop the timer of "all users disconnected for threshold duration" (`idle.go:239`), and is hibernated on that of the first
disconnection.

## 5. Proofs

Everything below holds for every number of users, sessions, processes, calls, releases, files and settings, every configuration that
`config.Validate` accepts, and every set of faults unless a theorem says otherwise. The assumptions are the named `ASSUME`s of the modules, which TLC evaluates in
every run.

* **IdleMonitor_proofs.** The inductive invariant is `MonitorTypeOK ∧ WarningCoherent` (with the type of the
  sessions). The argument is that `Decide` starts a warning only for `InactiveUser`, which needs a
  connected session on the list, and then the timers have just been cleared by the same check.
  `MonitorCountdown` needs two assumptions: idle times can be read, and
  `RecentActivityThreshold ≤ InactiveUserThreshold`. Otherwise a check may drop a warning on one
  answer and start a new one on the other. A hidden session does not disturb it.
* **AutoHibernateService_proofs.** What holds of the monitor under every caller holds inside the service (the lemma `ServiceImplementsMonitor`:
  every step is one call of the monitor or a stutter, a restart being `Reset`, its state that of a new monitor). The invariant of the service is `TypeOK ∧ WarningCoherent ∧ ModeAgrees ∧
  UptimeNotOverstated`. `FastPollingMeansWarning` speaks of the loop asleep and is not inductive:
  `ModeAgrees` carries it from the check that reports a warning through `warn` and `schedule` to the next
  check. `MinimumUptimeAfterEvent` follows from `UptimeNotOverstated` and the early return of `Check`.
  `TypeOK` needs that the scheduler's minimum is a number below the horizon, hence the lemmas on `Min`.
* **WarningPromises_proofs.** What the users are promised does not hold whatever fails, so each theorem names what must not fail;
  the section below says what happens otherwise. All of them rest on `LoopInv` (the invariant above with `ModeInv`: a process that is
  gone leaves nothing behind, a call to the notifiers returns in time) and on lemmas that read off a check what it has seen.
  `RepeatsAreThrottled` needs that the time of the last notification is known while warning mode lasts (`SentInv`). `WarningIsPolled` needs that
  the loop is in warning mode whenever the monitor's warning is active (`PolledInv`), the converse of `ModeAgrees`; a check
  reports nothing with a warning still there only below the minimum uptime, so no warning may be younger than that (`UptimeOut`). This is
  clear without a minimum uptime; with one, `SuspendInv` shows that no warning is there from the request to the resume.
  `WarnedBeforeHibernation` adds that in warning mode the warning is what was shown last (`ToldInv`). `NoInputSinceWarning` bounds the time since
  the last check at every control state (`SinceCheck`): input that is younger than the warning is younger than that check (`InputInv`),
  and if that is too young to be overlooked (`SeenInTime`), the next check sees it. `CountsFromResume` needs `CleanInv`: from the
  request to the resume nothing is counted, because `Reset` leaves nothing and the only check that may come in between, that of a new process, is
  below the minimum uptime. It has weaker assumptions than the others (`SuspendsAtRequest`: also with events that come late, and with every
  query failing).
* **HibernationPromise_proofs.** `ServiceKeepsPromise` is the refinement. Each action of the service is one step of the promise or a
  stutter (`CheckPromise`, `StepPromise`): a check announces, cancels, leaves or does nothing, with the guards of the promise supplied by the lemmas
  about checks and the invariants above; `OnceInv` says that the loop is not on its way to a request while one is accepted, or it would
  suspend the machine twice for one decision.
* **NotifierManager_proofs.** The invariant says that control states and mutex agree (`LockInv`), that a
  goroutine inside of the manager has a call to return to (`FramesInv`), and that a nested call
  exists only after the startup flag is set (`NestedOnce`), which bounds the stack. `NoStrays` is then
  inductive: an entry is replaced only when its process is dead, and stopping deletes entry and
  process together. `NotStoppedWhileServing` and `NoCircularWait` follow from the lock. `StartupShownOnce` needs the
  further invariant `GreetedOnce`: there is at most one greeting `SendInfo`, and it has shown nothing
  in the sessions it still has to visit.
* **NotifierPipe_proofs.** `PipeDeliversInOrder` is the refinement of `NotifierCalls`. Its invariant `PipeInv` says that the two ends of
  an open instance point at each other (`EndsMeet`), which states an instance can be in at each point of the loop
  (`InstanceInv`), that a command in a notifier's hand was written by a call that is still reading or was cut short by the end of the service
  (`RequestInv`, `WrittenInv`), that its toast has not been shown before it is handled (`ToastInv`), and that an
  answer "ok" means a toast shown (`AnswerInv`). A call that is answered has therefore shown its toast, and a call that fails because
  the other end was closed has no notifier left that could show it later.
* **Deployment_proofs.** `HelpersNotOlder` needs to know which files the helper has replaced already (`AtItsFile`, `OrderInv`): those before the
  current one have the helper's release, and the main program is never newer than that release or than one that is being fetched. `ChoicesKept`
  needs where the choices are at each step of the merge (`ChoicesInv`: in the merged configuration, in the backup, or
  still in place). `RegisteredHasSource` needs `SourceInv` for the installer's steps.
  `DeploymentReplacedOnlyWhileStopped` needs that, once the helper is past its wait, the service is stopped and no installer runs (`DownInv`);
  it assumes that no administrator acts meanwhile, which nothing in the helper prevents.
  `DeploymentKeepsPromise` is the refinement of `Installation`, under the faults it tolerates (`Tolerated`): its invariant says that versions
  only go forward (`ForwardInv`), that the main program is of the helper's release once the helper has gone through the files
  (`ReplacedInv`), and that `config.json` parses except while it is rewritten, with a merged configuration that has every setting of
  the release (`ConfigInv`).

**What the promises of the service assume.** The hypotheses of the eight theorems about them, and what happens without:

| hypothesis | needed by | otherwise |
|---|---|---|
| sessions can be enumerated | all but `RepeatsAreThrottled`, `CountdownNeverRestarts`, `CountsFromResume` | a check that fails leaves warning mode and not the warning (run `blind_check`) |
| no session is hidden, idle times can be read | `CanceledForActivity`, `NoInputSinceWarning`, `KeepsPromise` (hidden: also `WarnedBeforeHibernation`; idle times: also `CountdownNeverRestarts`) | a warning is canceled although everybody is inactive, or not canceled by input that was not seen |
| notifications arrive | `RepeatsAreThrottled`, `WarnedBeforeHibernation`, `KeepsPromise` | users are hibernated unwarned; a failed call that was seen is repeated at once |
| there are notifiers (`NotifierPresent`) | `WarnedBeforeHibernation`, `KeepsPromise` | nobody can be warned |
| `AtRequest`: nobody else suspends the machine, Azure does so at once, the loop does not run ahead of the power event of a resume (if there is a minimum uptime) or is not restarted (if there is none) | `WarnedBeforeHibernation`, `NoInputSinceWarning`, `KeepsPromise`; with a minimum uptime also `WarningIsPolled` and `CanceledForActivity`; `CountsFromResume` needs it without the part about the power event | a warning outlives a suspension: its toast is gone, its countdown is not; below the minimum uptime it is not polled |
| `SeenInTime`: `MaxSend + WarningCheckInterval` is less than the recent-activity or the inactivity threshold | `NoInputSinceWarning`, `KeepsPromise` | input right after one check is no longer recent at the next. The code has 5 seconds between checks, 30 seconds of recent activity and minutes of inactivity, and up to 5 seconds for each session to which a message cannot be sent |
| `RecentActivityThreshold ≤ InactiveUserThreshold` | `CountdownNeverRestarts`, `KeepsPromise` | a check may drop a warning and issue a new one at once. `Validate` does not ask for it, but the first is 30 seconds and the second a number of minutes |

The faults a theorem does not name may all happen. `MCService.cfg` is an instance of all eight.

Only model-checked: the liveness properties (`ServiceReturns`, `UpdateArrives`, `CallReturns`, `ListensAgain`, `StopEndsWithTheConnection`, those of
`service_live` and `notifier_live`): the provers have no fairness and no `ENABLED`. Every safety property of a passing run is proved.

## 6. What is left

In this order:

1. **NotifierManager over NotifierPipe**: that `Answered` is what a call of NotifierPipe ends in, as a refinement.
2. **Pure functions**: `FormatTimeRemaining`, against a reference definition.

**Not modelled.** Logging (`logger.go`, `notifier/logger.go`), the texts and the layout of messages and toasts, the headers, tokens and JSON of the HTTP
requests, command line parsing, `-version` and `-check-update`: output or input without a state that the rest of the
program depends on. The panic handler of the loop. What an archive contains (`extractZip`): a download either is a
release or fails.
