------------------------------- MODULE SelfUpdate -------------------------------
(***************************************************************************)
(* How a running service replaces itself: the update loop of the service   *)
(* (service.go, internal/updater/updater.go), the helper it spawns         *)
(* (cmd/updater/main.go), and the disk they leave behind when either is    *)
(* cut short.                                                              *)
(*                                                                         *)
(* The helper stops the service, waits, renames and replaces one file      *)
(* after the other, merges config.json, starts the service.  Every file    *)
(* operation is a step of its own.  What is on disk survives a restart of  *)
(* the machine, a half written file as half written.                       *)
(*                                                                         *)
(* There is one helper at a time: it ends within eleven minutes of being   *)
(* spawned, and the loop checks every hour at most.                        *)
(***************************************************************************)
EXTENDS ServiceManager

VARIABLES latest,   \* the newest release on GitHub
          loop,     \* what the update loop of the service is doing
          upd,      \* the helper
          backup,   \* backup[f]: the file f.old
          saved,    \* config.json.old
          choices,  \* history: the settings the user has changed
          spoiled   \* history: a backup of config.json failed, or an edit was broken or too late

diskVars == <<file, backup, config, saved>>
historyVars == <<choices, spoiled>>
updateVars == <<managerVars, latest, loop, upd, diskVars, historyVars>>

(* "idle" until the next check, then with the release that was found or    *)
(* downloaded.                                                             *)
Loop == [pc : {"idle", "download", "trigger"}, release : Releases]

(* The steps of the helper in the order of main; next is the file it is    *)
(* at, merged the configuration it will write.                             *)
HelperPcs == {"none", "stop", "wait",
              "remove", "rename", "create", "copy",
              "read", "drop", "save", "truncate", "write",
              "start"}
Replacing == {"remove", "rename", "create", "copy"}
Merging == {"drop", "save", "truncate", "write"}

MaxStopAttempts == 3

Helper == [pc : HelperPcs, release : Releases, tries : 0 .. MaxStopAttempts - 1,
           next : 1 .. NumFiles + 1, merged : Configs]

NoHelper == [pc |-> "none", release |-> 1, tries |-> 0, next |-> 1, merged |-> NoConfig]

SelfUpdateTypeOK ==
    /\ ManagerTypeOK
    /\ latest \in Releases
    /\ loop \in Loop
    /\ upd \in Helper
    /\ backup \in [Files -> Content]
    /\ saved \in Configs
    /\ choices \subseteq Keys /\ spoiled \in BOOLEAN

Asleep == [pc |-> "idle", release |-> 1]

SelfUpdateInit ==
    /\ ManagerInit
    /\ latest = 1
    /\ loop = Asleep
    /\ upd = NoHelper
    /\ backup = [f \in Files |-> Absent]
    /\ saved = NoConfig
    /\ choices = {} /\ spoiled = FALSE

-------------------------------------------------------------------------------
(* updateLoop and checkAndApplyUpdate.                                     *)

(* The loop dies with its process, not with the request to stop.           *)
LoopLives == svc \in {"running", "stopping"}

(* Mutant of CheckForUpdate: only the next release is recognised.          *)
CheckForNextRelease ==
    /\ svc = "running" /\ loop.pc = "idle" /\ upd.pc = "none"
    /\ latest = exe + 1
    /\ loop' = [pc |-> "download", release |-> latest]
    /\ UNCHANGED <<managerVars, latest, upd, diskVars, historyVars>>

(* A check that fails or finds nothing changes nothing.                    *)
CheckForUpdate ==
    /\ svc = "running" /\ loop.pc = "idle" /\ upd.pc = "none"
    /\ exe < latest
    /\ loop' = [pc |-> "download", release |-> latest]
    /\ UNCHANGED <<managerVars, latest, upd, diskVars, historyVars>>

(* DownloadUpdate asks again, so it may fetch a later release.             *)
DownloadUpdate ==
    /\ LoopLives /\ loop.pc = "download"
    /\ loop' = [pc |-> "trigger", release |-> latest]
    /\ UNCHANGED <<managerVars, latest, upd, diskVars, historyVars>>

DownloadFails ==
    /\ LoopLives /\ loop.pc = "download"
    /\ "network" \in UpdateFaults
    /\ loop' = Asleep
    /\ UNCHANGED <<managerVars, latest, upd, diskVars, historyVars>>

(* TriggerUpdate: the helper must be there to be spawned.                  *)
TriggerUpdate ==
    /\ LoopLives /\ loop.pc = "trigger"
    /\ loop' = Asleep
    /\ upd' = IF Complete(file[UpdaterFile])
              THEN [NoHelper EXCEPT !.pc = "stop", !.release = loop.release]
              ELSE upd
    /\ UNCHANGED <<managerVars, latest, diskVars, historyVars>>

-------------------------------------------------------------------------------
(* The helper.                                                             *)
Goes(pc) == upd' = [upd EXCEPT !.pc = pc]

(* log.Fatal, or the end of main.                                          *)
HelperEnds == upd' = NoHelper

StopService ==
    /\ upd.pc = "stop"
    /\ Stop
    /\ Goes("wait")
    /\ UNCHANGED <<latest, loop, diskVars, historyVars>>

(* Mutant of StopServiceFails: one attempt too many.                       *)
StopServiceFailsOnceMore ==
    /\ upd.pc = "stop"
    /\ ~AcceptsStop \/ "stop" \in UpdateFaults
    /\ IF upd.tries < MaxStopAttempts THEN upd' = [upd EXCEPT !.tries = @ + 1]
                                      ELSE HelperEnds
    /\ UNCHANGED <<managerVars, latest, loop, diskVars, historyVars>>

StopServiceFails ==
    /\ upd.pc = "stop"
    /\ ~AcceptsStop \/ "stop" \in UpdateFaults
    /\ IF upd.tries + 1 < MaxStopAttempts THEN upd' = [upd EXCEPT !.tries = @ + 1]
                                          ELSE HelperEnds
    /\ UNCHANGED <<managerVars, latest, loop, diskVars, historyVars>>

(* Mutant of ServiceIsStopped: the request was sent, that is enough.       *)
ServiceIsStopping ==
    /\ upd.pc = "wait" /\ registered # "no" /\ svc \in {"stopping", "stopped"}
    /\ Goes("remove")
    /\ UNCHANGED <<managerVars, latest, loop, diskVars, historyVars>>

(* waitForServiceStop.                                                     *)
ServiceIsStopped ==
    /\ upd.pc = "wait" /\ registered # "no" /\ svc = "stopped"
    /\ Goes("remove")
    /\ UNCHANGED <<managerVars, latest, loop, diskVars, historyVars>>

WaitGivesUp ==
    /\ upd.pc = "wait"
    /\ \/ registered = "no"
       \/ "query" \in UpdateFaults
       \/ svc # "stopped" /\ "slow" \in UpdateFaults
    /\ HelperEnds
    /\ UNCHANGED <<managerVars, latest, loop, diskVars, historyVars>>

-------------------------------------------------------------------------------
(* applyUpdate, for the file upd.next.                                     *)
Replaced(f, content) == file' = [file EXCEPT ![f] = content]
BackedUp(f, content) == backup' = [backup EXCEPT ![f] = content]

(* Nothing to back up, or the backup of an earlier update goes first;      *)
(* a failure is not looked at.                                             *)
RemoveBackup ==
    /\ upd.pc = "remove"
    /\ IF file[upd.next] = Absent
       THEN Goes("create") /\ UNCHANGED backup
       ELSE /\ Goes("rename")
            /\ \/ BackedUp(upd.next, Absent)
               \/ "rename" \in UpdateFaults /\ UNCHANGED backup
    /\ UNCHANGED <<managerVars, latest, loop, file, config, saved, historyVars>>

RenameFile ==
    /\ upd.pc = "rename"
    /\ Goes("create")
    /\ \/ BackedUp(upd.next, file[upd.next]) /\ Replaced(upd.next, Absent)
       \/ "rename" \in UpdateFaults /\ UNCHANGED <<file, backup>>
    /\ UNCHANGED <<managerVars, latest, loop, config, saved, historyVars>>

(* copyFile.  The program the helper runs from can be renamed, but if that *)
(* failed it is in use and cannot be created anew.                         *)
InUse(f) == f = UpdaterFile /\ file[f] # Absent

CreateFile ==
    /\ upd.pc = "create" /\ ~InUse(upd.next)
    /\ Replaced(upd.next, Partial)
    /\ Goes("copy")
    /\ UNCHANGED <<managerVars, latest, loop, backup, config, saved, historyVars>>

CopyFile ==
    /\ upd.pc = "copy"
    /\ Replaced(upd.next, upd.release)
    /\ upd' = [upd EXCEPT !.pc = IF upd.next < NumFiles THEN "remove" ELSE "read", !.next = @ + 1]
    /\ UNCHANGED <<managerVars, latest, loop, backup, config, saved, historyVars>>

(* Mutant of CopyFails: a file that cannot be copied is skipped.           *)
CopySkipped ==
    /\ upd.pc \in {"create", "copy"}
    /\ "copy" \in UpdateFaults
    /\ upd' = [upd EXCEPT !.pc = IF upd.next < NumFiles THEN "remove" ELSE "read", !.next = @ + 1]
    /\ UNCHANGED <<managerVars, latest, loop, diskVars, historyVars>>

(* Either the file cannot be opened, or the data do not all arrive.        *)
CopyFails ==
    /\ \/ upd.pc = "create" /\ InUse(upd.next)
       \/ upd.pc \in {"create", "copy"} /\ "copy" \in UpdateFaults
    /\ HelperEnds
    /\ UNCHANGED <<managerVars, latest, loop, diskVars, historyVars>>

-------------------------------------------------------------------------------
(* mergeConfigFile.                                                        *)

(* Mutant of Merge: what exists is overwritten.                            *)
MergeOver(existing, r) ==
    IF Parses(existing)
    THEN [existing EXCEPT !.value = [k \in Keys |-> IF k \in Shipped[r] THEN "shipped" ELSE @[k]]]
    ELSE ShippedConfig(r)

(* What exists is kept, what is new is added; a configuration that is not  *)
(* there or does not parse is not merged but replaced.                     *)
Merge(existing, r) ==
    IF Parses(existing)
    THEN [existing EXCEPT !.value = [k \in Keys |->
             IF @[k] = "none" /\ k \in Shipped[r] THEN "shipped" ELSE @[k]]]
    ELSE ShippedConfig(r)

(* A release without settings stands for one without a config.json.        *)
ReadConfigs ==
    /\ upd.pc = "read"
    /\ IF Shipped[upd.release] = {}
       THEN Goes("start") /\ UNCHANGED spoiled
       ELSE /\ upd' = [upd EXCEPT !.pc = IF Parses(config) THEN "drop" ELSE "truncate",
                                  !.merged = Merge(config, upd.release)]
            /\ spoiled' = (spoiled \/ config.text = "typo")
    /\ UNCHANGED <<managerVars, latest, loop, diskVars, choices>>

DropSaved ==
    /\ upd.pc = "drop"
    /\ Goes("save")
    /\ saved' = NoConfig \/ ("rename" \in UpdateFaults /\ UNCHANGED saved)
    /\ UNCHANGED <<managerVars, latest, loop, file, backup, config, historyVars>>

(* Mutant of SaveConfig: the file is written over where it is.             *)
SaveConfigNowhere ==
    /\ upd.pc = "save"
    /\ Goes("truncate")
    /\ UNCHANGED <<managerVars, latest, loop, diskVars, historyVars>>

SaveConfig ==
    /\ upd.pc = "save"
    /\ Goes("truncate")
    /\ \/ saved' = config /\ config' = NoConfig /\ UNCHANGED spoiled
       \/ "rename" \in UpdateFaults /\ spoiled' = TRUE /\ UNCHANGED <<saved, config>>
    /\ UNCHANGED <<managerVars, latest, loop, file, backup, choices>>

(* os.WriteFile truncates, then writes.                                    *)
TruncateConfig ==
    /\ upd.pc = "truncate"
    /\ config' = [NoConfig EXCEPT !.text = "torn"]
    /\ Goes("write")
    /\ UNCHANGED <<managerVars, latest, loop, file, backup, saved, historyVars>>

(* Mutant of WriteConfig: the helper ends with the merge.                  *)
WriteConfigLast ==
    /\ upd.pc = "write"
    /\ config' = upd.merged
    /\ HelperEnds
    /\ UNCHANGED <<managerVars, latest, loop, file, backup, saved, historyVars>>

WriteConfig ==
    /\ upd.pc = "write"
    /\ config' = upd.merged
    /\ Goes("start")
    /\ UNCHANGED <<managerVars, latest, loop, file, backup, saved, historyVars>>

MergeFails ==
    /\ upd.pc \in {"read", "truncate", "write"}
    /\ "merge" \in UpdateFaults
    /\ HelperEnds
    /\ spoiled' = (spoiled \/ upd.pc # "read")
    /\ UNCHANGED <<managerVars, latest, loop, diskVars, choices>>

-------------------------------------------------------------------------------
(* startService, then the directory of the download is removed.            *)
StartService ==
    /\ upd.pc = "start"
    /\ Launch
    /\ HelperEnds
    /\ UNCHANGED <<latest, loop, diskVars, historyVars>>

StartServiceFails ==
    /\ upd.pc = "start"
    /\ ~CanLaunch \/ "start" \in UpdateFaults
    /\ HelperEnds
    /\ UNCHANGED <<managerVars, latest, loop, diskVars, historyVars>>

-------------------------------------------------------------------------------
(* The service and its process.                                            *)
ServiceRuns ==
    /\ EntryPoint
    /\ UNCHANGED <<latest, loop, upd, diskVars, historyVars>>

ServiceEnds ==
    /\ EntryPointFails \/ ServiceStops
    /\ loop' = Asleep
    /\ UNCHANGED <<latest, upd, diskVars, historyVars>>

-------------------------------------------------------------------------------
(* The world.                                                              *)
ReleasePublished ==
    /\ latest < MaxRelease
    /\ latest' = latest + 1
    /\ UNCHANGED <<managerVars, loop, upd, diskVars, historyVars>>

(* The user saves config.json from an editor.                              *)
UserEdits ==
    /\ "edit" \in UpdateFaults
    /\ Readable(config)
    /\ upd.pc \in Merging => "race" \in UpdateFaults
    /\ \E k \in Keys, text \in {"valid", "rejected", "typo"} :
          /\ text # "valid" => "typo" \in UpdateFaults
          /\ config' = [config EXCEPT !.text = text, !.value[k] = "chosen"]
          /\ choices' = choices \cup {k}
    /\ spoiled' = (spoiled \/ upd.pc \in Merging)
    /\ UNCHANGED <<managerVars, latest, loop, upd, file, backup, saved>>

(* The machine restarts and Windows starts the service, which is automatic. *)
MachineRestarts ==
    /\ "power" \in UpdateFaults
    /\ IF registered = "yes" /\ Complete(file[MainFile])
       THEN svc' = "starting" /\ exe' = file[MainFile] /\ UNCHANGED registered
       ELSE svc' = "stopped" /\ UNCHANGED exe
            /\ registered' = IF registered = "deleting" THEN "no" ELSE registered
    /\ loop' = Asleep
    /\ HelperEnds
    /\ UNCHANGED <<latest, diskVars, historyVars>>

-------------------------------------------------------------------------------
(* Whatever was cut short, a program of the service is never beside a      *)
(* helper program of an earlier release: AzureAutoHibernate.exe sorts      *)
(* behind the others and is replaced after them, so a service that finds   *)
(* itself outdated updates them again (ReadDir order in applyUpdate).      *)
HelpersNotOlder ==
    \A f \in 1 .. MainFile - 1 :
       Complete(file[MainFile]) /\ Complete(file[f]) => file[f] >= file[MainFile]

(* What the user has set is in config.json or in config.json.old, in a     *)
(* file one can read, at every moment of every update: unless the file     *)
(* could not be renamed or written, did not parse when the helper read it, *)
(* or was saved while it was being merged (mergeConfigFile).               *)
HasChoices(c) == Readable(c) /\ \A k \in choices : c.value[k] = "chosen"

ChoicesKept == spoiled \/ HasChoices(config) \/ HasChoices(saved)
===============================================================================
