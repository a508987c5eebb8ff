------------------------------- MODULE Deployment -------------------------------
(***************************************************************************)
(* The service, its updates and its administrator: SelfUpdate composed     *)
(* with the installer (internal/installer/installer.go), which registers   *)
(* and removes the service that the updater stops and starts.              *)
(***************************************************************************)
EXTENDS SelfUpdate

VARIABLES inst,   \* what the installer is doing
          source  \* the event log source is registered

vars == <<updateVars, inst, source>>

InstallerPcs == {"none",
                 "test", "register", "create", "launch",      \* Install
                 "query", "await", "delete", "unregister"}    \* Uninstall

TypeOK ==
    /\ SelfUpdateTypeOK
    /\ inst \in InstallerPcs
    /\ source \in BOOLEAN

Init == SelfUpdateInit /\ inst = "none" /\ source = TRUE

installerOnly == <<latest, loop, upd, diskVars, historyVars>>

-------------------------------------------------------------------------------
(* Install and Uninstall, run one at a time.  Any of their calls of the    *)
(* service manager may fail, which ends them.                              *)
Begins(pc) ==
    /\ "admin" \in UpdateFaults
    /\ inst = "none"
    /\ Complete(file[MainFile])
    /\ inst' = pc
    /\ UNCHANGED <<updateVars, source>>

InstallerFails ==
    /\ \/ inst = "test" /\ "metadata" \in UpdateFaults
       \/ inst \in {"register", "create", "query", "await", "delete"}
             /\ "query" \in UpdateFaults
       \/ inst \in {"create", "launch"} /\ "start" \in UpdateFaults
       \/ inst = "query" /\ "stop" \in UpdateFaults
       \/ inst = "create" /\ registered # "no"
       \/ inst = "launch" /\ ~CanLaunch
       \/ inst = "query" /\ (registered = "no" \/ svc \in {"starting", "stopping"})
       \/ inst = "await" /\ svc # "stopped" /\ "slow" \in UpdateFaults
       \/ inst = "delete" /\ registered # "yes"
    /\ inst' = "none"
    /\ UNCHANGED <<updateVars, source>>

(* testAzureCapabilities.                                                  *)
CapabilityTested ==
    /\ inst = "test"
    /\ inst' = "register"
    /\ UNCHANGED <<updateVars, source>>

(* A source that is there already is no error.                             *)
RegisterSource ==
    /\ inst = "register"
    /\ source' = TRUE
    /\ inst' = "create"
    /\ UNCHANGED updateVars

CreateService ==
    /\ inst = "create" /\ registered = "no"
    /\ registered' = "yes"
    /\ inst' = "launch"
    /\ UNCHANGED <<svc, exe, installerOnly, source>>

LaunchService ==
    /\ inst = "launch"
    /\ Launch
    /\ inst' = "none"
    /\ UNCHANGED <<installerOnly, source>>

(* Mutant of QueryStatus: the source is removed first.                     *)
QueryStatusUnregistered ==
    /\ inst = "query" /\ registered # "no"
    /\ \/ svc = "stopped" /\ inst' = "delete" /\ UNCHANGED managerVars
       \/ Stop /\ inst' = "await"
    /\ source' = FALSE
    /\ UNCHANGED installerOnly

(* A service that is stopped already is not stopped again.                 *)
QueryStatus ==
    /\ inst = "query" /\ registered # "no"
    /\ \/ svc = "stopped" /\ inst' = "delete" /\ UNCHANGED managerVars
       \/ Stop /\ inst' = "await"
    /\ UNCHANGED <<installerOnly, source>>

StopAwaited ==
    /\ inst = "await" /\ svc = "stopped"
    /\ inst' = "delete"
    /\ UNCHANGED <<updateVars, source>>

(* A service whose process runs is marked, and gone with the process.      *)
DeleteService ==
    /\ inst = "delete" /\ registered = "yes"
    /\ registered' = IF svc = "stopped" THEN "no" ELSE "deleting"
    /\ inst' = "unregister"
    /\ UNCHANGED <<svc, exe, installerOnly, source>>

(* A failure to remove the source is only a warning.                       *)
RemoveSource ==
    /\ inst = "unregister"
    /\ source' = FALSE \/ ("query" \in UpdateFaults /\ UNCHANGED source)
    /\ inst' = "none"
    /\ UNCHANGED updateVars

Installer == \/ Begins("test") \/ Begins("query") \/ InstallerFails
             \/ CapabilityTested \/ RegisterSource \/ CreateService \/ LaunchService
             \/ QueryStatus \/ StopAwaited \/ DeleteService \/ RemoveSource

(* The administrator stops or starts the service by hand.                  *)
ByHand ==
    /\ "admin" \in UpdateFaults
    /\ Stop \/ Launch
    /\ UNCHANGED <<installerOnly, inst, source>>

-------------------------------------------------------------------------------
UpdateLoop == CheckForUpdate \/ DownloadUpdate \/ DownloadFails \/ TriggerUpdate

Updater == \/ StopService \/ StopServiceFails \/ ServiceIsStopped \/ WaitGivesUp
           \/ RemoveBackup \/ RenameFile \/ CreateFile \/ CopyFile \/ CopyFails
           \/ ReadConfigs \/ DropSaved \/ SaveConfig
           \/ TruncateConfig \/ WriteConfig \/ MergeFails
           \/ StartService \/ StartServiceFails

Process == ServiceRuns \/ ServiceEnds

Next == \/ /\ UpdateLoop \/ Updater \/ Process \/ ReleasePublished \/ UserEdits
           /\ UNCHANGED <<inst, source>>
        \/ /\ MachineRestarts
           /\ inst' = "none" /\ UNCHANGED source
        \/ Installer
        \/ ByHand

Spec == Init /\ [][Next]_vars

(* The machine runs the processes that are there; requests that may fail   *)
(* do not fail every time.  The administrator and the user do nothing.     *)
helperSucceeds ==
    \/ ServiceIsStopped \/ RemoveBackup \/ RenameFile \/ CreateFile \/ CopyFile
    \/ ReadConfigs \/ DropSaved \/ SaveConfig \/ TruncateConfig \/ WriteConfig \/ StartService

Fairness ==
    /\ WF_vars(Process /\ UNCHANGED <<inst, source>>)
    /\ WF_vars(CheckForUpdate /\ UNCHANGED <<inst, source>>)
    /\ SF_vars(DownloadUpdate /\ UNCHANGED <<inst, source>>)
    /\ WF_vars(TriggerUpdate /\ UNCHANGED <<inst, source>>)
    /\ SF_vars(StopService /\ UNCHANGED <<inst, source>>)
    /\ WF_vars((StopService \/ StopServiceFails) /\ UNCHANGED <<inst, source>>)
    /\ WF_vars(helperSucceeds /\ UNCHANGED <<inst, source>>)

FairSpec == Spec /\ Fairness

-------------------------------------------------------------------------------
(* No file is replaced under a service that runs (waitForServiceStop).     *)
ReplacedOnlyWhileStopped == [][file' # file => svc = "stopped"]_vars

(* A service that is stopped for an update runs again (startService).      *)
ServiceReturns == svc # "running" ~> svc = "running"

(* A release that is published ends up running (updateLoop).               *)
UpdateArrives ==
    \A r \in Releases : (latest >= r) ~> (svc = "running" /\ exe >= r)

(* A service that is registered has its event log source: it is registered *)
(* after the source and removed before it (Install, Uninstall).            *)
RegisteredHasSource == registered = "yes" => source

(* The updates keep the promise of Installation.  The settings change when *)
(* the helper has merged them; until they are written they are in its      *)
(* memory only.                                                            *)
Promise == INSTANCE Installation WITH
    Versions <- Releases, Settings <- Keys, Brings <- Shipped,
    version <- exe,
    up <- svc \in {"starting", "running"},
    setting <- IF upd.pc \in Merging THEN upd.merged.value ELSE config.value

KeepsPromise == Promise!Spec
===============================================================================
