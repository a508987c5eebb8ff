---------------------------- MODULE Deployment_proofs ----------------------------
(***************************************************************************)
(* Proofs about the service, its updates and its administrator.            *)
(***************************************************************************)
EXTENDS Deployment, TLAPS

(* Every step of the helper keeps its record a helper.                     *)
LEMMA HelperSteps ==
    /\ NoHelper \in Helper
    /\ upd \in Helper => \A pc \in HelperPcs : [upd EXCEPT !.pc = pc] \in Helper
<1>1. NoHelper \in Helper
  BY ReleaseAssumption DEF NoHelper, Helper, HelperPcs, NoConfig, Configs, Texts, Origins, MaxStopAttempts, Releases, Files
<1>2. ASSUME upd \in Helper, NEW pc \in HelperPcs
      PROVE  [upd EXCEPT !.pc = pc] \in Helper
  BY <1>2 DEF Helper
<1> QED  BY <1>1, <1>2

(* What the release ships and what comes of merging are configurations.    *)
LEMMA ConfigsAre ==
    /\ NoConfig \in Configs
    /\ \A r \in Releases : ShippedConfig(r) \in Configs
    /\ \A c \in Configs, r \in Releases : Merge(c, r) \in Configs
<1>1. NoConfig \in Configs
  BY DEF NoConfig, Configs, Texts, Origins
<1>2. ASSUME NEW r \in Releases PROVE ShippedConfig(r) \in Configs
  BY DEF ShippedConfig, Configs, Texts, Origins
<1>3. ASSUME NEW c \in Configs, NEW r \in Releases PROVE Merge(c, r) \in Configs
  <2>1. CASE Parses(c)
    <3> DEFINE v == [k \in Keys |-> IF c.value[k] = "none" /\ k \in Shipped[r]
                                   THEN "shipped" ELSE c.value[k]]
    <3>1. c.text \in Texts /\ c.value \in [Keys -> Origins]
      BY DEF Configs
    <3>2. v \in [Keys -> Origins]
      BY <3>1 DEF Origins
    <3>3. Merge(c, r) = [c EXCEPT !.value = v]
      BY <2>1 DEF Merge
    <3> HIDE DEF v
    <3> QED  BY <3>1, <3>2, <3>3 DEF Configs
  <2>2. CASE ~Parses(c)
    BY <1>2, <2>2 DEF Merge
  <2> QED  BY <2>1, <2>2
<1> QED  BY <1>1, <1>2, <1>3

-------------------------------------------------------------------------------
(* Type correctness.                                                       *)
LEMMA InitTypeOK == Init => TypeOK
<1> SUFFICES ASSUME Init PROVE TypeOK
  OBVIOUS
<1> USE DEF Init, SelfUpdateInit, ManagerInit
<1>1. 1 \in Releases
  BY ReleaseAssumption DEF Releases
<1>2. ManagerTypeOK
  BY <1>1, ConfigsAre DEF ManagerTypeOK, Content
<1>3. upd \in Helper /\ saved \in Configs /\ backup \in [Files -> Content] /\ loop \in Loop
  BY <1>1, ConfigsAre, HelperSteps DEF Content, Loop, Asleep
<1> QED  BY <1>1, <1>2, <1>3 DEF TypeOK, SelfUpdateTypeOK, InstallerPcs

(* The part of the type invariant that a step of the service manager can   *)
(* disturb.                                                                *)
LEMMA ManagerSteps ==
    ASSUME TypeOK, Launch \/ Stop \/ EntryPoint \/ EntryPointFails \/ ServiceStops
    PROVE  /\ registered' \in {"no", "yes", "deleting"}
           /\ svc' \in {"stopped", "starting", "running", "stopping"}
           /\ exe' \in Releases
  BY DEF TypeOK, SelfUpdateTypeOK, ManagerTypeOK, Launch, CanLaunch, Complete, Stop,
         EntryPoint, EntryPointFails, ServiceStops, ProcessGone

LEMMA LoopTypeOK == ASSUME TypeOK, UpdateLoop, UNCHANGED <<inst, source>> PROVE TypeOK'
<1> USE DEF TypeOK, SelfUpdateTypeOK, ManagerTypeOK, managerVars, diskVars, historyVars, Loop
<1>1. CASE CheckForUpdate
  BY <1>1 DEF CheckForUpdate
<1>2. CASE DownloadUpdate
  BY <1>2 DEF DownloadUpdate
<1>3. CASE DownloadFails
  BY <1>3, ReleaseAssumption DEF DownloadFails, Asleep, Releases
<1>4. CASE TriggerUpdate
  <2>1. loop' \in Loop /\ loop.release \in Releases
    BY <1>4, ReleaseAssumption DEF TriggerUpdate, Asleep, Releases
  <2>2. upd' \in Helper
    BY <1>4, <2>1, HelperSteps DEF TriggerUpdate, Helper, HelperPcs
  <2> QED  BY <1>4, <2>1, <2>2 DEF TriggerUpdate
<1> QED  BY <1>1, <1>2, <1>3, <1>4 DEF UpdateLoop

(* The helper starts at the first file and replaces files of the release.  *)
AtItsFile == /\ upd.pc \in {"none", "stop", "wait"} => upd.next = 1
             /\ upd.pc \in Replacing => upd.next \in Files

LEMMA HelperTypeOK == ASSUME TypeOK, AtItsFile, Updater, UNCHANGED <<inst, source>> PROVE TypeOK'
<1> USE DEF TypeOK, SelfUpdateTypeOK, ManagerTypeOK, managerVars, diskVars, historyVars
<1>0. /\ Goes("wait") \/ Goes("remove") \/ Goes("create") \/ Goes("rename") \/ Goes("copy")
           \/ Goes("save") \/ Goes("truncate") \/ Goes("write") \/ Goes("start") \/ HelperEnds
         => upd' \in Helper
      /\ Absent \in Content /\ Partial \in Content /\ upd.release \in Releases
      /\ \A r \in Releases : r \in Content
  BY HelperSteps DEF Goes, HelperEnds, HelperPcs, Content, Helper
<1>1. CASE StopService
  BY <1>0, <1>1, ManagerSteps DEF StopService
<1>2. CASE StopServiceFails
  <2>1. upd' \in Helper
    BY <1>0, <1>2 DEF StopServiceFails, Helper, MaxStopAttempts
  <2> QED  BY <1>2, <2>1 DEF StopServiceFails
<1>3. CASE ServiceIsStopped
  BY <1>0, <1>3 DEF ServiceIsStopped
<1>4. CASE WaitGivesUp
  BY <1>0, <1>4 DEF WaitGivesUp
<1>5. CASE RemoveBackup
  BY <1>0, <1>5 DEF RemoveBackup, BackedUp
<1>6. CASE RenameFile
  <2>1. file' \in [Files -> Content]
    BY <1>0, <1>6 DEF RenameFile, Replaced
  <2>2. backup' \in [Files -> Content]
    <3>1. CASE upd.next \in Files
      <4>1. file[upd.next] \in Content
        BY <3>1
      <4> QED  BY <1>6, <4>1 DEF RenameFile, BackedUp
    <3>2. CASE upd.next \notin Files
      BY <1>6, <3>2 DEF RenameFile, BackedUp
    <3> QED  BY <3>1, <3>2
  <2> QED  BY <1>0, <1>6, <2>1, <2>2 DEF RenameFile
<1>7. CASE CreateFile
  BY <1>0, <1>7 DEF CreateFile, Replaced
<1>8. CASE CopyFile
  <2>1. upd.next \in Files
    BY <1>8 DEF CopyFile, AtItsFile, Replacing
  <2>2. upd.next + 1 \in 1 .. NumFiles + 1
    BY <2>1, ReleaseAssumption DEF Files
  <2>3. upd' \in Helper
    BY <1>8, <2>2 DEF CopyFile, Helper, HelperPcs
  <2> QED  BY <1>0, <1>8, <2>3 DEF CopyFile, Replaced
<1>9. CASE CopyFails
  BY <1>0, <1>9 DEF CopyFails
<1>10. CASE ReadConfigs
  <2>1. upd' \in Helper
    <3>1. Merge(config, upd.release) \in Configs
      BY <1>0, ConfigsAre
    <3>2. CASE Shipped[upd.release] = {}
      BY <1>0, <1>10, <3>2 DEF ReadConfigs
    <3>3. CASE Shipped[upd.release] # {}
      <4> DEFINE pc == IF Parses(config) THEN "drop" ELSE "truncate"
      <4>1. upd' = [upd EXCEPT !.pc = pc, !.merged = Merge(config, upd.release)] /\ pc \in HelperPcs
        BY <1>10, <3>3 DEF ReadConfigs, HelperPcs
      <4> HIDE DEF pc
      <4> QED  BY <3>1, <4>1 DEF Helper
    <3> QED  BY <3>2, <3>3
  <2>2. spoiled' \in BOOLEAN
    BY <1>10 DEF ReadConfigs
  <2> QED  BY <1>10, <2>1, <2>2 DEF ReadConfigs
<1>11. CASE DropSaved
  BY <1>0, <1>11, ConfigsAre DEF DropSaved
<1>12. CASE SaveConfig
  BY <1>0, <1>12, ConfigsAre DEF SaveConfig
<1>13. CASE TruncateConfig
  <2>1. config' \in Configs
    BY <1>13, ConfigsAre DEF TruncateConfig, Configs, Texts
  <2> QED  BY <1>0, <1>13, <2>1 DEF TruncateConfig
<1>14. CASE WriteConfig
  <2>1. config' \in Configs
    BY <1>14 DEF WriteConfig, Helper
  <2> QED  BY <1>0, <1>14, <2>1 DEF WriteConfig
<1>15. CASE MergeFails
  BY <1>0, <1>15 DEF MergeFails
<1>16. CASE StartService
  BY <1>0, <1>16, ManagerSteps DEF StartService
<1>17. CASE StartServiceFails
  BY <1>0, <1>17 DEF StartServiceFails
<1> QED
  BY <1>1, <1>2, <1>3, <1>4, <1>5, <1>6, <1>7, <1>8, <1>9, <1>10, <1>11, <1>12, <1>13,
     <1>14, <1>15, <1>16, <1>17 DEF Updater

LEMMA InstallerTypeOK == ASSUME TypeOK, Installer PROVE TypeOK'
<1> USE DEF TypeOK, SelfUpdateTypeOK, ManagerTypeOK, managerVars, diskVars, historyVars,
            updateVars, installerOnly, InstallerPcs
<1>1. CASE Begins("test") \/ Begins("query") \/ InstallerFails
  BY <1>1 DEF Begins, InstallerFails
<1>2. CASE CapabilityTested \/ RegisterSource \/ RemoveSource \/ StopAwaited
  BY <1>2 DEF CapabilityTested, RegisterSource, RemoveSource, StopAwaited
<1>3. CASE CreateService \/ DeleteService
  BY <1>3 DEF CreateService, DeleteService
<1>4. CASE LaunchService
  BY <1>4, ManagerSteps DEF LaunchService
<1>5. CASE QueryStatus
  BY <1>5, ManagerSteps DEF QueryStatus
<1> QED  BY <1>1, <1>2, <1>3, <1>4, <1>5 DEF Installer

(* What the user, Windows, GitHub and the administrator by hand do.        *)
LEMMA WorldTypeOK ==
    ASSUME TypeOK,
           \/ (Process \/ ReleasePublished \/ UserEdits) /\ UNCHANGED <<inst, source>>
           \/ MachineRestarts /\ inst' = "none" /\ UNCHANGED source
           \/ ByHand
    PROVE  TypeOK'
<1> USE DEF TypeOK, SelfUpdateTypeOK, ManagerTypeOK, managerVars, diskVars, historyVars
<1>1. CASE ServiceRuns /\ UNCHANGED <<inst, source>>
  BY <1>1, ManagerSteps DEF ServiceRuns
<1>2. CASE ServiceEnds /\ UNCHANGED <<inst, source>>
  <2>1. loop' \in Loop
    BY <1>2, ReleaseAssumption DEF ServiceEnds, Asleep, Loop, Releases
  <2> QED  BY <1>2, <2>1, ManagerSteps DEF ServiceEnds
<1>3. CASE ReleasePublished /\ UNCHANGED <<inst, source>>
  BY <1>3, ReleaseAssumption DEF ReleasePublished, Releases
<1>4. CASE UserEdits /\ UNCHANGED <<inst, source>>
  <2>1. PICK k \in Keys, text \in {"valid", "rejected", "typo"} :
           config' = [config EXCEPT !.text = text, !.value[k] = "chosen"] /\ choices' = choices \cup {k}
    BY <1>4 DEF UserEdits
  <2>2. config' \in Configs
    <3>1. config.value \in [Keys -> Origins] /\ config.text \in Texts
      BY DEF Configs
    <3>2. [config.value EXCEPT ![k] = "chosen"] \in [Keys -> Origins]
      BY <3>1 DEF Origins
    <3> QED  BY <2>1, <3>1, <3>2 DEF Configs, Texts
  <2> QED  BY <1>4, <2>1, <2>2 DEF UserEdits
<1>5. CASE MachineRestarts /\ inst' = "none" /\ UNCHANGED source
  <2>1. loop' \in Loop /\ upd' \in Helper
    BY <1>5, ReleaseAssumption, HelperSteps DEF MachineRestarts, HelperEnds, Asleep, Loop, Releases
  <2> QED  BY <1>5, <2>1 DEF MachineRestarts, Complete, InstallerPcs
<1>6. CASE ByHand
  BY <1>6, ManagerSteps DEF ByHand, installerOnly
<1> QED  BY <1>1, <1>2, <1>3, <1>4, <1>5, <1>6 DEF Process

LEMMA NextTypeOK == TypeOK /\ AtItsFile /\ [Next]_vars => TypeOK'
<1> SUFFICES ASSUME TypeOK, AtItsFile, [Next]_vars PROVE TypeOK'
  OBVIOUS
<1>1. CASE UpdateLoop /\ UNCHANGED <<inst, source>>
  BY <1>1, LoopTypeOK
<1>2. CASE Updater /\ UNCHANGED <<inst, source>>
  BY <1>2, HelperTypeOK
<1>3. CASE Installer
  BY <1>3, InstallerTypeOK
<1>4. CASE UNCHANGED vars
  BY <1>4 DEF vars, updateVars, managerVars, diskVars, historyVars, TypeOK, SelfUpdateTypeOK, ManagerTypeOK
<1> QED  BY <1>1, <1>2, <1>3, <1>4, WorldTypeOK DEF Next

LEMMA NextAtItsFile == TypeOK /\ AtItsFile /\ [Next]_vars => AtItsFile'
<1> SUFFICES ASSUME TypeOK, AtItsFile, [Next]_vars PROVE AtItsFile'
  OBVIOUS
<1> USE DEF AtItsFile, Replacing, managerVars, diskVars, historyVars
<1>0. /\ upd \in Helper /\ 1 \in Files
      /\ HelperEnds => AtItsFile'
  BY ReleaseAssumption DEF TypeOK, SelfUpdateTypeOK, Files, HelperEnds, NoHelper
<1>1. CASE UNCHANGED upd
  BY <1>1
<1>2. CASE TriggerUpdate
  BY <1>2 DEF TriggerUpdate, NoHelper
<1>3. CASE StopServiceFails
  BY <1>0, <1>3 DEF StopServiceFails, Helper
<1>4. CASE CopyFile
  <2>1. upd.next \in Files /\ upd' = [upd EXCEPT !.pc = IF upd.next < NumFiles THEN "remove" ELSE "read", !.next = @ + 1]
    BY <1>4 DEF CopyFile
  <2>2. CASE upd.next < NumFiles
    <3>1. upd.next + 1 \in Files
      BY <2>1, <2>2, ReleaseAssumption DEF Files
    <3> QED  BY <1>0, <2>1, <2>2, <3>1 DEF Helper
  <2>3. CASE ~(upd.next < NumFiles)
    BY <1>0, <2>1, <2>3 DEF Helper
  <2> QED  BY <2>2, <2>3
<1>5. CASE ReadConfigs
  BY <1>0, <1>5 DEF ReadConfigs, Helper, Goes
<1>6. CASE StopService \/ ServiceIsStopped \/ RemoveBackup \/ RenameFile \/ CreateFile
           \/ DropSaved \/ SaveConfig \/ TruncateConfig \/ WriteConfig
  BY <1>0, <1>6 DEF StopService, ServiceIsStopped, RemoveBackup, RenameFile, CreateFile,
                   DropSaved, SaveConfig, TruncateConfig, WriteConfig, Goes, Helper
<1>7. CASE WaitGivesUp \/ CopyFails \/ MergeFails \/ StartService \/ StartServiceFails \/ MachineRestarts
  BY <1>0, <1>7 DEF WaitGivesUp, CopyFails, MergeFails, StartService, StartServiceFails, MachineRestarts
<1>8. UNCHANGED vars \/ Installer \/ ByHand \/ Process \/ ReleasePublished \/ UserEdits
         \/ CheckForUpdate \/ DownloadUpdate \/ DownloadFails => UNCHANGED upd
  BY DEF vars, updateVars, Installer, Begins, InstallerFails, CapabilityTested, RegisterSource,
         CreateService, LaunchService, QueryStatus, StopAwaited, DeleteService, RemoveSource,
         installerOnly, ByHand, Process, ServiceRuns, ServiceEnds, ReleasePublished, UserEdits,
         CheckForUpdate, DownloadUpdate, DownloadFails
<1> QED
  BY <1>1, <1>2, <1>3, <1>4, <1>5, <1>6, <1>7, <1>8 DEF Next, Updater, UpdateLoop

(* Every variable keeps its type whatever fails, the attempts of the       *)
(* helper to stop the service being at most three among them.              *)
THEOREM DeploymentTypeCorrect == Spec => []TypeOK
<1>1. Init => TypeOK /\ AtItsFile
  BY InitTypeOK DEF Init, SelfUpdateInit, NoHelper, AtItsFile, Replacing
<1>2. TypeOK /\ AtItsFile /\ [Next]_vars => (TypeOK /\ AtItsFile)'
  BY NextTypeOK, NextAtItsFile
<1> QED  BY <1>1, <1>2, PTL DEF Spec

(* What the steps that concern neither helper nor loop leave alone.        *)
LEMMA OthersLeave ==
    ASSUME UNCHANGED vars \/ Installer \/ ByHand \/ Process \/ ReleasePublished \/ UserEdits
    PROVE  /\ UNCHANGED <<upd, file, backup, saved>>
           /\ UNCHANGED loop \/ loop' = Asleep
  BY DEF vars, updateVars, diskVars, Installer, Begins, InstallerFails, CapabilityTested, RegisterSource,
         CreateService, LaunchService, QueryStatus, StopAwaited, DeleteService, RemoveSource,
         installerOnly, ByHand, Process, ServiceRuns, ServiceEnds, ReleasePublished, UserEdits

-------------------------------------------------------------------------------
(* Programs of the service and helper programs.                            *)
NoNewerThan(r) == Complete(file[MainFile]) => file[MainFile] <= r

(* Nothing that is fetched or installed is older than what is there; one   *)
(* helper at a time; what the helper has replaced is replaced.             *)
OrderInv == /\ NoNewerThan(latest)
            /\ loop.pc = "trigger" => NoNewerThan(loop.release) /\ loop.release <= latest
            /\ upd.pc # "none" => NoNewerThan(upd.release) /\ upd.release <= latest
            /\ loop.pc # "idle" => upd.pc = "none"
            /\ upd.pc \in Replacing => \A f \in 1 .. upd.next - 1 : file[f] = upd.release
            /\ HelpersNotOlder

LEMMA InitOrder == Init => OrderInv
<1> SUFFICES ASSUME Init PROVE OrderInv
  OBVIOUS
<1>1. file = [f \in Files |-> 1] /\ latest = 1 /\ MainFile \in Files /\ MainFile \in Nat
  BY ReleaseAssumption DEF Init, SelfUpdateInit, ManagerInit, Files
<1>2. \A f \in 1 .. MainFile - 1 : f \in Files
  BY ReleaseAssumption DEF Files
<1>3. loop.pc = "idle" /\ upd.pc = "none"
  BY DEF Init, SelfUpdateInit, Asleep, NoHelper
<1> QED  BY <1>1, <1>2, <1>3 DEF OrderInv, NoNewerThan, HelpersNotOlder, Replacing

LEMMA NextOrder == TypeOK /\ AtItsFile /\ OrderInv /\ [Next]_vars => OrderInv'
<1> SUFFICES ASSUME TypeOK, AtItsFile, OrderInv, [Next]_vars PROVE OrderInv'
  OBVIOUS
<1> USE DEF OrderInv, NoNewerThan, HelpersNotOlder, Replacing, managerVars, diskVars, historyVars
<1>0. /\ upd \in Helper /\ file \in [Files -> Content] /\ latest \in Releases /\ loop \in Loop
      /\ MainFile \in Files /\ \A f \in Files : f \in Nat
      /\ \A r \in Releases : r \in Nat
      /\ ~Complete(Absent) /\ ~Complete(Partial)
  BY ReleaseAssumption DEF TypeOK, SelfUpdateTypeOK, ManagerTypeOK, Files, Releases, Complete, Absent, Partial
<1>1. CASE UNCHANGED vars \/ Installer \/ ByHand \/ Process \/ UserEdits
  <2>1. UNCHANGED <<upd, file, latest>> /\ (UNCHANGED loop \/ loop' = Asleep)
    BY <1>1, OthersLeave DEF vars, updateVars, Installer, Begins, InstallerFails, CapabilityTested,
       RegisterSource, CreateService, LaunchService, QueryStatus, StopAwaited, DeleteService,
       RemoveSource, installerOnly, ByHand, Process, ServiceRuns, ServiceEnds, UserEdits
  <2> QED  BY <2>1 DEF Asleep
<1>2. CASE ReleasePublished
  <2>1. latest' = latest + 1 /\ UNCHANGED <<upd, file, loop>>
    BY <1>2 DEF ReleasePublished
  <2>2. NoNewerThan(latest)'
    BY <1>0, <2>1 DEF Complete
  <2>3. \A r \in Releases : r <= latest => r <= latest'
    BY <1>0, <2>1
  <2> QED  BY <1>0, <2>1, <2>2, <2>3 DEF Helper, Loop
<1>3. CASE CheckForUpdate \/ DownloadUpdate \/ DownloadFails
  BY <1>0, <1>3 DEF CheckForUpdate, DownloadUpdate, DownloadFails, Asleep
<1>4. CASE TriggerUpdate
  BY <1>4 DEF TriggerUpdate, NoHelper, Asleep
<1>5. CASE MachineRestarts
  BY <1>5 DEF MachineRestarts, HelperEnds, NoHelper, Asleep
<1>6. CASE WaitGivesUp \/ CopyFails \/ MergeFails \/ StartService \/ StartServiceFails
  BY <1>6 DEF WaitGivesUp, CopyFails, MergeFails, StartService, StartServiceFails, HelperEnds, NoHelper
<1>7. CASE StopService \/ StopServiceFails
  <2>1. /\ upd'.pc \in {"none", "stop", "wait"} /\ upd.pc = "stop"
        /\ upd'.pc # "none" => upd'.release = upd.release
        /\ UNCHANGED <<file, loop, latest>>
    BY <1>0, <1>7 DEF StopService, StopServiceFails, HelperEnds, NoHelper, Goes, Helper
  <2> QED  BY <2>1
<1>8. CASE ServiceIsStopped
  <2>1. /\ upd.pc = "wait" /\ upd.next = 1 /\ upd' = [upd EXCEPT !.pc = "remove"]
        /\ UNCHANGED <<file, loop, latest>>
    BY <1>8 DEF ServiceIsStopped, Goes, AtItsFile
  <2> QED  BY <1>0, <2>1 DEF Helper
<1>9. CASE RemoveBackup \/ RenameFile \/ CreateFile
  <2>1. /\ upd.pc \in Replacing /\ upd.next \in Files
        /\ upd'.pc \in Replacing /\ upd'.next = upd.next /\ upd'.release = upd.release
        /\ UNCHANGED <<loop, latest>>
    BY <1>0, <1>9 DEF RemoveBackup, RenameFile, CreateFile, Goes, AtItsFile, Helper
  <2>2. \/ UNCHANGED file
        \/ file' = [file EXCEPT ![upd.next] = Absent]
        \/ file' = [file EXCEPT ![upd.next] = Partial]
    BY <1>9 DEF RemoveBackup, RenameFile, CreateFile, Replaced
  <2>3. \A f \in Files : file'[f] = file[f] \/ (f = upd.next /\ ~Complete(file'[f]))
    BY <1>0, <2>2
  <2>4. \A f \in 1 .. MainFile - 1 : f \in Files
    BY <1>0, ReleaseAssumption DEF Files
  <2>5. \A f \in 1 .. upd.next - 1 : f \in Files /\ f # upd.next
    BY <2>1, ReleaseAssumption DEF Files
  <2> HIDE DEF Replacing
  <2>6. \A f \in 1 .. upd'.next - 1 : file'[f] = upd'.release
    BY <2>1, <2>3, <2>5
  <2>7. HelpersNotOlder'
    BY <1>0, <2>3, <2>4
  <2>8. \A r \in Releases : NoNewerThan(r) => NoNewerThan(r)'
    BY <1>0, <2>3
  <2>9. upd.pc # "none" /\ loop.pc = "idle"
    BY <2>1 DEF Replacing
  <2> QED  BY <1>0, <2>1, <2>6, <2>7, <2>9, <2>3
<1>10. CASE CopyFile
  <2>1. /\ upd.next \in Files /\ upd.pc # "none" /\ loop.pc = "idle"
        /\ file' = [file EXCEPT ![upd.next] = upd.release] /\ upd.release \in Releases
        /\ upd'.next = upd.next + 1 /\ upd'.release = upd.release
        /\ UNCHANGED <<loop, latest>>
        /\ \A f \in 1 .. upd.next - 1 : file[f] = upd.release
    BY <1>0, <1>10 DEF CopyFile, Replaced, AtItsFile, Helper
  <2>2. \A f \in 1 .. MainFile - 1 : f \in Files
    BY <1>0, ReleaseAssumption DEF Files
  <2>3. \A f \in 1 .. upd'.next - 1 : file'[f] = upd'.release
    BY <1>0, <2>1, ReleaseAssumption DEF Files
  <2>4. HelpersNotOlder'
    <3> SUFFICES ASSUME NEW f \in 1 .. MainFile - 1,
                        Complete(file'[MainFile]), Complete(file'[f])
                 PROVE  file'[f] >= file'[MainFile]
      BY DEF HelpersNotOlder, Complete
    <3>1. f \in Files /\ f # MainFile /\ f < MainFile /\ f \in Nat /\ MainFile \in Nat
      BY <1>0, <2>2
    <3>2. CASE upd.next = MainFile
      BY <1>0, <2>1, <3>1, <3>2
    <3>3. CASE upd.next = f
      BY <1>0, <2>1, <3>1, <3>3
    <3>4. CASE upd.next # MainFile /\ upd.next # f
      BY <1>0, <2>1, <3>1, <3>4
    <3> QED  BY <3>2, <3>3, <3>4
  <2>5. NoNewerThan(upd.release)'
    BY <1>0, <2>1
  <2>6. NoNewerThan(latest)'
    <3>1. CASE upd.next = MainFile
      BY <1>0, <2>1, <3>1
    <3>2. CASE upd.next # MainFile
      BY <1>0, <2>1, <3>2
    <3> QED  BY <3>1, <3>2
  <2> QED  BY <2>1, <2>3, <2>4, <2>5, <2>6
<1>11. CASE ReadConfigs \/ DropSaved \/ SaveConfig \/ TruncateConfig \/ WriteConfig
  <2>1. /\ upd.pc # "none" /\ upd'.pc \notin Replacing \cup {"none"} /\ upd'.release = upd.release
        /\ UNCHANGED <<file, loop, latest>>
    BY <1>0, <1>11 DEF ReadConfigs, DropSaved, SaveConfig, TruncateConfig, WriteConfig, Goes, Helper
  <2> QED  BY <2>1
<1> QED
  BY <1>1, <1>2, <1>3, <1>4, <1>5, <1>6, <1>7, <1>8, <1>9, <1>10, <1>11 DEF Next, Updater, UpdateLoop

(* A program of the service is never beside an older helper program, for   *)
(* any number of files and releases and whatever fails, the order of the   *)
(* files being that of their names.                                        *)
THEOREM DeploymentHelpersNotOlder == Spec => []HelpersNotOlder
<1>1. Init => TypeOK /\ AtItsFile /\ OrderInv
  BY InitTypeOK, InitOrder DEF Init, SelfUpdateInit, NoHelper, AtItsFile, Replacing
<1>2. TypeOK /\ AtItsFile /\ OrderInv /\ [Next]_vars => (TypeOK /\ AtItsFile /\ OrderInv)'
  BY NextTypeOK, NextAtItsFile, NextOrder
<1>3. OrderInv => HelpersNotOlder
  BY DEF OrderInv
<1> QED  BY <1>1, <1>2, <1>3, PTL DEF Spec

-------------------------------------------------------------------------------
(* What the user has chosen.                                               *)

(* Outside of the helper's rewriting config.json holds the choices; while  *)
(* it rewrites, config.json.old and its memory do; and when it was killed  *)
(* in between no service comes up that could update again.                 *)
InPlace == /\ HasChoices(config)
           /\ upd.pc \notin {"truncate", "write"}
           /\ upd.pc \in {"drop", "save"} => HasChoices(upd.merged)
BeingRewritten == /\ upd.pc \in {"truncate", "write"}
                  /\ HasChoices(saved) /\ HasChoices(upd.merged)
                  /\ ~Readable(config)
CutShort == /\ upd.pc = "none" /\ svc \in {"stopped", "starting"}
            /\ HasChoices(saved)
            /\ ~Readable(config)

ChoicesInv == spoiled \/ InPlace \/ BeingRewritten \/ CutShort

(* Merging keeps every choice of a configuration that parses.              *)
LEMMA MergeKeepsChoices ==
    ASSUME TypeOK, HasChoices(config), Parses(config), NEW r \in Releases
    PROVE  HasChoices(Merge(config, r))
<1>1. config.value \in [Keys -> Origins] /\ choices \subseteq Keys
  BY DEF TypeOK, SelfUpdateTypeOK, ManagerTypeOK, Configs
<1>2. Merge(config, r).text = config.text
  BY DEF Merge, TypeOK, SelfUpdateTypeOK, ManagerTypeOK, Configs
<1>3. \A k \in Keys : config.value[k] = "chosen" => Merge(config, r).value[k] = "chosen"
  BY <1>1 DEF Merge, TypeOK, SelfUpdateTypeOK, ManagerTypeOK, Configs
<1> QED  BY <1>1, <1>2, <1>3 DEF HasChoices, Readable, Parses

LEMMA NextChoices == TypeOK /\ OrderInv /\ ChoicesInv /\ [Next]_vars => ChoicesInv'
<1> SUFFICES ASSUME TypeOK, OrderInv, ChoicesInv, [Next]_vars PROVE ChoicesInv'
  OBVIOUS
<1>0. upd \in Helper /\ spoiled \in BOOLEAN /\ config \in Configs /\ choices \subseteq Keys
  BY DEF TypeOK, SelfUpdateTypeOK, ManagerTypeOK
<1>1. CASE spoiled
  <2>1. spoiled'
    BY <1>1, <1>0, ReleaseAssumption DEF Next, vars, updateVars, historyVars, Installer, Begins, InstallerFails, CapabilityTested,
       RegisterSource, CreateService, LaunchService, QueryStatus, StopAwaited, DeleteService,
       RemoveSource, installerOnly, ByHand, Process, ServiceRuns, ServiceEnds, UserEdits, ReleasePublished,
       MachineRestarts, UpdateLoop, CheckForUpdate, DownloadUpdate, DownloadFails, TriggerUpdate,
       Updater, StopService, StopServiceFails, ServiceIsStopped, WaitGivesUp, RemoveBackup, RenameFile,
       CreateFile, CopyFile, CopyFails, ReadConfigs, DropSaved, SaveConfig, TruncateConfig, WriteConfig,
       MergeFails, StartService, StartServiceFails
  <2> QED  BY <2>1 DEF ChoicesInv
<1> SUFFICES ASSUME ~spoiled PROVE ChoicesInv'
  BY <1>1
<1> USE DEF managerVars, diskVars, historyVars
<1>2. CASE UNCHANGED <<svc, upd, config, saved, historyVars>>
  BY <1>2 DEF ChoicesInv, InPlace, BeingRewritten, CutShort, HasChoices
<1>3. CASE /\ Launch \/ Stop \/ EntryPoint \/ EntryPointFails \/ ServiceStops
           /\ UNCHANGED <<upd, config, saved, historyVars>>
  <2>1. svc \in {"stopped", "starting"} /\ ~Readable(config) => svc' \in {"stopped", "starting"}
    BY <1>3 DEF Launch, Stop, AcceptsStop, EntryPoint, EntryPointFails, ServiceStops, ProcessGone, Readable
  <2> QED  BY <1>3, <2>1 DEF ChoicesInv, InPlace, BeingRewritten, CutShort, HasChoices
<1>4. CASE TriggerUpdate
  <2>1. svc \notin {"stopped", "starting"} /\ upd.pc = "none"
    BY <1>4 DEF TriggerUpdate, LoopLives, OrderInv
  <2>2. upd'.pc \in {"none", "stop"} /\ UNCHANGED <<config, choices>>
    BY <1>4, <2>1 DEF TriggerUpdate, NoHelper
  <2>3. HasChoices(config)
    BY <2>1 DEF ChoicesInv, InPlace, BeingRewritten, CutShort
  <2> QED  BY <2>2, <2>3 DEF ChoicesInv, InPlace, HasChoices
<1>5. CASE MachineRestarts
  <2>1. upd'.pc = "none" /\ svc' \in {"stopped", "starting"} /\ UNCHANGED <<config, saved, historyVars>>
    BY <1>5 DEF MachineRestarts, HelperEnds, NoHelper
  <2> QED  BY <2>1 DEF ChoicesInv, InPlace, BeingRewritten, CutShort, HasChoices
<1>6. CASE UserEdits
  <2>1. PICK k \in Keys, text \in {"valid", "rejected", "typo"} :
           config' = [config EXCEPT !.text = text, !.value[k] = "chosen"] /\ choices' = choices \cup {k}
    BY <1>6 DEF UserEdits
  <2>2. HasChoices(config) => HasChoices(config)'
    BY <1>0, <2>1 DEF Configs, HasChoices, Readable
  <2>3. Readable(config) /\ UNCHANGED upd /\ (upd.pc \in Merging => spoiled')
    BY <1>6 DEF UserEdits
  <2>4. InPlace
    BY <2>3 DEF ChoicesInv, BeingRewritten, CutShort
  <2>5. CASE upd.pc \in Merging
    BY <2>3, <2>5 DEF ChoicesInv
  <2>6. CASE upd.pc \notin Merging
    <3>1. HasChoices(config)' /\ upd'.pc \notin Merging
      BY <2>2, <2>3, <2>4, <2>6 DEF InPlace
    <3>2. InPlace'
      BY <3>1 DEF InPlace, Merging
    <3> QED  BY <3>2 DEF ChoicesInv
  <2> QED  BY <2>5, <2>6
<1>7. CASE StopServiceFails \/ ServiceIsStopped \/ WaitGivesUp \/ RemoveBackup \/ RenameFile
           \/ CreateFile \/ CopyFile \/ CopyFails \/ StartServiceFails
  <2>1. upd.pc \notin {"none", "drop", "save", "truncate", "write"} /\ UNCHANGED <<config, saved, historyVars>>
    BY <1>7 DEF StopServiceFails, ServiceIsStopped, WaitGivesUp, RemoveBackup, RenameFile, CreateFile,
       CopyFile, CopyFails, StartServiceFails
  <2>2. upd'.pc \notin {"drop", "save", "truncate", "write"}
    <3>1. CASE StopServiceFails
      BY <1>0, <3>1 DEF StopServiceFails, HelperEnds, NoHelper, Helper
    <3>2. CASE CopyFile
      BY <1>0, <3>2 DEF CopyFile, Helper
    <3>3. CASE RemoveBackup \/ RenameFile \/ CreateFile \/ ServiceIsStopped
      BY <1>0, <3>3 DEF RemoveBackup, RenameFile, CreateFile, ServiceIsStopped, Goes, Helper
    <3>4. CASE WaitGivesUp \/ CopyFails \/ StartServiceFails
      BY <3>4 DEF WaitGivesUp, CopyFails, StartServiceFails, HelperEnds, NoHelper
    <3> QED  BY <1>7, <3>1, <3>2, <3>3, <3>4
  <2> QED  BY <2>1, <2>2 DEF ChoicesInv, InPlace, BeingRewritten, CutShort, HasChoices
<1>8. CASE StopService \/ StartService
  <2>1. /\ upd.pc \in {"stop", "start"}
        /\ Goes("wait") \/ HelperEnds
        /\ UNCHANGED <<config, saved, historyVars>>
    BY <1>8 DEF StopService, StartService
  <2>2. upd'.pc \in {"wait", "none"}
    BY <1>0, <2>1 DEF Goes, HelperEnds, NoHelper, Helper
  <2> QED  BY <2>1, <2>2 DEF ChoicesInv, InPlace, BeingRewritten, CutShort, HasChoices
<1>9. CASE ReadConfigs
  <2>1. upd.pc = "read" /\ HasChoices(config) /\ UNCHANGED <<config, choices>>
    BY <1>9 DEF ReadConfigs, ChoicesInv, InPlace, BeingRewritten, CutShort
  <2>2. CASE Shipped[upd.release] = {}
    BY <1>0, <1>9, <2>1, <2>2 DEF ReadConfigs, Goes, Helper, ChoicesInv, InPlace, HasChoices
  <2>3. CASE Shipped[upd.release] # {} /\ ~Parses(config)
    <3>1. config.text = "typo"
      BY <2>1, <2>3 DEF HasChoices, Readable, Parses
    <3> QED  BY <1>9, <2>3, <3>1 DEF ReadConfigs, ChoicesInv
  <2>4. CASE Shipped[upd.release] # {} /\ Parses(config)
    <3>1. HasChoices(Merge(config, upd.release))
      BY <1>0, <2>1, <2>4, MergeKeepsChoices DEF Helper
    <3>2. upd'.pc = "drop" /\ upd'.merged = Merge(config, upd.release)
      BY <1>0, <1>9, <2>4 DEF ReadConfigs, Helper
    <3> QED  BY <2>1, <3>1, <3>2 DEF ChoicesInv, InPlace, HasChoices
  <2> QED  BY <2>2, <2>3, <2>4
<1>10. CASE DropSaved
  <2>1. upd.pc = "drop" /\ upd'.pc = "save" /\ upd'.merged = upd.merged /\ UNCHANGED <<config, historyVars>>
    BY <1>0, <1>10 DEF DropSaved, Goes, Helper
  <2> QED  BY <2>1 DEF ChoicesInv, InPlace, BeingRewritten, CutShort, HasChoices
<1>11. CASE SaveConfig
  <2>1. upd.pc = "save" /\ upd'.pc = "truncate" /\ upd'.merged = upd.merged /\ UNCHANGED choices
    BY <1>0, <1>11 DEF SaveConfig, Goes, Helper
  <2>2. HasChoices(config) /\ HasChoices(upd.merged)
    BY <2>1 DEF ChoicesInv, InPlace, BeingRewritten, CutShort
  <2>3. CASE spoiled'
    BY <2>3 DEF ChoicesInv
  <2>4. CASE saved' = config /\ config' = NoConfig
    BY <2>1, <2>2, <2>4 DEF ChoicesInv, BeingRewritten, HasChoices, NoConfig, Readable
  <2> QED  BY <1>11, <2>3, <2>4 DEF SaveConfig
<1>12. CASE TruncateConfig
  <2>1. /\ upd.pc = "truncate" /\ upd'.pc = "write" /\ upd'.merged = upd.merged
        /\ ~Readable(config') /\ UNCHANGED <<saved, choices>>
    BY <1>0, <1>12 DEF TruncateConfig, Goes, Helper, NoConfig, Readable
  <2> QED  BY <2>1 DEF ChoicesInv, InPlace, BeingRewritten, CutShort, HasChoices
<1>13. CASE WriteConfig
  <2>1. upd.pc = "write" /\ upd'.pc = "start" /\ config' = upd.merged /\ UNCHANGED choices
    BY <1>0, <1>13 DEF WriteConfig, Goes, Helper
  <2> QED  BY <2>1 DEF ChoicesInv, InPlace, BeingRewritten, CutShort, HasChoices
<1>14. CASE MergeFails
  <2>1. upd'.pc = "none" /\ UNCHANGED <<config, choices>> /\ (spoiled' \/ upd.pc = "read")
    BY <1>14 DEF MergeFails, HelperEnds, NoHelper
  <2> QED  BY <2>1 DEF ChoicesInv, InPlace, BeingRewritten, CutShort, HasChoices
<1>15. \/ UNCHANGED vars \/ ReleasePublished \/ CheckForUpdate \/ DownloadUpdate \/ DownloadFails
       \/ Installer \/ ByHand \/ Process
       => \/ UNCHANGED <<svc, upd, config, saved, historyVars>>
          \/ /\ Launch \/ Stop \/ EntryPoint \/ EntryPointFails \/ ServiceStops
             /\ UNCHANGED <<upd, config, saved, historyVars>>
  BY DEF vars, updateVars, Installer, Begins, InstallerFails, CapabilityTested, RegisterSource,
         CreateService, LaunchService, QueryStatus, StopAwaited, DeleteService, RemoveSource,
         installerOnly, ByHand, Process, ServiceRuns, ServiceEnds, ReleasePublished,
         CheckForUpdate, DownloadUpdate, DownloadFails
<1> QED
  BY <1>2, <1>3, <1>4, <1>5, <1>6, <1>7, <1>8, <1>9, <1>10, <1>11, <1>12, <1>13, <1>14, <1>15
  DEF Next, Updater, UpdateLoop

(* The user's choices are on disk and readable at every moment of every    *)
(* update, restarts of the machine included, unless one of the named       *)
(* accidents has happened.                                                 *)
THEOREM DeploymentChoicesKept == Spec => []ChoicesKept
<1>1. Init => TypeOK /\ AtItsFile /\ OrderInv
  BY InitTypeOK, InitOrder DEF Init, SelfUpdateInit, NoHelper, AtItsFile, Replacing
<1>2. Init => ChoicesInv
  BY DEF Init, SelfUpdateInit, ManagerInit, ChoicesInv, InPlace, HasChoices, ShippedConfig, Readable, NoHelper
<1>3. /\ TypeOK /\ AtItsFile /\ OrderInv /\ ChoicesInv /\ [Next]_vars
      => (TypeOK /\ AtItsFile /\ OrderInv /\ ChoicesInv)'
  BY NextTypeOK, NextAtItsFile, NextOrder, NextChoices
<1>4. ChoicesInv => ChoicesKept
  BY DEF ChoicesInv, InPlace, BeingRewritten, CutShort, ChoicesKept
<1> QED  BY <1>1, <1>2, <1>3, <1>4, PTL DEF Spec

-------------------------------------------------------------------------------
(* The event log source.                                                   *)

(* The installer creates after it has registered the source, and removes   *)
(* it only when the service is gone or marked.                             *)
SourceInv == /\ RegisteredHasSource
             /\ inst = "create" => source
             /\ inst = "unregister" => registered # "yes"

LEMMA NextSource == SourceInv /\ [Next]_vars => SourceInv'
<1> SUFFICES ASSUME SourceInv, [Next]_vars PROVE SourceInv'
  OBVIOUS
<1> USE DEF SourceInv, RegisteredHasSource, managerVars
<1>1. CASE UNCHANGED vars \/ Begins("test") \/ Begins("query") \/ InstallerFails
           \/ CapabilityTested \/ RegisterSource \/ StopAwaited \/ RemoveSource
  BY <1>1 DEF vars, updateVars, Begins, InstallerFails, CapabilityTested, RegisterSource, StopAwaited, RemoveSource
<1>2. CASE CreateService \/ DeleteService
  BY <1>2 DEF CreateService, DeleteService
<1>3. CASE LaunchService \/ QueryStatus
  BY <1>3 DEF LaunchService, QueryStatus, Launch, Stop
<1>4. CASE MachineRestarts /\ inst' = "none" /\ UNCHANGED source
  BY <1>4 DEF MachineRestarts
<1>5. CASE ByHand
  BY <1>5 DEF ByHand, Launch, Stop
<1>6. CASE UNCHANGED <<inst, source>> /\ (UpdateLoop \/ Updater \/ Process \/ ReleasePublished \/ UserEdits)
  <2>1. registered' = "yes" => registered = "yes"
    <3>1. CASE UpdateLoop \/ ReleasePublished \/ UserEdits
      BY <3>1 DEF UpdateLoop, CheckForUpdate, DownloadUpdate, DownloadFails, TriggerUpdate, ReleasePublished, UserEdits
    <3>2. CASE Process
      BY <3>2 DEF Process, ServiceRuns, ServiceEnds, EntryPoint, EntryPointFails, ServiceStops, ProcessGone
    <3>3. CASE Updater
      BY <3>3 DEF Updater, StopService, StopServiceFails, ServiceIsStopped, WaitGivesUp, RemoveBackup, RenameFile,
         CreateFile, CopyFile, CopyFails, ReadConfigs, DropSaved, SaveConfig, TruncateConfig, WriteConfig,
         MergeFails, StartService, StartServiceFails, Launch, Stop
    <3> QED  BY <1>6, <3>1, <3>2, <3>3
  <2>2. inst = "unregister" => registered' # "yes"
    BY <2>1
  <2> QED  BY <1>6, <2>1, <2>2
<1> QED  BY <1>1, <1>2, <1>3, <1>4, <1>5, <1>6 DEF Next, Installer

(* A registered service has its event log source, however installer,       *)
(* updater and restarts interleave.                                        *)
THEOREM DeploymentRegisteredHasSource == Spec => []RegisteredHasSource
<1>1. Init => SourceInv
  BY DEF Init, SourceInv, RegisteredHasSource
<1>2. SourceInv => RegisteredHasSource
  BY DEF SourceInv
<1> QED  BY <1>1, <1>2, NextSource, PTL DEF Spec

-------------------------------------------------------------------------------
(* The service during an update.                                           *)

(* The helper is past waiting for the service.                             *)
Committed == Replacing \cup {"read"} \cup Merging \cup {"start"}

DownInv == /\ inst = "none"
           /\ upd.pc \in Committed => svc = "stopped"

LEMMA NextDown ==
    ASSUME TypeOK, DownInv, [Next]_vars, "admin" \notin UpdateFaults
    PROVE  DownInv' /\ (file' # file => svc = "stopped")
<1> USE DEF DownInv, managerVars, diskVars, historyVars
<1>0. upd \in Helper
  BY DEF TypeOK, SelfUpdateTypeOK
<1>1. inst' = "none" /\ ~Installer /\ ~ByHand
  BY DEF Next, vars, Installer, Begins, InstallerFails, CapabilityTested, RegisterSource, CreateService,
     LaunchService, QueryStatus, StopAwaited, DeleteService, RemoveSource, ByHand
<1> USE DEF Committed, Replacing, Merging
<1>2. CASE UNCHANGED vars \/ ReleasePublished \/ UserEdits
  BY <1>1, <1>2 DEF vars, updateVars, ReleasePublished, UserEdits
<1>3. CASE UpdateLoop
  <2>1. UNCHANGED <<svc, file>> /\ (UNCHANGED upd \/ upd'.pc = "stop")
    BY <1>3 DEF UpdateLoop, CheckForUpdate, DownloadUpdate, DownloadFails, TriggerUpdate, NoHelper
  <2> QED  BY <1>1, <2>1
<1>4. CASE Process
  <2>1. UNCHANGED <<upd, file>> /\ svc # "stopped"
    BY <1>4 DEF Process, ServiceRuns, ServiceEnds, EntryPoint, EntryPointFails, ServiceStops
  <2> QED  BY <1>1, <2>1
<1>5. CASE MachineRestarts
  BY <1>1, <1>5 DEF MachineRestarts, HelperEnds, NoHelper
<1>6. CASE StopServiceFails \/ StopService
  <2>1. upd.pc = "stop" /\ UNCHANGED file
    BY <1>6 DEF StopServiceFails, StopService
  <2>2. upd'.pc \in {"stop", "wait", "none"}
    BY <1>0, <1>6 DEF StopServiceFails, StopService, Goes, HelperEnds, NoHelper, Helper
  <2> QED  BY <1>1, <2>1, <2>2
<1>7. CASE ServiceIsStopped
  BY <1>1, <1>7 DEF ServiceIsStopped
<1>8. CASE WaitGivesUp \/ StartServiceFails \/ StartService
  BY <1>1, <1>8 DEF WaitGivesUp, StartServiceFails, StartService, HelperEnds, NoHelper
<1>9. CASE RemoveBackup \/ RenameFile \/ CreateFile \/ CopyFile \/ CopyFails \/ ReadConfigs \/ DropSaved
           \/ SaveConfig \/ TruncateConfig \/ WriteConfig \/ MergeFails
  <2>1. upd.pc \in Committed /\ UNCHANGED svc
    BY <1>9 DEF RemoveBackup, RenameFile, CreateFile, CopyFile, CopyFails, ReadConfigs, DropSaved,
       SaveConfig, TruncateConfig, WriteConfig, MergeFails
  <2> QED  BY <1>1, <2>1
<1> QED
  BY <1>1, <1>2, <1>3, <1>4, <1>5, <1>6, <1>7, <1>8, <1>9 DEF Next, Updater

(* The helper replaces files of a stopped service only, whatever fails,    *)
(* as long as no administrator starts it in between.                       *)
THEOREM DeploymentReplacedOnlyWhileStopped ==
    ASSUME "admin" \notin UpdateFaults
    PROVE  Spec => ReplacedOnlyWhileStopped
<1>1. Init => DownInv
  BY DEF Init, SelfUpdateInit, NoHelper, DownInv, Committed, Replacing, Merging
<1>2. TypeOK /\ DownInv /\ [Next]_vars => DownInv' /\ [file' # file => svc = "stopped"]_vars
  BY NextDown
<1> QED  BY <1>1, <1>2, DeploymentTypeCorrect, PTL DEF Spec, ReplacedOnlyWhileStopped

-------------------------------------------------------------------------------
(* The promise of Installation.                                            *)

(* What may go wrong without the promise being broken: not a config.json   *)
(* that is half written, broken or edited meanwhile, nor somebody else's   *)
(* start of the service.                                                   *)
Tolerated == {"network", "stop", "query", "start", "slow", "rename", "copy", "metadata", "edit"}

(* Nothing that is fetched or installed is older than what ran last.       *)
ForwardInv == /\ exe <= latest
              /\ loop.pc = "trigger" => exe <= loop.release
              /\ upd.pc # "none" => exe <= upd.release

(* config.json parses except while it is rewritten, and what it is         *)
(* rewritten with has the settings of the release.                         *)
HasSettings(c) == Parses(c) /\ \A k \in Shipped[upd.release] : c.value[k] # "none"

ConfigInv == /\ upd.pc \notin {"truncate", "write"} => Parses(config)
             /\ upd.pc \in Merging => HasSettings(upd.merged)
             /\ upd.pc = "start" => HasSettings(config)

(* When the files are replaced, the program of the service is.             *)
ReplacedInv == upd.pc \in {"read", "start"} \cup Merging => file[MainFile] = upd.release

LEMMA ReleasesAreNumbers == \A r \in Releases : r \in Nat
  BY ReleaseAssumption DEF Releases

LEMMA NextReplaced ==
    ASSUME TypeOK, AtItsFile, OrderInv, ReplacedInv, [Next]_vars
    PROVE  ReplacedInv'
<1> USE DEF ReplacedInv, Merging, diskVars
<1>0. upd \in Helper /\ file \in [Files -> Content] /\ MainFile \in Files
  BY ReleaseAssumption DEF TypeOK, SelfUpdateTypeOK, ManagerTypeOK
<1>1. CASE UNCHANGED vars \/ Installer \/ ByHand \/ Process \/ ReleasePublished \/ UserEdits
  BY <1>1, OthersLeave
<1>2. CASE UpdateLoop
  <2>1. UNCHANGED file /\ (UNCHANGED upd \/ upd'.pc = "stop")
    BY <1>2 DEF UpdateLoop, CheckForUpdate, DownloadUpdate, DownloadFails, TriggerUpdate, NoHelper
  <2> QED  BY <2>1
<1>3. CASE MachineRestarts \/ WaitGivesUp \/ CopyFails \/ MergeFails \/ StartService \/ StartServiceFails
  BY <1>3 DEF MachineRestarts, WaitGivesUp, CopyFails, MergeFails, StartService, StartServiceFails, HelperEnds, NoHelper
<1>4. CASE StopService \/ StopServiceFails \/ ServiceIsStopped
  <2>1. upd'.pc \in {"stop", "wait", "none", "remove"}
    BY <1>0, <1>4 DEF StopService, StopServiceFails, ServiceIsStopped, Goes, HelperEnds, NoHelper, Helper
  <2> QED  BY <2>1
<1>5. CASE RemoveBackup \/ RenameFile \/ CreateFile
  <2>1. upd'.pc \in Replacing
    BY <1>0, <1>5 DEF RemoveBackup, RenameFile, CreateFile, Goes, Helper, Replacing
  <2> QED  BY <2>1 DEF Replacing
<1>6. CASE CopyFile
  <2>1. /\ upd.next \in Files /\ file' = [file EXCEPT ![upd.next] = upd.release]
        /\ \A f \in 1 .. upd.next - 1 : file[f] = upd.release
        /\ upd'.release = upd.release
        /\ upd'.pc = IF upd.next < NumFiles THEN "remove" ELSE "read"
    BY <1>0, <1>6 DEF CopyFile, Replaced, AtItsFile, OrderInv, Replacing, Helper
  <2>2. CASE upd.next < NumFiles
    BY <2>1, <2>2
  <2>3. CASE ~(upd.next < NumFiles)
    <3>1. MainFile \in 1 .. upd.next - 1 \/ MainFile = upd.next
      BY <1>0, <2>1, <2>3, ReleaseAssumption DEF Files
    <3>2. file'[MainFile] = upd.release
      BY <1>0, <2>1, <3>1
    <3> QED  BY <2>1, <3>2
  <2> QED  BY <2>2, <2>3
<1>7. CASE ReadConfigs \/ DropSaved \/ SaveConfig \/ TruncateConfig \/ WriteConfig
  <2>1. /\ upd.pc \in {"read"} \cup Merging /\ upd'.release = upd.release /\ UNCHANGED file
    BY <1>0, <1>7 DEF ReadConfigs, DropSaved, SaveConfig, TruncateConfig, WriteConfig, Goes, Helper
  <2> QED  BY <2>1
<1> QED  BY <1>1, <1>2, <1>3, <1>4, <1>5, <1>6, <1>7 DEF Next, Updater

LEMMA NextForward ==
    ASSUME TypeOK, OrderInv, DownInv, ReplacedInv, ForwardInv, [Next]_vars,
           UpdateFaults \subseteq Tolerated
    PROVE  ForwardInv'
<1> USE DEF ForwardInv
<1>0. /\ upd \in Helper /\ latest \in Releases /\ loop \in Loop /\ exe \in Releases
      /\ "admin" \notin UpdateFaults /\ "power" \notin UpdateFaults
  BY DEF TypeOK, SelfUpdateTypeOK, ManagerTypeOK, Tolerated
<1>1. ~Installer /\ ~ByHand /\ ~MachineRestarts
  BY <1>0 DEF DownInv, Installer, Begins, InstallerFails, CapabilityTested, RegisterSource, CreateService,
     LaunchService, QueryStatus, StopAwaited, DeleteService, RemoveSource, ByHand, MachineRestarts
<1>2. CASE UNCHANGED vars \/ Process \/ UserEdits
  <2>1. UNCHANGED <<exe, latest, upd>> /\ (UNCHANGED loop \/ loop' = Asleep)
    BY <1>2 DEF vars, updateVars, managerVars, Process, ServiceRuns, ServiceEnds, UserEdits, EntryPoint,
       EntryPointFails, ServiceStops, ProcessGone
  <2> QED  BY <2>1 DEF Asleep
<1>3. CASE ReleasePublished
  <2>1. latest' = latest + 1 /\ UNCHANGED <<exe, loop, upd>>
    BY <1>3 DEF ReleasePublished, managerVars
  <2>2. exe <= latest'
    BY <1>0, <2>1, ReleasesAreNumbers
  <2> QED  BY <2>1, <2>2
<1>4. CASE UpdateLoop
  <2>1. UNCHANGED <<exe, latest>>
    BY <1>4 DEF UpdateLoop, CheckForUpdate, DownloadUpdate, DownloadFails, TriggerUpdate, managerVars
  <2>2. loop'.pc = "trigger" => exe <= loop'.release
    BY <1>0, <1>4 DEF UpdateLoop, CheckForUpdate, DownloadUpdate, DownloadFails, TriggerUpdate, Asleep
  <2>3. upd'.pc # "none" => exe <= upd'.release
    BY <1>0, <1>4 DEF UpdateLoop, CheckForUpdate, DownloadUpdate, DownloadFails, TriggerUpdate, NoHelper
  <2> QED  BY <2>1, <2>2, <2>3
<1>5. CASE StartService
  <2>1. exe' = file[MainFile] /\ upd.pc = "start" /\ upd'.pc = "none" /\ UNCHANGED <<latest, loop>>
    BY <1>5 DEF StartService, Launch, HelperEnds, NoHelper
  <2>2. exe' = upd.release /\ upd.release <= latest /\ loop.pc = "idle"
    BY <2>1 DEF ReplacedInv, OrderInv
  <2> QED  BY <2>1, <2>2
<1>6. CASE Updater /\ ~StartService
  <2>1. UNCHANGED <<exe, latest, loop>> /\ upd.pc # "none"
    BY <1>6 DEF Updater, StopService, StopServiceFails, ServiceIsStopped, WaitGivesUp, RemoveBackup, RenameFile,
       CreateFile, CopyFile, CopyFails, ReadConfigs, DropSaved, SaveConfig, TruncateConfig, WriteConfig,
       MergeFails, StartServiceFails, Stop, managerVars, Replacing, Merging
  <2>2. upd'.pc # "none" => upd'.release = upd.release
    <3>1. CASE StopServiceFails
      BY <1>0, <3>1 DEF StopServiceFails, HelperEnds, NoHelper, Helper
    <3>2. CASE CopyFile \/ ReadConfigs
      BY <1>0, <3>2 DEF CopyFile, ReadConfigs, Goes, Helper
    <3>3. CASE \/ StopService \/ ServiceIsStopped \/ RemoveBackup \/ RenameFile \/ CreateFile
               \/ DropSaved \/ SaveConfig \/ TruncateConfig \/ WriteConfig
      BY <1>0, <3>3 DEF StopService, ServiceIsStopped, RemoveBackup, RenameFile, CreateFile, DropSaved,
         SaveConfig, TruncateConfig, WriteConfig, Goes, Helper
    <3>4. CASE WaitGivesUp \/ CopyFails \/ MergeFails \/ StartServiceFails
      BY <3>4 DEF WaitGivesUp, CopyFails, MergeFails, StartServiceFails, HelperEnds, NoHelper
    <3> QED  BY <1>6, <3>1, <3>2, <3>3, <3>4 DEF Updater
  <2> QED  BY <2>1, <2>2
<1> QED  BY <1>1, <1>2, <1>3, <1>4, <1>5, <1>6 DEF Next

(* Merging gives a configuration that parses every setting of the release  *)
(* and is what Installation calls adopting the release.                    *)
LEMMA MergeAdopts ==
    ASSUME NEW c \in Configs, Parses(c), NEW r \in Releases
    PROVE  /\ Parses(Merge(c, r))
           /\ \A k \in Shipped[r] : Merge(c, r).value[k] # "none"
           /\ Merge(c, r).value = Promise!Adopted(c.value, r)
<1> DEFINE v == [k \in Keys |-> IF c.value[k] = "none" /\ k \in Shipped[r] THEN "shipped" ELSE c.value[k]]
<1>1. Shipped[r] \subseteq Keys
  BY ReleaseAssumption
<1>2. Merge(c, r) = [c EXCEPT !.value = v]
  BY DEF Merge
<1>3. Merge(c, r).text = c.text /\ Merge(c, r).value = v
  <2> HIDE DEF v
  <2> QED  BY <1>2 DEF Configs
<1>4. v = Promise!Adopted(c.value, r)
  BY DEF Promise!Adopted
<1>5. \A k \in Shipped[r] : v[k] # "none"
  BY <1>1
<1> HIDE DEF v
<1> QED  BY <1>3, <1>4, <1>5 DEF Parses

LEMMA NextConfig ==
    ASSUME TypeOK, OrderInv, DownInv, ConfigInv, [Next]_vars, UpdateFaults \subseteq Tolerated
    PROVE  ConfigInv'
<1> USE DEF ConfigInv, HasSettings
<1>0. /\ upd \in Helper /\ config \in Configs /\ upd.release \in Releases
      /\ \A r \in Releases : Shipped[r] \subseteq Keys
      /\ {"admin", "power", "merge", "typo", "race"} \cap UpdateFaults = {}
  BY ReleaseAssumption DEF TypeOK, SelfUpdateTypeOK, ManagerTypeOK, Helper, Tolerated
<1>1. ~Installer /\ ~ByHand /\ ~MachineRestarts /\ ~MergeFails
  BY <1>0 DEF DownInv, Installer, Begins, InstallerFails, CapabilityTested, RegisterSource, CreateService,
     LaunchService, QueryStatus, StopAwaited, DeleteService, RemoveSource, ByHand, MachineRestarts, MergeFails
<1> USE DEF Merging, diskVars
<1>2. CASE UNCHANGED vars \/ Process \/ ReleasePublished
  <2>1. UNCHANGED <<upd, config>>
    BY <1>2 DEF vars, updateVars, Process, ServiceRuns, ServiceEnds, ReleasePublished
  <2> QED  BY <2>1 DEF Parses
<1>3. CASE UpdateLoop
  <2>1. UNCHANGED config /\ (UNCHANGED upd \/ (upd.pc = "none" /\ upd'.pc = "stop"))
    BY <1>3 DEF UpdateLoop, CheckForUpdate, DownloadUpdate, DownloadFails, TriggerUpdate, NoHelper, OrderInv
  <2> QED  BY <2>1 DEF Parses
<1>4. CASE UserEdits
  <2>1. PICK k \in Keys : config' = [config EXCEPT !.text = "valid", !.value[k] = "chosen"]
    BY <1>0, <1>4 DEF UserEdits
  <2>2. UNCHANGED upd /\ upd.pc \notin Merging
    BY <1>0, <1>4 DEF UserEdits
  <2>3. config'.text = "valid" /\ \A j \in Keys : config'.value[j] \in {config.value[j], "chosen"}
    BY <1>0, <2>1 DEF Configs
  <2> QED  BY <1>0, <2>2, <2>3 DEF Parses
<1>5. CASE \/ StopService \/ StopServiceFails \/ ServiceIsStopped \/ WaitGivesUp \/ RemoveBackup
           \/ RenameFile \/ CreateFile \/ CopyFile \/ CopyFails \/ StartService \/ StartServiceFails
  <2>1. UNCHANGED config /\ upd.pc \notin Merging
    BY <1>5 DEF StopService, StopServiceFails, ServiceIsStopped, WaitGivesUp, RemoveBackup, RenameFile,
       CreateFile, CopyFile, CopyFails, StartService, StartServiceFails
  <2>2. upd'.pc \notin Merging \cup {"start"}
    <3>1. CASE StopServiceFails
      BY <1>0, <3>1 DEF StopServiceFails, HelperEnds, NoHelper, Helper
    <3>2. CASE CopyFile
      BY <1>0, <3>2 DEF CopyFile, Helper
    <3>3. CASE RemoveBackup \/ RenameFile \/ CreateFile \/ ServiceIsStopped \/ StopService
      BY <1>0, <3>3 DEF RemoveBackup, RenameFile, CreateFile, ServiceIsStopped, StopService, Goes, Helper
    <3>4. CASE WaitGivesUp \/ CopyFails \/ StartService \/ StartServiceFails
      BY <3>4 DEF WaitGivesUp, CopyFails, StartService, StartServiceFails, HelperEnds, NoHelper
    <3> QED  BY <1>5, <3>1, <3>2, <3>3, <3>4
  <2> QED  BY <2>1, <2>2 DEF Parses
<1>6. CASE ReadConfigs
  <2>1. upd.pc = "read" /\ Parses(config) /\ UNCHANGED config
    BY <1>6 DEF ReadConfigs
  <2>2. CASE Shipped[upd.release] = {}
    BY <1>0, <1>6, <2>1, <2>2 DEF ReadConfigs, Goes, Helper, Parses
  <2>3. CASE Shipped[upd.release] # {}
    <3>1. upd'.pc = "drop" /\ upd'.merged = Merge(config, upd.release) /\ upd'.release = upd.release
      BY <1>0, <1>6, <2>1, <2>3 DEF ReadConfigs, Helper
    <3>2. Parses(upd'.merged) /\ \A k \in Shipped[upd'.release] : upd'.merged.value[k] # "none"
      BY <1>0, <2>1, <3>1, MergeAdopts
    <3> QED  BY <2>1, <3>1, <3>2 DEF Parses
  <2> QED  BY <2>2, <2>3
<1>7. CASE DropSaved \/ SaveConfig \/ TruncateConfig
  <2>1. /\ upd.pc \in Merging /\ upd'.pc \in Merging
        /\ upd'.merged = upd.merged /\ upd'.release = upd.release
        /\ upd'.pc \in {"truncate", "write"} \/ (upd.pc = "drop" /\ UNCHANGED config)
    BY <1>0, <1>7 DEF DropSaved, SaveConfig, TruncateConfig, Goes, Helper
  <2> QED  BY <2>1 DEF Parses
<1>8. CASE WriteConfig
  <2>1. /\ upd.pc = "write" /\ upd'.pc = "start" /\ config' = upd.merged /\ upd'.release = upd.release
    BY <1>0, <1>8 DEF WriteConfig, Goes, Helper
  <2> QED  BY <2>1 DEF Parses
<1> QED  BY <1>1, <1>2, <1>3, <1>4, <1>5, <1>6, <1>7, <1>8 DEF Next, Updater

-------------------------------------------------------------------------------
(* Every step is a step of Installation or leaves its variables alone.     *)
up == svc \in {"starting", "running"}
setting == IF upd.pc \in Merging THEN upd.merged.value ELSE config.value

LEMMA InitPromise == Init => Promise!Init
<1> SUFFICES ASSUME Init PROVE Promise!Init
  OBVIOUS
<1>1. exe = 1 /\ 1 \in Releases /\ svc = "running" /\ upd.pc \notin Merging
  BY ReleaseAssumption DEF Init, SelfUpdateInit, ManagerInit, NoHelper, Merging, Releases
<1>2. config.value = [k \in Keys |-> IF k \in Shipped[1] THEN "shipped" ELSE "none"]
  BY DEF Init, SelfUpdateInit, ManagerInit, ShippedConfig
<1>3. config.value = Promise!Adopted([k \in Keys |-> "none"], 1)
  BY <1>2 DEF Promise!Adopted
<1> QED  BY <1>1, <1>3 DEF Promise!Init

LEMMA NextPromise ==
    ASSUME TypeOK, OrderInv, DownInv, ForwardInv, ReplacedInv, ConfigInv, [Next]_vars,
           UpdateFaults \subseteq Tolerated
    PROVE  Promise!Next \/ UNCHANGED <<exe, up, setting>>
<1>0. /\ upd \in Helper /\ config \in Configs /\ upd.release \in Releases
      /\ \A r \in Releases : Shipped[r] \subseteq Keys
      /\ {"admin", "power", "merge", "typo", "race"} \cap UpdateFaults = {}
  BY ReleaseAssumption DEF TypeOK, SelfUpdateTypeOK, ManagerTypeOK, Helper, Tolerated
<1>1. ~Installer /\ ~ByHand /\ ~MachineRestarts /\ ~MergeFails
  BY <1>0 DEF DownInv, Installer, Begins, InstallerFails, CapabilityTested, RegisterSource, CreateService,
     LaunchService, QueryStatus, StopAwaited, DeleteService, RemoveSource, ByHand, MachineRestarts, MergeFails
<1> USE DEF Merging, diskVars
<1>2. CASE UNCHANGED vars \/ ReleasePublished
  <2>1. UNCHANGED <<exe, svc, upd, config>>
    BY <1>2 DEF vars, updateVars, managerVars, ReleasePublished
  <2> QED  BY <2>1 DEF up, setting
<1>3. CASE UpdateLoop
  <2>1. UNCHANGED <<exe, svc, config>> /\ (UNCHANGED upd \/ (upd.pc = "none" /\ upd'.pc = "stop"))
    BY <1>3 DEF UpdateLoop, CheckForUpdate, DownloadUpdate, DownloadFails, TriggerUpdate, NoHelper, OrderInv, managerVars
  <2> QED  BY <2>1 DEF up, setting
<1>4. CASE UserEdits
  <2>1. PICK k \in Keys : config' = [config EXCEPT !.text = "valid", !.value[k] = "chosen"]
    BY <1>0, <1>4 DEF UserEdits
  <2>2. UNCHANGED <<upd, exe, svc>> /\ upd.pc \notin Merging
    BY <1>0, <1>4 DEF UserEdits, managerVars
  <2>3. config'.value = [config.value EXCEPT ![k] = "chosen"]
    BY <1>0, <2>1 DEF Configs
  <2>4. Promise!Choose(k)
    BY <2>2, <2>3 DEF Promise!Choose
  <2> QED  BY <2>4 DEF Promise!Next
<1>5. CASE Process
  <2>1. UNCHANGED <<upd, config, exe>>
    BY <1>5 DEF Process, ServiceRuns, ServiceEnds, EntryPoint, EntryPointFails, ServiceStops, ProcessGone
  <2>2. UNCHANGED up \/ (up /\ ~up')
    BY <1>5 DEF up, Process, ServiceRuns, ServiceEnds, EntryPoint, EntryPointFails, ServiceStops, ProcessGone
  <2>3. CASE UNCHANGED up
    BY <2>1, <2>3 DEF setting
  <2>4. CASE up /\ ~up'
    <3>1. Promise!GoDown
      BY <2>1, <2>4 DEF Promise!GoDown, up
    <3> QED  BY <3>1 DEF Promise!Next
  <2> QED  BY <2>2, <2>3, <2>4
<1>6. CASE StopService
  <2>1. upd.pc = "stop" /\ upd'.pc = "wait" /\ svc = "running" /\ svc' = "stopping" /\ UNCHANGED <<exe, config>>
    BY <1>0, <1>6 DEF StopService, Stop, AcceptsStop, Goes, Helper
  <2>2. Promise!GoDown
    BY <2>1 DEF Promise!GoDown
  <2> QED  BY <2>2 DEF Promise!Next
<1>7. CASE \/ StopServiceFails \/ ServiceIsStopped \/ WaitGivesUp \/ RemoveBackup
           \/ RenameFile \/ CreateFile \/ CopyFile \/ CopyFails \/ StartServiceFails
  <2>1. UNCHANGED <<exe, svc, config>> /\ upd.pc \notin Merging
    BY <1>7 DEF StopServiceFails, ServiceIsStopped, WaitGivesUp, RemoveBackup, RenameFile,
       CreateFile, CopyFile, CopyFails, StartServiceFails, managerVars
  <2>2. upd'.pc \notin Merging
    <3>1. CASE StopServiceFails
      BY <1>0, <3>1 DEF StopServiceFails, HelperEnds, NoHelper, Helper
    <3>2. CASE CopyFile
      BY <1>0, <3>2 DEF CopyFile, Helper
    <3>3. CASE RemoveBackup \/ RenameFile \/ CreateFile \/ ServiceIsStopped
      BY <1>0, <3>3 DEF RemoveBackup, RenameFile, CreateFile, ServiceIsStopped, Goes, Helper
    <3>4. CASE WaitGivesUp \/ CopyFails \/ StartServiceFails
      BY <3>4 DEF WaitGivesUp, CopyFails, StartServiceFails, HelperEnds, NoHelper
    <3> QED  BY <1>7, <3>1, <3>2, <3>3, <3>4
  <2> QED  BY <2>1, <2>2 DEF up, setting
<1>8. CASE ReadConfigs
  <2>1. upd.pc = "read" /\ Parses(config) /\ UNCHANGED <<config, exe, svc>>
    BY <1>8 DEF ReadConfigs, ConfigInv, managerVars
  <2>2. CASE Shipped[upd.release] = {}
    <3>1. upd'.pc = "start"
      BY <1>0, <1>8, <2>2 DEF ReadConfigs, Goes, Helper
    <3> QED  BY <2>1, <3>1 DEF up, setting
  <2>3. CASE Shipped[upd.release] # {}
    <3>1. upd'.pc = "drop" /\ upd'.merged = Merge(config, upd.release)
      BY <1>0, <1>8, <2>1, <2>3 DEF ReadConfigs, Helper
    <3>2. svc = "stopped"
      BY <2>1 DEF DownInv, Committed
    <3>3. upd'.merged.value = Promise!Adopted(config.value, upd.release)
      BY <1>0, <2>1, <3>1, MergeAdopts
    <3>4. Promise!Adopt(upd.release)
      BY <2>1, <3>1, <3>2, <3>3 DEF Promise!Adopt, Promise!Adopted
    <3> QED  BY <1>0, <3>4 DEF Promise!Next
  <2> QED  BY <2>2, <2>3
<1>9. CASE DropSaved \/ SaveConfig \/ TruncateConfig
  <2>1. /\ upd.pc \in Merging /\ upd'.pc \in Merging /\ upd'.merged = upd.merged
        /\ UNCHANGED <<exe, svc>>
    BY <1>0, <1>9 DEF DropSaved, SaveConfig, TruncateConfig, Goes, Helper, managerVars
  <2> QED  BY <2>1 DEF up, setting
<1>10. CASE WriteConfig
  <2>1. upd.pc = "write" /\ upd'.pc = "start" /\ config' = upd.merged /\ UNCHANGED <<exe, svc>>
    BY <1>0, <1>10 DEF WriteConfig, Goes, Helper, managerVars
  <2> QED  BY <2>1 DEF up, setting
<1>11. CASE StartService
  <2>1. /\ upd.pc = "start" /\ upd'.pc = "none" /\ UNCHANGED config
        /\ svc = "stopped" /\ svc' = "starting" /\ exe' = file[MainFile]
    BY <1>11 DEF StartService, Launch, CanLaunch, HelperEnds, NoHelper
  <2>2. exe' = upd.release /\ exe <= upd.release /\ \A k \in Shipped[upd.release] : config.value[k] # "none"
    BY <2>1 DEF ReplacedInv, ForwardInv, ConfigInv, HasSettings
  <2>3. Promise!ComeUp(upd.release)
    BY <1>0, <2>1, <2>2, ReleasesAreNumbers DEF Promise!ComeUp, TypeOK, SelfUpdateTypeOK, ManagerTypeOK
  <2> QED  BY <1>0, <2>3 DEF Promise!Next
<1> QED
  BY <1>1, <1>2, <1>3, <1>4, <1>5, <1>6, <1>7, <1>8, <1>9, <1>10, <1>11 DEF Next, Updater

(* Updates keep their promise, for any number of releases, files and       *)
(* settings and whatever of the tolerated goes wrong.                      *)
THEOREM DeploymentKeepsPromise ==
    ASSUME UpdateFaults \subseteq Tolerated
    PROVE  Spec => KeepsPromise
<1> DEFINE Inv == /\ TypeOK /\ AtItsFile /\ OrderInv /\ DownInv
                  /\ ForwardInv /\ ReplacedInv /\ ConfigInv
<1>1. Init => Inv
  <2> SUFFICES ASSUME Init PROVE Inv
    OBVIOUS
  <2>1. upd.pc = "none" /\ loop.pc = "idle" /\ exe = 1 /\ latest = 1 /\ inst = "none" /\ config = ShippedConfig(1)
    BY DEF Init, SelfUpdateInit, ManagerInit, NoHelper, Asleep
  <2>2. AtItsFile
    BY DEF Init, SelfUpdateInit, NoHelper, AtItsFile, Replacing
  <2> QED
    BY <2>1, <2>2, InitTypeOK, InitOrder DEF DownInv, ForwardInv, ReplacedInv, ConfigInv, Committed,
       Replacing, Merging, ShippedConfig, Parses
<1>2. "admin" \notin UpdateFaults
  BY DEF Tolerated
<1>3. Inv /\ [Next]_vars => Inv'
  BY <1>2, NextTypeOK, NextAtItsFile, NextOrder, NextDown, NextForward, NextReplaced, NextConfig
<1>4. Inv /\ [Next]_vars => [Promise!Next]_(Promise!vars)
  BY NextPromise DEF Promise!vars, up, setting
<1> HIDE DEF Inv
<1> QED  BY <1>1, <1>3, <1>4, InitPromise, PTL DEF Spec, KeepsPromise, Promise!Spec
===============================================================================
