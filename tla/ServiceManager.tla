----------------------------- MODULE ServiceManager -----------------------------
(***************************************************************************)
(* The installed program as the Windows service manager sees it: the files *)
(* of the program's directory, whether the service is registered, what     *)
(* state it is in, and the entry point that reads the configuration before *)
(* it becomes a service (cmd/autohibernate/main.go).                       *)
(*                                                                         *)
(* Files are numbered in the order os.ReadDir lists them, that is, sorted  *)
(* by name.  The programs of the project sort as AzureAutoHibernate        *)
(* .Notifier.exe, .Updater.exe, .exe, then the icon.                       *)
(***************************************************************************)
EXTENDS Naturals

CONSTANTS MaxRelease,   \* releases are 1 .. MaxRelease (bounds the model)
          NumFiles,     \* files of a release other than config.json
          MainFile,     \* AzureAutoHibernate.exe
          UpdaterFile,  \* AzureAutoHibernate.Updater.exe
          Keys,         \* settings a configuration may have
          Shipped,      \* Shipped[r]: the settings in the config.json of release r
          UpdateFaults  \* what may go wrong in this instance

UpdateFaultKinds ==
    {"network",   \* a check or a download fails
     "stop",      \* the request to stop the service fails
     "query",     \* the service manager does not answer
     "start",     \* the service is not started or created
     "slow",      \* the service does not stop in time
     "rename",    \* a file cannot be renamed or removed
     "copy",      \* a file is copied in part or not at all
     "merge",     \* config.json cannot be read or written
     "metadata",  \* the metadata service of Azure does not answer
     "power",     \* the machine restarts, at any moment
     "edit",      \* the user edits config.json ...
     "typo",      \* ... so that it does not parse or is not valid
     "race",      \* ... while the updater merges it
     "admin"}     \* an administrator stops, uninstalls or installs the service

Releases == 1 .. MaxRelease
Files == 1 .. NumFiles

ASSUME ReleaseAssumption ==
    /\ MaxRelease \in Nat \ {0} /\ NumFiles \in Nat
    /\ MainFile \in Files /\ UpdaterFile \in Files /\ UpdaterFile # MainFile
    /\ Shipped \in [Releases -> SUBSET Keys]
    /\ UpdateFaults \subseteq UpdateFaultKinds

VARIABLES registered,  \* whether the service exists: "deleting" is marked for deletion
          svc,         \* its state
          exe,         \* the release that was started last
          file,        \* file[f]: what is on disk under the name of f
          config       \* config.json

managerVars == <<registered, svc, exe>>

Absent == 0
Partial == MaxRelease + 1
Content == Releases \cup {Absent, Partial}
Complete(c) == c \in Releases

(* A configuration: whether its text is there, parses, and is accepted by  *)
(* Validate; and where the value of each setting comes from.               *)
Texts == {"absent", "torn", "typo", "rejected", "valid"}
Origins == {"none", "shipped", "chosen"}
Configs == [text : Texts, value : [Keys -> Origins]]

NoConfig == [text |-> "absent", value |-> [k \in Keys |-> "none"]]
ShippedConfig(r) ==
    [text |-> "valid", value |-> [k \in Keys |-> IF k \in Shipped[r] THEN "shipped" ELSE "none"]]
Parses(c) == c.text \in {"rejected", "valid"}
Readable(c) == c.text \in {"typo", "rejected", "valid"}

ManagerTypeOK ==
    /\ registered \in {"no", "yes", "deleting"}
    /\ svc \in {"stopped", "starting", "running", "stopping"}
    /\ exe \in Releases
    /\ file \in [Files -> Content]
    /\ config \in Configs

ManagerInit ==
    /\ registered = "yes" /\ svc = "running" /\ exe = 1
    /\ file = [f \in Files |-> 1]
    /\ config = ShippedConfig(1)

-------------------------------------------------------------------------------
(* StartService: refused unless the service is registered and stopped, and *)
(* the process must be there to be created.                                *)
CanLaunch == registered = "yes" /\ svc = "stopped" /\ Complete(file[MainFile])

Launch == /\ CanLaunch
          /\ svc' = "starting" /\ exe' = file[MainFile]
          /\ UNCHANGED registered

(* Control(Stop): refused in every state but running.                      *)
AcceptsStop == registered # "no" /\ svc = "running"

Stop == /\ AcceptsStop
        /\ svc' = "stopping"
        /\ UNCHANGED <<registered, exe>>

(* The process is gone, and with it a service that was to be deleted.      *)
ProcessGone == /\ svc' = "stopped"
               /\ registered' = IF registered = "deleting" THEN "no" ELSE registered
               /\ UNCHANGED exe

(* runServiceOrDebug: the configuration, then the metadata, then the       *)
(* service; each may end the process instead, and nothing restarts it.     *)
EntryPoint == /\ svc = "starting"
              /\ config.text = "valid"
              /\ svc' = "running"
              /\ UNCHANGED <<registered, exe>>

EntryPointFails == /\ svc = "starting"
                   /\ config.text # "valid" \/ "metadata" \in UpdateFaults
                   /\ ProcessGone

(* Execute returns.                                                        *)
ServiceStops == /\ svc = "stopping"
                /\ ProcessGone
===============================================================================
