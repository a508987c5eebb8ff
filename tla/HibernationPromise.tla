--------------------------- MODULE HibernationPromise ---------------------------
(***************************************************************************)
(* What the service promises those who use the machine, without a loop, a  *)
(* monitor or a request: connected users are warned and left the warning   *)
(* period to touch anything, nothing but their activity takes a warning    *)
(* back, and the machine is suspended once for each time it may be left.   *)
(***************************************************************************)
EXTENDS Sessions

CONSTANTS InactiveUserThreshold, WarningPeriod,
          MayRestart  \* whoever restarts the service takes its promises back

VARIABLES vm,         \* the machine
          told,       \* what the users were last shown
          countdown,  \* age of the warning, Unset when there is none
          leaving     \* the machine may be suspended

vars == <<sessVars, vm, told, countdown, leaving>>

Init == /\ SessionsInit
        /\ vm = "running" /\ told = "nothing"
        /\ countdown = Unset /\ leaving = FALSE

Inactive == \A u \in Connected : idle[u] >= InactiveUserThreshold

Announce == /\ countdown = Unset /\ ~leaving
            /\ Connected # {} /\ Inactive
            /\ countdown' = 0
            /\ UNCHANGED <<sessVars, vm, told, leaving>>

ShowWarning == /\ countdown # Unset
               /\ told' = "warning"
               /\ UNCHANGED <<sessVars, vm, countdown, leaving>>

Cancel == /\ countdown # Unset
          /\ Connected = {} \/ ~Inactive
          /\ countdown' = Unset
          /\ UNCHANGED <<sessVars, vm, told, leaving>>

ShowCanceled == /\ countdown = Unset
                /\ told' = "canceled"
                /\ UNCHANGED <<sessVars, vm, countdown, leaving>>

(* Nobody is connected, users are not to be warned, or they have been and  *)
(* have not touched anything since.                                        *)
MayLeave == \/ Connected = {}
            \/ WarningPeriod = 0 /\ Inactive
            \/ /\ countdown >= WarningPeriod /\ told = "warning"
               /\ \A u \in Connected : idle[u] >= countdown

Leave == /\ vm = "running" /\ ~leaving /\ MayLeave
         /\ leaving' = TRUE /\ countdown' = Unset
         /\ UNCHANGED <<sessVars, vm, told>>

StayAfterAll == /\ leaving /\ leaving' = FALSE
                /\ UNCHANGED <<sessVars, vm, told, countdown>>

Suspend == /\ vm = "running" /\ leaving
           /\ vm' = "suspended" /\ leaving' = FALSE
           /\ told' = "nothing"
           /\ UNCHANGED <<sessVars, countdown>>

Resume == /\ vm = "suspended" /\ vm' = "running"
          /\ UNCHANGED <<sessVars, told, countdown, leaving>>

Forget == /\ MayRestart
          /\ countdown' = Unset
          /\ leaving' \in {leaving, FALSE}
          /\ UNCHANGED <<sessVars, vm, told>>

UserActs == /\ vm = "running" /\ UserStep
            /\ UNCHANGED <<vm, told, countdown, leaving>>

Tick == /\ AgeSessions
        /\ countdown' = OlderOpt(countdown)
        /\ UNCHANGED <<vm, told, leaving>>

Next == \/ Announce \/ ShowWarning \/ Cancel \/ ShowCanceled
        \/ Leave \/ StayAfterAll \/ Suspend \/ Resume
        \/ Forget \/ UserActs \/ Tick

Spec == Init /\ [][Next]_vars
===============================================================================
