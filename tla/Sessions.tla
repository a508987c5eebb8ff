------------------------------- MODULE Sessions -------------------------------
(***************************************************************************)
(* The user sessions of the virtual machine as Windows reports them:       *)
(* who is logged on, whose session is connected or disconnected, and how   *)
(* long ago each session last saw input (internal/monitor/session.go).     *)
(* The users are the environment: what they do is not decided by the code. *)
(*                                                                         *)
(* Time is discrete.  Nothing holds a clock: a moment is kept as its age,  *)
(* the number of ticks since, which stops growing at Horizon; a pointer    *)
(* that is nil in the code is Unset.                                       *)
(***************************************************************************)
EXTENDS Integers

CONSTANTS Users,     \* the accounts that may log on, one session each
          Horizon    \* bound of the model: ages saturate here

ASSUME HorizonAssumption == Horizon \in Nat \ {0}

VARIABLES sess,      \* sess[u]: the state of the session of u
          idle       \* idle[u]: ticks since the last input in that session

sessVars == <<sess, idle>>

SessionStates == {"none", "active", "disconnected"}

Age == 0..Horizon
Unset == -1
OptAge == {Unset} \cup Age

Older(a) == IF a < Horizon THEN a + 1 ELSE Horizon
OlderOpt(a) == IF a = Unset THEN Unset ELSE Older(a)

SessionsTypeOK == /\ sess \in [Users -> SessionStates]
                  /\ idle \in [Users -> Age]

SessionsInit == SessionsTypeOK /\ \A u \in Users : sess[u] = "none" => idle[u] = 0

-------------------------------------------------------------------------------
(* Every session of an active or disconnected state, which is what         *)
(* GetActiveSessions lists when it can read their user names.              *)
Present == {u \in Users : sess[u] # "none"}

(* Those whose IsDisconnected is false.                                    *)
Connected == {u \in Users : sess[u] = "active"}

-------------------------------------------------------------------------------
(* The users.  Logging on, reconnecting and input reset the idle time that *)
(* GetSessionIdleTime computes from LastInputTime.                         *)

Touch(u, state) == /\ sess' = [sess EXCEPT ![u] = state]
                   /\ idle' = [idle EXCEPT ![u] = 0]

Connect(u) == sess[u] # "active" /\ Touch(u, "active")

Disconnect(u) == /\ sess[u] = "active"
                 /\ sess' = [sess EXCEPT ![u] = "disconnected"]
                 /\ UNCHANGED idle

LogOff(u) == sess[u] # "none" /\ Touch(u, "none")

Input(u) == sess[u] = "active" /\ idle[u] > 0 /\ Touch(u, "active")

UserStep == \E u \in Users : Connect(u) \/ Disconnect(u) \/ LogOff(u) \/ Input(u)

AgeSessions == /\ idle' = [u \in Users |-> IF sess[u] = "none" THEN 0 ELSE Older(idle[u])]
               /\ UNCHANGED sess
===============================================================================
