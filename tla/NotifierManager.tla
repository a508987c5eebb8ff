---------------------------- MODULE NotifierManager ----------------------------
(***************************************************************************)
(* The notifier manager (internal/service/notifier_manager.go) and the     *)
(* pipe it talks to the notifiers through (internal/pipe/pipe_server.go,   *)
(* internal/notifier/pipe_client.go, internal/notifier/ui.go).             *)
(*                                                                         *)
(* One notifier process runs in each user session.  Three goroutines of    *)
(* the service use the manager: "startup" (monitorSessions), "loop" (the   *)
(* monitor loop, which sends warnings, dismissals and cancellations) and   *)
(* the one of Execute, which calls Stop.  They share the map of notifiers  *)
(* under a read-write mutex.                                               *)
(*                                                                         *)
(* No clock: a sleep is a point where others may run, a timeout an answer  *)
(* that may come at any time.                                              *)
(***************************************************************************)
EXTENDS Naturals, Sequences, FiniteSets

CONSTANTS Sessions,    \* session identifiers
          Procs,       \* process identifiers, reused as Windows does
          None,        \* no process, no session
          PipeFaults   \* what may go wrong in this instance

PipeFaultKinds ==
    {"list",    \* the sessions cannot be enumerated
     "start",   \* a process cannot be started in a session
     "die",     \* a notifier dies
     "deaf",    \* a notifier runs without serving its pipe, for a while
     "hang",    \* a notifier accepts a command and does not answer
     "toast"}   \* the answer is an error, whether or not a toast was shown

ASSUME ManagerAssumption == /\ None \notin Procs \cup Sessions
                            /\ PipeFaults \subseteq PipeFaultKinds

VARIABLES sess,       \* sess[s]: the session as Windows reports it
          proc,       \* proc[p]: the session and the state of process p
          notifiers,  \* the map: the process of a session, or None
          connected,  \* sessions whose entry has IsConnected
          startupNotificationSent,
          writer,     \* the goroutine that holds mu for writing, or "none"
          readers,    \* those that hold it for reading
          go,         \* go[t]: what goroutine t is doing
          execute,    \* what the goroutine of Execute is doing
          infos       \* infos[s]: startup messages shown in s, at most 2 counted

vars == <<sess, proc, notifiers, connected, startupNotificationSent,
          writer, readers, go, execute, infos>>

Threads == {"startup", "loop"}
SessionStates == {"none", "active", "disconnected"}
ProcStates == {"dead", "serving", "deaf", "hung"}
Calls == {"warning", "dismiss", "cancel"}

(* A goroutine in the manager works on a stack of calls, the innermost     *)
(* first: "refresh" is checkSessions called by monitorSessions, the others *)
(* the Send method of that name, and checkSessions may put one SendInfo on *)
(* top.  snap is the session list it read, todo what is left of a range    *)
(* loop, cur the session of a pipe call, fresh connectedNotifierStarted.   *)
(* The loop is "asleep" in its select and "checking" outside of the        *)
(* manager.  What a Send method returns is in the service's module.        *)
Labels == {"asleep", "checking", "ended",
           "list", "lock", "visit", "ping", "rlock", "send", "call"}

Stacks == {<<>>} \cup {<<c>> : c \in {"refresh"} \cup Calls}
                  \cup {<<"info", c>> : c \in {"refresh"} \cup Calls}

Goroutine == [pc : Labels, stack : Stacks, snap : [Sessions -> SessionStates],
              todo : SUBSET Sessions, cur : Sessions \cup {None},
              fresh : BOOLEAN]

TypeOK ==
    /\ sess \in [Sessions -> SessionStates]
    /\ proc \in [Procs -> [session : Sessions \cup {None}, state : ProcStates]]
    /\ \A p \in Procs : proc[p].state = "dead" <=> proc[p].session = None
    /\ notifiers \in [Sessions -> Procs \cup {None}]
    /\ connected \subseteq Sessions
    /\ startupNotificationSent \in BOOLEAN
    /\ writer \in Threads \cup {"none"} /\ readers \subseteq Threads
    /\ go \in [Threads -> Goroutine]
    /\ execute \in {"running", "stopping", "returned", "exited"}
    /\ infos \in [Sessions -> 0..2]

Dead == [session |-> None, state |-> "dead"]

At(label, stack) == [pc |-> label, stack |-> stack,
                     snap |-> [s \in Sessions |-> "none"], todo |-> {}, cur |-> None,
                     fresh |-> FALSE]

(* A method is entered: DismissWarning is the one that does not call       *)
(* ensureNotifiersReady.                                                   *)
Entered(stack) == At(IF Head(stack) = "dismiss" THEN "rlock" ELSE "list", stack)

(* checkSessions returns, to monitorSessions or to a Send method.          *)
RefreshEnds(frame) ==
    IF Head(frame.stack) = "refresh" THEN At("ended", <<>>) ELSE At("rlock", frame.stack)

(* A Send method returns: SendInfo to the checkSessions below it, any      *)
(* other to the loop, which cancels once it has dismissed.                 *)
CallEnds(frame) ==
    CASE Tail(frame.stack) # <<>>      -> RefreshEnds([frame EXCEPT !.stack = Tail(@)])
      [] frame.stack = <<"dismiss">>   -> Entered(<<"cancel">>)
      [] OTHER                         -> At("asleep", <<>>)

Init ==
    /\ sess \in [Sessions -> SessionStates]
    /\ proc = [p \in Procs |-> Dead]
    /\ notifiers = [s \in Sessions |-> None]
    /\ connected = {}
    /\ startupNotificationSent = FALSE
    /\ writer = "none" /\ readers = {}
    /\ go = [t \in Threads |-> IF t = "startup" THEN At("list", <<"refresh">>) ELSE At("checking", <<>>)]
    /\ execute = "running"
    /\ infos = [s \in Sessions |-> 0]

-------------------------------------------------------------------------------
Known == {s \in Sessions : notifiers[s] # None}
Alive(p) == p \in Procs /\ proc[p].state # "dead"
Hung(p) == p \in Procs /\ proc[p].state = "hung"
Listed(t) == {s \in Sessions : go[t].snap[s] # "none"}

mapVars == <<proc, notifiers, connected>>
lockVars == <<writer, readers>>

Steps(t, frame) == go' = [go EXCEPT ![t] = frame]

(* stopNotifier: TerminateProcess, and the entry is deleted.               *)
Terminate(ps) == proc' = [p \in Procs |-> IF p \in ps THEN Dead ELSE proc[p]]
Forget(S) == /\ notifiers' = [s \in Sessions |-> IF s \in S THEN None ELSE notifiers[s]]
             /\ connected' = connected \ S

(* IsConnected of an entry that exists or is created.                      *)
Connects(s, isConnected) == connected' = IF isConnected THEN connected \cup {s} ELSE connected \ {s}

-------------------------------------------------------------------------------
(* checkSessions.                                                          *)

(* Mutants of the steps below: a goroutine takes the lock while another    *)
(* reads the map; a live notifier is not recognised, so a second one is    *)
(* started beside it; the flag is not tested; the message is sent before   *)
(* the lock is released.                                                   *)
LockAmongReaders(t) ==
    /\ go[t].pc = "lock"
    /\ writer = "none"
    /\ writer' = t
    /\ Steps(t, [go[t] EXCEPT !.pc = "visit", !.todo = Listed(t)])
    /\ UNCHANGED <<sess, mapVars, startupNotificationSent, readers, execute, infos>>

StartBesideNotifier(t) ==
    /\ go[t].pc = "visit"
    /\ \E s \in go[t].todo, p \in {q \in Procs : ~Alive(q)} :
          /\ sess[s] # "none"
          /\ p \notin {notifiers[o] : o \in Sessions \ {s}}
          /\ proc' = [proc EXCEPT ![p] = [session |-> s, state |-> "serving"]]
          /\ notifiers' = [notifiers EXCEPT ![s] = p]
          /\ Connects(s, go[t].snap[s] = "active")
          /\ Steps(t, [go[t] EXCEPT !.pc = "ping", !.cur = s,
                                    !.fresh = @ \/ go[t].snap[s] = "active"])
    /\ UNCHANGED <<sess, startupNotificationSent, lockVars, execute, infos>>

SweepGreetsAgain(t) ==
    LET gone == Known \ Listed(t)
        greets == go[t].fresh /\ Known \ gone # {} IN
    /\ go[t].pc = "visit" /\ go[t].todo = {}
    /\ Terminate({notifiers[s] : s \in gone})
    /\ Forget(gone)
    /\ startupNotificationSent' = (startupNotificationSent \/ greets)
    /\ writer' = "none"
    /\ Steps(t, IF greets THEN Entered(<<"info">> \o go[t].stack) ELSE RefreshEnds(go[t]))
    /\ UNCHANGED <<sess, readers, execute, infos>>

SweepGreetsLocked(t) ==
    LET gone == Known \ Listed(t)
        greets == ~startupNotificationSent /\ go[t].fresh /\ Known \ gone # {} IN
    /\ go[t].pc = "visit" /\ go[t].todo = {}
    /\ Terminate({notifiers[s] : s \in gone})
    /\ Forget(gone)
    /\ startupNotificationSent' = (startupNotificationSent \/ greets)
    /\ writer' = IF greets THEN t ELSE "none"
    /\ Steps(t, IF greets THEN Entered(<<"info">> \o go[t].stack) ELSE RefreshEnds(go[t]))
    /\ UNCHANGED <<sess, readers, execute, infos>>

(* GetActiveSessions is called before the lock is taken.                   *)
ListSessions(t) ==
    /\ go[t].pc = "list"
    /\ \/ Steps(t, [go[t] EXCEPT !.snap = sess, !.pc = "lock"])
       \/ "list" \in PipeFaults /\ Steps(t, RefreshEnds(go[t]))
    /\ UNCHANGED <<sess, mapVars, startupNotificationSent, lockVars, execute, infos>>

Lock(t) ==
    /\ go[t].pc = "lock"
    /\ writer = "none" /\ readers = {}
    /\ writer' = t
    /\ Steps(t, [go[t] EXCEPT !.pc = "visit", !.todo = Listed(t)])
    /\ UNCHANGED <<sess, mapVars, startupNotificationSent, readers, execute, infos>>

(* A session whose notifier is alive: only IsConnected follows the list.   *)
KeepNotifier(t) ==
    /\ go[t].pc = "visit"
    /\ \E s \in go[t].todo :
          /\ Alive(notifiers[s])
          /\ Connects(s, go[t].snap[s] = "active")
          /\ Steps(t, [go[t] EXCEPT !.todo = @ \ {s}])
    /\ UNCHANGED <<sess, proc, notifiers, startupNotificationSent, lockVars, execute, infos>>

(* startNotifier succeeds in a session without a living notifier; it then  *)
(* pings the new process, with mu held.                                    *)
StartNotifier(t) ==
    /\ go[t].pc = "visit"
    /\ \E s \in go[t].todo, p \in {q \in Procs : ~Alive(q)},
          state \in {"serving"} \cup (PipeFaults \cap {"deaf"}) :
          /\ ~Alive(notifiers[s])
          /\ sess[s] # "none"
          /\ p \notin {notifiers[o] : o \in Sessions \ {s}}
          /\ proc' = [proc EXCEPT ![p] = [session |-> s, state |-> state]]
          /\ notifiers' = [notifiers EXCEPT ![s] = p]
          /\ Connects(s, go[t].snap[s] = "active")
          /\ Steps(t, [go[t] EXCEPT !.pc = "ping", !.cur = s,
                                    !.fresh = @ \/ go[t].snap[s] = "active"])
    /\ UNCHANGED <<sess, startupNotificationSent, lockVars, execute, infos>>

(* It fails: the session is gone by now, or the token or the process       *)
(* cannot be had.  The old entry is deleted all the same.                  *)
StartNotifierFails(t) ==
    /\ go[t].pc = "visit"
    /\ \E s \in go[t].todo :
          /\ ~Alive(notifiers[s])
          /\ sess[s] = "none" \/ "start" \in PipeFaults
          /\ Forget({s})
          /\ Steps(t, [go[t] EXCEPT !.todo = @ \ {s}])
    /\ UNCHANGED <<sess, proc, startupNotificationSent, lockVars, execute, infos>>

(* Ping comes back, its error is only logged.                              *)
PingReturns(t) ==
    /\ go[t].pc = "ping"
    /\ ~Hung(notifiers[go[t].cur])
    /\ Steps(t, [go[t] EXCEPT !.pc = "visit", !.todo = @ \ {go[t].cur}, !.cur = None])
    /\ UNCHANGED <<sess, mapVars, startupNotificationSent, lockVars, execute, infos>>

(* The end of checkSessions: notifiers of sessions that were not in the    *)
(* list are stopped, the startup flag is set, the lock is released, and    *)
(* SendInfo is called without it.                                          *)
SweepAndUnlock(t) ==
    LET gone == Known \ Listed(t)
        greets == ~startupNotificationSent /\ go[t].fresh /\ Known \ gone # {}
    IN  /\ go[t].pc = "visit" /\ go[t].todo = {}
        /\ Terminate({notifiers[s] : s \in gone})
        /\ Forget(gone)
        /\ startupNotificationSent' = (startupNotificationSent \/ greets)
        /\ writer' = "none"
        /\ Steps(t, IF greets THEN Entered(<<"info">> \o go[t].stack) ELSE RefreshEnds(go[t]))
        /\ UNCHANGED <<sess, readers, execute, infos>>

Refresh(t) == \/ ListSessions(t) \/ Lock(t) \/ KeepNotifier(t) \/ StartNotifier(t)
              \/ StartNotifierFails(t) \/ PingReturns(t) \/ SweepAndUnlock(t)

-------------------------------------------------------------------------------
(* The Send methods, once the notifiers are ready.                         *)

(* With no notifiers the method returns nil at once; a dismissal goes to   *)
(* every notifier, the other messages to those of connected sessions.      *)
RLock(t) ==
    LET to == IF Head(go[t].stack) = "dismiss" THEN Known ELSE Known \cap connected IN
    /\ go[t].pc = "rlock"
    /\ writer = "none"
    /\ IF Known = {}
       THEN Steps(t, CallEnds(go[t])) /\ UNCHANGED readers
       ELSE Steps(t, [go[t] EXCEPT !.pc = "send", !.todo = to]) /\ readers' = readers \cup {t}
    /\ UNCHANGED <<sess, mapVars, startupNotificationSent, writer, execute, infos>>

(* SendCommand takes the mutex of the pipe of one session.                 *)
SendCommand(t) ==
    /\ go[t].pc = "send"
    /\ \E s \in go[t].todo :
          /\ \A o \in Threads : go[o].pc = "call" => go[o].cur # s
          /\ Steps(t, [go[t] EXCEPT !.pc = "call", !.cur = s, !.todo = @ \ {s}])
    /\ UNCHANGED <<sess, mapVars, startupNotificationSent, lockVars, execute, infos>>

(* Whether a message is on the screen when its call comes back: from a     *)
(* notifier that serves its pipe always, unless the toast failed; from a   *)
(* deaf one never, since no pipe appears; from one that has died perhaps.  *)
Serving(p) == p \in Procs /\ proc[p].state = "serving"

MayShow(p) == {shown \in BOOLEAN : IF shown THEN Serving(p) \/ ~Alive(p)
                                            ELSE ~Serving(p) \/ "toast" \in PipeFaults}

(* SendCommand returns, with or without an error.  Reading the answer has  *)
(* no timeout: nothing comes from a notifier that hangs.                   *)
Answered(t) ==
    LET s == go[t].cur IN
    /\ go[t].pc = "call"
    /\ ~Hung(notifiers[s])
    /\ Steps(t, [go[t] EXCEPT !.pc = "send", !.cur = None])
    /\ \E shown \in MayShow(notifiers[s]) :
          infos' = IF shown /\ Head(go[t].stack) = "info" /\ infos[s] < 2
                   THEN [infos EXCEPT ![s] = @ + 1] ELSE infos
    /\ UNCHANGED <<sess, mapVars, startupNotificationSent, lockVars, execute>>

Returns(t) ==
    /\ go[t].pc = "send" /\ go[t].todo = {}
    /\ readers' = readers \ {t}
    /\ Steps(t, CallEnds(go[t]))
    /\ UNCHANGED <<sess, mapVars, startupNotificationSent, writer, execute, infos>>

Sending(t) == RLock(t) \/ SendCommand(t) \/ Answered(t) \/ Returns(t)

-------------------------------------------------------------------------------
(* The monitor loop, as far as the manager sees it: a check ends with a    *)
(* warning, with a dismissal and a cancellation, or without any.  A check  *)
(* under way when the service is stopped is carried to its end.            *)

LoopWakes ==
    /\ go["loop"].pc = "asleep" /\ execute = "running"
    /\ Steps("loop", At("checking", <<>>))
    /\ UNCHANGED <<sess, mapVars, startupNotificationSent, lockVars, execute, infos>>

LoopCalls ==
    /\ go["loop"].pc = "checking"
    /\ \E frame \in {Entered(<<"warning">>), Entered(<<"dismiss">>), At("asleep", <<>>)} :
          Steps("loop", frame)
    /\ UNCHANGED <<sess, mapVars, startupNotificationSent, lockVars, execute, infos>>

LoopStops ==
    /\ go["loop"].pc = "asleep" /\ execute # "running"
    /\ Steps("loop", At("ended", <<>>))
    /\ UNCHANGED <<sess, mapVars, startupNotificationSent, lockVars, execute, infos>>

Loop == LoopWakes \/ LoopCalls \/ LoopStops

-------------------------------------------------------------------------------
(* Execute: a stop request closes stopChan and, two seconds later, calls   *)
(* Stop, which waits for monitorSessions but not for the loop.             *)

StopRequested ==
    /\ execute = "running"
    /\ execute' = "stopping"
    /\ UNCHANGED <<sess, mapVars, startupNotificationSent, lockVars, go, infos>>

Stop ==
    /\ execute = "stopping"
    /\ go["startup"].pc = "ended"
    /\ writer = "none" /\ readers = {}
    /\ Terminate({notifiers[s] : s \in Known})
    /\ Forget(Known)
    /\ execute' = "returned"
    /\ UNCHANGED <<sess, startupNotificationSent, lockVars, go, infos>>

(* Execute has returned and the process ends with every goroutine in it.   *)
ProcessExits ==
    /\ execute = "returned"
    /\ execute' = "exited"
    /\ go' = [t \in Threads |-> At("ended", <<>>)]
    /\ writer' = "none" /\ readers' = {}
    /\ Forget(Sessions)
    /\ UNCHANGED <<sess, proc, startupNotificationSent, infos>>

-------------------------------------------------------------------------------
(* Windows and the users: logging off takes the processes of the session   *)
(* with it.  And the notifiers, each going wrong in its own way.           *)

SessionChanges ==
    \E s \in Sessions, state \in SessionStates :
        /\ state # sess[s]
        /\ sess' = [sess EXCEPT ![s] = state]
        /\ Terminate({p \in Procs : state = "none" /\ proc[p].session = s})
        /\ UNCHANGED <<notifiers, connected, startupNotificationSent, lockVars, go, execute, infos>>

NotifierChanges ==
    \E p \in Procs :
        /\ \/ "die" \in PipeFaults /\ Alive(p) /\ Terminate({p})
           \/ \E to \in ProcStates :
                 /\ \/ "deaf" \in PipeFaults /\ {proc[p].state, to} = {"serving", "deaf"}
                    \/ "hang" \in PipeFaults /\ proc[p].state = "serving" /\ to = "hung"
                 /\ proc' = [proc EXCEPT ![p].state = to]
        /\ UNCHANGED <<sess, notifiers, connected, startupNotificationSent, lockVars, go, execute, infos>>

-------------------------------------------------------------------------------
Runs(t) == Refresh(t) \/ Sending(t)

Next == \/ \E t \in Threads : Runs(t)
        \/ Loop
        \/ StopRequested \/ Stop \/ ProcessExits
        \/ SessionChanges \/ NotifierChanges

Spec == Init /\ [][Next]_vars

(* The scheduler runs every goroutine, and no goroutine waits for a mutex  *)
(* that is free again and again (Go's mutexes do not starve a waiter).     *)
(* Nothing is assumed of users, of notifiers, or of who stops the service. *)
Fairness == /\ \A t \in Threads : SF_vars(Runs(t))
            /\ WF_vars(LoopCalls) /\ WF_vars(LoopStops)
            /\ SF_vars(Stop)

FairSpec == Spec /\ Fairness

-------------------------------------------------------------------------------
(* Until the service exits, a notifier that lives is the one the map has   *)
(* for its session: none is started beside another and none is lost, so    *)
(* whatever was started can be stopped.                                    *)
NoStrays ==
    execute # "exited" => \A p \in Procs : Alive(p) => notifiers[proc[p].session] = p

(* "only on first call with connected session": nobody is shown the        *)
(* startup message twice, whichever goroutines refresh at the same time.   *)
StartupShownOnce == \A s \in Sessions : infos[s] <= 1

(* No two goroutines wait for each other and none for itself: for the lock *)
(* (a reader also waits for a writer that is waiting) or for the mutex of  *)
(* a pipe.  checkSessions calls SendInfo, which calls checkSessions, and   *)
(* pipe calls are made under the lock.                                     *)
WaitsFor(t, o) ==
    \/ go[t].pc \in {"lock", "rlock"} /\ writer = o
    \/ go[t].pc = "lock" /\ o \in readers
    \/ go[t].pc = "rlock" /\ go[o].pc = "lock"
    \/ go[t].pc = "send" /\ go[o].pc \in {"call", "ping"} /\ go[o].cur \in go[t].todo

NoCircularWait == \A t, o \in Threads : WaitsFor(t, o) => ~WaitsFor(o, t)

(* A notifier is not stopped or replaced by one goroutine while another    *)
(* waits for its answer.                                                   *)
NotStoppedWhileServing ==
    [][\A t \in Threads : go[t].pc \in {"call", "ping"} /\ go'[t].pc = go[t].pc
         => notifiers'[go[t].cur] = notifiers[go[t].cur]]_vars

(* A goroutine that entered the manager leaves it.                         *)
InManager(t) == go[t].pc \notin {"asleep", "checking", "ended"}
CallsReturn == \A t \in Threads : InManager(t) ~> ~InManager(t)

(* A stop request is carried out: no goroutine keeps Stop waiting.         *)
StopCompletes == execute = "stopping" ~> execute = "returned"
===============================================================================
