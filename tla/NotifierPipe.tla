------------------------------ MODULE NotifierPipe ------------------------------
(***************************************************************************)
(* The named pipe of one session: SendCommand of the service               *)
(* (internal/pipe/pipe_server.go) at one end, the listen loop of the       *)
(* notifiers (internal/notifier/pipe_client.go, ui.go, toast.go and        *)
(* cmd/notifier/main.go) at the other.                                     *)
(*                                                                         *)
(* It is what the module NotifierManager takes for one step, Answered.     *)
(*                                                                         *)
(* The notifier is the pipe's server: it creates an instance of the pipe,  *)
(* serves the one client that opens it, closes it and creates the next.    *)
(* More than one notifier may serve the pipe of a session: a service that  *)
(* ended without stopping its notifier leaves it behind, and the next one  *)
(* starts another.                                                         *)
(*                                                                         *)
(* Each member of Calls is one call of SendCommand, made once: the number  *)
(* of calls is the bound of an instance.  There is no clock: the five      *)
(* seconds of SendCommand may be over whenever no instance is listening.   *)
(***************************************************************************)
EXTENDS Naturals, FiniteSets

CONSTANTS Calls,       \* the calls of SendCommand
          Messages,    \* those that send a warning, a cancellation or an info
          Notifiers,   \* processes that may serve the pipe
          None,        \* no call, no notifier, no answer
          ChannelFaults

ChannelFaultKinds ==
    {"service",  \* the service ends, and is started again
     "die",      \* a notifier dies or is terminated
     "signal",   \* a notifier is told to stop
     "open",     \* the pipe cannot be opened
     "toast"}    \* PowerShell fails, whether or not the toast was shown

ASSUME PipeAssumption == /\ None \notin Calls \cup Notifiers \cup {"ok", "error"}
                         /\ Messages \subseteq Calls
                         /\ ChannelFaults \subseteq ChannelFaultKinds

VARIABLES call,       \* call[c]: how far the call is, and its end of the pipe
          notifier,   \* notifier[n]: the listen loop of n, and its instance
          shown       \* shown[c]: toasts shown for c, at most 2 counted

vars == <<call, notifier, shown>>

(* to is the notifier whose instance the call has open, while both ends    *)
(* are; inbox what was written to it: it stays there to be read when the   *)
(* notifier closes its end.                                                *)
CallRecord == [pc : {"unmade", "waiting", "opening", "writing", "reading",
                     "ok", "error", "abandoned"},
               to : Notifiers \cup {None},
               inbox : {"ok", "error", None}]

(* request is the command in the instance, or the one in hand; answer the  *)
(* response to it.  told is a closed stopChan.                             *)
NotifierRecord == [pc : {"dead", "select", "accept", "read", "handle", "answer"},
                   link : {"none", "listening", "open", "closed"},
                   client : Calls \cup {None},
                   request : Calls \cup {None},
                   answer : {"ok", "error", None},
                   told : BOOLEAN]

TypeOK == /\ call \in [Calls -> CallRecord]
          /\ notifier \in [Notifiers -> NotifierRecord]
          /\ shown \in [Calls -> 0..2]

(* A notifier at the head of its loop, without an instance.                *)
AtSelect(told) == [pc |-> "select", link |-> "none", client |-> None,
                   request |-> None, answer |-> None, told |-> told]
Dead == [AtSelect(FALSE) EXCEPT !.pc = "dead"]

Init == /\ call = [c \in Calls |-> [pc |-> "unmade", to |-> None, inbox |-> None]]
        /\ notifier = [n \in Notifiers |-> Dead]
        /\ shown = [c \in Calls |-> 0]

-------------------------------------------------------------------------------
InSend(c) == call[c].pc \in {"opening", "writing", "reading"}
Sent == {c \in Calls : call[c].pc \in {"ok", "error", "abandoned"}}
Alive(n) == notifier[n].pc # "dead"
Listening(n) == notifier[n].link = "listening"

(* The instance of n, once the call at its other end has closed it: what   *)
(* the call has written is still there.                                    *)
LosesClient(n) == [notifier[n] EXCEPT !.link = "closed", !.client = None]

(* SendCommand returns and closes its handle.                              *)
Ends(c, result) ==
    /\ call' = [call EXCEPT ![c] = [pc |-> result, to |-> None, inbox |-> None]]
    /\ notifier' = [n \in Notifiers |-> IF n = call[c].to THEN LosesClient(n) ELSE notifier[n]]
    /\ UNCHANGED shown

(* Notifier n closes its instance, if it has one, and goes on as frame.    *)
Closes(n, frame) ==
    /\ notifier' = [notifier EXCEPT ![n] = frame]
    /\ call' = [c \in Calls |-> IF call[c].to = n THEN [call[c] EXCEPT !.to = None] ELSE call[c]]

-------------------------------------------------------------------------------
(* SendCommand.                                                            *)

(* Mutants of the steps below: the deadline is looked at only when the     *)
(* pipe is busy; that nothing was read is not noticed; a command whose     *)
(* answer does not come is sent again.                                     *)
GiveUpBusy(c) ==
    /\ call[c].pc = "opening"
    /\ \A n \in Notifiers : ~Listening(n)
    /\ \E n \in Notifiers : notifier[n].link # "none"
    /\ Ends(c, "error")

ReadNothing(c) ==
    /\ call[c].pc = "reading" /\ (call[c].inbox # None \/ call[c].to = None)
    /\ Ends(c, call[c].inbox)

BrokenRetries(c) ==
    /\ call[c].pc \in {"writing", "reading"}
    /\ call[c].inbox = None /\ call[c].to = None
    /\ call' = [call EXCEPT ![c].pc = "opening"]
    /\ UNCHANGED <<notifier, shown>>

Make(c) ==
    /\ call[c].pc = "unmade"
    /\ call' = [call EXCEPT ![c].pc = "waiting"]
    /\ UNCHANGED <<notifier, shown>>

Begin(c) ==
    /\ call[c].pc = "waiting"
    /\ ~\E d \in Calls : InSend(d)
    /\ call' = [call EXCEPT ![c].pc = "opening"]
    /\ UNCHANGED <<notifier, shown>>

(* An instance that listens can be opened, also before its notifier has    *)
(* called ConnectNamedPipe.                                                *)
Open(c) ==
    /\ call[c].pc = "opening"
    /\ \E n \in Notifiers :
          /\ Listening(n)
          /\ call' = [call EXCEPT ![c].pc = "writing", ![c].to = n]
          /\ notifier' = [notifier EXCEPT ![n].link = "open", ![n].client = c]
    /\ UNCHANGED shown

(* ERROR_FILE_NOT_FOUND without an instance, ERROR_PIPE_BUSY when each has *)
(* a client, until the deadline is over.                                   *)
GiveUp(c) ==
    /\ call[c].pc = "opening"
    /\ \A n \in Notifiers : ~Listening(n)
    /\ Ends(c, "error")

(* Any other error ends the call at once.                                  *)
OpenFails(c) ==
    /\ call[c].pc = "opening" /\ "open" \in ChannelFaults
    /\ Ends(c, "error")

Write(c) ==
    LET n == call[c].to IN
    /\ call[c].pc = "writing" /\ n # None
    /\ call' = [call EXCEPT ![c].pc = "reading"]
    /\ notifier' = [notifier EXCEPT ![n].request = c]
    /\ UNCHANGED shown

(* ReadFile waits without a limit: for an answer or for the other end to   *)
(* be closed.  An answer longer than the buffer is one of status "error",  *)
(* with the output of PowerShell in it: it fails to unmarshal.             *)
Read(c) ==
    /\ call[c].pc = "reading" /\ call[c].inbox # None
    /\ Ends(c, call[c].inbox)

(* WriteFile or ReadFile, after the notifier has closed its end.           *)
Broken(c) ==
    /\ call[c].pc \in {"writing", "reading"}
    /\ call[c].inbox = None /\ call[c].to = None
    /\ Ends(c, "error")

Sends(c) == Begin(c) \/ Open(c) \/ GiveUp(c) \/ Write(c) \/ Read(c) \/ Broken(c)

(* The process ends: its handles are closed and its calls are gone.        *)
ServiceEnds ==
    /\ "service" \in ChannelFaults
    /\ call' = [c \in Calls |->
                  IF call[c].pc = "waiting" \/ InSend(c)
                  THEN [pc |-> "abandoned", to |-> None, inbox |-> None] ELSE call[c]]
    /\ notifier' = [n \in Notifiers |->
                      IF notifier[n].link = "open" THEN LosesClient(n) ELSE notifier[n]]
    /\ UNCHANGED shown

-------------------------------------------------------------------------------
(* The notifier.                                                           *)

(* Mutants of the steps below: stopChan is not looked at between two       *)
(* connections; an instance whose client has left is only closed once it   *)
(* was accepted.                                                           *)
ListenWhenTold(n) ==
    /\ notifier[n].pc = "select"
    /\ notifier' = [notifier EXCEPT ![n].pc = "accept", ![n].link = "listening"]
    /\ UNCHANGED <<call, shown>>

ClientGoneLater(n) ==
    /\ notifier[n].link = "closed"
    /\ notifier[n].pc = "read" /\ notifier[n].request = None
    /\ Closes(n, AtSelect(notifier[n].told))
    /\ UNCHANGED shown

(* main starts the loop and waits for a signal.                            *)
Starts(n) ==
    /\ ~Alive(n)
    /\ notifier' = [notifier EXCEPT ![n] = AtSelect(FALSE)]
    /\ UNCHANGED <<call, shown>>

(* main calls Stop, which closes stopChan and waits for the loop.          *)
Signalled(n) ==
    /\ "signal" \in ChannelFaults
    /\ Alive(n) /\ ~notifier[n].told
    /\ notifier' = [notifier EXCEPT ![n].told = TRUE]
    /\ UNCHANGED <<call, shown>>

(* The head of the loop: it ends, and main with it, or an instance is      *)
(* created.  When that fails the loop comes back here at once.             *)
Stops(n) ==
    /\ notifier[n].pc = "select" /\ notifier[n].told
    /\ Closes(n, Dead)
    /\ UNCHANGED shown

Listen(n) ==
    /\ notifier[n].pc = "select" /\ ~notifier[n].told
    /\ notifier' = [notifier EXCEPT ![n].pc = "accept", ![n].link = "listening"]
    /\ UNCHANGED <<call, shown>>

Accept(n) ==
    /\ notifier[n].pc = "accept" /\ notifier[n].link = "open"
    /\ notifier' = [notifier EXCEPT ![n].pc = "read"]
    /\ UNCHANGED <<call, shown>>

Receive(n) ==
    /\ notifier[n].pc = "read" /\ notifier[n].request # None
    /\ notifier' = [notifier EXCEPT ![n].pc = "handle"]
    /\ UNCHANGED <<call, shown>>

(* ConnectNamedPipe, when the client has come and gone before it (what it  *)
(* wrote is lost), and ReadFile, when it has gone without writing.         *)
ClientGone(n) ==
    /\ notifier[n].link = "closed"
    /\ notifier[n].pc = "accept" \/ (notifier[n].pc = "read" /\ notifier[n].request = None)
    /\ Closes(n, AtSelect(notifier[n].told))
    /\ UNCHANGED shown

(* A toast is put on the screen by PowerShell, which may fail before or    *)
(* after it (Show).                                                        *)
Toasts == {[answer |-> "ok", toasts |-> 1]}
          \cup {[answer |-> "error", toasts |-> t] : t \in {i \in 0..1 : "toast" \in ChannelFaults}}

(* A ping and a dismissal are only answered.                               *)
Outcomes(c) == IF c \in Messages THEN Toasts ELSE {[answer |-> "ok", toasts |-> 0]}

HandleCommand(n) ==
    LET c == notifier[n].request IN
    /\ notifier[n].pc = "handle"
    /\ \E o \in Outcomes(c) :
          /\ notifier' = [notifier EXCEPT ![n].pc = "answer", ![n].answer = o.answer]
          /\ shown' = [shown EXCEPT ![c] = IF @ + o.toasts > 2 THEN 2 ELSE @ + o.toasts]
    /\ UNCHANGED call

(* The answer is written to a client that is still there, and the instance *)
(* is closed.                                                              *)
Answer(n) ==
    /\ notifier[n].pc = "answer"
    /\ notifier' = [notifier EXCEPT ![n] = AtSelect(notifier[n].told)]
    /\ call' = [c \in Calls |-> IF call[c].to = n
                                THEN [call[c] EXCEPT !.to = None, !.inbox = notifier[n].answer]
                                ELSE call[c]]
    /\ UNCHANGED shown

Loop(n) == \/ Stops(n) \/ Listen(n) \/ Accept(n) \/ Receive(n)
           \/ ClientGone(n) \/ HandleCommand(n) \/ Answer(n)

(* TerminateProcess, a logoff, a crash.                                    *)
Dies(n) ==
    /\ "die" \in ChannelFaults
    /\ Alive(n)
    /\ Closes(n, Dead)
    /\ UNCHANGED shown

-------------------------------------------------------------------------------
Next == \/ \E c \in Calls : Make(c) \/ Sends(c) \/ OpenFails(c)
        \/ ServiceEnds
        \/ \E n \in Notifiers : Starts(n) \/ Signalled(n) \/ Loop(n) \/ Dies(n)

Spec == Init /\ [][Next]_vars

(* Goroutines run, the mutex is not kept from one that waits for it, and   *)
(* neither PowerShell nor CreateNamedPipe fails to come back or fails for  *)
(* ever.  Nobody has to make calls, start notifiers or stop them.          *)
Fairness == /\ \A c \in Calls : SF_vars(Begin(c)) /\ WF_vars(Sends(c))
            /\ \A n \in Notifiers : WF_vars(Loop(n))

FairSpec == Spec /\ Fairness

-------------------------------------------------------------------------------
(* What the callers may rely on: one command at a time, its toast once at  *)
(* most, in time, and on success exactly once (SendCommand's mutex, the    *)
(* order of the steps at both ends, one client per instance).              *)
Status(c) == CASE InSend(c) -> "sending" [] OTHER -> call[c].pc

Promise == INSTANCE NotifierCalls WITH status <- [c \in Calls |-> Status(c)]
DeliversInOrder == Promise!Spec

(* A call comes back: whatever the notifiers do but hang, no goroutine of  *)
(* the service waits in SendCommand for ever.                              *)
CallReturns == \A c \in Calls : call[c].pc = "waiting" ~> c \in Sent

(* A notifier listens again, or ends: no client, not even one that leaves  *)
(* in the middle of a call, keeps it from serving the next one.            *)
ListensAgain == \A n \in Notifiers : Alive(n) ~> Listening(n) \/ ~Alive(n)

(* "Stop stops the pipe client", as far as it goes: a notifier that is     *)
(* told to stop ends with the connection it has.  (Without one it waits    *)
(* for the next.)                                                          *)
StopEndsWithTheConnection ==
    \A n \in Notifiers : notifier[n].told /\ notifier[n].link \in {"open", "closed"} ~> ~Alive(n)
===============================================================================
