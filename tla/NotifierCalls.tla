----------------------------- MODULE NotifierCalls -----------------------------
(***************************************************************************)
(* What the pipe of one session promises to the goroutines that send       *)
(* commands through it, whatever becomes of the processes at its ends.     *)
(*                                                                         *)
(*   - Commands are sent one at a time.                                    *)
(*   - The toast of a command is shown once at most.                       *)
(*   - It is shown while the call that sends it lasts, so that toasts      *)
(*     appear in the order of the calls and none after a call that failed. *)
(*     Only a call cut short by the end of the service may be late.        *)
(*   - A call that succeeds has shown its toast, if it has one.            *)
(***************************************************************************)
EXTENDS Naturals

CONSTANTS Calls,      \* the calls of SendCommand
          Messages    \* those whose command is a toast to show

VARIABLES status,     \* status[c]: where call c is
          shown       \* shown[c]: how many toasts it has put on the screen

vars == <<status, shown>>

Init == /\ status = [c \in Calls |-> "unmade"]
        /\ shown = [c \in Calls |-> 0]

Moves(c, from, to) == status[c] = from /\ status' = [status EXCEPT ![c] = to]

Make(c) == Moves(c, "unmade", "waiting") /\ UNCHANGED shown

Begin(c) == /\ \A d \in Calls : status[d] # "sending"
            /\ Moves(c, "waiting", "sending")
            /\ UNCHANGED shown

Show(c) == /\ c \in Messages
           /\ status[c] \in {"sending", "abandoned"}
           /\ shown[c] = 0
           /\ shown' = [shown EXCEPT ![c] = 1]
           /\ UNCHANGED status

Succeed(c) == /\ c \in Messages => shown[c] = 1
              /\ Moves(c, "sending", "ok")
              /\ UNCHANGED shown

Fail(c) == Moves(c, "sending", "error") /\ UNCHANGED shown

(* The service ends, with every call that has not returned.                *)
Abandon == /\ status' = [c \in Calls |-> IF status[c] \in {"waiting", "sending"}
                                         THEN "abandoned" ELSE status[c]]
           /\ UNCHANGED shown

Next == \/ \E c \in Calls : Make(c) \/ Begin(c) \/ Show(c) \/ Succeed(c) \/ Fail(c)
        \/ Abandon

Spec == Init /\ [][Next]_vars
===============================================================================
