-------------------------- MODULE NotifierPipe_proofs --------------------------
(***************************************************************************)
(* Proofs about the pipe of a session: its state is what the types say,    *)
(* and it delivers commands as the module NotifierCalls promises.          *)
(***************************************************************************)
EXTENDS NotifierPipe, TLAPS

(* Which records a step leaves behind.                                     *)
LEMMA Records ==
    ASSUME TypeOK
    PROVE  /\ \A c \in Calls : call[c] \in CallRecord
           /\ \A n \in Notifiers : /\ notifier[n] \in NotifierRecord
                                   /\ LosesClient(n) \in NotifierRecord
                                   /\ AtSelect(notifier[n].told) \in NotifierRecord
           /\ Dead \in NotifierRecord /\ AtSelect(FALSE) \in NotifierRecord
<1> USE DEF TypeOK
<1>1. \A told \in BOOLEAN : AtSelect(told) \in NotifierRecord
  BY DEF AtSelect, NotifierRecord
<1>2. Dead \in NotifierRecord
  BY DEF Dead, AtSelect, NotifierRecord
<1>3. \A n \in Notifiers : LosesClient(n) \in NotifierRecord
  BY DEF LosesClient, NotifierRecord
<1>4. \A n \in Notifiers : notifier[n].told \in BOOLEAN
  BY DEF NotifierRecord
<1> QED  BY <1>1, <1>2, <1>3, <1>4

-------------------------------------------------------------------------------
(* Type correctness.                                                       *)
LEMMA EndsTypeOK ==
    ASSUME TypeOK, NEW c \in Calls, NEW result \in {"ok", "error", "abandoned"}, Ends(c, result)
    PROVE  TypeOK'
<1>1. [pc |-> result, to |-> None, inbox |-> None] \in CallRecord
  BY DEF CallRecord
<1> QED  BY <1>1, Records DEF TypeOK, Ends

LEMMA ClosesTypeOK ==
    ASSUME TypeOK, NEW n \in Notifiers, NEW frame \in NotifierRecord, Closes(n, frame), UNCHANGED shown
    PROVE  TypeOK'
<1>1. \A c \in Calls : [call[c] EXCEPT !.to = None] \in CallRecord
  BY DEF TypeOK, CallRecord
<1> QED  BY <1>1, Records DEF TypeOK, Closes

LEMMA CallsTypeOK ==
    ASSUME TypeOK, NEW c \in Calls, Make(c) \/ Sends(c) \/ OpenFails(c)
    PROVE  TypeOK'
<1>1. CASE Make(c)
  BY <1>1 DEF Make, TypeOK, CallRecord
<1>2. CASE Begin(c)
  BY <1>2 DEF Begin, TypeOK, CallRecord
<1>3. CASE Open(c)
  <2>1. PICK n \in Notifiers : /\ call' = [call EXCEPT ![c].pc = "writing", ![c].to = n]
                              /\ notifier' = [notifier EXCEPT ![n].link = "open", ![n].client = c]
    BY <1>3 DEF Open
  <2>2. [call[c] EXCEPT !.pc = "writing", !.to = n] \in CallRecord
    BY DEF TypeOK, CallRecord
  <2>3. [notifier[n] EXCEPT !.link = "open", !.client = c] \in NotifierRecord
    BY DEF TypeOK, NotifierRecord
  <2> QED  BY <1>3, <2>1, <2>2, <2>3 DEF Open, TypeOK
<1>4. CASE GiveUp(c) \/ OpenFails(c) \/ Broken(c)
  BY <1>4, EndsTypeOK DEF GiveUp, OpenFails, Broken
<1>5. CASE Write(c)
  <2>1. call[c].to \in Notifiers
    BY <1>5 DEF Write, TypeOK, CallRecord
  <2>2. /\ [call[c] EXCEPT !.pc = "reading"] \in CallRecord
        /\ [notifier[call[c].to] EXCEPT !.request = c] \in NotifierRecord
    BY <2>1 DEF TypeOK, CallRecord, NotifierRecord
  <2> QED  BY <1>5, <2>1, <2>2 DEF Write, TypeOK
<1>6. CASE Read(c)
  <2>1. call[c].inbox \in {"ok", "error"}
    BY <1>6 DEF Read, TypeOK, CallRecord
  <2> QED  BY <1>6, <2>1, EndsTypeOK DEF Read
<1> QED  BY <1>1, <1>2, <1>3, <1>4, <1>5, <1>6 DEF Sends

LEMMA NotifiersTypeOK ==
    ASSUME TypeOK, NEW n \in Notifiers, Starts(n) \/ Signalled(n) \/ Loop(n) \/ Dies(n)
    PROVE  TypeOK'
<1>1. CASE Starts(n)
  BY <1>1, Records DEF Starts, TypeOK
<1>2. CASE Signalled(n)
  BY <1>2 DEF Signalled, TypeOK, NotifierRecord
<1>3. CASE Stops(n) \/ Dies(n)
  BY <1>3, Records, ClosesTypeOK DEF Stops, Dies
<1>4. CASE Listen(n) \/ Accept(n) \/ Receive(n)
  BY <1>4 DEF Listen, Accept, Receive, TypeOK, NotifierRecord
<1>5. CASE ClientGone(n)
  BY <1>5, Records, ClosesTypeOK DEF ClientGone
<1>6. CASE HandleCommand(n)
  <2>1. \A c \in Calls : \A o \in Outcomes(c) : o.answer \in {"ok", "error"} /\ o.toasts \in 0..1
    BY DEF Outcomes, Toasts
  <2>2. PICK o : /\ notifier' = [notifier EXCEPT ![n].pc = "answer", ![n].answer = o.answer]
                 /\ o \in Outcomes(notifier[n].request)
                 /\ shown' = [shown EXCEPT ![notifier[n].request] = IF @ + o.toasts > 2 THEN 2 ELSE @ + o.toasts]
    BY <1>6 DEF HandleCommand
  <2>3. o.answer \in {"ok", "error"} /\ o.toasts \in 0..1
    BY <2>2 DEF Outcomes, Toasts
  <2>4. [notifier[n] EXCEPT !.pc = "answer", !.answer = o.answer] \in NotifierRecord
    BY <2>3 DEF TypeOK, NotifierRecord
  <2>5. \A c \in Calls : (IF shown[c] + o.toasts > 2 THEN 2 ELSE shown[c] + o.toasts) \in 0..2
    BY <2>3 DEF TypeOK
  <2> QED  BY <1>6, <2>2, <2>4, <2>5 DEF HandleCommand, TypeOK
<1>7. CASE Answer(n)
  <2>1. notifier[n].answer \in {"ok", "error", None}
    BY DEF TypeOK, NotifierRecord
  <2>2. ASSUME NEW c \in Calls
        PROVE  [call[c] EXCEPT !.to = None, !.inbox = notifier[n].answer] \in CallRecord
    BY <2>1 DEF TypeOK, CallRecord
  <2> QED  BY <1>7, <2>2, Records DEF Answer, TypeOK
<1> QED  BY <1>1, <1>2, <1>3, <1>4, <1>5, <1>6, <1>7 DEF Loop

LEMMA NextTypeOK == TypeOK /\ [Next]_vars => TypeOK'
<1> SUFFICES ASSUME TypeOK, [Next]_vars PROVE TypeOK'
  OBVIOUS
<1>1. CASE UNCHANGED vars
  BY <1>1 DEF vars, TypeOK
<1>2. ASSUME NEW c \in Calls, Make(c) \/ Sends(c) \/ OpenFails(c) PROVE TypeOK'
  BY <1>2, CallsTypeOK
<1>3. CASE ServiceEnds
  <2>1. [pc |-> "abandoned", to |-> None, inbox |-> None] \in CallRecord
    BY DEF CallRecord
  <2> QED  BY <1>3, <2>1, Records DEF ServiceEnds, TypeOK
<1>4. ASSUME NEW n \in Notifiers, Starts(n) \/ Signalled(n) \/ Loop(n) \/ Dies(n) PROVE TypeOK'
  BY <1>4, NotifiersTypeOK
<1> QED  BY <1>1, <1>2, <1>3, <1>4 DEF Next

LEMMA InitTypeOK == Init => TypeOK
<1>1. Dead \in NotifierRecord
  BY DEF Dead, AtSelect, NotifierRecord
<1> QED  BY <1>1 DEF Init, TypeOK, CallRecord

(* The calls, the listen loops and the instances of the pipe are always in *)
(* one of the states the types list, whatever number of each there is.     *)
THEOREM PipeTypeCorrect == Spec => []TypeOK
<1> QED  BY InitTypeOK, NextTypeOK, PTL DEF Spec

-------------------------------------------------------------------------------
(* The inductive invariant of delivery.                                    *)

(* The two ends of an open instance know each other.                       *)
EndsMeet ==
    /\ \A c \in Calls : call[c].to # None =>
          /\ call[c].pc \in {"writing", "reading"}
          /\ notifier[call[c].to].link = "open"
          /\ notifier[call[c].to].client = c
    /\ \A n \in Notifiers : notifier[n].link = "open" =>
          notifier[n].client \in Calls /\ call[notifier[n].client].to = n

(* A loop has an instance from accept to answer, and no command before.    *)
InstanceInv ==
    \A n \in Notifiers :
        /\ notifier[n].pc \in {"dead", "select"} => notifier[n].link = "none" /\ notifier[n].request = None
        /\ notifier[n].link = "none" => notifier[n].pc \in {"dead", "select"}
        /\ notifier[n].link = "listening" => notifier[n].pc = "accept" /\ notifier[n].request = None
        /\ notifier[n].pc \in {"handle", "answer"} => notifier[n].request # None

(* A command that a notifier holds was written by a call that waits for    *)
(* the answer of this notifier, or is gone; nobody else holds it, and its  *)
(* toast has not been shown while it is not handled.                       *)
RequestInv ==
    \A n \in Notifiers : LET c == notifier[n].request IN c # None =>
        /\ call[c].pc \in {"reading", "abandoned"}
        /\ call[c].pc = "reading" => call[c].to = n
        /\ call[c].pc = "abandoned" => notifier[n].link = "closed"
        /\ notifier[n].pc # "answer" => shown[c] = 0
        /\ \A m \in Notifiers : notifier[m].request = c => m = n

(* A call that has written to an instance that is still open has its       *)
(* command there.                                                          *)
WrittenInv ==
    \A c \in Calls : call[c].to # None /\ call[c].pc = "reading" => notifier[call[c].to].request = c

(* A toast is shown after the command was written, and an answer of        *)
(* success after the toast.                                                *)
ToastInv ==
    \A c \in Calls :
        /\ call[c].pc \in {"unmade", "waiting", "opening", "writing"} => shown[c] = 0
        /\ shown[c] \in {0, 1}
        /\ call[c].inbox # None => call[c].pc = "reading" /\ call[c].to = None
        /\ call[c].inbox = "ok" /\ c \in Messages => shown[c] = 1

AnswerInv ==
    \A n \in Notifiers : notifier[n].pc = "answer" =>
        /\ notifier[n].answer # None
        /\ notifier[n].answer = "ok" /\ notifier[n].request \in Messages => shown[notifier[n].request] = 1

PipeInv == EndsMeet /\ InstanceInv /\ RequestInv /\ WrittenInv /\ ToastInv /\ AnswerInv

(* What the types say of the names in the records.                         *)
LEMMA Ranges ==
    ASSUME TypeOK
    PROVE  /\ None \notin Calls /\ None \notin Notifiers /\ None # "ok"
           /\ \A c \in Calls : call[c].to \in Notifiers \cup {None}
           /\ \A n \in Notifiers : /\ notifier[n].client \in Calls \cup {None}
                                   /\ notifier[n].request \in Calls \cup {None}
  BY PipeAssumption DEF TypeOK, CallRecord, NotifierRecord

(* A call that is made or takes the mutex has nothing in the pipe.         *)
LEMMA WaitingKeeps ==
    ASSUME TypeOK, PipeInv, NEW c \in Calls, Make(c) \/ Begin(c)
    PROVE  PipeInv'
<1> USE Ranges DEF PipeInv
<1>1. /\ \A d \in Calls : call'[d].to = call[d].to /\ call'[d].inbox = call[d].inbox
      /\ \A d \in Calls : d # c => call'[d].pc = call[d].pc
      /\ call'[c].pc \in {"waiting", "opening"} /\ call[c].pc \in {"unmade", "waiting"}
      /\ UNCHANGED <<notifier, shown>>
  BY DEF Make, Begin, TypeOK, CallRecord
<1>2. EndsMeet'
  BY <1>1 DEF EndsMeet, InstanceInv, RequestInv
<1>3. InstanceInv'
  BY <1>1 DEF InstanceInv, EndsMeet, RequestInv
<1>4. RequestInv'
  BY <1>1 DEF RequestInv, EndsMeet, InstanceInv, ToastInv
<1>5. WrittenInv'
  BY <1>1 DEF WrittenInv, EndsMeet, InstanceInv, RequestInv
<1>6. ToastInv'
  BY <1>1 DEF ToastInv, EndsMeet, RequestInv, AnswerInv
<1>7. AnswerInv'
  BY <1>1 DEF AnswerInv, InstanceInv, RequestInv
<1> QED  BY <1>2, <1>3, <1>4, <1>5, <1>6, <1>7

(* A call that returns has no command left in the pipe.                    *)
LEMMA EndsKeeps ==
    ASSUME TypeOK, PipeInv, NEW c \in Calls, NEW result \in {"ok", "error"}, Ends(c, result), call[c].to = None, InSend(c)
    PROVE  PipeInv'
<1> USE Ranges DEF PipeInv
<1>1. /\ \A d \in Calls : d # c => call'[d] = call[d]
      /\ call'[c].pc = result /\ call'[c].to = None /\ call'[c].inbox = None
      /\ UNCHANGED <<notifier, shown>>
  BY DEF Ends, TypeOK
<1>2. call[c].pc \in {"opening", "writing", "reading"}
  BY DEF InSend
<1>3. \A n \in Notifiers : notifier[n].request # c
  BY <1>2 DEF RequestInv
<1>4. EndsMeet'
  BY <1>1, <1>2, <1>3 DEF EndsMeet, InstanceInv, RequestInv
<1>5. InstanceInv'
  BY <1>1, <1>2, <1>3 DEF InstanceInv, EndsMeet, RequestInv
<1>6. RequestInv'
  BY <1>1, <1>2, <1>3 DEF RequestInv, EndsMeet, InstanceInv, ToastInv
<1>7. WrittenInv'
  BY <1>1, <1>2, <1>3 DEF WrittenInv, EndsMeet, InstanceInv, RequestInv
<1>8. ToastInv'
  BY <1>1, <1>2, <1>3 DEF ToastInv
<1>9. AnswerInv'
  BY <1>1, <1>2, <1>3 DEF AnswerInv, InstanceInv, RequestInv
<1> QED  BY <1>4, <1>5, <1>6, <1>7, <1>8, <1>9

(* An instance is opened.                                                  *)
LEMMA OpenKeeps ==
    ASSUME TypeOK, PipeInv, NEW c \in Calls, Open(c)
    PROVE  PipeInv'
<1> USE Ranges DEF PipeInv
<1>1. PICK n \in Notifiers : /\ notifier[n].link = "listening"
                             /\ call' = [call EXCEPT ![c].pc = "writing", ![c].to = n]
                             /\ notifier' = [notifier EXCEPT ![n].link = "open", ![n].client = c]
                             /\ UNCHANGED shown
  BY DEF Open, Listening
<1>2. /\ \A d \in Calls : d # c => call'[d] = call[d]
      /\ call'[c].pc = "writing" /\ call'[c].to = n /\ call'[c].inbox = call[c].inbox
      /\ call[c].pc = "opening" /\ UNCHANGED shown
  BY <1>1 DEF Open, TypeOK, CallRecord
<1>3. /\ \A m \in Notifiers : m # n => notifier'[m] = notifier[m]
      /\ notifier'[n].link = "open" /\ notifier'[n].client = c
      /\ notifier'[n].pc = notifier[n].pc /\ notifier'[n].request = notifier[n].request
      /\ notifier'[n].answer = notifier[n].answer /\ notifier[n].link = "listening" 
  BY <1>1 DEF TypeOK, NotifierRecord
<1>4. EndsMeet'
  BY <1>2, <1>3 DEF EndsMeet, InstanceInv, RequestInv
<1>5. InstanceInv'
  BY <1>2, <1>3 DEF InstanceInv, EndsMeet, RequestInv
<1>6. RequestInv'
  BY <1>2, <1>3 DEF RequestInv, EndsMeet, InstanceInv, ToastInv
<1>7. WrittenInv'
  BY <1>2, <1>3 DEF WrittenInv, EndsMeet, InstanceInv, RequestInv
<1>8. ToastInv'
  BY <1>2, <1>3 DEF ToastInv, EndsMeet, RequestInv, AnswerInv
<1>9. AnswerInv'
  BY <1>2, <1>3 DEF AnswerInv, InstanceInv, RequestInv
<1> QED  BY <1>4, <1>5, <1>6, <1>7, <1>8, <1>9

(* A command is written to an open instance.                               *)
LEMMA WriteKeeps ==
    ASSUME TypeOK, PipeInv, NEW c \in Calls, Write(c)
    PROVE  PipeInv'
<1> USE Ranges DEF PipeInv
<1>1. /\ call[c].pc = "writing" /\ call[c].to \in Notifiers
      /\ UNCHANGED shown
  BY DEF Write
<1>2. /\ \A d \in Calls : d # c => call'[d] = call[d]
      /\ call'[c].pc = "reading" /\ call'[c].to = call[c].to /\ call'[c].inbox = call[c].inbox
  BY DEF Write, TypeOK, CallRecord
<1>3. /\ \A m \in Notifiers : m # call[c].to => notifier'[m] = notifier[m]
      /\ \A m \in Notifiers : m = call[c].to =>
             /\ notifier'[m].request = c
             /\ notifier'[m].pc = notifier[m].pc /\ notifier'[m].link = notifier[m].link
             /\ notifier'[m].client = notifier[m].client /\ notifier'[m].answer = notifier[m].answer
  BY <1>1 DEF Write, TypeOK, NotifierRecord
<1>4. notifier[call[c].to].link = "open" /\ notifier[call[c].to].request = None
  BY <1>1 DEF EndsMeet, RequestInv
<1>5. EndsMeet'
  BY <1>1, <1>2, <1>3, <1>4 DEF EndsMeet, InstanceInv, RequestInv
<1>6. InstanceInv'
  BY <1>1, <1>2, <1>3, <1>4 DEF InstanceInv, EndsMeet, RequestInv
<1>7. RequestInv'
  BY <1>1, <1>2, <1>3, <1>4 DEF RequestInv, EndsMeet, InstanceInv, ToastInv
<1>8. WrittenInv'
  BY <1>1, <1>2, <1>3, <1>4 DEF WrittenInv, EndsMeet, InstanceInv, RequestInv
<1>9. ToastInv'
  BY <1>1, <1>2, <1>3, <1>4 DEF ToastInv, EndsMeet, RequestInv, AnswerInv
<1>10. AnswerInv'
  BY <1>1, <1>2, <1>3, <1>4 DEF AnswerInv, InstanceInv, RequestInv
<1> QED  BY <1>5, <1>6, <1>7, <1>8, <1>9, <1>10

(* The service ends: what its calls have written stays where it is.        *)
LEMMA ServiceEndsKeeps ==
    ASSUME TypeOK, PipeInv, ServiceEnds
    PROVE  PipeInv'
<1> USE Ranges DEF PipeInv
<1>1. \A c \in Calls :
        \/ /\ call[c].pc \in {"waiting", "opening", "writing", "reading"}
           /\ call'[c].pc = "abandoned" /\ call'[c].to = None /\ call'[c].inbox = None
        \/ call[c].pc \notin {"waiting", "opening", "writing", "reading"} /\ call'[c] = call[c]
  BY DEF ServiceEnds, InSend, TypeOK
<1>2. \A n \in Notifiers :
        /\ notifier'[n].pc = notifier[n].pc /\ notifier'[n].request = notifier[n].request
        /\ notifier'[n].answer = notifier[n].answer
        /\ notifier'[n].link = IF notifier[n].link = "open" THEN "closed" ELSE notifier[n].link
  BY DEF ServiceEnds, LosesClient, TypeOK, NotifierRecord
<1>3. UNCHANGED shown
  BY DEF ServiceEnds
<1>4. EndsMeet'
  BY <1>1, <1>2, <1>3 DEF EndsMeet, InstanceInv, RequestInv
<1>5. InstanceInv'
  BY <1>1, <1>2, <1>3 DEF InstanceInv, EndsMeet, RequestInv
<1>6. RequestInv'
  BY <1>1, <1>2, <1>3 DEF RequestInv, EndsMeet, InstanceInv, ToastInv
<1>7. WrittenInv'
  BY <1>1, <1>2, <1>3 DEF WrittenInv, EndsMeet, InstanceInv, RequestInv
<1>8. ToastInv'
  BY <1>1, <1>2, <1>3 DEF ToastInv
<1>9. AnswerInv'
  BY <1>1, <1>2, <1>3 DEF AnswerInv, InstanceInv, RequestInv
<1> QED  BY <1>4, <1>5, <1>6, <1>7, <1>8, <1>9

(* A loop goes on with the instance it has, or with a new one.             *)
LEMMA LoopKeeps ==
    ASSUME TypeOK, PipeInv, NEW n \in Notifiers, Starts(n) \/ Signalled(n) \/ Listen(n) \/ Accept(n) \/ Receive(n)
    PROVE  PipeInv'
<1> USE Ranges DEF PipeInv
<1>1. UNCHANGED <<call, shown>>
  BY DEF Starts, Signalled, Listen, Accept, Receive
<1>2. /\ \A m \in Notifiers : m # n => notifier'[m] = notifier[m]
      /\ notifier'[n].request = notifier[n].request
      /\ \/ /\ notifier[n].pc \in {"dead", "select"} /\ notifier[n].link = "none"
            /\ \/ notifier'[n].pc = "select" /\ notifier'[n].link = "none"
               \/ notifier'[n].pc = "accept" /\ notifier'[n].link = "listening"
         \/ /\ notifier'[n].pc = notifier[n].pc /\ notifier'[n].answer = notifier[n].answer
            /\ notifier'[n].link = notifier[n].link /\ notifier'[n].client = notifier[n].client
         \/ /\ notifier[n].pc \in {"accept", "read"} /\ notifier'[n].pc \in {"read", "handle"}
            /\ notifier'[n].pc = "handle" => notifier[n].request # None
            /\ notifier[n].link # "listening"
            /\ notifier'[n].link = notifier[n].link /\ notifier'[n].client = notifier[n].client
  BY DEF Starts, Signalled, Listen, Accept, Receive, Alive, AtSelect, TypeOK, NotifierRecord, InstanceInv
<1>3. EndsMeet'
  BY <1>1, <1>2 DEF EndsMeet, InstanceInv, RequestInv
<1>4. InstanceInv'
  BY <1>1, <1>2 DEF InstanceInv, EndsMeet, RequestInv
<1>5. RequestInv'
  BY <1>1, <1>2 DEF RequestInv, EndsMeet, InstanceInv, ToastInv
<1>6. WrittenInv'
  BY <1>1, <1>2 DEF WrittenInv, EndsMeet, InstanceInv, RequestInv
<1>7. ToastInv'
  BY <1>1, <1>2 DEF ToastInv, EndsMeet, RequestInv, AnswerInv
<1>8. AnswerInv'
  BY <1>1, <1>2 DEF AnswerInv, InstanceInv, RequestInv
<1> QED  BY <1>3, <1>4, <1>5, <1>6, <1>7, <1>8

(* A notifier that closes its instance drops the command in it.            *)
LEMMA ClosesKeeps ==
    ASSUME TypeOK, PipeInv, NEW n \in Notifiers, NEW frame, Closes(n, frame), UNCHANGED shown,
           frame.pc \in {"dead", "select"}, frame.link = "none", frame.request = None
    PROVE  PipeInv'
<1> USE Ranges DEF PipeInv
<1>1. /\ \A m \in Notifiers : m # n => notifier'[m] = notifier[m]
      /\ notifier'[n].pc \in {"dead", "select"} /\ notifier'[n].link = "none"
      /\ notifier'[n].request = None
  BY DEF Closes, TypeOK
<1>2. \A c \in Calls :
        /\ call'[c].pc = call[c].pc /\ call'[c].inbox = call[c].inbox
        /\ call'[c].to = IF call[c].to = n THEN None ELSE call[c].to
  BY DEF Closes, TypeOK, CallRecord
<1>3. EndsMeet'
  BY <1>1, <1>2 DEF EndsMeet, InstanceInv, RequestInv
<1>4. InstanceInv'
  BY <1>1, <1>2 DEF InstanceInv, EndsMeet, RequestInv
<1>5. RequestInv'
  BY <1>1, <1>2 DEF RequestInv, EndsMeet, InstanceInv, ToastInv
<1>6. WrittenInv'
  BY <1>1, <1>2 DEF WrittenInv, EndsMeet, InstanceInv, RequestInv
<1>7. ToastInv'
  BY <1>1, <1>2 DEF ToastInv, EndsMeet, RequestInv, AnswerInv
<1>8. AnswerInv'
  BY <1>1, <1>2 DEF AnswerInv, InstanceInv, RequestInv
<1> QED  BY <1>3, <1>4, <1>5, <1>6, <1>7, <1>8

(* A command is handled.                                                   *)
LEMMA HandleKeeps ==
    ASSUME TypeOK, PipeInv, NEW n \in Notifiers, HandleCommand(n)
    PROVE  PipeInv'
<1> USE Ranges DEF PipeInv
<1>1. PICK o \in Outcomes(notifier[n].request) :
        /\ notifier' = [notifier EXCEPT ![n].pc = "answer", ![n].answer = o.answer]
        /\ shown' = [shown EXCEPT ![notifier[n].request] = IF @ + o.toasts > 2 THEN 2 ELSE @ + o.toasts]
  BY DEF HandleCommand
<1>2. /\ notifier[n].pc = "handle" /\ UNCHANGED call
      /\ notifier[n].request \in Calls /\ shown[notifier[n].request] = 0
  BY DEF HandleCommand, InstanceInv, RequestInv
<1>3. /\ o.answer \in {"ok", "error"} /\ o.toasts \in 0..1
      /\ o.answer = "ok" /\ notifier[n].request \in Messages => o.toasts = 1
  BY DEF Outcomes, Toasts
<1>4. /\ \A c \in Calls : c # notifier[n].request => shown'[c] = shown[c]
      /\ shown'[notifier[n].request] = o.toasts
  BY <1>1, <1>2, <1>3 DEF TypeOK
<1>5. /\ \A m \in Notifiers : m # n => notifier'[m] = notifier[m]
      /\ notifier'[n].pc = "answer" /\ notifier'[n].answer = o.answer
      /\ notifier'[n].link = notifier[n].link /\ notifier'[n].client = notifier[n].client
      /\ notifier'[n].request = notifier[n].request
  BY <1>1 DEF TypeOK, NotifierRecord
<1>6. o.answer # None
  BY <1>3, PipeAssumption
<1>7. EndsMeet'
  BY <1>2, <1>3, <1>4, <1>5, <1>6 DEF EndsMeet, InstanceInv, RequestInv
<1>8. InstanceInv'
  BY <1>2, <1>3, <1>4, <1>5, <1>6 DEF InstanceInv, EndsMeet, RequestInv
<1>9. RequestInv'
  BY <1>2, <1>3, <1>4, <1>5, <1>6 DEF RequestInv, EndsMeet, InstanceInv, ToastInv
<1>10. WrittenInv'
  BY <1>2, <1>3, <1>4, <1>5, <1>6 DEF WrittenInv, EndsMeet, InstanceInv, RequestInv
<1>11. ToastInv'
  BY <1>2, <1>3, <1>4, <1>5, <1>6 DEF ToastInv, EndsMeet, RequestInv, AnswerInv
<1>12. AnswerInv'
  BY <1>2, <1>3, <1>4, <1>5, <1>6 DEF AnswerInv, InstanceInv, RequestInv
<1> QED  BY <1>7, <1>8, <1>9, <1>10, <1>11, <1>12

(* A command is answered.                                                  *)
LEMMA AnswerKeeps ==
    ASSUME TypeOK, PipeInv, NEW n \in Notifiers, Answer(n)
    PROVE  PipeInv'
<1> USE Ranges DEF PipeInv
<1>1. /\ \A m \in Notifiers : m # n => notifier'[m] = notifier[m]
      /\ notifier'[n].pc = "select" /\ notifier'[n].link = "none"
      /\ notifier'[n].request = None
  BY DEF Answer, AtSelect, TypeOK
<1>2. \A c \in Calls :
        /\ call'[c].pc = call[c].pc
        /\ call[c].to # n => call'[c] = call[c]
        /\ call[c].to = n => call'[c].to = None /\ call'[c].inbox = notifier[n].answer
  BY DEF Answer, TypeOK, CallRecord
<1>3. /\ notifier[n].pc = "answer" /\ UNCHANGED shown
  BY DEF Answer
<1>4. \A c \in Calls : call[c].to = n => call[c].pc = "reading" /\ notifier[n].request = c
  BY <1>3 DEF EndsMeet, InstanceInv, RequestInv
<1>5. EndsMeet'
  BY <1>1, <1>2, <1>3, <1>4 DEF EndsMeet, InstanceInv, RequestInv
<1>6. InstanceInv'
  BY <1>1, <1>2, <1>3, <1>4 DEF InstanceInv, EndsMeet, RequestInv
<1>7. RequestInv'
  BY <1>1, <1>2, <1>3, <1>4 DEF RequestInv, EndsMeet, InstanceInv, ToastInv
<1>8. WrittenInv'
  BY <1>1, <1>2, <1>3, <1>4 DEF WrittenInv, EndsMeet, InstanceInv, RequestInv
<1>9. ToastInv'
  BY <1>1, <1>2, <1>3, <1>4 DEF ToastInv, EndsMeet, RequestInv, AnswerInv
<1>10. AnswerInv'
  BY <1>1, <1>2, <1>3, <1>4 DEF AnswerInv, InstanceInv, RequestInv
<1> QED  BY <1>5, <1>6, <1>7, <1>8, <1>9, <1>10

LEMMA InitPipeInv == Init => PipeInv
<1> SUFFICES ASSUME Init PROVE PipeInv
  OBVIOUS
<1>1. \A n \in Notifiers : /\ notifier[n].pc = "dead" /\ notifier[n].link = "none"
                           /\ notifier[n].request = None
  BY DEF Init, Dead, AtSelect
<1>2. \A c \in Calls : /\ call[c].pc = "unmade" /\ call[c].to = None /\ call[c].inbox = None
                       /\ shown[c] = 0
  BY DEF Init
<1>3. None # "ok"
  BY PipeAssumption
<1> QED  BY <1>1, <1>2, <1>3 DEF PipeInv, EndsMeet, InstanceInv, RequestInv, WrittenInv, ToastInv, AnswerInv

LEMMA SendsKeeps ==
    ASSUME TypeOK, PipeInv, NEW c \in Calls, Make(c) \/ Sends(c) \/ OpenFails(c)
    PROVE  PipeInv'
<1>1. CASE Make(c) \/ Begin(c)
  BY <1>1, WaitingKeeps
<1>2. CASE Open(c)
  BY <1>2, OpenKeeps
<1>3. CASE Write(c)
  BY <1>3, WriteKeeps
<1>4. CASE GiveUp(c) \/ OpenFails(c) \/ Broken(c)
  <2>1. Ends(c, "error") /\ InSend(c)
    BY <1>4 DEF GiveUp, OpenFails, Broken, InSend
  <2>2. call[c].to = None
    BY <1>4 DEF GiveUp, OpenFails, Broken, PipeInv, EndsMeet
  <2> QED  BY <2>1, <2>2, EndsKeeps
<1>5. CASE Read(c)
  <2>1. call[c].inbox \in {"ok", "error"} /\ InSend(c)
    BY <1>5 DEF Read, InSend, TypeOK, CallRecord
  <2>2. call[c].to = None
    BY <1>5 DEF Read, PipeInv, ToastInv
  <2> QED  BY <1>5, <2>1, <2>2, EndsKeeps DEF Read
<1> QED  BY <1>1, <1>2, <1>3, <1>4, <1>5 DEF Sends

LEMMA ServesKeeps ==
    ASSUME TypeOK, PipeInv, NEW n \in Notifiers, Starts(n) \/ Signalled(n) \/ Loop(n) \/ Dies(n)
    PROVE  PipeInv'
<1>1. CASE Starts(n) \/ Signalled(n) \/ Listen(n) \/ Accept(n) \/ Receive(n)
  BY <1>1, LoopKeeps
<1>2. CASE Stops(n) \/ Dies(n) \/ ClientGone(n)
  <2>1. /\ Dead.pc = "dead" /\ Dead.link = "none" /\ Dead.request = None
        /\ \A told : /\ AtSelect(told).pc = "select" /\ AtSelect(told).link = "none"
                     /\ AtSelect(told).request = None
    BY DEF Dead, AtSelect
  <2> QED  BY <1>2, <2>1, ClosesKeeps DEF Stops, Dies, ClientGone
<1>3. CASE HandleCommand(n)
  BY <1>3, HandleKeeps
<1>4. CASE Answer(n)
  BY <1>4, AnswerKeeps
<1> QED  BY <1>1, <1>2, <1>3, <1>4 DEF Loop

LEMMA NextPipeInv == TypeOK /\ PipeInv /\ [Next]_vars => PipeInv'
<1> SUFFICES ASSUME TypeOK, PipeInv, [Next]_vars PROVE PipeInv'
  OBVIOUS
<1>1. CASE UNCHANGED vars
  BY <1>1 DEF vars, PipeInv, EndsMeet, InstanceInv, RequestInv, WrittenInv, ToastInv, AnswerInv
<1>2. ASSUME NEW c \in Calls, Make(c) \/ Sends(c) \/ OpenFails(c) PROVE PipeInv'
  BY <1>2, SendsKeeps
<1>3. CASE ServiceEnds
  BY <1>3, ServiceEndsKeeps
<1>4. ASSUME NEW n \in Notifiers, Starts(n) \/ Signalled(n) \/ Loop(n) \/ Dies(n) PROVE PipeInv'
  BY <1>4, ServesKeeps
<1> QED  BY <1>1, <1>2, <1>3, <1>4 DEF Next

-------------------------------------------------------------------------------
(* Every step is one of the promised or a stutter.                         *)
LEMMA InitPromise == Init => Promise!Init
  BY DEF Init, Promise!Init, Status, InSend

(* Steps in which no call gets to another status: status is the same       *)
(* function.                                                               *)
LEMMA SameStatus ==
    ASSUME TypeOK, \A c \in Calls : Status(c)' = Status(c), UNCHANGED shown
    PROVE  UNCHANGED Promise!vars
  BY DEF Promise!vars

(* A step of one call, from one status to another.                         *)
LEMMA MovesStatus ==
    ASSUME TypeOK, NEW c \in Calls, NEW from, NEW to, Status(c) = from, Status(c)' = to,
           \A d \in Calls : d # c => Status(d)' = Status(d)
    PROVE  Promise!Moves(c, from, to)
  BY DEF Promise!Moves

LEMMA SendsPromise ==
    ASSUME TypeOK, PipeInv, NEW c \in Calls, Make(c) \/ Sends(c) \/ OpenFails(c)
    PROVE  Promise!Next \/ UNCHANGED Promise!vars
<1>1. CASE Make(c)
  <2>1. /\ Status(c) = "unmade" /\ Status(c)' = "waiting"
        /\ \A d \in Calls : d # c => Status(d)' = Status(d)
    BY <1>1 DEF Make, Status, InSend, TypeOK, CallRecord
  <2> QED  BY <1>1, <2>1, MovesStatus DEF Make, Promise!Next, Promise!Make
<1>2. CASE Begin(c)
  <2>1. /\ Status(c) = "waiting" /\ Status(c)' = "sending"
        /\ \A d \in Calls : d # c => Status(d)' = Status(d)
    BY <1>2 DEF Begin, Status, InSend, TypeOK, CallRecord
  <2>2. \A d \in Calls : Status(d) # "sending"
    BY <1>2 DEF Begin, Status, InSend, TypeOK, CallRecord
  <2>3. Promise!Moves(c, "waiting", "sending") /\ UNCHANGED shown
    BY <1>2, <2>1, MovesStatus DEF Begin
  <2>4. Promise!Begin(c)
    BY <2>2, <2>3 DEF Promise!Begin
  <2> QED  BY <2>4 DEF Promise!Next
<1>3. CASE Open(c) \/ Write(c)
  <2>1. /\ call[c].pc \in {"opening", "writing"} /\ call'[c].pc \in {"writing", "reading"}
        /\ \A d \in Calls : d # c => call'[d].pc = call[d].pc
    <3>1. CASE Open(c)
      BY <3>1 DEF Open, TypeOK, CallRecord
    <3>2. CASE Write(c)
      BY <3>2 DEF Write, TypeOK, CallRecord
    <3> QED  BY <1>3, <3>1, <3>2
  <2>2. \A d \in Calls : Status(d)' = Status(d)
    BY <2>1 DEF Status, InSend
  <2> QED  BY <1>3, <2>2, SameStatus DEF Open, Write
<1>4. ASSUME NEW result \in {"ok", "error"}, Ends(c, result), InSend(c)
      PROVE  Promise!Moves(c, "sending", result) /\ UNCHANGED shown
  <2>1. /\ Status(c) = "sending" /\ Status(c)' = result
        /\ \A d \in Calls : d # c => Status(d)' = Status(d)
    BY <1>4 DEF Ends, Status, InSend, TypeOK, CallRecord
  <2> QED  BY <1>4, <2>1, MovesStatus DEF Ends
<1>5. CASE GiveUp(c) \/ OpenFails(c) \/ Broken(c)
  <2>1. Ends(c, "error") /\ InSend(c)
    BY <1>5 DEF GiveUp, OpenFails, Broken, InSend
  <2> QED  BY <1>4, <2>1 DEF Promise!Next, Promise!Fail
<1>6. CASE Read(c)
  <2>1. Ends(c, call[c].inbox) /\ InSend(c) /\ call[c].inbox \in {"ok", "error"}
    BY <1>6 DEF Read, InSend, TypeOK, CallRecord
  <2>2. call[c].inbox = "ok" /\ c \in Messages => shown[c] = 1
    BY DEF PipeInv, ToastInv
  <2> QED  BY <1>4, <2>1, <2>2 DEF Promise!Next, Promise!Fail, Promise!Succeed
<1> QED  BY <1>1, <1>2, <1>3, <1>5, <1>6 DEF Sends

LEMMA ServesPromise ==
    ASSUME TypeOK, PipeInv, NEW n \in Notifiers, Starts(n) \/ Signalled(n) \/ Loop(n) \/ Dies(n)
    PROVE  Promise!Next \/ UNCHANGED Promise!vars
<1>1. CASE Starts(n) \/ Signalled(n) \/ Listen(n) \/ Accept(n) \/ Receive(n)
  <2>1. UNCHANGED <<call, shown>>
    BY <1>1 DEF Starts, Signalled, Listen, Accept, Receive
  <2> QED  BY <2>1, SameStatus DEF Status, InSend
<1>2. CASE Stops(n) \/ Dies(n) \/ ClientGone(n) \/ Answer(n)
  <2>1. UNCHANGED shown /\ \A c \in Calls : call'[c].pc = call[c].pc
    BY <1>2 DEF Stops, Dies, ClientGone, Answer, Closes, TypeOK, CallRecord
  <2> QED  BY <2>1, SameStatus DEF Status, InSend
<1>3. CASE HandleCommand(n)
  <2> DEFINE c == notifier[n].request
  <2>1. /\ UNCHANGED call /\ c \in Calls /\ shown[c] = 0
        /\ call[c].pc \in {"reading", "abandoned"}
    BY <1>3, Ranges DEF HandleCommand, PipeInv, InstanceInv, RequestInv
  <2>2. PICK o \in Outcomes(c) : shown' = [shown EXCEPT ![c] = IF @ + o.toasts > 2 THEN 2 ELSE @ + o.toasts]
    BY <1>3 DEF HandleCommand
  <2>3. o.toasts = 0 \/ (o.toasts = 1 /\ c \in Messages)
    BY DEF Outcomes, Toasts
  <2>4. \A d \in Calls : Status(d)' = Status(d)
    <3>1. call' = call
      BY <1>3 DEF HandleCommand
    <3> QED  BY <3>1 DEF Status, InSend
  <2>5. CASE o.toasts = 0
    <3>1. shown' = shown
      BY <2>1, <2>2, <2>5 DEF TypeOK
    <3> QED  BY <2>4, <3>1, SameStatus
  <2>6. CASE o.toasts = 1 /\ c \in Messages
    <3>1. shown' = [shown EXCEPT ![c] = 1]
      BY <2>1, <2>2, <2>6 DEF TypeOK
    <3>2. Status(c) \in {"sending", "abandoned"}
      BY <2>1 DEF Status, InSend
    <3>3. UNCHANGED [d \in Calls |-> Status(d)]
      BY <2>4
    <3>4. Promise!Show(c)
      BY <2>1, <2>6, <3>1, <3>2, <3>3 DEF Promise!Show
    <3> QED  BY <2>1, <3>4 DEF Promise!Next
  <2> QED  BY <2>3, <2>5, <2>6
<1> QED  BY <1>1, <1>2, <1>3 DEF Loop

LEMMA NextPromise == TypeOK /\ PipeInv /\ [Next]_vars => [Promise!Next]_(Promise!vars)
<1> SUFFICES ASSUME TypeOK, PipeInv, [Next]_vars
             PROVE  Promise!Next \/ UNCHANGED Promise!vars
  OBVIOUS
<1>1. CASE UNCHANGED vars
  BY <1>1, SameStatus DEF vars, Status, InSend
<1>2. ASSUME NEW c \in Calls, Make(c) \/ Sends(c) \/ OpenFails(c)
      PROVE  Promise!Next \/ UNCHANGED Promise!vars
  BY <1>2, SendsPromise
<1>3. CASE ServiceEnds
  <2>1. \A c \in Calls : Status(c)' = IF Status(c) \in {"waiting", "sending"} THEN "abandoned" ELSE Status(c)
    BY <1>3 DEF ServiceEnds, Status, InSend, TypeOK, CallRecord
  <2> QED  BY <1>3, <2>1 DEF ServiceEnds, Promise!Next, Promise!Abandon
<1>4. ASSUME NEW n \in Notifiers, Starts(n) \/ Signalled(n) \/ Loop(n) \/ Dies(n)
      PROVE  Promise!Next \/ UNCHANGED Promise!vars
  BY <1>4, ServesPromise
<1> QED  BY <1>1, <1>2, <1>3, <1>4 DEF Next

(* Whatever number of calls and notifiers there is and whatever goes wrong *)
(* at either end: commands go out one at a time, the toast of each is      *)
(* shown once at most and while its call lasts, unless the service ended   *)
(* under it, and a call that succeeds has shown its toast.                 *)
THEOREM PipeDeliversInOrder == Spec => DeliversInOrder
<1>1. Init => TypeOK /\ PipeInv
  BY InitTypeOK, InitPipeInv
<1>2. TypeOK /\ PipeInv /\ [Next]_vars => (TypeOK /\ PipeInv)'
  BY NextTypeOK, NextPipeInv
<1> QED  BY <1>1, <1>2, InitPromise, NextPromise, PTL DEF Spec, DeliversInOrder, Promise!Spec
===============================================================================
