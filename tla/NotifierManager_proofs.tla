------------------------- MODULE NotifierManager_proofs -------------------------
(* What TLAPS proves of the notifier manager, for any number of sessions   *)
(* and processes and whatever goes wrong with the notifiers.               *)
EXTENDS NotifierManager, SequenceTheorems, TLAPS

(* The goroutine holds mu for writing, or for reading.                     *)
Writing == {"visit", "ping"}
Reading == {"send", "call"}
Outside == {"asleep", "checking", "ended"}

Nested == {<<"info", c>> : c \in {"refresh"} \cup Calls}

(* A goroutine inside of the manager works on some call, and one in a pipe *)
(* call talks to the notifier of a session.                                *)
GoodFrame(f) == /\ f \in Goroutine
                /\ f.pc \notin Outside => f.stack # <<>>
                /\ f.pc \in {"ping", "call"} => f.cur \in Sessions

FramesInv == \A t \in Threads : GoodFrame(go[t])

(* SendInfo is called from checkSessions only by the one that set the flag.*)
NestedOnce == \A t \in Threads : go[t].stack \in Nested => startupNotificationSent

(* mu is what the control states say it is.                                *)
LockInv == /\ \A t \in Threads : go[t].pc \in Writing <=> writer = t
           /\ \A t \in Threads : go[t].pc \in Reading <=> t \in readers
           /\ writer # "none" => readers = {}

ManagerInv == TypeOK /\ FramesInv /\ NestedOnce /\ LockInv /\ NoStrays

-------------------------------------------------------------------------------
(* Frames.                                                                 *)

(* Stacks of one call and of two.                                          *)
LEMMA ShortSequences ==
  ASSUME NEW c, NEW d
  PROVE  /\ Head(<<c>>) = c /\ Tail(<<c>>) = <<>> /\ <<c>> # <<>>
         /\ Head(<<c, d>>) = c /\ Tail(<<c, d>>) = <<d>> /\ <<c, d>> # <<>>
         /\ <<c>> \o <<d>> = <<c, d>>
<1>1. Head(<<c>>) = c /\ Tail(<<c>>) = <<>> /\ <<c>> # <<>>
  OBVIOUS
<1>2. Head(<<c, d>>) = c /\ Tail(<<c, d>>) = <<d>> /\ <<c, d>> # <<>>
  OBVIOUS
<1>3. <<c>> \o <<d>> = <<c, d>>
  <2> DEFINE S == {c, d}
             both == <<c>> \o <<d>>
  <2>1. <<c>> \in Seq(S) /\ <<d>> \in Seq(S) /\ <<c, d>> \in Seq(S)
    OBVIOUS
  <2>2. /\ both \in Seq(S) /\ Len(both) = 2
        /\ both[1] = c /\ both[2] = d
    BY <2>1, ConcatProperties
  <2>3. Len(<<c, d>>) = 2 /\ <<c, d>>[1] = c /\ <<c, d>>[2] = d
    OBVIOUS
  <2> HIDE DEF both
  <2>4. \A i \in 1 .. Len(both) : both[i] = <<c, d>>[i]
    <3>1. 1 .. Len(both) = {1, 2}
      BY <2>2
    <3> QED
      BY <2>2, <2>3, <3>1
  <2>5. both = <<c, d>>
    BY <2>1, <2>2, <2>3, <2>4, SeqEqual
  <2> QED
    BY <2>5 DEF both
<1> QED
  BY <1>1, <1>2, <1>3

(* What a stack of calls can be taken apart into.                          *)
LEMMA StackCases ==
  ASSUME NEW st \in Stacks, st # <<>>
  PROVE  \/ \E c \in {"refresh"} \cup Calls : st = <<c>> /\ Head(st) = c /\ Tail(st) = <<>>
         \/ \E c \in {"refresh"} \cup Calls :
               st = <<"info", c>> /\ Head(st) = "info" /\ Tail(st) = <<c>>
<1>1. CASE \E c \in {"refresh"} \cup Calls : st = <<c>>
  BY <1>1, ShortSequences
<1>2. CASE \E c \in {"refresh"} \cup Calls : st = <<"info", c>>
  BY <1>2, ShortSequences
<1> QED
  BY <1>1, <1>2 DEF Stacks

(* A call and a call nested in another differ.                             *)
LEMMA SingleNotNested ==
  /\ <<>> \in Stacks /\ <<>> \notin Nested
  /\ \A c \in {"refresh"} \cup Calls : /\ <<c>> \in Stacks /\ <<c>> # <<>> /\ <<c>> \notin Nested
                                       /\ Head(<<c>>) = c
                                       /\ <<"info">> \o <<c>> \in Nested
<1>1. <<>> \in Stacks /\ <<>> \notin Nested
  BY DEF Stacks, Nested
<1>2. ASSUME NEW c \in {"refresh"} \cup Calls
      PROVE  <<c>> \in Stacks /\ <<c>> # <<>> /\ <<c>> \notin Nested
  BY DEF Stacks, Nested
<1>3. ASSUME NEW c \in {"refresh"} \cup Calls
      PROVE  Head(<<c>>) = c /\ <<"info">> \o <<c>> \in Nested
  BY ShortSequences DEF Nested
<1> QED
  BY <1>1, <1>2, <1>3

(* A frame at a label outside of the pipe calls.                           *)
LEMMA AtGood ==
  ASSUME NEW label \in Labels \ {"ping", "call"}, NEW st \in Stacks,
         label \notin Outside => st # <<>>
  PROVE  GoodFrame(At(label, st)) /\ At(label, st).pc = label /\ At(label, st).stack = st
BY DEF At, GoodFrame, Goroutine, SessionStates

(* A Send method is entered outside of the lock.                           *)
LEMMA EnteredGood ==
  ASSUME NEW st \in Stacks, st # <<>>
  PROVE  /\ GoodFrame(Entered(st)) /\ Entered(st).stack = st
         /\ Entered(st).pc \in {"list", "rlock"}
<1>1. CASE Head(st) = "dismiss"
  BY <1>1, AtGood DEF Entered, Labels
<1>2. CASE Head(st) # "dismiss"
  BY <1>2, AtGood DEF Entered, Labels
<1> QED
  BY <1>1, <1>2

(* checkSessions returns outside of the lock, to the same call.            *)
LEMMA RefreshEndsGood ==
  ASSUME NEW f, GoodFrame(f), f.stack # <<>>
  PROVE  /\ GoodFrame(RefreshEnds(f)) /\ RefreshEnds(f).stack \in {<<>>, f.stack}
         /\ RefreshEnds(f).pc \in {"ended", "rlock"}
<1>1. CASE Head(f.stack) = "refresh"
  BY <1>1, AtGood, SingleNotNested DEF RefreshEnds, Labels, Outside
<1>2. CASE Head(f.stack) # "refresh"
  <2>1. f.stack \in Stacks /\ f.snap \in [Sessions -> SessionStates]
    BY DEF GoodFrame, Goroutine
  <2> QED
    BY <1>2, <2>1, AtGood DEF RefreshEnds, Labels
<1> QED
  BY <1>1, <1>2

(* A Send method returns to a frame that holds no nested call.             *)
LEMMA CallEndsGood ==
  ASSUME NEW f, GoodFrame(f), f.stack # <<>>
  PROVE  /\ GoodFrame(CallEnds(f)) /\ CallEnds(f).stack \notin Nested
         /\ CallEnds(f).pc \in {"ended", "rlock", "list", "asleep"}
<1>0. f.stack \in Stacks
  BY DEF GoodFrame, Goroutine
<1>1. CASE Tail(f.stack) # <<>>
  <2>1. PICK c \in {"refresh"} \cup Calls : f.stack = <<"info", c>> /\ Tail(f.stack) = <<c>>
    BY <1>0, <1>1, StackCases
  <2> DEFINE g == [f EXCEPT !.stack = <<c>>]
  <2>2. CallEnds(f) = RefreshEnds(g)
    BY <1>1, <2>1 DEF CallEnds
  <2>3. GoodFrame(g) /\ g.stack = <<c>>
    BY SingleNotNested DEF GoodFrame, Goroutine
  <2> HIDE DEF g
  <2> QED
    BY <2>2, <2>3, RefreshEndsGood, SingleNotNested
<1>2. CASE Tail(f.stack) = <<>> /\ f.stack = <<"dismiss">>
  <2>1. CallEnds(f) = Entered(<<"cancel">>)
    BY <1>2 DEF CallEnds
  <2> QED
    BY <2>1, EnteredGood, SingleNotNested DEF Calls
<1>3. CASE Tail(f.stack) = <<>> /\ f.stack # <<"dismiss">>
  <2>1. CallEnds(f) = At("asleep", <<>>)
    BY <1>3 DEF CallEnds
  <2> QED
    BY <2>1, AtGood, SingleNotNested DEF Labels, Outside
<1> QED
  BY <1>1, <1>2, <1>3

(* One goroutine moves, the others stay.                                   *)
LEMMA StepsFacts ==
  ASSUME TypeOK, FramesInv, NEW t \in Threads, NEW f, GoodFrame(f), Steps(t, f)
  PROVE  /\ go' \in [Threads -> Goroutine]
         /\ go'[t] = f
         /\ \A u \in Threads \ {t} : go'[u] = go[u]
         /\ FramesInv'
<1>1. go \in [Threads -> Goroutine] /\ f \in Goroutine
  BY DEF TypeOK, GoodFrame
<1>2. /\ go' \in [Threads -> Goroutine]
      /\ go'[t] = f
      /\ \A u \in Threads \ {t} : go'[u] = go[u]
  BY <1>1 DEF Steps
<1>3. \A u \in Threads : GoodFrame(go'[u])
  BY <1>2 DEF FramesInv
<1> QED
  BY <1>2, <1>3 DEF FramesInv, GoodFrame

-------------------------------------------------------------------------------
(* The lock, and who is below whom, when one goroutine moves to frame f.   *)
LEMMA MoveKeeps ==
  ASSUME ManagerInv, NEW t \in Threads, NEW f, GoodFrame(f), Steps(t, f),
         startupNotificationSent' \in BOOLEAN,
         startupNotificationSent => startupNotificationSent',
         f.stack \in Nested => startupNotificationSent',
         f.pc \in Writing <=> writer' = t,
         f.pc \in Reading <=> t \in readers',
         \A u \in Threads \ {t} : /\ writer' = u <=> writer = u
                                  /\ u \in readers' <=> u \in readers,
         writer' # "none" => readers' = {}
  PROVE  FramesInv' /\ NestedOnce' /\ LockInv' /\ go' \in [Threads -> Goroutine]
<1>1. /\ go' \in [Threads -> Goroutine]
      /\ go'[t] = f
      /\ \A u \in Threads \ {t} : go'[u] = go[u]
      /\ FramesInv'
  BY StepsFacts DEF ManagerInv
<1>2. NestedOnce'
  BY <1>1 DEF ManagerInv, NestedOnce
<1>3. LockInv'
  <2>1. \A u \in Threads : go'[u].pc \in Writing <=> writer' = u
    BY <1>1 DEF ManagerInv, LockInv
  <2>2. \A u \in Threads : go'[u].pc \in Reading <=> u \in readers'
    BY <1>1 DEF ManagerInv, LockInv
  <2> QED
    BY <2>1, <2>2 DEF LockInv
<1> QED
  BY <1>1, <1>2, <1>3

(* What a goroutine that holds mu, or waits for nothing, may rely on.      *)
LEMMA FrameFacts ==
  ASSUME ManagerInv, NEW t \in Threads
  PROVE  /\ GoodFrame(go[t]) /\ go[t] \in Goroutine
         /\ go[t].pc \in Writing <=> writer = t
         /\ go[t].pc \in Reading <=> t \in readers
         /\ writer # "none" => readers = {}
         /\ go[t].stack \in Nested => startupNotificationSent
         /\ t # "none" /\ startupNotificationSent \in BOOLEAN
BY DEF ManagerInv, FramesInv, NestedOnce, LockInv, GoodFrame, TypeOK, Threads

(* stopNotifier, with mu held: whatever it leaves alive is still known.    *)
LEMMA StopsCleanly ==
  ASSUME TypeOK, NoStrays, NEW S \in SUBSET Known,
         Terminate({notifiers[s] : s \in S}), Forget(S), execute' \in {execute, "returned"}
  PROVE  /\ proc' \in [Procs -> [session : Sessions \cup {None}, state : ProcStates]]
         /\ \A p \in Procs : proc'[p].state = "dead" <=> proc'[p].session = None
         /\ notifiers' \in [Sessions -> Procs \cup {None}]
         /\ connected' \subseteq Sessions
         /\ execute # "exited" => NoStrays'
<1>1. \A p \in Procs : proc'[p] = IF p \in {notifiers[s] : s \in S} THEN Dead ELSE proc[p]
  BY DEF Terminate
<1>2. /\ proc' \in [Procs -> [session : Sessions \cup {None}, state : ProcStates]]
      /\ \A p \in Procs : proc'[p].state = "dead" <=> proc'[p].session = None
  <2>1. Dead \in [session : Sessions \cup {None}, state : ProcStates]
    BY DEF Dead, ProcStates
  <2>2. proc' \in [Procs -> [session : Sessions \cup {None}, state : ProcStates]]
    BY <2>1 DEF Terminate, TypeOK
  <2>3. \A p \in Procs : proc'[p].state = "dead" <=> proc'[p].session = None
    BY <1>1 DEF TypeOK, Dead
  <2> QED
    BY <2>2, <2>3
<1>3. notifiers' \in [Sessions -> Procs \cup {None}] /\ connected' \subseteq Sessions
  BY DEF Forget, TypeOK
<1>4. ASSUME execute # "exited", NEW p \in Procs, proc'[p].state # "dead"
      PROVE  notifiers'[proc'[p].session] = p
  <2>1. proc'[p] = proc[p] /\ p \notin {notifiers[s] : s \in S}
    BY <1>1, <1>4 DEF Dead
  <2>2. proc[p].session \in Sessions
    BY <1>4, <2>1 DEF TypeOK
  <2>3. notifiers[proc[p].session] = p
    BY <1>4, <2>1 DEF NoStrays, Alive
  <2> QED
    BY <2>1, <2>2, <2>3 DEF Forget
<1> QED
  BY <1>2, <1>3, <1>4 DEF NoStrays, Alive

-------------------------------------------------------------------------------
(* checkSessions, step by step.                                            *)
LEMMA RefreshKeeps ==
  ASSUME ManagerInv, NEW t \in Threads, Refresh(t)
  PROVE  ManagerInv'
<1>0. /\ GoodFrame(go[t]) /\ go[t] \in Goroutine
      /\ go[t].pc \in Writing <=> writer = t
      /\ go[t].pc \in Reading <=> t \in readers
      /\ writer # "none" => readers = {}
      /\ go[t].stack \in Nested => startupNotificationSent
      /\ t # "none" /\ startupNotificationSent \in BOOLEAN
  BY FrameFacts
<1>1. CASE ListSessions(t)
  <2>1. \E f : /\ GoodFrame(f) /\ Steps(t, f) /\ f.stack \in {<<>>, go[t].stack}
               /\ f.pc \in {"lock", "ended", "rlock"}
    <3>1. CASE Steps(t, [go[t] EXCEPT !.snap = sess, !.pc = "lock"])
      <4> DEFINE f == [go[t] EXCEPT !.snap = sess, !.pc = "lock"]
      <4>1. GoodFrame(f) /\ f.stack = go[t].stack /\ f.pc = "lock"
        BY <1>0, <1>1 DEF ListSessions, GoodFrame, Goroutine, Labels, Outside, ManagerInv, TypeOK
      <4> QED
        BY <3>1, <4>1
    <3>2. CASE Steps(t, RefreshEnds(go[t]))
      <4>1. go[t].stack # <<>>
        BY <1>0, <1>1 DEF ListSessions, GoodFrame, Outside
      <4> QED
        BY <1>0, <3>2, <4>1, RefreshEndsGood
    <3> QED
      BY <1>1, <3>1, <3>2 DEF ListSessions
  <2>2. PICK f : /\ GoodFrame(f) /\ Steps(t, f) /\ f.stack \in {<<>>, go[t].stack}
                 /\ f.pc \in {"lock", "ended", "rlock"}
    BY <2>1
  <2>3. go[t].pc \notin Writing /\ go[t].pc \notin Reading
    BY <1>1 DEF ListSessions, Writing, Reading
  <2>4. FramesInv' /\ NestedOnce' /\ LockInv' /\ go' \in [Threads -> Goroutine]
    BY <1>0, <1>1, <2>2, <2>3, MoveKeeps, SingleNotNested
    DEF ListSessions, lockVars, Writing, Reading
  <2> QED
    BY <1>1, <2>4 DEF ListSessions, lockVars, mapVars, ManagerInv, TypeOK, NoStrays, Alive
<1>2. CASE Lock(t)
  <2> DEFINE f == [go[t] EXCEPT !.pc = "visit", !.todo = Listed(t)]
  <2>1. GoodFrame(f) /\ f.stack = go[t].stack /\ f.pc = "visit" /\ Steps(t, f)
    BY <1>0, <1>2 DEF Lock, GoodFrame, Goroutine, Labels, Outside, Listed
  <2> HIDE DEF f
  <2>2. writer' = t /\ readers' = {} /\ readers = {} /\ writer = "none"
    BY <1>2 DEF Lock
  <2>3. "none" \notin Threads
    BY DEF Threads
  <2>4. FramesInv' /\ NestedOnce' /\ LockInv' /\ go' \in [Threads -> Goroutine]
    BY <1>0, <1>2, <2>1, <2>2, <2>3, MoveKeeps DEF Lock, Writing, Reading
  <2> QED
    BY <1>2, <2>2, <2>4 DEF Lock, mapVars, ManagerInv, TypeOK, NoStrays, Alive
<1>3. CASE KeepNotifier(t)
  <2>1. PICK s \in go[t].todo : /\ Connects(s, go[t].snap[s] = "active")
                                /\ Steps(t, [go[t] EXCEPT !.todo = @ \ {s}])
    BY <1>3 DEF KeepNotifier
  <2> DEFINE f == [go[t] EXCEPT !.todo = @ \ {s}]
  <2>2. GoodFrame(f) /\ f.stack = go[t].stack /\ f.pc = "visit" /\ Steps(t, f)
    BY <1>0, <1>3, <2>1 DEF KeepNotifier, GoodFrame, Goroutine, Labels, Outside
  <2> HIDE DEF f
  <2>3. go[t].pc = "visit"
    BY <1>3 DEF KeepNotifier
  <2>4. FramesInv' /\ NestedOnce' /\ LockInv' /\ go' \in [Threads -> Goroutine]
    BY <1>0, <1>3, <2>2, <2>3, MoveKeeps DEF KeepNotifier, lockVars, Writing, Reading
  <2>5. connected' \subseteq Sessions
    BY <1>0, <2>1 DEF Connects, Goroutine, ManagerInv, TypeOK
  <2> QED
    BY <1>3, <2>4, <2>5 DEF KeepNotifier, lockVars, ManagerInv, TypeOK, NoStrays, Alive
<1>4. CASE StartNotifier(t)
  <2>1. PICK s \in go[t].todo, p \in {q \in Procs : ~Alive(q)},
             state \in {"serving"} \cup (PipeFaults \cap {"deaf"}) :
          /\ ~Alive(notifiers[s])
          /\ proc' = [proc EXCEPT ![p] = [session |-> s, state |-> state]]
          /\ notifiers' = [notifiers EXCEPT ![s] = p]
          /\ Connects(s, go[t].snap[s] = "active")
          /\ Steps(t, [go[t] EXCEPT !.pc = "ping", !.cur = s,
                                    !.fresh = @ \/ go[t].snap[s] = "active"])
    BY <1>4 DEF StartNotifier
  <2>2. s \in Sessions /\ go[t].pc = "visit" /\ p \in Procs /\ ~Alive(p)
    BY <1>0, <1>4 DEF StartNotifier, Goroutine
  <2> DEFINE b == go[t].fresh \/ go[t].snap[s] = "active"
             f == [go[t] EXCEPT !.pc = "ping", !.cur = s, !.fresh = b]
  <2>3. GoodFrame(f) /\ f.stack = go[t].stack /\ f.pc = "ping" /\ Steps(t, f)
    <3>1. b \in BOOLEAN
      BY <1>0 DEF Goroutine
    <3>2. Steps(t, f)
      BY <2>1
    <3> HIDE DEF b
    <3> QED
      BY <1>0, <2>2, <3>1, <3>2 DEF GoodFrame, Goroutine, Labels, Outside
  <2> HIDE DEF f
  <2>4. FramesInv' /\ NestedOnce' /\ LockInv' /\ go' \in [Threads -> Goroutine]
    BY <1>0, <1>4, <2>2, <2>3, MoveKeeps DEF StartNotifier, lockVars, Writing, Reading
  <2>5. /\ connected' \subseteq Sessions
        /\ notifiers' \in [Sessions -> Procs \cup {None}]
    BY <2>1, <2>2 DEF Connects, ManagerInv, TypeOK
  <2>6. /\ proc' \in [Procs -> [session : Sessions \cup {None}, state : ProcStates]]
        /\ \A q \in Procs : proc'[q].state = "dead" <=> proc'[q].session = None
    <3>1. state \in ProcStates \ {"dead"} /\ s # None
      BY <2>2, ManagerAssumption DEF ProcStates
    <3>2. proc' \in [Procs -> [session : Sessions \cup {None}, state : ProcStates]]
      BY <2>1, <2>2, <3>1 DEF ManagerInv, TypeOK
    <3>3. /\ proc'[p] = [session |-> s, state |-> state]
          /\ \A q \in Procs \ {p} : proc'[q] = proc[q]
      BY <2>1, <2>2 DEF ManagerInv, TypeOK
    <3> QED
      BY <3>1, <3>2, <3>3 DEF ManagerInv, TypeOK
  <2>7. NoStrays'
    <3> SUFFICES ASSUME execute # "exited", NEW q \in Procs, proc'[q].state # "dead"
                 PROVE  notifiers'[proc'[q].session] = q
      BY <1>4 DEF StartNotifier, NoStrays, Alive
    <3>1. CASE q = p
      BY <2>1, <2>2, <3>1 DEF ManagerInv, TypeOK
    <3>2. CASE q # p
      <4>1. proc'[q] = proc[q] /\ Alive(q) /\ notifiers[proc[q].session] = q
        BY <2>1, <3>2 DEF ManagerInv, TypeOK, NoStrays, Alive
      <4>2. proc[q].session # s /\ proc[q].session \in Sessions
        BY <2>1, <4>1 DEF ManagerInv, TypeOK, Alive
      <4> QED
        BY <2>1, <2>2, <4>1, <4>2 DEF ManagerInv, TypeOK
    <3> QED
      BY <3>1, <3>2
  <2> QED
    BY <1>4, <2>4, <2>5, <2>6, <2>7 DEF StartNotifier, lockVars, ManagerInv, TypeOK
<1>5. CASE StartNotifierFails(t)
  <2>1. PICK s \in go[t].todo : /\ ~Alive(notifiers[s]) /\ Forget({s})
                                /\ Steps(t, [go[t] EXCEPT !.todo = @ \ {s}])
    BY <1>5 DEF StartNotifierFails
  <2> DEFINE f == [go[t] EXCEPT !.todo = @ \ {s}]
  <2>2. GoodFrame(f) /\ f.stack = go[t].stack /\ f.pc = "visit" /\ Steps(t, f)
    BY <1>0, <1>5, <2>1 DEF StartNotifierFails, GoodFrame, Goroutine, Labels, Outside
  <2> HIDE DEF f
  <2>3. go[t].pc = "visit"
    BY <1>5 DEF StartNotifierFails
  <2>4. FramesInv' /\ NestedOnce' /\ LockInv' /\ go' \in [Threads -> Goroutine]
    BY <1>0, <1>5, <2>2, <2>3, MoveKeeps DEF StartNotifierFails, lockVars, Writing, Reading
  <2>5. connected' \subseteq Sessions /\ notifiers' \in [Sessions -> Procs \cup {None}]
    BY <2>1 DEF Forget, ManagerInv, TypeOK
  <2>6. NoStrays'
    <3> SUFFICES ASSUME execute # "exited", NEW q \in Procs, Alive(q)
                 PROVE  notifiers'[proc[q].session] = q
      BY <1>5 DEF StartNotifierFails, NoStrays, Alive
    <3>1. notifiers[proc[q].session] = q /\ proc[q].session \in Sessions
      BY DEF ManagerInv, TypeOK, NoStrays, Alive
    <3> QED
      BY <2>1, <3>1 DEF Forget
  <2> QED
    BY <1>5, <2>4, <2>5, <2>6 DEF StartNotifierFails, lockVars, ManagerInv, TypeOK
<1>6. CASE PingReturns(t)
  <2> DEFINE f == [go[t] EXCEPT !.pc = "visit", !.todo = @ \ {go[t].cur}, !.cur = None]
  <2>1. GoodFrame(f) /\ f.stack = go[t].stack /\ f.pc = "visit" /\ Steps(t, f)
    BY <1>0, <1>6 DEF PingReturns, GoodFrame, Goroutine, Labels, Outside
  <2> HIDE DEF f
  <2>2. go[t].pc = "ping"
    BY <1>6 DEF PingReturns
  <2>3. FramesInv' /\ NestedOnce' /\ LockInv' /\ go' \in [Threads -> Goroutine]
    BY <1>0, <1>6, <2>1, <2>2, MoveKeeps DEF PingReturns, lockVars, Writing, Reading
  <2> QED
    BY <1>6, <2>3 DEF PingReturns, lockVars, mapVars, ManagerInv, TypeOK, NoStrays, Alive
<1>7. CASE SweepAndUnlock(t)
  <2> DEFINE gone == Known \ Listed(t)
             greets == ~startupNotificationSent /\ go[t].fresh /\ Known \ gone # {}
             f == IF greets THEN Entered(<<"info">> \o go[t].stack) ELSE RefreshEnds(go[t])
  <2>1. /\ go[t].pc = "visit" /\ Terminate({notifiers[s] : s \in gone}) /\ Forget(gone)
        /\ startupNotificationSent' = (startupNotificationSent \/ greets)
        /\ writer' = "none" /\ Steps(t, f)
        /\ UNCHANGED <<sess, readers, execute, infos>>
    BY <1>7 DEF SweepAndUnlock
  <2>2. gone \in SUBSET Known
    OBVIOUS
  <2>3. go[t].stack # <<>> /\ go[t].stack \in Stacks
    BY <1>0, <2>1 DEF GoodFrame, Goroutine, Outside
  <2>4. /\ GoodFrame(f) /\ f.pc \in {"list", "ended", "rlock"}
        /\ f.stack \in Nested => startupNotificationSent'
    <3>1. CASE greets
      <4>1. PICK c \in {"refresh"} \cup Calls : go[t].stack = <<c>>
        BY <1>0, <2>3, <3>1, StackCases DEF Nested
      <4> DEFINE st == <<"info">> \o go[t].stack
      <4>2. st \in Nested
        BY <4>1, SingleNotNested
      <4>3. st \in Stacks /\ st # <<>>
        BY <4>2, SingleNotNested DEF Nested, Stacks
      <4> HIDE DEF st
      <4>4. GoodFrame(Entered(st)) /\ Entered(st).pc \in {"list", "rlock"}
        BY <4>3, EnteredGood
      <4>5. f = Entered(st)
        BY <3>1 DEF st
      <4> QED
        BY <2>1, <3>1, <4>4, <4>5
    <3>2. CASE ~greets
      <4>1. f = RefreshEnds(go[t])
        BY <3>2
      <4> HIDE DEF f, greets
      <4> QED
        BY <1>0, <2>1, <2>3, <4>1, RefreshEndsGood, SingleNotNested
    <3> QED
      BY <3>1, <3>2
  <2>5. startupNotificationSent' \in BOOLEAN /\ (startupNotificationSent => startupNotificationSent')
    BY <1>0, <2>1
  <2> HIDE DEF gone, greets, f
  <2>6. writer = t /\ readers = {} /\ readers' = {} /\ "none" \notin Threads
    BY <1>0, <2>1 DEF Writing, Threads
  <2>7. FramesInv' /\ NestedOnce' /\ LockInv' /\ go' \in [Threads -> Goroutine]
    BY <1>0, <2>1, <2>4, <2>5, <2>6, MoveKeeps DEF Writing, Reading
  <2>8. /\ proc' \in [Procs -> [session : Sessions \cup {None}, state : ProcStates]]
        /\ \A p \in Procs : proc'[p].state = "dead" <=> proc'[p].session = None
        /\ notifiers' \in [Sessions -> Procs \cup {None}]
        /\ connected' \subseteq Sessions
        /\ execute # "exited" => NoStrays'
    BY <2>1, <2>2, StopsCleanly DEF ManagerInv
  <2>9. NoStrays'
    BY <2>1, <2>8 DEF NoStrays
  <2> QED
    BY <2>1, <2>5, <2>6, <2>7, <2>8, <2>9 DEF ManagerInv, TypeOK
<1> QED
  BY <1>1, <1>2, <1>3, <1>4, <1>5, <1>6, <1>7 DEF Refresh

(* The Send methods, step by step.                                         *)
LEMMA SendingKeeps ==
  ASSUME ManagerInv, NEW t \in Threads, Sending(t)
  PROVE  ManagerInv'
<1>0. /\ GoodFrame(go[t]) /\ go[t] \in Goroutine
      /\ go[t].pc \in Writing <=> writer = t
      /\ go[t].pc \in Reading <=> t \in readers
      /\ writer # "none" => readers = {}
      /\ go[t].stack \in Nested => startupNotificationSent
      /\ t # "none" /\ startupNotificationSent \in BOOLEAN
  BY FrameFacts
<1>1. ASSUME go[t].pc \notin Outside
      PROVE  /\ GoodFrame(CallEnds(go[t])) /\ CallEnds(go[t]).stack \notin Nested
             /\ CallEnds(go[t]).pc \notin Writing \cup Reading
  <2>1. go[t].stack # <<>>
    BY <1>0, <1>1 DEF GoodFrame
  <2> QED
    BY <1>0, <2>1, CallEndsGood DEF Writing, Reading
<1>2. CASE RLock(t)
  <2>0. go[t].pc = "rlock" /\ go[t].pc \notin Outside \cup Writing \cup Reading
    BY <1>2 DEF RLock, Outside, Writing, Reading
  <2>1. CASE Known = {}
    <3> DEFINE f == CallEnds(go[t])
    <3>1. Steps(t, f) /\ readers' = readers
      BY <1>2, <2>1 DEF RLock
    <3>2. GoodFrame(f) /\ f.stack \notin Nested /\ f.pc \notin Writing \cup Reading
      BY <1>1, <2>0
    <3> HIDE DEF f
    <3>3. FramesInv' /\ NestedOnce' /\ LockInv' /\ go' \in [Threads -> Goroutine]
      BY <1>0, <1>2, <2>0, <3>1, <3>2, MoveKeeps DEF RLock
    <3> QED
      BY <1>2, <3>1, <3>3 DEF RLock, mapVars, ManagerInv, TypeOK, NoStrays, Alive
  <2>2. CASE Known # {}
    <3> DEFINE to == IF Head(go[t].stack) = "dismiss" THEN Known ELSE Known \cap connected
               f == [go[t] EXCEPT !.pc = "send", !.todo = to]
    <3>1. Steps(t, f) /\ readers' = readers \cup {t}
      BY <1>2, <2>2 DEF RLock
    <3>2. to \subseteq Sessions
      BY DEF Known
    <3> HIDE DEF to
    <3>3. GoodFrame(f) /\ f.stack = go[t].stack /\ f.pc = "send"
      BY <1>0, <2>0, <3>2 DEF GoodFrame, Goroutine, Labels
    <3> HIDE DEF f
    <3>4. writer = "none" /\ writer' = "none"
      BY <1>2 DEF RLock
    <3>5. FramesInv' /\ NestedOnce' /\ LockInv' /\ go' \in [Threads -> Goroutine]
      BY <1>0, <1>2, <2>0, <3>1, <3>3, <3>4, MoveKeeps DEF RLock, Writing, Reading
    <3> QED
      BY <1>2, <3>1, <3>5 DEF RLock, mapVars, ManagerInv, TypeOK, NoStrays, Alive
  <2> QED
    BY <2>1, <2>2
<1>3. CASE SendCommand(t)
  <2>1. PICK s \in go[t].todo : Steps(t, [go[t] EXCEPT !.pc = "call", !.cur = s, !.todo = @ \ {s}])
    BY <1>3 DEF SendCommand
  <2> DEFINE f == [go[t] EXCEPT !.pc = "call", !.cur = s, !.todo = @ \ {s}]
  <2>2. GoodFrame(f) /\ f.stack = go[t].stack /\ f.pc = "call" /\ Steps(t, f) /\ go[t].pc = "send"
    BY <1>0, <1>3, <2>1 DEF SendCommand, GoodFrame, Goroutine, Labels, Outside
  <2> HIDE DEF f
  <2>3. FramesInv' /\ NestedOnce' /\ LockInv' /\ go' \in [Threads -> Goroutine]
    BY <1>0, <1>3, <2>2, MoveKeeps DEF SendCommand, lockVars, Writing, Reading
  <2> QED
    BY <1>3, <2>3 DEF SendCommand, lockVars, mapVars, ManagerInv, TypeOK, NoStrays, Alive
<1>4. CASE Answered(t)
  <2> DEFINE s == go[t].cur
  <2>1. /\ Steps(t, [go[t] EXCEPT !.pc = "send", !.cur = None])
        /\ \/ infos' = infos
           \/ infos' = [infos EXCEPT ![s] = @ + 1] /\ Head(go[t].stack) = "info" /\ infos[s] < 2
    BY <1>4 DEF Answered
  <2> DEFINE f == [go[t] EXCEPT !.pc = "send", !.cur = None]
  <2>2. go[t].pc = "call" /\ s \in Sessions
    BY <1>0, <1>4 DEF Answered, GoodFrame
  <2>3. GoodFrame(f) /\ f.stack = go[t].stack /\ f.pc = "send" /\ Steps(t, f)
    BY <1>0, <2>1, <2>2 DEF GoodFrame, Goroutine, Labels, Outside
  <2> HIDE DEF f
  <2>4. FramesInv' /\ NestedOnce' /\ LockInv' /\ go' \in [Threads -> Goroutine]
    BY <1>0, <1>4, <2>2, <2>3, MoveKeeps DEF Answered, lockVars, Writing, Reading
  <2>5. infos' \in [Sessions -> 0..2]
    BY <2>1, <2>2 DEF ManagerInv, TypeOK
  <2> QED
    BY <1>4, <2>4, <2>5 DEF Answered, lockVars, mapVars, ManagerInv, TypeOK, NoStrays, Alive
<1>5. CASE Returns(t)
  <2> DEFINE f == CallEnds(go[t])
  <2>1. go[t].pc = "send" /\ Steps(t, f) /\ readers' = readers \ {t}
    BY <1>5 DEF Returns
  <2>2. GoodFrame(f) /\ f.stack \notin Nested /\ f.pc \notin Writing \cup Reading
    BY <1>1, <2>1 DEF Outside
  <2> HIDE DEF f
  <2>3. go[t].pc \notin Writing /\ writer' = writer
    BY <1>5, <2>1 DEF Returns, Writing
  <2>4. FramesInv' /\ NestedOnce' /\ LockInv' /\ go' \in [Threads -> Goroutine]
    BY <1>0, <1>5, <2>1, <2>2, <2>3, MoveKeeps DEF Returns
  <2> QED
    BY <1>5, <2>1, <2>4 DEF Returns, mapVars, ManagerInv, TypeOK, NoStrays, Alive
<1> QED
  BY <1>2, <1>3, <1>4, <1>5 DEF Sending

(* The frame the monitor loop moves to, outside of the lock.               *)
LEMMA LoopFrame ==
  ASSUME Loop
  PROVE  \E f : /\ GoodFrame(f) /\ Steps("loop", f) /\ f.stack \notin Nested
                /\ f.pc \notin Writing \cup Reading
<1>1. GoodFrame(At("checking", <<>>)) /\ GoodFrame(At("asleep", <<>>)) /\ GoodFrame(At("ended", <<>>))
  BY AtGood, SingleNotNested DEF Labels, Outside
<1>2. /\ At("checking", <<>>).stack = <<>> /\ At("asleep", <<>>).stack = <<>>
      /\ At("ended", <<>>).stack = <<>> /\ At("checking", <<>>).pc = "checking"
      /\ At("asleep", <<>>).pc = "asleep" /\ At("ended", <<>>).pc = "ended"
  BY DEF At
<1>3. \A c \in {"warning", "dismiss"} :
        /\ GoodFrame(Entered(<<c>>)) /\ Entered(<<c>>).stack = <<c>>
        /\ Entered(<<c>>).pc \in {"list", "rlock"}
  BY EnteredGood, SingleNotNested DEF Calls
<1>4. <<>> \notin Nested /\ <<"warning">> \notin Nested /\ <<"dismiss">> \notin Nested
  BY SingleNotNested DEF Calls
<1>5. CASE LoopWakes \/ LoopStops
  BY <1>1, <1>2, <1>4, <1>5 DEF LoopWakes, LoopStops, Writing, Reading
<1>6. CASE LoopCalls
  <2>1. PICK f \in {Entered(<<"warning">>), Entered(<<"dismiss">>), At("asleep", <<>>)} :
           Steps("loop", f)
    BY <1>6 DEF LoopCalls
  <2>2. GoodFrame(f) /\ f.stack \notin Nested /\ f.pc \in {"list", "rlock", "asleep"}
    BY <1>1, <1>2, <1>3, <1>4
  <2> QED
    BY <2>1, <2>2 DEF Writing, Reading
<1> QED
  BY <1>5, <1>6 DEF Loop

(* The monitor loop enters the manager and leaves it without mu.           *)
LEMMA LoopKeeps ==
  ASSUME ManagerInv, Loop
  PROVE  ManagerInv'
<1>0. /\ GoodFrame(go["loop"]) /\ go["loop"] \in Goroutine /\ "loop" \in Threads
      /\ go["loop"].pc \in Writing <=> writer = "loop"
      /\ go["loop"].pc \in Reading <=> "loop" \in readers
      /\ writer # "none" => readers = {}
      /\ startupNotificationSent \in BOOLEAN
  BY FrameFacts DEF Threads
<1>1. /\ go["loop"].pc \notin Writing \cup Reading
      /\ UNCHANGED <<sess, mapVars, startupNotificationSent, lockVars, execute, infos>>
  BY DEF Loop, LoopWakes, LoopCalls, LoopStops, Writing, Reading
<1>2. PICK f : /\ GoodFrame(f) /\ Steps("loop", f) /\ f.stack \notin Nested
               /\ f.pc \notin Writing \cup Reading
  BY LoopFrame
<1>3. FramesInv' /\ NestedOnce' /\ LockInv' /\ go' \in [Threads -> Goroutine]
  BY <1>0, <1>1, <1>2, MoveKeeps DEF lockVars
<1> QED
  BY <1>1, <1>3 DEF lockVars, mapVars, ManagerInv, TypeOK, NoStrays, Alive

(* The goroutine of Execute.                                               *)
LEMMA ExecuteKeeps ==
  ASSUME ManagerInv, StopRequested \/ Stop \/ ProcessExits
  PROVE  ManagerInv'
<1>1. CASE StopRequested
  BY <1>1 DEF StopRequested, mapVars, lockVars, ManagerInv, TypeOK, FramesInv, GoodFrame,
              NestedOnce, LockInv, NoStrays, Alive
<1>2. CASE Stop
  <2>1. Known \in SUBSET Known /\ execute = "stopping" /\ execute' = "returned"
    BY <1>2 DEF Stop
  <2>2. /\ proc' \in [Procs -> [session : Sessions \cup {None}, state : ProcStates]]
        /\ \A p \in Procs : proc'[p].state = "dead" <=> proc'[p].session = None
        /\ notifiers' \in [Sessions -> Procs \cup {None}]
        /\ connected' \subseteq Sessions
        /\ NoStrays'
    BY <1>2, <2>1, StopsCleanly DEF Stop, ManagerInv
  <2>3. FramesInv' /\ NestedOnce' /\ LockInv'
    BY <1>2 DEF Stop, lockVars, ManagerInv, FramesInv, GoodFrame, NestedOnce, LockInv
  <2> QED
    BY <1>2, <2>1, <2>2, <2>3 DEF Stop, lockVars, ManagerInv, TypeOK
<1>3. CASE ProcessExits
  <2> DEFINE f == At("ended", <<>>)
  <2>1. GoodFrame(f) /\ f.pc = "ended" /\ f.stack = <<>>
    BY AtGood, SingleNotNested DEF Labels, Outside
  <2>2. go' = [t \in Threads |-> f] /\ writer' = "none" /\ readers' = {} /\ execute' = "exited"
    BY <1>3 DEF ProcessExits
  <2> HIDE DEF f
  <2>3. FramesInv' /\ NestedOnce' /\ LockInv' /\ go' \in [Threads -> Goroutine]
    <3>1. \A t \in Threads : go'[t] = f
      BY <2>2
    <3>2. "none" \notin Threads /\ f \in Goroutine /\ f.stack \notin Nested
      BY <2>1, SingleNotNested DEF Threads, GoodFrame
    <3>3. FramesInv' /\ NestedOnce'
      BY <2>1, <3>1, <3>2 DEF FramesInv, GoodFrame, NestedOnce
    <3>4. LockInv'
      BY <2>1, <2>2, <3>1, <3>2 DEF LockInv, Writing, Reading
    <3> QED
      BY <2>2, <3>2, <3>3, <3>4
  <2>4. notifiers' \in [Sessions -> Procs \cup {None}] /\ connected' \subseteq Sessions
    BY <1>3 DEF ProcessExits, Forget, ManagerInv, TypeOK
  <2>5. NoStrays'
    BY <2>2 DEF NoStrays
  <2> QED
    BY <1>3, <2>2, <2>3, <2>4, <2>5 DEF ProcessExits, ManagerInv, TypeOK
<1> QED
  BY <1>1, <1>2, <1>3

(* Users and notifiers: a process dies or changes how it answers.          *)
LEMMA OutsideKeeps ==
  ASSUME ManagerInv, SessionChanges \/ NotifierChanges
  PROVE  ManagerInv'
<1>1. UNCHANGED <<notifiers, connected, startupNotificationSent, lockVars, go, execute, infos>>
  BY DEF SessionChanges, NotifierChanges
<1>2. FramesInv' /\ NestedOnce' /\ LockInv'
  BY <1>1 DEF lockVars, ManagerInv, FramesInv, GoodFrame, NestedOnce, LockInv
<1>3. ASSUME /\ proc' \in [Procs -> [session : Sessions \cup {None}, state : ProcStates]]
             /\ \A p \in Procs : proc'[p] = Dead \/ (/\ proc[p].state # "dead"
                                                     /\ proc'[p].state # "dead"
                                                     /\ proc'[p].session = proc[p].session)
                                 \/ proc'[p] = proc[p],
             sess' \in [Sessions -> SessionStates]
      PROVE  ManagerInv'
  <2>1. \A p \in Procs : proc'[p].state = "dead" <=> proc'[p].session = None
    BY <1>3 DEF Dead, ManagerInv, TypeOK
  <2>2. NoStrays'
    <3> SUFFICES ASSUME execute # "exited", NEW p \in Procs, proc'[p].state # "dead"
                 PROVE  notifiers[proc'[p].session] = p
      BY <1>1 DEF NoStrays, Alive
    <3> QED
      BY <1>3 DEF Dead, ManagerInv, NoStrays, Alive
  <2> QED
    BY <1>1, <1>2, <1>3, <2>1, <2>2 DEF lockVars, ManagerInv, TypeOK
<1>4. Dead \in [session : Sessions \cup {None}, state : ProcStates]
  BY DEF Dead, ProcStates
<1>5. ASSUME NEW ps, Terminate(ps), sess' \in [Sessions -> SessionStates]
      PROVE  ManagerInv'
  <2>1. proc' \in [Procs -> [session : Sessions \cup {None}, state : ProcStates]]
    BY <1>4, <1>5 DEF Terminate, ManagerInv, TypeOK
  <2>2. \A p \in Procs : proc'[p] = Dead \/ proc'[p] = proc[p]
    BY <1>5 DEF Terminate
  <2> QED
    BY <1>3, <1>5, <2>1, <2>2
<1>6. CASE SessionChanges
  BY <1>5, <1>6 DEF SessionChanges, ManagerInv, TypeOK
<1>7. CASE NotifierChanges
  <2>1. PICK p \in Procs :
           \/ Terminate({p})
           \/ \E to \in ProcStates \ {"dead"} :
                 /\ proc[p].state # "dead"
                 /\ proc' = [proc EXCEPT ![p].state = to]
    BY <1>7 DEF NotifierChanges
  <2>2. sess' = sess /\ sess \in [Sessions -> SessionStates]
    BY <1>7 DEF NotifierChanges, ManagerInv, TypeOK
  <2>3. CASE Terminate({p})
    BY <1>5, <2>2, <2>3
  <2>4. CASE \E to \in ProcStates \ {"dead"} : /\ proc[p].state # "dead"
                                               /\ proc' = [proc EXCEPT ![p].state = to]
    BY <1>3, <2>2, <2>4 DEF ManagerInv, TypeOK
  <2> QED
    BY <2>1, <2>3, <2>4
<1> QED
  BY <1>6, <1>7

-------------------------------------------------------------------------------
(* The invariant of the manager.                                           *)
LEMMA ManagerInitInv == Init => ManagerInv
<1> SUFFICES ASSUME Init
             PROVE  ManagerInv
  OBVIOUS
<1>1. /\ GoodFrame(At("list", <<"refresh">>)) /\ GoodFrame(At("checking", <<>>))
      /\ At("list", <<"refresh">>).stack \notin Nested /\ At("checking", <<>>).stack \notin Nested
      /\ At("list", <<"refresh">>).pc = "list" /\ At("checking", <<>>).pc = "checking"
  BY AtGood, SingleNotNested DEF Labels, Outside
<1>2. \A t \in Threads : /\ GoodFrame(go[t]) /\ go[t].stack \notin Nested
                         /\ go[t].pc \in {"list", "checking"}
  BY <1>1 DEF Init
<1>3. FramesInv /\ NestedOnce
  BY <1>2 DEF FramesInv, NestedOnce
<1>4. LockInv
  BY <1>2 DEF Init, LockInv, Writing, Reading, Threads
<1>5. go \in [Threads -> Goroutine]
  BY <1>2 DEF Init, GoodFrame
<1>6. \A p \in Procs : proc[p] = Dead
  BY DEF Init
<1>7. NoStrays
  BY <1>6 DEF NoStrays, Alive, Dead
<1>8. proc \in [Procs -> [session : Sessions \cup {None}, state : ProcStates]]
  BY DEF Init, Dead, ProcStates
<1>9. \A p \in Procs : proc[p].state = "dead" <=> proc[p].session = None
  BY <1>6 DEF Dead
<1>10. /\ notifiers \in [Sessions -> Procs \cup {None}] /\ connected \subseteq Sessions
       /\ infos \in [Sessions -> 0..2]
  BY DEF Init
<1>11. TypeOK
  BY <1>5, <1>8, <1>9, <1>10 DEF Init, TypeOK
<1> QED
  BY <1>3, <1>4, <1>7, <1>11 DEF ManagerInv

(* Every step keeps it.                                                    *)
LEMMA ManagerStepInv == ManagerInv /\ [Next]_vars => ManagerInv'
<1> SUFFICES ASSUME ManagerInv, [Next]_vars
             PROVE  ManagerInv'
  OBVIOUS
<1>1. ASSUME NEW t \in Threads, Runs(t)
      PROVE  ManagerInv'
  BY <1>1, RefreshKeeps, SendingKeeps DEF Runs
<1>2. CASE UNCHANGED vars
  BY <1>2 DEF vars, ManagerInv, TypeOK, FramesInv, GoodFrame, NestedOnce, LockInv, NoStrays, Alive
<1> QED
  BY <1>1, <1>2, LoopKeeps, ExecuteKeeps, OutsideKeeps DEF Next

(* It holds for ever.                                                      *)
LEMMA ManagerInvariant == Spec => []ManagerInv
BY ManagerInitInv, ManagerStepInv, PTL DEF Spec

(* Every variable of the manager keeps its type, and no call is nested     *)
(* deeper than a SendInfo in the refresh of another call.                  *)
THEOREM ManagerTypeCorrect == Spec => []TypeOK
<1>1. ManagerInv => TypeOK
  BY DEF ManagerInv
<1> QED
  BY <1>1, ManagerInvariant, PTL

(* Whatever goroutines refresh beside each other, sessions end or          *)
(* notifiers die: until the service exits a living notifier is the one the *)
(* map has for its session.                                                *)
THEOREM ManagerNoStrays == Spec => []NoStrays
<1>1. ManagerInv => NoStrays
  BY DEF ManagerInv
<1> QED
  BY <1>1, ManagerInvariant, PTL

(* The entry of a session, for as long as a goroutine waits for an answer  *)
(* of its notifier.                                                        *)
EntriesStay == \A t \in Threads : go[t].pc \in {"call", "ping"} /\ go'[t].pc = go[t].pc
                                     => notifiers'[go[t].cur] = notifiers[go[t].cur]

(* Every step keeps them: only the holder of mu changes an entry.          *)
LEMMA StepKeepsEntries == ManagerInv /\ [Next]_vars => EntriesStay
<1> SUFFICES ASSUME ManagerInv, [Next]_vars, NEW t \in Threads,
                    go[t].pc \in {"call", "ping"}, go'[t].pc = go[t].pc
             PROVE  notifiers'[go[t].cur] = notifiers[go[t].cur]
  BY DEF EntriesStay
<1>1. (writer = t \/ t \in readers) /\ (writer # "none" => readers = {}) /\ t # "none"
  BY FrameFacts DEF Writing, Reading
<1>2. ASSUME NEW u \in Threads, Runs(u)
      PROVE  notifiers' = notifiers
  <2>1. ASSUME go[u].pc = "visit"
        PROVE  FALSE
    <3>1. writer = u /\ readers = {}
      BY <2>1, FrameFacts DEF Writing
    <3>2. u = t
      BY <1>1, <3>1
    <3> QED
      BY <2>1, <3>2
  <2>2. ~StartNotifier(u) /\ ~StartNotifierFails(u) /\ ~SweepAndUnlock(u)
    BY <2>1 DEF StartNotifier, StartNotifierFails, SweepAndUnlock
  <2> QED
    BY <1>2, <2>2 DEF Runs, Refresh, Sending, ListSessions, Lock, KeepNotifier, PingReturns,
                      RLock, SendCommand, Answered, Returns, mapVars
<1>3. CASE Loop
  BY <1>3 DEF Loop, LoopWakes, LoopCalls, LoopStops, mapVars
<1>4. CASE StopRequested
  BY <1>4 DEF StopRequested, mapVars
<1>5. ~Stop
  BY <1>1 DEF Stop
<1>6. ~ProcessExits
  <2>1. ProcessExits => go'[t].pc = "ended"
    BY DEF ProcessExits, At
  <2> QED
    BY <2>1
<1>7. CASE SessionChanges \/ NotifierChanges
  BY <1>7 DEF SessionChanges, NotifierChanges
<1>8. CASE UNCHANGED vars
  BY <1>8 DEF vars
<1> QED
  BY <1>2, <1>3, <1>4, <1>5, <1>6, <1>7, <1>8 DEF Next

(* The lock keeps the notifier a goroutine is talking to: nobody else      *)
(* stops or replaces it before the call is over.                           *)
THEOREM ManagerNotStoppedWhileServing == Spec => NotStoppedWhileServing
<1>1. ManagerInv /\ [Next]_vars => [EntriesStay]_vars
  BY StepKeepsEntries
<1> QED
  BY <1>1, ManagerInvariant, PTL DEF Spec, NotStoppedWhileServing, EntriesStay

-------------------------------------------------------------------------------
(* Waiting: who waits for the lock holds neither the lock nor the mutex of *)
(* a pipe, so whoever it waits for does not wait for it.                   *)
THEOREM ManagerNoCircularWait == Spec => []NoCircularWait
<1>1. ManagerInv => NoCircularWait
  <2> SUFFICES ASSUME ManagerInv, NEW t \in Threads, NEW o \in Threads,
                      WaitsFor(t, o), WaitsFor(o, t)
               PROVE  FALSE
    BY DEF NoCircularWait
  <2>1. /\ go[t].pc \in {"visit", "ping"} <=> writer = t
        /\ go[o].pc \in {"visit", "ping"} <=> writer = o
        /\ go[t].pc \in {"send", "call"} <=> t \in readers
        /\ go[o].pc \in {"send", "call"} <=> o \in readers
    BY FrameFacts DEF Writing, Reading
  <2>2. writer # "none" => readers = {}
    BY FrameFacts
  <2>3. t # "none" /\ o # "none"
    BY FrameFacts
  <2> QED
    BY <2>1, <2>2, <2>3 DEF WaitsFor
<1> QED
  BY <1>1, ManagerInvariant, PTL

-------------------------------------------------------------------------------
(* The startup message: before the flag is set nobody has seen it; there   *)
(* is one SendInfo at most, and it has not been where it still has to go.  *)
Greeting(f) == f.stack \in Nested

Due(f) == CASE f.pc = "send" -> f.todo
            [] f.pc = "call" -> f.todo \cup {f.cur}
            [] OTHER         -> Sessions

GreetedOnce ==
    /\ \A s \in Sessions : infos[s] <= 1
    /\ ~startupNotificationSent => \A s \in Sessions : infos[s] = 0
    /\ \A t, u \in Threads : Greeting(go[t]) /\ Greeting(go[u]) => t = u
    /\ \A t \in Threads : Greeting(go[t]) => \A s \in Due(go[t]) : infos[s] = 0
    /\ \A t \in Threads : go[t].pc = "call" => go[t].cur \notin go[t].todo

(* Those still due are sessions.                                           *)
LEMMA DueSessions == ASSUME NEW f, GoodFrame(f) PROVE Due(f) \subseteq Sessions
BY DEF GoodFrame, Goroutine, Due

(* No message is shown, and whoever starts a SendInfo sets the flag.       *)
LEMMA GreetMove ==
  ASSUME ManagerInv, GreetedOnce, NEW t \in Threads, NEW f, GoodFrame(f), Steps(t, f),
         infos' = infos, startupNotificationSent => startupNotificationSent',
         Greeting(f) => \/ Greeting(go[t]) /\ Due(f) \subseteq Due(go[t])
                        \/ ~startupNotificationSent /\ startupNotificationSent',
         f.pc = "call" => f.cur \notin f.todo
  PROVE  GreetedOnce'
<1>1. go'[t] = f /\ \A u \in Threads \ {t} : go'[u] = go[u]
  BY StepsFacts DEF ManagerInv
<1>2. \A u \in Threads : Greeting(go[u]) => startupNotificationSent
  BY DEF ManagerInv, NestedOnce, Greeting
<1>3. \A u, v \in Threads : Greeting(go'[u]) /\ Greeting(go'[v]) => u = v
  BY <1>1, <1>2 DEF GreetedOnce
<1>4. \A u \in Threads : Greeting(go'[u]) => \A s \in Due(go'[u]) : infos[s] = 0
  BY <1>1, DueSessions DEF GreetedOnce
<1>5. \A u \in Threads : go'[u].pc = "call" => go'[u].cur \notin go'[u].todo
  BY <1>1 DEF GreetedOnce
<1> QED
  BY <1>3, <1>4, <1>5 DEF GreetedOnce, Greeting, Due

(* A refresh shows nothing; the one that starts a SendInfo sets the flag.  *)
LEMMA GreetRefresh ==
  ASSUME ManagerInv, GreetedOnce, NEW t \in Threads, Refresh(t)
  PROVE  GreetedOnce'
<1>1. /\ go[t].pc \in {"list", "lock", "visit", "ping"} /\ infos' = infos
      /\ startupNotificationSent => startupNotificationSent'
  <2>1. CASE SweepAndUnlock(t)
    BY <2>1, FrameFacts DEF SweepAndUnlock
  <2>2. CASE ListSessions(t)
    BY <2>2 DEF ListSessions
  <2>3. CASE Lock(t) \/ PingReturns(t)
    BY <2>3 DEF Lock, PingReturns
  <2>4. CASE KeepNotifier(t) \/ StartNotifierFails(t)
    BY <2>4 DEF KeepNotifier, StartNotifierFails
  <2>5. CASE StartNotifier(t)
    BY <2>5 DEF StartNotifier
  <2> QED
    BY <2>1, <2>2, <2>3, <2>4, <2>5 DEF Refresh
<1>2. GoodFrame(go[t]) /\ go[t].stack # <<>> /\ Due(go[t]) = Sessions
  BY <1>1, FrameFacts DEF GoodFrame, Outside, Due
<1>3. \E f : /\ Steps(t, f) /\ f.pc # "call"
             /\ Greeting(f) => \/ Greeting(go[t])
                               \/ ~startupNotificationSent /\ startupNotificationSent'
  <2>0. go[t] \in Goroutine
    BY <1>2 DEF GoodFrame
  <2>1. /\ RefreshEnds(go[t]).pc # "call"
        /\ Greeting(RefreshEnds(go[t])) => Greeting(go[t])
    BY <1>2, RefreshEndsGood, SingleNotNested DEF Greeting
  <2>2. ASSUME NEW f, Steps(t, f), f.pc # "call", f.stack = go[t].stack
        PROVE  \E g : Steps(t, g) /\ g.pc # "call" /\ (Greeting(g) => Greeting(go[t]))
    BY <2>2 DEF Greeting
  <2>3. CASE ListSessions(t)
    <3> DEFINE f == [go[t] EXCEPT !.snap = sess, !.pc = "lock"]
    <3>1. f.pc = "lock" /\ f.stack = go[t].stack
      BY <2>0 DEF Goroutine
    <3>2. Steps(t, f) \/ Steps(t, RefreshEnds(go[t]))
      BY <2>3 DEF ListSessions
    <3> HIDE DEF f
    <3> QED
      BY <2>1, <2>2, <3>1, <3>2
  <2>4. CASE Lock(t)
    <3> DEFINE f == [go[t] EXCEPT !.pc = "visit", !.todo = Listed(t)]
    <3>1. f.pc = "visit" /\ f.stack = go[t].stack /\ Steps(t, f)
      BY <2>0, <2>4 DEF Lock, Goroutine
    <3> QED
      BY <2>2, <3>1
  <2>5. CASE KeepNotifier(t) \/ StartNotifierFails(t)
    <3>1. PICK s : Steps(t, [go[t] EXCEPT !.todo = @ \ {s}])
      BY <2>5 DEF KeepNotifier, StartNotifierFails
    <3> DEFINE f == [go[t] EXCEPT !.todo = @ \ {s}]
    <3>2. f.pc = go[t].pc /\ f.stack = go[t].stack /\ Steps(t, f)
      BY <2>0, <3>1 DEF Goroutine
    <3> QED
      BY <1>1, <2>2, <3>2
  <2>6. CASE StartNotifier(t)
    <3>1. PICK s : Steps(t, [go[t] EXCEPT !.pc = "ping", !.cur = s,
                                          !.fresh = @ \/ go[t].snap[s] = "active"])
      BY <2>6 DEF StartNotifier
    <3> DEFINE f == [go[t] EXCEPT !.pc = "ping", !.cur = s,
                                  !.fresh = @ \/ go[t].snap[s] = "active"]
    <3>2. f.pc = "ping" /\ f.stack = go[t].stack
      BY <2>0 DEF Goroutine
    <3> HIDE DEF f
    <3>3. Steps(t, f)
      BY <3>1 DEF f
    <3> QED
      BY <2>2, <3>2, <3>3
  <2>7. CASE PingReturns(t)
    <3> DEFINE f == [go[t] EXCEPT !.pc = "visit", !.todo = @ \ {go[t].cur}, !.cur = None]
    <3>1. f.pc = "visit" /\ f.stack = go[t].stack /\ Steps(t, f)
      BY <2>0, <2>7 DEF PingReturns, Goroutine
    <3> QED
      BY <2>2, <3>1
  <2>8. CASE SweepAndUnlock(t)
    <3> DEFINE greets == ~startupNotificationSent /\ go[t].fresh /\ Known \ (Known \ Listed(t)) # {}
               st == <<"info">> \o go[t].stack
               f == IF greets THEN Entered(st) ELSE RefreshEnds(go[t])
    <3>1. Steps(t, f) /\ startupNotificationSent' = (startupNotificationSent \/ greets)
      BY <2>8 DEF SweepAndUnlock
    <3>2. Entered(st).pc # "call"
      BY DEF Entered, At
    <3> QED
      BY <2>1, <3>1, <3>2
  <2> QED
    BY <2>4, <2>5, <2>6, <2>7, <2>8, <2>3 DEF Refresh
<1>4. PICK f : /\ Steps(t, f) /\ f.pc # "call"
               /\ Greeting(f) => \/ Greeting(go[t])
                                 \/ ~startupNotificationSent /\ startupNotificationSent'
  BY <1>3
<1>5. f = go'[t]
  BY <1>4 DEF Steps, ManagerInv, TypeOK
<1>6. GoodFrame(f)
  <2>1. FramesInv'
    BY RefreshKeeps DEF ManagerInv
  <2> QED
    BY <1>5, <2>1 DEF FramesInv, GoodFrame
<1>7. Due(f) \subseteq Due(go[t])
  BY <1>2, <1>6, DueSessions
<1> QED
  BY <1>1, <1>4, <1>6, <1>7, GreetMove

(* An answer takes its session from those that are due.                    *)
LEMMA GreetSending ==
  ASSUME ManagerInv, GreetedOnce, NEW t \in Threads, Sending(t)
  PROVE  GreetedOnce'
<1>0. GoodFrame(go[t]) /\ go[t] \in Goroutine /\ go[t].stack \in Stacks /\ go[t].stack # <<>>
  BY FrameFacts DEF Sending, RLock, SendCommand, Answered, Returns, GoodFrame, Goroutine, Outside
<1>1. /\ GoodFrame(CallEnds(go[t])) /\ ~Greeting(CallEnds(go[t]))
      /\ CallEnds(go[t]).pc # "call"
  BY <1>0, CallEndsGood DEF Greeting
<1>2. CASE RLock(t)
  <2>1. CASE Steps(t, CallEnds(go[t]))
    BY <1>1, <1>2, <2>1, GreetMove DEF RLock
  <2>2. CASE ~Steps(t, CallEnds(go[t]))
    <3> DEFINE to == IF Head(go[t].stack) = "dismiss" THEN Known ELSE Known \cap connected
               f == [go[t] EXCEPT !.pc = "send", !.todo = to]
    <3>1. Steps(t, f) /\ go[t].pc = "rlock"
      BY <1>2, <2>2 DEF RLock
    <3>2. to \subseteq Sessions
      BY DEF Known
    <3> HIDE DEF to
    <3>3. GoodFrame(f) /\ f.stack = go[t].stack /\ f.pc = "send"
      BY <1>0, <3>1, <3>2 DEF GoodFrame, Goroutine, Labels, Outside
    <3> HIDE DEF f
    <3>4. Due(go[t]) = Sessions /\ Due(f) \subseteq Sessions
      BY <3>1, <3>3, DueSessions DEF Due
    <3> QED
      BY <1>2, <3>1, <3>3, <3>4, GreetMove DEF RLock, Greeting
  <2> QED
    BY <2>1, <2>2
<1>3. CASE SendCommand(t)
  <2>1. PICK s \in go[t].todo : Steps(t, [go[t] EXCEPT !.pc = "call", !.cur = s, !.todo = @ \ {s}])
    BY <1>3 DEF SendCommand
  <2> DEFINE f == [go[t] EXCEPT !.pc = "call", !.cur = s, !.todo = @ \ {s}]
  <2>2. GoodFrame(f) /\ f.stack = go[t].stack /\ f.pc = "call" /\ Steps(t, f) /\ go[t].pc = "send"
    BY <1>0, <1>3, <2>1 DEF SendCommand, GoodFrame, Goroutine, Labels, Outside
  <2>3. f.cur = s /\ f.todo = go[t].todo \ {s}
    BY <1>0 DEF Goroutine
  <2> HIDE DEF f
  <2>4. Due(f) \subseteq Due(go[t])
    BY <2>2, <2>3 DEF Due
  <2> QED
    BY <1>3, <2>2, <2>3, <2>4, GreetMove DEF SendCommand, Greeting
<1>4. CASE Answered(t)
  <2> DEFINE s == go[t].cur
  <2>1. /\ Steps(t, [go[t] EXCEPT !.pc = "send", !.cur = None])
        /\ \/ infos' = infos
           \/ infos' = [infos EXCEPT ![s] = @ + 1] /\ Head(go[t].stack) = "info" /\ infos[s] < 2
    BY <1>4 DEF Answered
  <2>2. /\ go[t].pc = "call" /\ s \in Sessions /\ startupNotificationSent' = startupNotificationSent
        /\ Due(go[t]) = go[t].todo \cup {s} /\ s \notin go[t].todo
    BY <1>0, <1>4 DEF Answered, GoodFrame, Due, GreetedOnce
  <2>3. PICK f : /\ Steps(t, f) /\ f.pc = "send" /\ f.stack = go[t].stack /\ f.todo = go[t].todo
    <3> DEFINE g == [go[t] EXCEPT !.pc = "send", !.cur = None]
    <3>1. g.pc = "send" /\ g.stack = go[t].stack /\ g.todo = go[t].todo
      BY <1>0 DEF Goroutine
    <3>2. Steps(t, g)
      BY <2>1
    <3> QED
      BY <3>1, <3>2
  <2>4. go'[t] = f /\ \A u \in Threads \ {t} : go'[u] = go[u]
    BY <2>3 DEF Steps, ManagerInv, TypeOK
  <2>5. Due(f) = go[t].todo
    BY <2>3 DEF Due
  <2>6. CASE infos' = infos
    <3>1. GoodFrame(f)
      <4>1. FramesInv'
        BY SendingKeeps DEF ManagerInv
      <4> QED
        BY <2>4, <4>1 DEF FramesInv, GoodFrame
    <3> QED
      BY <2>2, <2>3, <2>5, <2>6, <3>1, GreetMove DEF Greeting
  <2>7. CASE infos' # infos
    <3>1. infos' = [infos EXCEPT ![s] = @ + 1] /\ Head(go[t].stack) = "info"
      BY <2>1, <2>7
    <3>2. Greeting(go[t])
      BY <1>0, <3>1, StackCases DEF Greeting, Nested, Calls
    <3>3. infos[s] = 0 /\ startupNotificationSent /\ \A u \in Threads \ {t} : ~Greeting(go[u])
      BY <2>2, <3>2 DEF GreetedOnce, ManagerInv, NestedOnce, Greeting
    <3>4. \A o \in Sessions : infos'[o] = IF o = s THEN 1 ELSE infos[o]
      BY <2>2, <3>1, <3>3 DEF ManagerInv, TypeOK
    <3>5. \A o \in Sessions : infos'[o] <= 1
      BY <3>4 DEF GreetedOnce
    <3>6. \A u, v \in Threads : Greeting(go'[u]) /\ Greeting(go'[v]) => u = v
      BY <2>4, <3>3
    <3>7. \A u \in Threads : Greeting(go'[u]) => \A o \in Due(go'[u]) : infos'[o] = 0
      <4>1. \A o \in go[t].todo : o \in Sessions /\ o # s /\ infos[o] = 0
        BY <1>0, <2>2, <3>2 DEF Goroutine, GreetedOnce
      <4> QED
        BY <2>4, <2>5, <3>3, <3>4, <4>1
    <3>8. \A u \in Threads : go'[u].pc = "call" => go'[u].cur \notin go'[u].todo
      BY <2>3, <2>4 DEF GreetedOnce
    <3> QED
      BY <2>2, <3>3, <3>5, <3>6, <3>7, <3>8 DEF GreetedOnce, Greeting, Due
  <2> QED
    BY <2>6, <2>7
<1>5. CASE Returns(t)
  BY <1>1, <1>5, GreetMove DEF Returns
<1> QED
  BY <1>2, <1>3, <1>4, <1>5 DEF Sending

(* Every step keeps GreetedOnce.                                           *)
LEMMA GreetStep == ManagerInv /\ GreetedOnce /\ [Next]_vars => GreetedOnce'
<1> SUFFICES ASSUME ManagerInv, GreetedOnce, [Next]_vars
             PROVE  GreetedOnce'
  OBVIOUS
<1>1. ASSUME NEW t \in Threads, Runs(t)
      PROVE  GreetedOnce'
  BY <1>1, GreetRefresh, GreetSending DEF Runs
<1>2. CASE Loop
  <2>1. PICK f : /\ GoodFrame(f) /\ Steps("loop", f) /\ f.stack \notin Nested
                 /\ f.pc \notin Writing \cup Reading
    BY <1>2, LoopFrame
  <2>2. infos' = infos /\ startupNotificationSent' = startupNotificationSent
    BY <1>2 DEF Loop, LoopWakes, LoopCalls, LoopStops
  <2> QED
    BY <2>1, <2>2, GreetMove DEF Threads, Greeting, Reading
<1>3. CASE UNCHANGED <<go, infos, startupNotificationSent>>
  BY <1>3 DEF GreetedOnce, Greeting, Due
<1>4. CASE ProcessExits
  <2>1. \A t \in Threads : go'[t].pc = "ended" /\ go'[t].stack = <<>>
    BY <1>4 DEF ProcessExits, At
  <2>2. \A t \in Threads : ~Greeting(go'[t])
    BY <2>1, SingleNotNested DEF Greeting
  <2>3. infos' = infos /\ startupNotificationSent' = startupNotificationSent
    BY <1>4 DEF ProcessExits
  <2> QED
    BY <2>1, <2>2, <2>3 DEF GreetedOnce, Greeting
<1>5. StopRequested \/ Stop \/ SessionChanges \/ NotifierChanges \/ UNCHANGED vars
        => UNCHANGED <<go, infos, startupNotificationSent>>
  BY DEF StopRequested, Stop, SessionChanges, NotifierChanges, vars
<1> QED
  BY <1>1, <1>2, <1>3, <1>4, <1>5 DEF Next

(* For any number of sessions: nobody is shown the startup message twice.  *)
THEOREM ManagerStartupShownOnce == Spec => []StartupShownOnce
<1>1. Init => GreetedOnce
  <2> SUFFICES ASSUME Init
               PROVE  GreetedOnce
    OBVIOUS
  <2>1. \A t \in Threads : go[t].stack \in {<<"refresh">>, <<>>} /\ go[t].pc # "call"
    BY DEF Init, At
  <2>2. \A t \in Threads : ~Greeting(go[t])
    BY <2>1, SingleNotNested DEF Greeting
  <2>3. \A s \in Sessions : infos[s] = 0
    BY DEF Init
  <2> QED
    BY <2>1, <2>2, <2>3 DEF GreetedOnce
<1>2. GreetedOnce => StartupShownOnce
  BY DEF GreetedOnce, StartupShownOnce
<1> QED
  BY <1>1, <1>2, ManagerInvariant, GreetStep, PTL DEF Spec
===============================================================================
