----------------------- MODULE ServiceLifecycleProofs -----------------------
(***************************************************************************)
(* A process that has not been replaced leaves no work behind that began   *)
(* less than an idle timeout ago, unless it began after the process looked *)
(* into its channel for the last time: for any number of processes and     *)
(* calls and every length of the timeout.                                  *)
(***************************************************************************)
EXTENDS ServiceLifecycle, TLAPS

\* A call that a process has, and that is not left over from an exit, is with a process
\* that runs.
CallsServed ==
    \A c \in Call : call[c].pc \in {"queued", "gate", "work"} => Running(call[c].at)

\* Work that began after the last look into the channel has its ping there.
LatePinged ==
    \A c \in Call : call[c].pc = "work" /\ call[c].late =>
        LookedLast(call[c].at) /\ proc[call[c].at].pinged

\* The idle timer is behind all other work, unless the process was replaced or there is a
\* ping that it has yet to look for.
TimerBehind ==
    \A c \in Call : call[c].pc = "work" =>
        \/ proc[call[c].at].told \/ call[c].late
        \/ proc[call[c].at].timer <= call[c].age
        \/ proc[call[c].at].pinged /\ ~LookedLast(call[c].at)

\* Main returns because the process was replaced or its deadline was reached.
LeavingRightly ==
    \A p \in Proc : proc[p].stage = "leaving" => proc[p].told \/ proc[p].timer = IdleTimeout

LifecycleInv == TypeOK /\ CallsServed /\ LatePinged /\ TimerBehind /\ LeavingRightly

\* What the timers start from.
LEMMA ZeroTicks == 0 \in 0 .. IdleTimeout
BY LifecycleConstants

LEMMA LifecycleInit == Init => LifecycleInv
BY LifecycleConstants
DEF Init, LifecycleInv, TypeOK, CallsServed, LatePinged, TimerBehind, LeavingRightly,
    NotRunning, NoCall, Process, Request

LEMMA ActivatePreserves ==
    ASSUME LifecycleInv, NEW p \in Proc, Activate(p) \/ StartReplacement(p)
    PROVE  LifecycleInv'
<1> USE LifecycleConstants DEF LifecycleInv, Activate, StartReplacement
<1>1. TypeOK'
  BY DEF TypeOK, Process, Running
<1>2. \A c \in Call : call[c].pc \in {"queued", "gate", "work"} => call[c].at \in Proc \ {p}
  BY DEF TypeOK, Request, Running, CallsServed
<1>3. CallsServed'
  BY <1>2 DEF TypeOK, Process, Request, Running, CallsServed
<1>4. LatePinged' /\ TimerBehind'
  BY <1>2 DEF TypeOK, Process, Request, LookedLast, LatePinged, TimerBehind
<1>5. LeavingRightly'
  BY DEF TypeOK, Process, LeavingRightly
<1> QED  BY <1>1, <1>3, <1>4, <1>5

LEMMA RequestNamePreserves ==
    ASSUME LifecycleInv, NEW p \in Proc, RequestName(p)
    PROVE  LifecycleInv'
<1> USE LifecycleConstants DEF LifecycleInv
<1>1. proc[p].stage = "connected" /\ owner # p
  BY DEF RequestName, TypeOK, Running
<1>2. CASE Named(p)
  <2>1. /\ owner' = p /\ p # Nobody
        /\ proc' \in [Proc -> Process] /\ proc'[p].stage = "named"
        /\ \A q \in Proc \ {p} :
              /\ proc'[q].stage = proc[q].stage /\ proc'[q].pinged = proc[q].pinged
              /\ proc'[q].timer = proc[q].timer /\ (proc[q].told => proc'[q].told)
    <3>1. owner' = p /\ p # Nobody
      BY <1>2 DEF Named
    <3>2. [proc[p] EXCEPT !.stage = "named"] \in Process
      BY DEF TypeOK, Process
    <3>3. \A q \in Proc : [proc[q] EXCEPT !.told = @ \/ Selecting(q)] \in Process
      BY DEF TypeOK, Process, Selecting
    <3>4. proc' \in [Proc -> Process]
      BY <1>2, <3>2, <3>3 DEF Named, TypeOK
    <3>5. proc'[p].stage = "named"
      BY <1>2 DEF Named, TypeOK, Process
    <3>6. \A q \in Proc \ {p} :
              /\ proc'[q].stage = proc[q].stage /\ proc'[q].pinged = proc[q].pinged
              /\ proc'[q].timer = proc[q].timer /\ (proc[q].told => proc'[q].told)
      BY <1>2 DEF Named, TypeOK, Process
    <3> QED  BY <3>1, <3>4, <3>5, <3>6
  <2>2. /\ call' \in [Call -> Request]
        /\ \A c \in Call : call[c].pc = "bus" => call'[c].pc = "queued" /\ call'[c].at = p
        /\ \A c \in Call : call[c].pc # "bus" => call'[c] = call[c]
    BY <1>2 DEF Named, TypeOK, Request
  <2>3. TypeOK'
    BY <2>1, <2>2 DEF TypeOK, Request, Running
  <2>4. \A c \in Call : call[c].pc \in {"queued", "gate", "work"} => call[c].at \in Proc \ {p}
    BY <1>1 DEF TypeOK, Request, Running, CallsServed
  <2>5. CallsServed'
    BY <2>1, <2>2, <2>4 DEF TypeOK, Request, Running, CallsServed
  <2>6. LatePinged' /\ TimerBehind'
    BY <2>1, <2>2, <2>4 DEF TypeOK, Request, LookedLast, LatePinged, TimerBehind
  <2>7. LeavingRightly'
    BY <2>1 DEF LeavingRightly
  <2> QED  BY <2>3, <2>5, <2>6, <2>7
<1>3. CASE proc' = [proc EXCEPT ![p] = NotRunning] /\ UNCHANGED <<owner, call>>
  <2>1. TypeOK'
    BY <1>1, <1>3 DEF NotRunning, TypeOK, Process, Running
  <2>2. \A c \in Call : call[c].pc \in {"queued", "gate", "work"} => call[c].at \in Proc \ {p}
    BY <1>1 DEF TypeOK, Request, Running, CallsServed
  <2>3. CallsServed'
    BY <1>3, <2>2 DEF TypeOK, Process, Request, Running, CallsServed
  <2>4. LatePinged' /\ TimerBehind'
    BY <1>3, <2>2 DEF TypeOK, Process, Request, LookedLast, LatePinged, TimerBehind
  <2>5. LeavingRightly'
    BY <1>3 DEF NotRunning, TypeOK, Process, LeavingRightly
  <2> QED  BY <2>1, <2>3, <2>4, <2>5
<1> QED  BY <1>2, <1>3 DEF RequestName

LEMMA TimerPreserves ==
    ASSUME LifecycleInv, NEW p \in Proc, Listen(p) \/ IdleReset(p)
    PROVE  LifecycleInv'
<1> USE ZeroTicks DEF LifecycleInv, Listen, IdleReset
<1>1. /\ [proc[p] EXCEPT !.stage = "serving", !.timer = 0] \in Process
      /\ [proc[p] EXCEPT !.pinged = FALSE, !.timer = 0] \in Process
  BY DEF TypeOK, Process
<1>2. /\ proc' \in [Proc -> Process] /\ UNCHANGED <<owner, call>>
      /\ \A q \in Proc \ {p} : proc'[q] = proc[q]
  BY <1>1 DEF TypeOK
<1>3. proc'[p].timer = 0 /\ proc'[p].stage = "serving"
  BY DEF TypeOK, Process
<1>4. \A c \in Call : call[c].pc = "work" /\ call[c].late => call[c].at # p
  BY DEF LatePinged, LookedLast
<1>5. TypeOK'
  BY <1>2, <1>3 DEF TypeOK, Running
<1>6. CallsServed'
  BY <1>2, <1>3 DEF TypeOK, Request, Running, CallsServed
<1>7. LatePinged'
  BY <1>2, <1>4 DEF TypeOK, Request, LookedLast, LatePinged
<1>8. TimerBehind'
  BY <1>2, <1>3 DEF TypeOK, Request, LookedLast, TimerBehind
<1>9. LeavingRightly'
  BY <1>2, <1>3 DEF LeavingRightly
<1> QED  BY <1>5, <1>6, <1>7, <1>8, <1>9

\* What a step of main that only moves its process to another running stage leaves alone.
LEMMA StageMoves ==
    ASSUME TypeOK, NEW p \in Proc, NEW s \in {"serving", "polled", "leaving"},
           proc' = [proc EXCEPT ![p].stage = s]
    PROVE  /\ proc' \in [Proc -> Process] /\ proc'[p].stage = s
           /\ \A q \in Proc \ {p} : proc'[q] = proc[q]
           /\ proc'[p].told = proc[p].told /\ proc'[p].pinged = proc[p].pinged
           /\ proc'[p].timer = proc[p].timer
<1>1. [proc[p] EXCEPT !.stage = s] \in Process
  BY DEF TypeOK, Process
<1> QED  BY <1>1 DEF TypeOK, Process

\* The looks into the channel and at the deadline, and the end of select!.
LEMMA SelectPreserves ==
    ASSUME LifecycleInv, NEW p \in Proc,
           NameLost(p) \/ PollChannel(p) \/ PollAgain(p) \/ IdleExit(p)
    PROVE  LifecycleInv'
<1> USE LifecycleConstants DEF LifecycleInv
<1> DEFINE frame == /\ proc' \in [Proc -> Process]
                    /\ \A q \in Proc \ {p} : proc'[q] = proc[q]
                    /\ proc'[p].told = proc[p].told /\ proc'[p].pinged = proc[p].pinged
                    /\ proc'[p].timer = proc[p].timer
<1>1. /\ NameLost(p) => frame /\ proc'[p].stage = "leaving"
      /\ PollChannel(p) => frame /\ proc'[p].stage = "polled"
      /\ PollAgain(p) => frame /\ proc'[p].stage = "serving"
      /\ IdleExit(p) => frame /\ proc'[p].stage = "leaving"
  <2>1. ASSUME NEW s \in {"serving", "polled", "leaving"}, proc' = [proc EXCEPT ![p].stage = s]
        PROVE  frame /\ proc'[p].stage = s
    BY <2>1, StageMoves
  <2> HIDE DEF frame
  <2>2. NameLost(p) \/ IdleExit(p) => frame /\ proc'[p].stage = "leaving"
    BY <2>1 DEF NameLost, IdleExit
  <2>3. PollChannel(p) => frame /\ proc'[p].stage = "polled"
    BY <2>1 DEF PollChannel
  <2>4. PollAgain(p) => frame /\ proc'[p].stage = "serving"
    BY <2>1 DEF PollAgain
  <2> QED  BY <2>2, <2>3, <2>4
<1>2. frame /\ Running(p)'
  BY <1>1 DEF Running
<1>3. NameLost(p) \/ PollChannel(p) \/ PollAgain(p) \/ IdleExit(p)
  OBVIOUS
<1>4. /\ owner' = owner /\ call' \in [Call -> Request]
      /\ \A c \in Call : /\ call'[c].pc = call[c].pc /\ call'[c].at = call[c].at
                         /\ call'[c].age = call[c].age
  <2>1. CASE PollAgain(p)
    <3>1. \A c \in Call : [call[c] EXCEPT !.late = FALSE] \in Request
      BY DEF TypeOK, Request
    <3> QED  BY <2>1, <3>1 DEF PollAgain, TypeOK, Request
  <2>2. CASE NameLost(p) \/ PollChannel(p) \/ IdleExit(p)
    BY <2>2 DEF NameLost, PollChannel, IdleExit, TypeOK
  <2> QED  BY <2>1, <2>2
<1>5. \A c \in Call : call[c].at # p => call'[c] = call[c]
  BY DEF NameLost, PollChannel, PollAgain, IdleExit, TypeOK, Request
<1>6. ~PollAgain(p) => call' = call
  BY DEF NameLost, PollChannel, PollAgain, IdleExit
<1>7. PollAgain(p) => \A c \in Call : call[c].at = p => ~call'[c].late
  BY DEF PollAgain, TypeOK, Request
<1>8. TypeOK'
  BY <1>2, <1>4 DEF TypeOK, Running
<1>9. CallsServed'
  BY <1>2, <1>4 DEF TypeOK, Request, Running, CallsServed
<1>10. ASSUME NEW c \in Call, call'[c].pc = "work"
       PROVE  /\ call'[c].late => LookedLast(call[c].at)' /\ proc'[call[c].at].pinged
              /\ \/ proc'[call[c].at].told \/ call'[c].late
                 \/ proc'[call[c].at].timer <= call'[c].age
                 \/ proc'[call[c].at].pinged /\ ~LookedLast(call[c].at)'
  <2>1. call[c].pc = "work" /\ call[c].at \in Proc
    BY <1>4, <1>10 DEF TypeOK, Request
  <2>2. CASE call[c].at # p
    <3>1. call'[c] = call[c] /\ proc'[call[c].at] = proc[call[c].at]
      BY <1>2, <1>5, <2>1, <2>2
    <3> QED  BY <2>1, <3>1 DEF LatePinged, TimerBehind, LookedLast
  <2>3. CASE call[c].at = p
    <3>1. CASE NameLost(p)
      BY <1>1, <1>2, <1>6, <2>1, <2>3, <3>1
      DEF NameLost, PollAgain, LatePinged, LookedLast
    <3>2. CASE PollChannel(p)
      BY <1>1, <1>2, <1>6, <2>1, <2>3, <3>2
      DEF PollChannel, PollAgain, LatePinged, TimerBehind, LookedLast
    <3>3. CASE PollAgain(p)
      <4>1. ~call'[c].late /\ proc'[p].stage = "serving"
        BY <1>1, <1>2, <1>7, <2>3, <3>3 DEF PollAgain, NameLost, PollChannel, IdleExit
      <4>2. call[c].late => proc'[p].pinged
        BY <1>2, <2>1, <2>3 DEF LatePinged
      <4>3. LookedLast(p) /\ ~LookedLast(p)'
        BY <3>3, <4>1 DEF PollAgain, LookedLast
      <4> QED  BY <1>2, <1>4, <2>1, <2>3, <4>1, <4>2, <4>3 DEF TimerBehind
    <3>4. CASE IdleExit(p)
      BY <1>1, <1>2, <1>6, <2>1, <2>3, <3>4
      DEF IdleExit, PollAgain, LatePinged, TimerBehind, LookedLast
    <3> QED  BY <1>3, <3>1, <3>2, <3>3, <3>4
  <2> QED  BY <2>2, <2>3
<1>11. LatePinged' /\ TimerBehind'
  BY <1>4, <1>10 DEF LatePinged, TimerBehind, LookedLast
<1>12. LeavingRightly'
  <2>1. proc'[p].stage = "leaving" => proc'[p].told \/ proc'[p].timer = IdleTimeout
    BY <1>1, <1>2, <1>3 DEF NameLost, IdleExit
  <2> QED  BY <1>2, <2>1 DEF LeavingRightly
<1> QED  BY <1>8, <1>9, <1>11, <1>12

LEMMA MainReturnsPreserves ==
    ASSUME LifecycleInv, NEW p \in Proc, MainReturns(p)
    PROVE  LifecycleInv'
<1> USE LifecycleConstants DEF LifecycleInv, MainReturns
<1>1. TypeOK'
  <2>1. \A c \in Call : NoCall \in Request /\ [call[c] EXCEPT !.pc = "left"] \in Request
    BY ZeroTicks DEF TypeOK, Request, NoCall
  <2>2. call' \in [Call -> Request]
    BY <2>1 DEF TypeOK
  <2>3. \A c \in Call : call'[c].pc \in {"none", "bus"} <=> call'[c].at = Nobody
    BY DEF TypeOK, Request, NoCall
  <2>4. /\ proc' \in [Proc -> Process]
        /\ \A q \in Proc \ {p} : proc'[q] = proc[q]
    BY DEF TypeOK, Process
  <2>5. owner' \in Proc \cup {Nobody} /\ (owner' # Nobody => Running(owner)' /\ owner' = owner)
    BY <2>4 DEF TypeOK, Running
  <2> QED  BY <2>2, <2>3, <2>4, <2>5 DEF TypeOK
<1>2. CallsServed'
  BY DEF TypeOK, Process, Request, Running, NoCall, CallsServed
<1>3. \A c \in Call : call'[c].pc = "work" => call'[c] = call[c] /\ call[c].at \in Proc \ {p}
  BY DEF TypeOK, Request, NoCall
<1>4. LatePinged' /\ TimerBehind'
  BY <1>3 DEF TypeOK, Process, LookedLast, LatePinged, TimerBehind
<1>5. LeavingRightly'
  BY DEF TypeOK, Process, LeavingRightly
<1> QED  BY <1>1, <1>2, <1>4, <1>5

LEMMA ProcessEndsPreserves ==
    ASSUME LifecycleInv, NEW p \in Proc, ProcessEnds(p)
    PROVE  LifecycleInv'
<1> USE LifecycleConstants DEF LifecycleInv, ProcessEnds
<1>1. TypeOK'
  BY DEF TypeOK, Process, Request, Running, NoCall, NotRunning
<1>2. CallsServed'
  BY DEF TypeOK, Process, Request, Running, NoCall, NotRunning, CallsServed
<1>3. \A c \in Call : call'[c].pc = "work" => call'[c] = call[c] /\ call[c].at \in Proc \ {p}
  BY DEF TypeOK, Request, NoCall
<1>4. LatePinged' /\ TimerBehind'
  BY <1>3 DEF TypeOK, Process, LookedLast, LatePinged, TimerBehind
<1>5. LeavingRightly'
  BY DEF TypeOK, Process, NotRunning, LeavingRightly
<1> QED  BY <1>1, <1>2, <1>4, <1>5

LEMMA CallStepPreserves ==
    ASSUME LifecycleInv, NEW c \in Call, Send(c) \/ Handle(c) \/ Gate(c) \/ Finish(c)
    PROVE  LifecycleInv'
<1> USE LifecycleConstants DEF LifecycleInv
<1>1. CASE Send(c)
  <2>1. TypeOK' /\ CallsServed'
    BY <1>1 DEF Send, TypeOK, Process, Request, Running, CallsServed
  <2>2. \A d \in Call : call'[d].pc = "work" => call'[d] = call[d]
    BY <1>1 DEF Send, TypeOK, Request
  <2>3. LatePinged' /\ TimerBehind' /\ LeavingRightly'
    BY <1>1, <2>2 DEF Send, LookedLast, LatePinged, TimerBehind, LeavingRightly
  <2> QED  BY <2>1, <2>3
<1>2. CASE StartWork(c) /\ call[c].pc \in {"queued", "gate"} /\ UNCHANGED owner
  <2> DEFINE p == call[c].at
  <2>1. p \in Proc /\ Running(p)
    BY <1>2 DEF TypeOK, Request, CallsServed
  <2>2. /\ proc' \in [Proc -> Process] /\ proc'[p].pinged
        /\ \A q \in Proc : /\ proc'[q].stage = proc[q].stage /\ proc'[q].told = proc[q].told
                           /\ proc'[q].timer = proc[q].timer
                           /\ (proc[q].pinged => proc'[q].pinged)
    <3>1. [proc[p] EXCEPT !.pinged = TRUE] \in Process
      BY <2>1 DEF TypeOK, Process
    <3>2. proc' = [proc EXCEPT ![p] = [proc[p] EXCEPT !.pinged = TRUE]]
      BY <1>2 DEF StartWork
    <3> QED  BY <2>1, <3>1, <3>2 DEF TypeOK, Process
  <2>3. /\ call' \in [Call -> Request] /\ \A d \in Call \ {c} : call'[d] = call[d]
        /\ call'[c].pc = "work" /\ call'[c].at = p /\ call'[c].late = LookedLast(p)
    <3>1. [call[c] EXCEPT !.pc = "work", !.age = 0, !.late = LookedLast(p)] \in Request
      <4>1. LookedLast(p) \in BOOLEAN
        BY DEF LookedLast
      <4> QED  BY <4>1, ZeroTicks DEF TypeOK, Request
    <3>2. call' = [call EXCEPT ![c] =
                      [call[c] EXCEPT !.pc = "work", !.age = 0, !.late = LookedLast(p)]]
      BY <1>2 DEF StartWork
    <3> QED  BY <3>1, <3>2 DEF TypeOK, Request
  <2>4. TypeOK'
    BY <1>2, <2>1, <2>2, <2>3 DEF TypeOK, Running
  <2>5. CallsServed'
    BY <2>1, <2>2, <2>3 DEF TypeOK, Request, Running, CallsServed
  <2>6. LatePinged' /\ TimerBehind'
    <3>1. \A q \in Proc : LookedLast(q)' = LookedLast(q)
      BY <2>2 DEF LookedLast
    <3>2. \A d \in Call : call'[d].pc = "work" => call'[d].at \in Proc
      BY <2>3, <2>4 DEF TypeOK, Request
    <3>3. LatePinged'
      BY <2>1, <2>2, <2>3, <3>1, <3>2 DEF LatePinged
    <3>4. TimerBehind'
      BY <2>1, <2>2, <2>3, <3>1, <3>2 DEF TimerBehind
    <3> QED  BY <3>3, <3>4
  <2>7. LeavingRightly'
    BY <2>2 DEF LeavingRightly
  <2> QED  BY <2>4, <2>5, <2>6, <2>7
<1>3. CASE /\ call[c].pc = "queued" /\ call' = [call EXCEPT ![c].pc = "gate"]
           /\ UNCHANGED <<owner, proc>>
  BY <1>3 DEF TypeOK, Process, Request, Running, CallsServed, LatePinged, LookedLast,
              TimerBehind, LeavingRightly
<1>4. CASE call' = [call EXCEPT ![c] = NoCall] /\ UNCHANGED <<owner, proc>>
  BY <1>4 DEF NoCall, TypeOK, Process, Request, Running, CallsServed, LatePinged, LookedLast,
              TimerBehind, LeavingRightly
<1> QED  BY <1>1, <1>2, <1>3, <1>4 DEF Handle, Gate, Finish

LEMMA TickPreserves == ASSUME LifecycleInv, Tick PROVE LifecycleInv'
<1> USE LifecycleConstants DEF LifecycleInv, Tick
<1>1. \A t \in 0 .. IdleTimeout : Later(t) \in 0 .. IdleTimeout /\ t <= Later(t)
  BY DEF Later
<1>2. \A s, t \in 0 .. IdleTimeout : s <= t => Later(s) <= Later(t)
  BY DEF Later
<1>3. /\ proc' \in [Proc -> Process]
      /\ \A q \in Proc : /\ proc'[q].stage = proc[q].stage /\ proc'[q].told = proc[q].told
                         /\ proc'[q].pinged = proc[q].pinged
                         /\ proc[q].timer \in 0 .. IdleTimeout
                         /\ proc'[q].timer \in {proc[q].timer, Later(proc[q].timer)}
  BY <1>1 DEF TypeOK, Process
<1>4. /\ call' \in [Call -> Request]
      /\ \A c \in Call : /\ call'[c].pc = call[c].pc /\ call'[c].at = call[c].at
                         /\ call'[c].late = call[c].late
                         /\ call[c].pc = "work" => call'[c].age = Later(call[c].age)
  BY <1>1 DEF TypeOK, Request
<1>5. TypeOK'
  BY <1>3, <1>4 DEF TypeOK, Running
<1>6. CallsServed'
  BY <1>3, <1>4 DEF TypeOK, Request, Running, CallsServed
<1>7. LatePinged'
  BY <1>3, <1>4 DEF TypeOK, Request, LookedLast, LatePinged
<1>8. TimerBehind'
  <2> SUFFICES ASSUME NEW c \in Call, call[c].pc = "work"
               PROVE  \/ proc'[call[c].at].told \/ call'[c].late
                      \/ proc'[call[c].at].timer <= call'[c].age
                      \/ proc'[call[c].at].pinged /\ ~LookedLast(call[c].at)'
    BY <1>4 DEF TimerBehind
  <2> DEFINE p == call[c].at
  <2>1. /\ p \in Proc /\ call[c].age \in 0 .. IdleTimeout
        /\ call'[c].age = Later(call[c].age)
    BY <1>4 DEF TypeOK, Request
  <2>2. proc[p].timer <= call[c].age => proc'[p].timer <= call'[c].age
    BY <1>1, <1>2, <1>3, <2>1
  <2>3. LookedLast(p)' = LookedLast(p)
    BY <1>3, <2>1 DEF LookedLast
  <2> QED  BY <1>3, <1>4, <2>1, <2>2, <2>3 DEF TimerBehind
<1>9. LeavingRightly'
  BY <1>3 DEF LeavingRightly, Later
<1> QED  BY <1>5, <1>6, <1>7, <1>8, <1>9

LEMMA LifecycleStep == LifecycleInv /\ [Next]_vars => LifecycleInv'
<1> SUFFICES ASSUME LifecycleInv, [Next]_vars PROVE LifecycleInv'
  OBVIOUS
<1>1. CASE \E p \in Proc : Activate(p) \/ StartReplacement(p)
  BY <1>1, ActivatePreserves
<1>2. CASE \E p \in Proc : Main(p)
  BY <1>2, RequestNamePreserves, TimerPreserves, SelectPreserves, MainReturnsPreserves
  DEF Main
<1>3. CASE \E p \in Proc : ProcessEnds(p)
  BY <1>3, ProcessEndsPreserves
<1>4. CASE \E c \in Call : Send(c) \/ Handle(c) \/ Gate(c) \/ Finish(c)
  BY <1>4, CallStepPreserves
<1>5. CASE Tick
  BY <1>5, TickPreserves
<1>6. CASE UNCHANGED vars
  BY <1>6 DEF vars, LifecycleInv, TypeOK, CallsServed, LatePinged, TimerBehind, LookedLast,
              LeavingRightly, Running
<1> QED  BY <1>1, <1>2, <1>3, <1>4, <1>5, <1>6 DEF Next

\* Every variable keeps its type and the bus name belongs to a process that serves
\* (main.rs), whatever processes start, take over and end.
THEOREM LifecycleTyped == Spec => []TypeOK
<1>1. LifecycleInv => TypeOK
  BY DEF LifecycleInv
<1> QED  BY <1>1, LifecycleInit, LifecycleStep, PTL DEF Spec

\* What one step does to work in flight: only the return of main leaves it, for which the
\* process was replaced or its timer, behind all work it could know of, had run out.
LEMMA WorkLeft ==
    ASSUME LifecycleInv, [Next]_vars, NEW c \in Call,
           call[c].pc = "work", call'[c].pc = "left"
    PROVE  proc[call[c].at].told \/ call[c].age = IdleTimeout \/ call[c].late
<1> USE LifecycleConstants DEF LifecycleInv
<1>1. ASSUME NEW p \in Proc, MainReturns(p)
      PROVE  proc[call[c].at].told \/ call[c].age = IdleTimeout \/ call[c].late
  <2>1. p = call[c].at /\ proc[p].stage = "leaving"
    BY <1>1 DEF MainReturns, TypeOK, Request
  <2>2. proc[p].told \/ proc[p].timer = IdleTimeout
    BY <2>1 DEF LeavingRightly
  <2>3. proc[p].told \/ call[c].late \/ proc[p].timer <= call[c].age
    BY <2>1 DEF TimerBehind, LookedLast
  <2>4. call[c].age \in 0 .. IdleTimeout
    BY DEF TypeOK, Request
  <2> QED  BY <2>1, <2>2, <2>3, <2>4
<1>2. ASSUME NEW p \in Proc,
             Activate(p) \/ StartReplacement(p) \/ Listen(p) \/ IdleReset(p)
      PROVE  FALSE
  BY <1>2 DEF Activate, StartReplacement, Listen, IdleReset
<1>3. ASSUME NEW p \in Proc, NameLost(p) \/ PollChannel(p) \/ PollAgain(p) \/ IdleExit(p)
      PROVE  FALSE
  BY <1>3 DEF NameLost, PollChannel, PollAgain, IdleExit, TypeOK, Request
<1>4. ASSUME NEW p \in Proc, RequestName(p) \/ ProcessEnds(p) PROVE FALSE
  <2>1. CASE RequestName(p)
    BY <2>1 DEF RequestName, Named
  <2>2. CASE ProcessEnds(p)
    BY <2>2 DEF ProcessEnds, NoCall
  <2> QED  BY <1>4, <2>1, <2>2
<1>5. ASSUME NEW d \in Call, Send(d) \/ Handle(d) \/ Gate(d) \/ Finish(d) PROVE FALSE
  BY <1>5 DEF Send, Handle, Gate, Finish, StartWork, NoCall, TypeOK, Request
<1>6. ASSUME Tick PROVE FALSE
  BY <1>6 DEF Tick, TypeOK, Request
<1>7. ASSUME UNCHANGED vars PROVE FALSE
  BY <1>7 DEF vars
<1> QED  BY <1>1, <1>2, <1>3, <1>4, <1>5, <1>6, <1>7 DEF Next, Main

\* touch_idle and the idle timeout of main.rs, for every timeout: a process that was not
\* replaced leaves no work behind that was authorised less than the timeout ago, unless
\* that was after main had looked into the channel for the last time.
THEOREM RecentWorkSafe == Spec => RecentWorkNotLeft
<1>1. LifecycleInv /\ [Next]_vars =>
        [\A c \in Call : (call[c].pc = "work" /\ call'[c].pc = "left") =>
            proc[call[c].at].told \/ call[c].age = IdleTimeout \/ call[c].late]_vars
  BY WorkLeft
<1> QED  BY <1>1, LifecycleInit, LifecycleStep, PTL DEF Spec, RecentWorkNotLeft
=============================================================================
