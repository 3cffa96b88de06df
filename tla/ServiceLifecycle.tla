--------------------------- MODULE ServiceLifecycle ---------------------------
(***************************************************************************)
(* The life of the service's processes (main.rs) and of the calls made to  *)
(* them: activation by the bus, taking the name, being replaced, the idle  *)
(* timer and the pings that reset it.  A call is seen from the time it is  *)
(* sent: it may have to wait for a process, then for polkit, then for its  *)
(* blocking work.  Bus daemon, systemd and polkit are external.            *)
(***************************************************************************)
EXTENDS Naturals

CONSTANTS
    Proc, Call, Nobody,
    IdleTimeout   \* IDLE_TIMEOUT, in ticks

ASSUME LifecycleConstants == Nobody \notin Proc /\ IdleTimeout \in Nat \ {0}

VARIABLES
    owner,   \* process that owns the bus name
    proc,    \* where each process stands
    call     \* where each call stands

vars == <<owner, proc, call>>

\* told: NameLost has reached the stream main listens on; pinged: the channel holds a
\* ping; timer: ticks since the idle timeout was started anew.  A process that serves waits
\* in select!; it has "polled" when recv() found no ping and the deadline is looked at next,
\* and is "leaving" from the end of select! until its connection is gone.
Process == [stage : {"none", "connected", "named", "serving", "polled", "leaving", "ending"},
            replace : BOOLEAN, told : BOOLEAN, pinged : BOOLEAN, timer : 0 .. IdleTimeout]

\* at: the process that has the call; age: ticks since it was authorised; late: main has
\* not looked into the channel since (history).
Request == [pc : {"none", "bus", "queued", "gate", "work", "left"},
            at : Proc \cup {Nobody}, age : 0 .. IdleTimeout, late : BOOLEAN]

NotRunning == [stage |-> "none", replace |-> FALSE, told |-> FALSE, pinged |-> FALSE, timer |-> 0]
NoCall == [pc |-> "none", at |-> Nobody, age |-> 0, late |-> FALSE]

Running(p) == proc[p].stage \in {"named", "serving", "polled", "leaving"}
Selecting(p) == proc[p].stage \in {"serving", "polled"}
LookedLast(p) == proc[p].stage \in {"polled", "leaving"}

Init ==
    /\ owner = Nobody
    /\ proc = [p \in Proc |-> NotRunning]
    /\ call = [c \in Call |-> NoCall]

-----------------------------------------------------------------------------
(* Starting and ending a process *)

\* A call is waiting for the name: the bus has systemd start the service.
Activate(p) ==
    /\ proc[p].stage = "none" /\ owner = Nobody
    /\ \E c \in Call : call[c].pc = "bus"
    /\ \A q \in Proc : proc[q].stage # "connected"
    /\ proc' = [proc EXCEPT ![p].stage = "connected"]
    /\ UNCHANGED <<owner, call>>

StartReplacement(p) ==
    /\ proc[p].stage = "none"
    /\ proc' = [proc EXCEPT ![p].stage = "connected", ![p].replace = TRUE]
    /\ UNCHANGED <<owner, call>>

\* Whoever gets the name gets the calls that waited for it; the process that had it is
\* sent NameLost, which passes by one that does not listen yet, or no longer does.
Named(p) ==
    /\ owner' = p
    /\ proc' = [q \in Proc |->
           IF q = p THEN [proc[p] EXCEPT !.stage = "named"]
           ELSE IF q = owner THEN [proc[q] EXCEPT !.told = @ \/ Selecting(q)]
           ELSE proc[q]]
    /\ call' = [c \in Call |-> IF call[c].pc = "bus"
                               THEN [call[c] EXCEPT !.pc = "queued", !.at = p] ELSE call[c]]

\* request_name, and exit(1) when somebody else keeps the name.
RequestName(p) ==
    /\ proc[p].stage = "connected"
    /\ IF owner = Nobody \/ proc[p].replace THEN Named(p)
       ELSE proc' = [proc EXCEPT ![p] = NotRunning] /\ UNCHANGED <<owner, call>>

\* receive_name_lost; the idle timer starts.
Listen(p) ==
    /\ proc[p].stage = "named"
    /\ proc' = [proc EXCEPT ![p] = [@ EXCEPT !.stage = "serving", !.timer = 0]]
    /\ UNCHANGED <<owner, call>>

\* select!, first branch.
NameLost(p) ==
    /\ proc[p].stage = "serving" /\ proc[p].told
    /\ proc' = [proc EXCEPT ![p].stage = "leaving"]
    /\ UNCHANGED <<owner, call>>

\* A ping starts the timeout anew.
IdleReset(p) ==
    /\ proc[p].stage = "serving" /\ proc[p].pinged
    /\ proc' = [proc EXCEPT ![p] = [@ EXCEPT !.pinged = FALSE, !.timer = 0]]
    /\ UNCHANGED <<owner, call>>

\* select!, second branch: `timeout` looks into the channel, and at the deadline only when
\* there is no ping.
PollChannel(p) ==
    /\ proc[p].stage = "serving" /\ ~proc[p].pinged
    /\ proc' = [proc EXCEPT ![p].stage = "polled"]
    /\ UNCHANGED <<owner, call>>

\* The deadline is not reached: main will be woken, by a ping or by time, and look again.
PollAgain(p) ==
    /\ proc[p].stage = "polled" /\ proc[p].timer < IdleTimeout
    /\ proc' = [proc EXCEPT ![p].stage = "serving"]
    /\ call' = [c \in Call |->
           IF call[c].at = p THEN [call[c] EXCEPT !.late = FALSE] ELSE call[c]]
    /\ UNCHANGED owner

\* Mutant: the service stays for the work it has in flight.
IdleExitWithoutWork(p) ==
    /\ proc[p].stage = "polled" /\ proc[p].timer = IdleTimeout
    /\ \A c \in Call : call[c].at # p
    /\ proc' = [proc EXCEPT ![p].stage = "leaving"]
    /\ UNCHANGED <<owner, call>>

\* The deadline is reached.  Other workers of the runtime may have sent a ping meanwhile,
\* and go on handling calls until main has returned.
IdleExit(p) ==
    /\ proc[p].stage = "polled" /\ proc[p].timer = IdleTimeout
    /\ proc' = [proc EXCEPT ![p].stage = "leaving"]
    /\ UNCHANGED <<owner, call>>

\* Mutant: the connection outlives main.
MainReturnsConnected(p) ==
    /\ proc[p].stage = "leaving"
    /\ proc' = [proc EXCEPT ![p].stage = "ending"]
    /\ UNCHANGED <<owner, call>>

\* The runtime goes with its tasks and their hold on the connection, and the name with the
\* connection; clients get NoReply.  Blocking threads run on until they are done, or until
\* systemd, having seen the name go, kills them.
MainReturns(p) ==
    /\ proc[p].stage = "leaving"
    /\ owner' = IF owner = p THEN Nobody ELSE owner
    /\ proc' = [proc EXCEPT ![p].stage = "ending"]
    /\ call' = [c \in Call |->
           IF call[c].at # p THEN call[c]
           ELSE IF call[c].pc = "work" THEN [call[c] EXCEPT !.pc = "left"] ELSE NoCall]

ProcessEnds(p) ==
    /\ proc[p].stage = "ending"
    /\ proc' = [proc EXCEPT ![p] = NotRunning]
    /\ call' = [c \in Call |-> IF call[c].at = p THEN NoCall ELSE call[c]]
    /\ UNCHANGED owner

-----------------------------------------------------------------------------
(* Calls *)

Send(c) ==
    /\ call[c].pc = "none"
    /\ call' = [call EXCEPT ![c] = [pc |-> IF owner = Nobody THEN "bus" ELSE "queued",
                                    at |-> owner, age |-> 0, late |-> FALSE]]
    /\ UNCHANGED <<owner, proc>>

\* Mutant: the handler starts without a ping.
StartWorkUnpinged(c) ==
    /\ call' = [call EXCEPT ![c] = [@ EXCEPT !.pc = "work", !.age = 0,
                                    !.late = LookedLast(call[c].at)]]
    /\ UNCHANGED proc

\* touch_idle, and the end of gate: a ping, then the work.
StartWork(c) ==
    /\ call' = [call EXCEPT ![c] = [@ EXCEPT !.pc = "work", !.age = 0,
                                    !.late = LookedLast(call[c].at)]]
    /\ proc' = [proc EXCEPT ![call[c].at].pinged = TRUE]

\* The handler is entered: a path goes to the gate, a descriptor is its own authorisation.
Handle(c) ==
    /\ call[c].pc = "queued" /\ Running(call[c].at)
    /\ \/ call' = [call EXCEPT ![c].pc = "gate"] /\ UNCHANGED proc
       \/ StartWork(c)
    /\ UNCHANGED owner

\* A remembered or new authorisation, or a refusal, which pings nobody.  polkit may ask a
\* person and take its time.
Gate(c) ==
    /\ call[c].pc = "gate"
    /\ \/ StartWork(c)
       \/ call' = [call EXCEPT ![c] = NoCall] /\ UNCHANGED proc
    /\ UNCHANGED owner

\* The blocking work ends, and the call is answered if there is still a client.
Finish(c) ==
    /\ call[c].pc \in {"work", "left"}
    /\ call' = [call EXCEPT ![c] = NoCall]
    /\ UNCHANGED <<owner, proc>>

Later(t) == IF t < IdleTimeout THEN t + 1 ELSE t

Tick ==
    /\ proc' = [p \in Proc |-> IF Selecting(p)
                               THEN [proc[p] EXCEPT !.timer = Later(@)] ELSE proc[p]]
    /\ call' = [c \in Call |-> IF call[c].pc = "work"
                               THEN [call[c] EXCEPT !.age = Later(@)] ELSE call[c]]
    /\ UNCHANGED owner

-----------------------------------------------------------------------------
Main(p) ==
    \/ RequestName(p) \/ Listen(p) \/ NameLost(p) \/ IdleReset(p)
    \/ PollChannel(p) \/ PollAgain(p) \/ IdleExit(p) \/ MainReturns(p)

Next ==
    \/ \E p \in Proc : Activate(p) \/ StartReplacement(p) \/ Main(p) \/ ProcessEnds(p)
    \/ \E c \in Call : Send(c) \/ Handle(c) \/ Gate(c) \/ Finish(c)
    \/ Tick

\* The main task is polled and time passes.  Nothing is assumed of callers, polkit,
\* the work of a call, or systemd.
Fairness == WF_vars(Tick) /\ \A p \in Proc : WF_vars(Main(p))

Spec == Init /\ [][Next]_vars /\ Fairness

-----------------------------------------------------------------------------
(* Properties *)

\* Every variable has its type, and the name belongs to a process that is there to serve.
TypeOK ==
    /\ owner \in Proc \cup {Nobody}
    /\ proc \in [Proc -> Process] /\ call \in [Call -> Request]
    /\ owner # Nobody => Running(owner)
    /\ \A c \in Call : call[c].pc \in {"none", "bus"} <=> call[c].at = Nobody

\* What the idle timer gives to work in flight: a process that has not lost its name leaves
\* a call behind only when the call was authorised a whole IDLE_TIMEOUT ago, or so late that
\* main, about to find its deadline reached, had looked into the channel for the last time.
\* Whatever the order of pings, polls, ticks and resets, no ping sent before the last look
\* is passed over and the timer never runs ahead of a call it was reset for.
RecentWorkNotLeft ==
    [][\A c \in Call : (call[c].pc = "work" /\ call'[c].pc = "left") =>
          proc[call[c].at].told \/ call[c].age = IdleTimeout \/ call[c].late]_vars

\* "Exit if we lose the bus name": also when NameLost came before main listened for it,
\* and also with calls that are stuck; the idle timer is then what ends the process.
ReplacedProcessEnds ==
    \A p \in Proc : (Running(p) /\ owner # p) ~> ~Running(p)
=============================================================================
