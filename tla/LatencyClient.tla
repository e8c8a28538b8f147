---------------------------- MODULE LatencyClient ----------------------------
(****************************************************************************)
(* The latency client of src/client.go: the querier goroutine that polls    *)
(* elastic (runQuerier), the reporter goroutine that hands every State to   *)
(* the registered reporters (runReporter), and the goroutines that call the *)
(* client's methods (main, the control server, the signal handler).         *)
(*                                                                          *)
(* Every goroutine has a program counter; a step is what happens between    *)
(* two points where another goroutine can be observed.  A panic ends the    *)
(* process: it sets "crash", after which nothing happens.                   *)
(****************************************************************************)
EXTENDS Integers, Sequences, FiniteSets

CONSTANTS
    Callers,        \* goroutines that call the methods of the client
    Querier,        \* the goroutine started by runQuerier
    Reporter,       \* the goroutine runReporter
    Menu,           \* Menu[c]: the calls that caller c issues
    Modes,          \* how Start is called: "periodic" (interval > 0), "oneshot"
    Interruptible,  \* whether the context given to Init can be cancelled
    Names,          \* reporter names
    Registered,     \* the reporters added before Start
    Rests,          \* values of the QueryConfig fields held by value
    Ranges,         \* contents of the TimeRange map, held by reference
    NotifyCap,      \* capacity of the notify channel (10 in the code)
    MaxClock,       \* bound of the model on the readings of time.Now
    MaxReporterWg,  \* bound of the model on the count AddReporter raises
    None            \* no report, no configuration, no reporter

Calls == {"Start", "Suspend", "Resume", "ChangeInterval", "SetConfig",
          "AddReporter", "DelReporter", "GetInterval", "QueryLatency",
          "GetLastState", "Shutdown", "StopCmd", "Join"}

Agents == Callers \cup {Querier, Reporter}
Clock == 0..MaxClock
Configs == [rest : Rests, range : Ranges]
\* State and LatencyReport: "cfg" is the configuration the record shows, "of" the
\* one its latency list was measured under (None for an empty list).
States == [ts : Clock, of : Configs \cup {None}, cfg : Configs]

ASSUME AgentsAssumption ==
    /\ IsFiniteSet(Callers)
    /\ Querier \notin Callers /\ Reporter \notin Callers /\ Querier # Reporter
ASSUME MenuAssumption == Menu \in [Callers -> SUBSET Calls]
ASSUME ModeAssumption == Modes \subseteq {"periodic", "oneshot"} /\ Interruptible \in BOOLEAN
ASSUME ReportersAssumption ==
    IsFiniteSet(Names) /\ Registered \subseteq Names /\ None \notin Names
ASSUME BoundsAssumption == NotifyCap \in Nat \ {0} /\ MaxClock \in Nat /\ MaxReporterWg \in Nat
ASSUME NoneAssumption ==
    None \notin Configs /\ None \notin States /\ None \notin Rests /\ None \notin Clock

VARIABLES
    pc,          \* where each goroutine is
    periodic,    \* qryInterval is non-nil
    runDone,     \* runCtx is cancelled
    stopOnce,    \* sync.Once of cancelRun: "free", "busy", "used"
    suspend,     \* the suspend flag
    suspendWg,   \* counter of the WaitGroup the querier waits on
    overrun,     \* queries started while the gate is closed (history)
    belated,     \* a Suspend took effect after cancelRun had resumed (history)
    cfg,         \* fields of the live configuration held by value
    timeRange,   \* the TimeRange map every shallow copy of it shares
    tmp,         \* tmp[c]: the tmpCfg of SetConfig
    clock,       \* last reading of time.Now
    work,        \* the query under way: ts, rest and the range asked for
    outbox,      \* the State runQuerier built from its answer
    notify,      \* the notify channel
    lastReport,  \* the last non-empty report, possibly recovered from file
    reporters,   \* keys of the reporters map
    reporterWg,  \* counter of the WaitGroup that Join waits on
    current,     \* the State runReporter is delivering
    calling,     \* the reporter it picked
    visited,     \* keys the Range under way has visited
    must,        \* keys it still has to visit
    seen,        \* seen[n]: timestamp of the last State n got (history)
    answer,      \* answer[c]: the State that GetLastState builds for c
    crash        \* "none", or the panic that ended the process

runVars  == <<periodic, runDone, stopOnce>>
gateVars == <<suspend, suspendWg, overrun, belated>>
confVars == <<cfg, timeRange, tmp, answer>>
qryVars  == <<clock, work, outbox, lastReport>>
rptVars  == <<reporters, reporterWg, current, calling, visited, must, seen>>
stateVars == <<runVars, gateVars, confVars, qryVars, notify, rptVars, crash>>
vars == <<pc, stateVars>>

CallerLabels == {"idle", "suspendAdd", "resumeDone", "apply", "store", "send", "blocked",
                 "addWg", "state", "once", "resume", "stopDone", "join", "joinParked",
                 "joinWoken", "joinWatch", "left"}
QuerierLabels == {"idle", "top", "gate", "parked", "woken", "check", "await", "publish", "rearm",
                  "select", "once", "resume", "stopDone", "exit", "closing", "gone"}
ReporterLabels == {"idle", "new", "recv", "range", "call", "drain", "gone"}
Panics == {"nilInterval", "nilRunCtx", "negativeGate", "gateReused",
           "negativeReporters", "joinReused", "mapRace"}

------------------------------------------------------------------------------
Alive == crash = "none"
\* goroutine a of a live process is about to execute the step labelled l
Here(a, l) == Alive /\ pc[a] = l
At(labels) == {a \in Agents : pc[a] \in labels}
Started == pc[Querier] # "idle"
NotifyClosed == pc[Querier] \in {"closing", "gone"}
WatchClosed == pc[Querier] = "gone"

Goto(a, l) == pc' = [pc EXCEPT ![a] = l]
\* a moves on, and everyone parked at "from" is released to "to"
GotoAndWake(a, l, from, to) ==
    pc' = [b \in Agents |-> IF b = a THEN l ELSE IF pc[b] = from THEN to ELSE pc[b]]
\* a step that only moves on
Moves(a, l) == Goto(a, l) /\ UNCHANGED stateVars

Panic(why) ==
    /\ crash' = why
    /\ UNCHANGED <<pc, runVars, gateVars, confVars, qryVars, notify, rptVars>>

\* the querier reads the TimeRange map while SetConfig writes it
MapRace == /\ \E c \in Callers : pc[c] = "apply"
           /\ Panic("mapRace")

PcOK ==
    /\ pc \in [Agents -> CallerLabels \cup QuerierLabels \cup ReporterLabels]
    /\ \A c \in Callers : pc[c] \in CallerLabels
    /\ pc[Querier] \in QuerierLabels /\ pc[Reporter] \in ReporterLabels
    /\ pc[Querier] = "idle" <=> pc[Reporter] = "idle"

DataOK ==
    /\ periodic \in BOOLEAN /\ runDone \in BOOLEAN /\ stopOnce \in {"free", "busy", "used"}
    /\ suspend \in BOOLEAN /\ suspendWg \in Nat /\ overrun \in Nat
    /\ belated \in BOOLEAN
    /\ cfg \in Rests /\ timeRange \in Ranges /\ tmp \in [Callers -> Rests \cup {None}]
    /\ clock \in Clock /\ work \in [ts : Clock, rest : Rests, range : Ranges]
    /\ outbox \in States \cup {None} /\ lastReport \in States \cup {None}
    /\ notify \in Seq(States) /\ Len(notify) <= NotifyCap
    /\ reporters \subseteq Names /\ reporterWg \in Nat
    /\ current \in States \cup {None} /\ calling \in Names \cup {None}
    /\ visited \subseteq Names /\ must \subseteq Names /\ seen \in [Names -> Clock]
    /\ answer \in [Callers -> States \cup {None}]
    /\ crash \in Panics \cup {"none"}

\* the locals of a goroutine have a value exactly while they are in scope
LocalsOK ==
    /\ outbox # None <=> pc[Querier] = "publish"
    /\ current # None <=> pc[Reporter] \in {"range", "call"}
    /\ calling # None <=> pc[Reporter] = "call"
    /\ \A c \in Callers : /\ tmp[c] # None <=> pc[c] = "store"
                          /\ pc[c] = "state" => answer[c] # None

TypeOK == PcOK /\ DataOK /\ LocalsOK

Init ==
    /\ pc = [a \in Agents |-> "idle"]
    /\ periodic = FALSE /\ runDone = FALSE /\ stopOnce = "free"
    /\ suspend = FALSE /\ suspendWg = 0 /\ overrun = 0 /\ belated = FALSE
    /\ cfg \in Rests /\ timeRange \in Ranges /\ tmp = [c \in Callers |-> None]
    /\ clock = 0 /\ work = [ts |-> 0, rest |-> cfg, range |-> timeRange]
    /\ outbox = None /\ notify = <<>>
    \* a report of an earlier process, recovered from the sink file, if there is one
    /\ \/ lastReport = None
       \/ \E k \in Configs : lastReport = [ts |-> 0, of |-> k, cfg |-> k]
    /\ reporters = Registered /\ reporterWg = Cardinality(Registered)
    /\ current = None /\ calling = None /\ visited = {} /\ must = {}
    /\ seen = [n \in Names |-> 0]
    /\ answer = [c \in Callers |-> None]
    /\ crash = "none"

------------------------------------------------------------------------------
(* Calls: the methods of the client, one step per observable point.         *)

Begins(c, call) == Here(c, "idle") /\ call \in Menu[c]

\* the context given to Init is cancelled (SIGINT): runCtx is derived from it
Interrupt ==
    /\ Alive /\ Interruptible /\ ~runDone
    /\ runDone' = TRUE
    /\ UNCHANGED <<pc, periodic, stopOnce, gateVars, confVars, qryVars, notify, rptVars, crash>>

Start(c) ==
    /\ Begins(c, "Start") /\ ~Started
    /\ \E m \in Modes : periodic' = (m = "periodic")
    /\ pc' = [pc EXCEPT ![Querier] = "top", ![Reporter] = "new"]
    /\ UNCHANGED <<runDone, stopOnce, gateVars, confVars, qryVars, notify, rptVars, crash>>

\* the CAS of Suspend, Resume and cancelRun, and where it leads
SwapSuspend(a, old, l) ==
    /\ suspend = old /\ suspend' = (l = "suspendAdd")
    /\ belated' = (l = "suspendAdd" /\ (stopOnce = "used" \/ At({"stopDone"}) # {}))
    /\ Goto(a, l)
    /\ UNCHANGED <<runVars, suspendWg, overrun, confVars, qryVars, notify, rptVars, crash>>

\* fault: Suspend without the compare of its compare-and-swap
SuspendAlways(c) == Begins(c, "Suspend") /\ SwapSuspend(c, suspend, "suspendAdd")

\* fault: Resume without the compare
ResumeAlways(c) == Begins(c, "Resume") /\ SwapSuspend(c, suspend, "resumeDone")

SuspendSwap(c) == Begins(c, "Suspend") /\ SwapSuspend(c, FALSE, "suspendAdd")
ResumeSwap(c) == Begins(c, "Resume") /\ SwapSuspend(c, TRUE, "resumeDone")

SuspendAdd(c) ==
    /\ Here(c, "suspendAdd")
    /\ suspendWg' = suspendWg + 1 /\ overrun' = 0
    /\ Goto(c, "idle")
    /\ UNCHANGED <<runVars, suspend, belated, confVars, qryVars, notify, rptVars, crash>>

\* suspendWg.Done(): at zero it releases the querier, below zero it panics
OpenGate(a, l) ==
    /\ suspendWg > 0
    /\ suspendWg' = suspendWg - 1
    /\ IF suspendWg = 1 THEN GotoAndWake(a, l, "parked", "woken") /\ overrun' = 0
                        ELSE Goto(a, l) /\ UNCHANGED overrun
    /\ UNCHANGED <<periodic, runDone, suspend, belated, confVars, qryVars, notify, rptVars, crash>>
GateUnderflow == suspendWg = 0 /\ Panic("negativeGate")

ResumeDone(c) ==
    /\ Here(c, "resumeDone")
    /\ \/ OpenGate(c, "idle") /\ UNCHANGED stopOnce
       \/ GateUnderflow

\* the swap comes before the dereference of the old pointer
ChangeInterval(c) ==
    /\ Begins(c, "ChangeInterval")
    /\ \/ periodic /\ Moves(c, "send")
       \/ ~periodic /\ Panic("nilInterval")

\* beyond their panics GetInterval and QueryLatency change nothing
GetInterval(c) == Begins(c, "GetInterval") /\ ~periodic /\ Panic("nilInterval")
QueryLatency(c) == Begins(c, "QueryLatency") /\ ~Started /\ Panic("nilRunCtx")

SetConfigBegin(c) == Begins(c, "SetConfig") /\ Moves(c, "apply")

\* tmpCfg is a shallow copy: its own fields are set aside, the map is written in place;
\* an invalid item ends SetConfig with an error after the items before it were applied
SetConfigApply(c) ==
    /\ Here(c, "apply")
    /\ timeRange' \in Ranges
    /\ \/ \E r \in Rests : tmp' = [tmp EXCEPT ![c] = r] /\ Goto(c, "store")
       \/ Goto(c, "idle") /\ UNCHANGED tmp
    /\ UNCHANGED <<runVars, gateVars, cfg, answer, qryVars, notify, rptVars, crash>>

SetConfigStore(c) ==
    /\ Here(c, "store")
    /\ cfg' = tmp[c] /\ tmp' = [tmp EXCEPT ![c] = None]
    /\ Goto(c, "send")
    /\ UNCHANGED <<runVars, gateVars, timeRange, answer, qryVars, notify, rptVars, crash>>

\* fault: reQuery is buffered, the send does not wait
SendBuffered(c) == Here(c, "send") /\ Moves(c, "idle")

\* the send on the unbuffered reQuery; Requeried is the receive that completes it
Send(c) == Here(c, "send") /\ Moves(c, "blocked")

\* a deleted reporter keeps its count: the bound is on the counter
AddReporter(c) ==
    /\ Begins(c, "AddReporter") /\ reporterWg < MaxReporterWg
    /\ \E n \in Names \ reporters : reporters' = reporters \cup {n}
    /\ Goto(c, "addWg")
    /\ UNCHANGED <<runVars, gateVars, confVars, qryVars, notify, reporterWg, current, calling,
                   visited, must, seen, crash>>

AddReporterCount(c) ==
    /\ Here(c, "addWg")
    /\ reporterWg' = reporterWg + 1
    /\ Goto(c, "idle")
    /\ UNCHANGED <<runVars, gateVars, confVars, qryVars, notify, reporters, current, calling,
                   visited, must, seen, crash>>

DelReporter(c) ==
    /\ Begins(c, "DelReporter")
    /\ \E n \in reporters : reporters' = reporters \ {n} /\ must' = must \ {n}
    /\ UNCHANGED <<pc, runVars, gateVars, confVars, qryVars, notify, reporterWg, current,
                   calling, visited, seen, crash>>

LiveCfg == [rest |-> cfg, range |-> timeRange]

\* two loads: the report, then the configuration of the moment
GetLastStateReport(c) ==
    /\ Begins(c, "GetLastState") /\ lastReport # None
    /\ answer' = [answer EXCEPT ![c] = lastReport]
    /\ Goto(c, "state")
    /\ UNCHANGED <<runVars, gateVars, cfg, timeRange, tmp, qryVars, notify, rptVars, crash>>

GetLastStateConfig(c) ==
    /\ Here(c, "state")
    /\ answer' = [answer EXCEPT ![c].cfg = LiveCfg]
    /\ Goto(c, "idle")
    /\ UNCHANGED <<runVars, gateVars, cfg, timeRange, tmp, qryVars, notify, rptVars, crash>>

\* "Shutdown" is Stop and Join (main), "StopCmd" the stop command, which first
\* reads the interval, "Join" a Join alone
BeginStop(c) ==
    \/ Begins(c, "Shutdown") /\ Started /\ Moves(c, "once")
    \/ Begins(c, "StopCmd") /\ periodic /\ Moves(c, "once")
    \/ Begins(c, "StopCmd") /\ ~periodic /\ Panic("nilInterval")

BeginJoin(c) == Begins(c, "Join") /\ Started /\ Moves(c, "join")

------------------------------------------------------------------------------
(* cancelRun, executed by the querier or by Stop, and Join.                 *)

AfterCancel(a) == IF a = Querier THEN "exit" ELSE "join"

CancelRun(a) ==
    /\ Here(a, "once")
    /\ \/ /\ stopOnce = "free"
          /\ stopOnce' = "busy" /\ runDone' = TRUE
          /\ Goto(a, "resume")
          /\ UNCHANGED <<periodic, gateVars, confVars, qryVars, notify, rptVars, crash>>
       \/ stopOnce = "used" /\ Moves(a, AfterCancel(a))

\* fault: cancelRun forgets to resume
CancelOnly(a) ==
    /\ Here(a, "resume")
    /\ stopOnce' = "used" /\ Goto(a, AfterCancel(a))
    /\ UNCHANGED <<periodic, runDone, gateVars, confVars, qryVars, notify, rptVars, crash>>

CancelResume(a) ==
    /\ Here(a, "resume")
    /\ \/ SwapSuspend(a, TRUE, "stopDone")
       \/ /\ ~suspend
          /\ stopOnce' = "used" /\ Goto(a, AfterCancel(a))
          /\ UNCHANGED <<periodic, runDone, gateVars, confVars, qryVars, notify, rptVars, crash>>

CancelDone(a) ==
    /\ Here(a, "stopDone")
    /\ \/ OpenGate(a, AfterCancel(a)) /\ stopOnce' = "used"
       \/ GateUnderflow

\* fault: Join does not wait for the reporters
JoinQuerierOnly(c) == Here(c, "join") /\ Moves(c, "joinWatch")

JoinReporters(c) ==
    Here(c, "join") /\ Moves(c, IF reporterWg = 0 THEN "joinWatch" ELSE "joinParked")

\* a waiter that wakes to find the counter raised again panics
JoinWoken(c) ==
    /\ Here(c, "joinWoken")
    /\ \/ reporterWg = 0 /\ Moves(c, "joinWatch")
       \/ reporterWg # 0 /\ Panic("joinReused")

\* nothing is ever left in watchRun: the receive returns when it is closed
JoinWatch(c) == Here(c, "joinWatch") /\ WatchClosed /\ Moves(c, "left")

CallBegin(c) ==
    \/ Start(c) \/ SuspendSwap(c) \/ ResumeSwap(c) \/ ChangeInterval(c) \/ GetInterval(c)
    \/ QueryLatency(c) \/ SetConfigBegin(c) \/ AddReporter(c) \/ DelReporter(c)
    \/ GetLastStateReport(c) \/ BeginStop(c) \/ BeginJoin(c)

CallStep(c) ==
    \/ SuspendAdd(c) \/ ResumeDone(c) \/ SetConfigApply(c) \/ SetConfigStore(c) \/ Send(c)
    \/ AddReporterCount(c) \/ GetLastStateConfig(c)
    \/ CancelRun(c) \/ CancelResume(c) \/ CancelDone(c)
    \/ JoinReporters(c) \/ JoinWoken(c) \/ JoinWatch(c)

------------------------------------------------------------------------------
(* The querier goroutine of runQuerier.                                     *)

Top == Here(Querier, "top") /\ Moves(Querier, IF runDone THEN "once" ELSE "gate")

\* faults: the gate lets everyone pass, or nobody
GateOpen == Here(Querier, "gate") /\ Moves(Querier, "check")
GateShut == Here(Querier, "gate") /\ Moves(Querier, "parked")

\* suspendWg.Wait(): passes at zero, otherwise the querier is parked
GateWait ==
    Here(Querier, "gate") /\ Moves(Querier, IF suspendWg = 0 THEN "check" ELSE "parked")

GateWoken ==
    /\ Here(Querier, "woken")
    /\ \/ suspendWg = 0 /\ Moves(Querier, "check")
       \/ suspendWg # 0 /\ Panic("gateReused")

CheckCancelled == Here(Querier, "check") /\ runDone /\ Moves(Querier, "exit")

\* time.Now never goes back; fault: a wall clock that may be set back
WallClock == Clock
Now == clock..MaxClock

\* load the configuration, read the clock, build and send the query
Query ==
    /\ Here(Querier, "check") /\ ~runDone
    /\ \/ /\ clock' \in Now
          /\ work' = [ts |-> clock', rest |-> cfg, range |-> timeRange]
          /\ overrun' = IF suspendWg > 0 THEN overrun + 1 ELSE 0
          /\ Goto(Querier, "await")
          /\ UNCHANGED <<runVars, suspend, suspendWg, belated, confVars, outbox, lastReport,
                         notify, rptVars, crash>>
       \/ MapRace

\* the querier's copy of the configuration: its fields by value, but the live map
\* (LiveCfg instead would be a fault)
CurrCfg == [rest |-> work.rest, range |-> timeRange]

QueryAnswered ==
    /\ Here(Querier, "await")
    /\ \/ /\ lastReport' = [ts |-> work.ts, cfg |-> CurrCfg,
                            of |-> [rest |-> work.rest, range |-> work.range]]
          /\ outbox' = lastReport'
          /\ Goto(Querier, "publish")
          /\ UNCHANGED <<runVars, gateVars, confVars, clock, work, notify, rptVars, crash>>
       \/ MapRace

\* an empty latency list is not sunk: the previous report is published again
QueryEmpty ==
    /\ Here(Querier, "await")
    /\ \/ /\ outbox' = IF lastReport # None THEN lastReport
                       ELSE [ts |-> work.ts, of |-> None, cfg |-> CurrCfg]
          /\ Goto(Querier, "publish")
          /\ UNCHANGED <<runVars, gateVars, confVars, clock, work, lastReport, notify, rptVars,
                         crash>>
       \/ lastReport = None /\ MapRace

\* "continue" at once, or the dereference of the interval that was never set
QueryFailed ==
    /\ Here(Querier, "await")
    /\ \/ periodic /\ Moves(Querier, "top")
       \/ ~periodic /\ Panic("nilInterval")

\* the notify channel; faults: the newest State overtakes the others, no bound
Overtake(q, s) == <<s>> \o q
Enqueue(q, s) == Append(q, s)
NeverFull == FALSE
NotifyFull == Len(notify) >= NotifyCap

\* the State is dropped when the channel stays full for the timeout
Publish ==
    /\ Here(Querier, "publish")
    /\ \/ ~NotifyFull /\ notify' = Enqueue(notify, outbox)
       \/ NotifyFull /\ UNCHANGED notify
    /\ outbox' = None
    /\ Goto(Querier, "rearm")
    /\ UNCHANGED <<runVars, gateVars, confVars, clock, work, lastReport, rptVars, crash>>

Rearm == Here(Querier, "rearm") /\ Moves(Querier, IF periodic THEN "select" ELSE "once")

SelectDone == Here(Querier, "select") /\ runDone /\ Moves(Querier, "once")

Requeried(c) ==
    /\ Here(Querier, "select") /\ pc[c] = "blocked"
    /\ pc' = [pc EXCEPT ![Querier] = "top", ![c] = "idle"]
    /\ UNCHANGED stateVars

\* fault: the timer is served before a waiting sender
SelectTimerFirst == Here(Querier, "select") /\ ~runDone /\ Moves(Querier, "top")

\* a sender or a cancellation that is already there beats the timer
SelectTimer ==
    /\ Here(Querier, "select") /\ ~runDone
    /\ \A c \in Callers : pc[c] # "blocked"
    /\ Moves(Querier, "top")

\* the deferred close(notify), then close(watchRun) and a runCancel that comes too late
\* to change anything
CloseNotify == Here(Querier, "exit") /\ Moves(Querier, "closing")
CloseWatch == Here(Querier, "closing") /\ Moves(Querier, "gone")

QuerierStep ==
    \/ Top \/ GateWait \/ GateWoken \/ CheckCancelled \/ Query
    \/ QueryAnswered \/ QueryEmpty \/ QueryFailed \/ Publish \/ Rearm
    \/ SelectDone \/ SelectTimer \/ \E c \in Callers : Requeried(c)
    \/ CancelRun(Querier) \/ CancelResume(Querier) \/ CancelDone(Querier)
    \/ CloseNotify \/ CloseWatch

------------------------------------------------------------------------------
(* The reporter goroutine of runReporter.  A Range over the sync.Map visits *)
(* each key present throughout exactly once; a key stored or deleted        *)
(* meanwhile may or may not be visited, or be visited after its deletion.   *)

ReporterQuiet == <<runVars, gateVars, confVars, qryVars, crash>>

\* fault: runReporter does not count itself
ReporterUncounted ==
    /\ Here(Reporter, "new")
    /\ Goto(Reporter, "recv")
    /\ UNCHANGED <<reporters, reporterWg, current, calling, visited, must, seen, notify,
                   ReporterQuiet>>

ReporterBegin ==
    /\ Here(Reporter, "new")
    /\ reporterWg' = reporterWg + 1
    /\ Goto(Reporter, "recv")
    /\ UNCHANGED <<reporters, current, calling, visited, must, seen, notify, ReporterQuiet>>

Receive ==
    /\ Here(Reporter, "recv") /\ notify # <<>>
    /\ current' = Head(notify) /\ notify' = Tail(notify)
    /\ must' = reporters
    /\ Goto(Reporter, "range")
    /\ UNCHANGED <<reporters, reporterWg, calling, visited, seen, ReporterQuiet>>

PickReporter ==
    /\ Here(Reporter, "range")
    /\ \E n \in reporters \ visited :
         calling' = n /\ visited' = visited \cup {n} /\ must' = must \ {n}
    /\ Goto(Reporter, "call")
    /\ UNCHANGED <<reporters, reporterWg, current, seen, notify, ReporterQuiet>>

Report ==
    /\ Here(Reporter, "call")
    /\ seen' = [seen EXCEPT ![calling] = current.ts] /\ calling' = None
    /\ Goto(Reporter, "range")
    /\ UNCHANGED <<reporters, reporterWg, current, visited, must, notify, ReporterQuiet>>

\* fault: the callback returns false, which ends the Range
RangeEndEarly ==
    /\ Here(Reporter, "range") /\ visited # {}
    /\ current' = None /\ visited' = {} /\ must' = {}
    /\ Goto(Reporter, "recv")
    /\ UNCHANGED <<reporters, reporterWg, calling, seen, notify, ReporterQuiet>>

RangeEnd ==
    /\ Here(Reporter, "range") /\ must = {}
    /\ current' = None /\ visited' = {}
    /\ Goto(Reporter, "recv")
    /\ UNCHANGED <<reporters, reporterWg, calling, must, seen, notify, ReporterQuiet>>

DrainBegin ==
    /\ Here(Reporter, "recv") /\ notify = <<>> /\ NotifyClosed
    /\ must' = reporters
    /\ Goto(Reporter, "drain")
    /\ UNCHANGED <<reporters, reporterWg, current, calling, visited, seen, notify, ReporterQuiet>>

\* reporterWg.Done(): at zero it releases the joiners, below zero it panics
ReporterDone(l) ==
    /\ reporterWg > 0
    /\ reporterWg' = reporterWg - 1
    /\ IF reporterWg = 1 THEN GotoAndWake(Reporter, l, "joinParked", "joinWoken")
                         ELSE Goto(Reporter, l)
    /\ UNCHANGED <<reporters, current, calling, seen, notify, ReporterQuiet>>
ReporterUnderflow == reporterWg = 0 /\ Panic("negativeReporters")

DrainReporter ==
    /\ Here(Reporter, "drain") /\ reporters \ visited # {}
    /\ \/ /\ \E n \in reporters \ visited : visited' = visited \cup {n} /\ must' = must \ {n}
          /\ ReporterDone("drain")
       \/ ReporterUnderflow

DrainEnd ==
    /\ Here(Reporter, "drain") /\ must = {}
    /\ \/ ReporterDone("gone") /\ UNCHANGED <<visited, must>>
       \/ ReporterUnderflow

ReporterStep ==
    \/ ReporterBegin \/ Receive \/ PickReporter \/ Report \/ RangeEnd
    \/ DrainBegin \/ DrainReporter \/ DrainEnd

------------------------------------------------------------------------------
Next ==
    \/ Interrupt
    \/ \E c \in Callers : CallBegin(c) \/ CallStep(c)
    \/ QuerierStep
    \/ ReporterStep

Spec == Init /\ [][Next]_vars

(* Fairness: the Go scheduler runs every goroutine that can run, a query    *)
(* ends, and a reporter callback returns.  Main goes on to Start; nobody is *)
(* obliged to begin any other call.                                         *)
Fairness ==
    /\ WF_vars(QuerierStep)
    /\ WF_vars(ReporterStep)
    /\ \A c \in Callers : WF_vars(CallStep(c))
    /\ WF_vars(\E c \in Callers : Start(c))

FairSpec == Spec /\ Fairness

------------------------------------------------------------------------------
(* Properties.                                                              *)

\* The CAS of Suspend and Resume and the Add and Done that follow it are two steps
\* (client.go:350, 359): the counter the querier waits on equals the flag once the
\* calls that are half-way are accounted for, whoever suspends, resumes or stops.
GateBalanced ==
    suspendWg + Cardinality(At({"suspendAdd"}))
        = (IF suspend THEN 1 ELSE 0) + Cardinality(At({"resumeDone", "stopDone"}))

\* The one way for the counter of the gate to fall below zero is a Resume or a cancelRun that
\* undoes a Suspend between its two steps (client.go:350, 359, 662): nobody else lowers what
\* was not raised.
GatePanicIsRace == crash = "negativeGate" => At({"suspendAdd"}) # {}

\* Once cancelRun has let the querier through, one thing alone keeps it asleep at the gate: a
\* Suspend that came after that, from the goroutine that executes commands while main stops the
\* client (client.go:350, 400, 658-665), or a Resume that is about to wake it.
ParkedAfterStop ==
    stopOnce = "used" /\ pc[Querier] = "parked" => belated \/ At({"resumeDone"}) # {}

\* Once Suspend has returned and until it is undone, at most the one query whose gate
\* was already passed (client.go:400) is still sent to elastic.
SuspendBound ==
    suspendWg > 0 => overrun + (IF pc[Querier] = "check" THEN 1 ELSE 0) <= 1

\* SetConfig returns only after the querier took its signal (client.go:586), so from
\* then on no query asked under older fields is awaited, sunk or published.
FreshConfig ==
    /\ pc[Querier] \in {"await", "publish", "rearm", "select"}
    /\ \A c \in Callers : pc[c] \notin {"send", "blocked"}
    => work.rest = cfg

\* States on their way to the reporters, and the order between two of them.
InFlight == {current, outbox} \cup {notify[i] : i \in 1..Len(notify)}
Before(s, t) == s # None /\ t # None => s.ts <= t.ts

\* Reports published again on an empty answer, drops on a full channel and the report
\* recovered from file never make the feed go back in time (client.go:315, 437, 144).
FeedInOrder ==
    /\ \A i, j \in 1..Len(notify) : i <= j => Before(notify[i], notify[j])
    /\ \A i \in 1..Len(notify) : Before(current, notify[i]) /\ Before(notify[i], outbox)
    /\ Before(current, outbox)
    /\ \A s \in InFlight : s # None => \A n \in Names : seen[n] <= s.ts

\* No reporter is ever handed a State older than the last it got (client.go:495-526).
ReporterForward == [][\A n \in Names : seen'[n] >= seen[n]]_vars

\* A published latency list is labelled with the by-value fields it was measured
\* under, also when an old report is published again (client.go:321-327, 426-432).
LabelledFields ==
    \A s \in InFlight : s # None /\ s.of # None => s.of.rest = s.cfg.rest

\* When Join has returned, everything published has been handed to the reporters and
\* nothing more will be (client.go:478-487, 652-656).
JoinDelivered ==
    (\E c \in Callers : pc[c] = "left") =>
        NotifyClosed /\ notify = <<>> /\ pc[Reporter] \in {"drain", "gone"}

\* The one way for the count that Join waits for to fall below zero is an AddReporter that has
\* stored its reporter and not yet counted it when the feed ends (client.go:478-487, 545-548):
\* every other reporter that runReporter counts out was counted in, whoever was deleted.
ReporterPanicIsRace == crash = "negativeReporters" => At({"addWg"}) # {}

\* "state" never answers with an older report than it did before (client.go:296-306).
LastStateForward ==
    [][\A c \in Callers : answer[c] # None => answer'[c].ts >= answer[c].ts]_vars

\* No call and no answer takes the process down.
NoPanic == Alive

\* elastic answers some query if it is asked again and again: while every query fails, the
\* querier looks at neither reQuery nor the timer (client.go:409-422)
SomeAnswer == SF_vars(QueryAnswered)

\* A config or period command gets past its signal to the querier, on which the one goroutine
\* that executes commands waits (client.go:377, 586), as long as the run it wants to reach goes
\* on: once a one-shot run, a stop or an interrupt has ended it, nobody receives.
ControlResponsive ==
    SomeAnswer =>
        \A c \in Callers : pc[c] = "send" ~> (pc[c] = "idle" \/ runDone \/ ~Alive)

\* A client that is neither suspended nor stopped keeps publishing.
KeepsPublishing ==
    SomeAnswer =>
        (pc[Querier] = "top" ~>
            (pc[Querier] = "publish" \/ suspendWg > 0 \/ runDone \/ ~Alive))

\* Stop and Join return (client.go:652-669), whatever queries fail, unless a Suspend that took
\* effect after cancelRun is never undone: it parks the querier for good (client.go:400).
StopReturns ==
    \A c \in Callers : pc[c] = "once" ~> (pc[c] = "left" \/ ~Alive \/ []belated)

\* What the reporters see of the client: a feed (LatencyFeed) of the States in the notify
\* channel.  A reporter is due while runReporter must visit it or is calling it.
Delivering == current # None
FeedQueue == [i \in 1..Len(notify) |-> notify[i].ts]
FeedCurrent == IF Delivering THEN current.ts ELSE None
FeedDue == IF Delivering THEN must \cup ({calling} \ {None}) ELSE {}
FeedHanded == IF Delivering THEN visited \ {calling} ELSE {}

Feed == INSTANCE LatencyFeed WITH
            Subscribers <- Names, Stamps <- Clock, Cap <- NotifyCap,
            members <- reporters, queue <- FeedQueue, current <- FeedCurrent,
            due <- FeedDue, handed <- FeedHanded, got <- seen

\* The client implements the feed: what is buffered goes, in order and once, to every
\* reporter that stays registered while it is delivered, through suspensions, changes of the
\* reporters, failed queries and the end of the run (client.go:432-449, 471-526).
FeedImplemented == Feed!Spec
==============================================================================
