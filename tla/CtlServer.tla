------------------------------ MODULE CtlServer ------------------------------
(****************************************************************************)
(* The process of the report command (src/cli/latencytool/cmd): main, the    *)
(* control server that executes commands (src/ctl/server.go, cmd.go), the    *)
(* latency clients that it stops and starts (src/client.go), the sink files  *)
(* that hand a report on to the next client, and the plugins (PluginHost).   *)
(*                                                                          *)
(* Clients are numbered as they are made; 1 is the one of the command line,  *)
(* which main starts only after it has loaded and attached its plugins, with *)
(* the server at work already.  What is inside a client is LatencyClient:    *)
(* here its querier passes the gate, asks, and sinks what it got, and its    *)
(* reporter calls the plugins.                                               *)
(****************************************************************************)
EXTENDS PluginHost, FiniteSets

CONSTANTS
    Menu,        \* the commands that clients send
    MaxCmds,     \* bound of the model on the commands executed
    MaxClients,  \* bound of the model on the clients made
    MaxReports,  \* bound of the model on the reports measured
    Cfgs,        \* query configurations
    Sinks,       \* paths of sink files
    Flagged,     \* the sets of plugins the command line may name
    None

Clients == 1..MaxClients
\* intv: 0 is a run of one query
Settings == [cfg : Cfgs, sink : Sinks \cup {None}, intv : 0..2]
\* the argument that "start" is given; "cfg": the address or a part of the configuration
Starts == {"plain", "cfg", "interval", "once", "sink"}
Commands == {"start", "stop", "suspend", "resume", "config", "period", "plugin", "unplugin"}
\* the call of a plugin by a reporter; found: its container had functions when it was picked
Calls == [by : Clients, of : Given, found : BOOLEAN, at : {"picked", "entered", "hung"}]
\* a plugin that main is loading, or an entry that its Range has read
Visits == [of : Given, found : BOOLEAN]

ASSUME MenuAssumption == Menu \subseteq Commands
ASSUME BoundsAssumption == MaxCmds \in Nat /\ MaxClients \in Nat \ {0} /\ MaxReports \in Nat
ASSUME FlaggedAssumption == Flagged \subseteq SUBSET Given /\ {} \notin Flagged
ASSUME NoneAssumption ==
    /\ None \notin Given \cup Clients \cup Sinks /\ None \notin 0..2
    /\ None \notin Settings /\ None \notin Calls /\ None \notin Visits

VARIABLES
    main,      \* where the goroutine of the command line is
    loop,      \* where runForever is
    cmd,       \* the argument of the command under execution
    executed,  \* number of commands taken
    signalled, \* the context of the process is done
    busy,      \* runForever was not waiting when the signal came (history)
    once,      \* stopOnce of the server
    closed,    \* hdlCommands of the handler is closed
    handlers,  \* svr.handlers is not nil
    instance,  \* the client the server and main share
    phase,     \* phase[i]: "none", "made", "on", "stopping", "off"
    querier,   \* querier[i]: what it is doing; "gate": it waits there, or is about to
    suspended, \* suspended[i]: the gate is closed
    set,       \* set[i]: the settings of client i
    report,    \* report[i]: its last report, 0 if there is none
    attached,  \* attached[i]: plugins among its reporters
    leaked,    \* leaked[i]: a count nobody takes back keeps its Join waiting
    file,      \* file[p]: the report in a sink file, 0 if there is none that can be read
    unsaved,   \* unsaved[i]: the last write of its sink file failed (history)
    stored,    \* the settings the server keeps for the next start
    spoilt,    \* a start that failed has changed what is stored (history)
    call,      \* the plugin a reporter is calling
    late,      \* late[g]: calls that began after g was unplugged (history)
    early,     \* a plugin was loaded or unloaded before main had attached its own (history)
    todo,      \* plugins of the command line that main has still to load
    visit,     \* the plugin that main is at
    seen,      \* plugins that the Range of main has visited
    due,       \* those that were registered when it began
    target,    \* the client main is waiting for
    crash      \* "none", or the panic that ended the process

loopVars == <<loop, cmd, executed>>
endVars == <<signalled, busy, once, closed, handlers>>
runVars == <<phase, querier, suspended>>
sinkVars == <<report, file, unsaved>>
reporterVars == <<attached, leaked>>
clientVars == <<runVars, set, sinkVars, reporterVars>>
savedVars == <<instance, stored, spoilt>>
callVars == <<call, late, early>>
rangeVars == <<visit, seen, due>>
mainVars == <<main, todo, rangeVars, target>>
vars == <<loopVars, endVars, clientVars, savedVars, callVars, mainVars, hostVars, crash>>

LoopLabels == {"top", "select", "blocked", "delete", "release", "deferStop", "clear", "gone",
               "stop", "stopJoin", "start", "run", "publish", "connect", "suspend", "resume",
               "config", "period", "send", "plugin", "open", "initPlugin", "add", "unplugin",
               "unregister", "destory", "joinPlugin", "hung"}
\* main before it has attached the plugins of the command line
Attaching == {"load", "open", "initPlugin", "range", "attach"}
\* main before it takes anything down
Serving == Attaching \cup {"start", "wait"}
MainLabels == Serving \cup {"plugins", "destory", "joinPlugin", "hung", "svrStop", "clear", "client",
                            "stop", "join", "exit0", "exit1"}
Panics == {"doubleClose", "sliceBounds", "nilInterval", "nilFunction", "nilCancel", "nilApi"}

Exited == main \in {"exit0", "exit1"}
Alive == crash = "none" /\ ~Exited
Made == {i \in Clients : phase[i] # "none"}
\* the client made last
Newest == Cardinality(Made)
Sinking == {i \in Clients : querier[i] = "sink"}
\* a call of a reporter that never returns
CallHung(i) == call # None /\ call.by = i /\ call.at = "hung"
\* the gate was closed behind the end of the client: nobody opens it any more
Stranded(i) == phase[i] = "stopping" /\ querier[i] = "gate" /\ suspended[i]

\* Every value has its type; the client that is shared has been made, and no reporter of a
\* client that has ended is in a call.
TypeOK ==
    /\ main \in MainLabels /\ loop \in LoopLabels
    /\ cmd \in Given \cup Starts \cup {None} /\ executed \in 0..MaxCmds
    /\ signalled \in BOOLEAN /\ busy \in BOOLEAN /\ once \in {"free", "busy", "used"}
    /\ closed \in BOOLEAN /\ handlers \in BOOLEAN
    /\ instance \in Made \cup {None}
    /\ phase \in [Clients -> {"none", "made", "on", "stopping", "off"}]
    /\ querier \in [Clients -> {"idle", "gate", "query", "sink"}]
    /\ suspended \in [Clients -> BOOLEAN] /\ unsaved \in [Clients -> BOOLEAN]
    /\ set \in [Clients -> Settings] /\ stored \in Settings \cup {None}
    /\ report \in [Clients -> 0..MaxReports] /\ file \in [Sinks -> 0..MaxReports]
    /\ attached \in [Clients -> SUBSET Given] /\ leaked \in [Clients -> BOOLEAN]
    /\ spoilt \in BOOLEAN
    /\ call \in Calls \cup {None}
    /\ call # None => phase[call.by] # "off"
    /\ late \in [Given -> 0..2 \cup {None}] /\ early \in BOOLEAN
    /\ todo \subseteq Given /\ visit \in Visits \cup {None}
    /\ seen \subseteq Libs /\ due \subseteq Libs /\ target \in Clients \cup {None}
    /\ crash \in Panics \cup {"none"}
    /\ HostOK

----------------------------------------------------------------------------
\* PersistentPreRunE has made the client and started the server; no plugin is loaded yet.
Init ==
    /\ main = "load" /\ loop = "top" /\ cmd = None /\ executed = 0
    /\ signalled = FALSE /\ busy = FALSE
    /\ once = "free" /\ closed = FALSE /\ handlers = TRUE
    /\ instance = 1 /\ stored = None /\ spoilt = FALSE
    /\ phase = [i \in Clients |-> IF i = 1 THEN "made" ELSE "none"]
    /\ querier = [i \in Clients |-> "idle"] /\ suspended = [i \in Clients |-> FALSE]
    /\ \E s \in {t \in Settings : t.intv < 2} : set = [i \in Clients |-> s]
    /\ report = [i \in Clients |-> 0] /\ unsaved = [i \in Clients |-> FALSE]
    /\ file = [p \in Sinks |-> 0]
    /\ attached = [i \in Clients |-> {}] /\ leaked = [i \in Clients |-> FALSE]
    /\ call = None /\ late = [g \in Given |-> None] /\ early = FALSE
    /\ todo \in Flagged /\ visit = None /\ seen = {} /\ due = {}
    /\ target = None /\ crash = "none"
    /\ HostInit

----------------------------------------------------------------------------
\* runForever

LoopAt(l) == Alive /\ loop = l
Answered == loop' = "top" /\ cmd' = None /\ UNCHANGED executed
GoOn(l) == loop' = l /\ UNCHANGED <<cmd, executed>>
Panic(p) == crash' = p /\ UNCHANGED loopVars

\* the context is looked at before each round
Top ==
    /\ LoopAt("top")
    /\ GoOn(IF signalled THEN "release" ELSE "select")
    /\ UNCHANGED <<endVars, clientVars, savedVars, callVars, mainVars, hostVars, crash>>

\* nothing leaves the loop once the handlers have been released: it is here again
Release ==
    /\ LoopAt("release")
    /\ IF handlers /\ closed THEN Panic("doubleClose") /\ UNCHANGED closed
       ELSE /\ GoOn("top")
            /\ closed' = (closed \/ handlers)
            /\ UNCHANGED crash
    /\ UNCHANGED <<signalled, busy, once, handlers, clientVars, savedVars, callVars, mainVars, hostVars>>

Block ==
    /\ LoopAt("select") /\ ~signalled
    /\ GoOn("blocked")
    /\ UNCHANGED <<endVars, clientVars, savedVars, callVars, mainVars, hostVars, crash>>

\* a select that starts after the signal may take it, a command or the closed channel
TakeDone ==
    /\ LoopAt("select") /\ signalled
    /\ GoOn("deferStop")
    /\ UNCHANGED <<endVars, clientVars, savedVars, callVars, mainVars, hostVars, crash>>

TakeClosed ==
    /\ LoopAt("select") /\ handlers /\ closed
    /\ GoOn("delete")
    /\ UNCHANGED <<endVars, clientVars, savedVars, callVars, mainVars, hostVars, crash>>

\* slices.Delete(handlers, idx, idx) deletes nothing, and does not accept the nil that Stop
\* of main may have put there
DeleteHandler ==
    /\ LoopAt("delete")
    /\ IF handlers THEN GoOn("top") /\ UNCHANGED crash ELSE Panic("sliceBounds")
    /\ UNCHANGED <<endVars, clientVars, savedVars, callVars, mainVars, hostVars>>

Args(c) ==
    CASE c = "start" -> Starts
      [] c \in {"plugin", "unplugin"} -> Given
      [] OTHER -> {None}

\* A command is received and, unless there is no client for it, executed; the model has no
\* start for which there is no client left.
TakeCommand(c, a) ==
    /\ Alive /\ loop \in {"select", "blocked"} /\ handlers
    /\ executed < MaxCmds /\ executed' = executed + 1
    /\ c = "start" => instance # None \/ Newest < MaxClients
    /\ IF instance = None /\ c # "start"
       THEN loop' = "top" /\ cmd' = None
       ELSE loop' = c /\ cmd' = a
    /\ early' = (early \/ (c \in {"plugin", "unplugin"} /\ main \in Attaching))
    /\ UNCHANGED <<endVars, clientVars, savedVars, call, late, mainVars, hostVars, crash>>

----------------------------------------------------------------------------
\* stopOnce: its first caller closes the channel of the handler and then drops the handler,
\* the other waits for it

EnterOnce ==
    /\ once' = "busy"
    /\ IF closed THEN crash' = "doubleClose" /\ UNCHANGED closed
       ELSE closed' = TRUE /\ UNCHANGED crash

\* fault: Stop without its Once
EnterAgain == once \in {"free", "used"} /\ EnterOnce
EnterStop == once = "free" /\ EnterOnce

\* fault: a flag in place of the Once that its first caller does not set when it is done
LeaveBusy == handlers' = FALSE /\ UNCHANGED once
LeaveStop == once' = "used" /\ handlers' = FALSE

DeferStop ==
    /\ LoopAt("deferStop")
    /\ \/ EnterStop /\ GoOn("clear")
       \/ once = "used" /\ GoOn("gone") /\ UNCHANGED <<once, closed, crash>>
    /\ UNCHANGED <<signalled, busy, handlers, clientVars, savedVars, callVars, mainVars, hostVars>>

DeferClear ==
    /\ LoopAt("clear")
    /\ LeaveStop /\ GoOn("gone")
    /\ UNCHANGED <<signalled, busy, closed, clientVars, savedVars, callVars, mainVars, hostVars, crash>>

----------------------------------------------------------------------------
\* the commands

NoInterval(i) == phase[i] = "made" \/ set[i].intv = 0
\* cancelRun, once for each client, opens the gate after it has ended the run
StopClient(i) ==
    /\ phase' = [phase EXCEPT ![i] = IF @ = "on" THEN "stopping" ELSE @]
    /\ suspended' = [suspended EXCEPT ![i] = @ /\ phase[i] # "on"]
\* fault: Join does not wait for the querier
JoinAnyway(i) == ~leaked[i]
\* what Join of a client waits for
Joinable(i) == phase[i] = "off" /\ ~leaked[i]

\* fault: a stop keeps the default interval
SaveOnce(i) ==
    /\ stored' = [set[i] EXCEPT !.intv = 1]
    /\ spoilt' = FALSE
\* what a stop keeps for the next start
SaveSettings(i) == stored' = set[i] /\ spoilt' = FALSE

StopCmd ==
    /\ LoopAt("stop")
    /\ IF NoInterval(instance)
       THEN Panic("nilInterval") /\ UNCHANGED <<stored, spoilt, phase, suspended>>
       ELSE /\ SaveSettings(instance) /\ StopClient(instance)
            /\ GoOn("stopJoin")
            /\ UNCHANGED crash
    /\ UNCHANGED <<instance, endVars, querier, set, sinkVars, reporterVars, callVars, mainVars, hostVars>>

StopJoin ==
    /\ LoopAt("stopJoin") /\ Joinable(instance)
    /\ instance' = None
    /\ Answered
    /\ UNCHANGED <<stored, spoilt, endVars, clientVars, callVars, mainVars, hostVars, crash>>

\* An argument may be refused, and Init may always fail: the service is not reached, the sink
\* file not read.  An address or a part of the configuration has been stored by then.
StartFails ==
    /\ LoopAt("start")
    /\ \/ (instance # None \/ cmd # "cfg") /\ UNCHANGED <<stored, spoilt>>
       \/ /\ instance = None /\ cmd = "cfg"
          /\ \E c \in Cfgs : stored' = [stored EXCEPT !.cfg = c]
          /\ spoilt' = (spoilt \/ stored' # stored)
    /\ Answered
    /\ UNCHANGED <<instance, endVars, clientVars, callVars, mainVars, hostVars, crash>>

StartSettings(a) ==
    CASE a = "cfg" -> {[stored EXCEPT !.cfg = c] : c \in Cfgs}
      [] a = "interval" -> {[stored EXCEPT !.intv = v] : v \in 1..2}
      [] a = "once" -> {[stored EXCEPT !.intv = 0]}
      [] a = "sink" -> {[stored EXCEPT !.sink = p] : p \in Sinks \cup {None}}
      [] a = "plain" -> {stored}

\* what a client with the settings s recovers: a file that is being written cannot be read
Recovered(s) ==
    IF s.sink = None \/ (\E i \in Sinking : set[i].sink = s.sink) THEN 0 ELSE file[s.sink]

\* the new client is initialised with the stored configuration itself
StartInit ==
    /\ LoopAt("start") /\ instance = None
    /\ LET n == Newest + 1
       IN  /\ phase' = [phase EXCEPT ![n] = "made"]
           /\ \E s \in StartSettings(cmd) :
                 /\ set' = [set EXCEPT ![n] = s]
                 /\ stored' = [stored EXCEPT !.cfg = s.cfg]
                 /\ report' = [report EXCEPT ![n] = Recovered(s)]
    /\ GoOn("run")
    /\ UNCHANGED <<instance, spoilt, endVars, querier, suspended, reporterVars, file, unsaved, callVars, mainVars, hostVars, crash>>

\* fault: the client is published before it runs
PublishFirst ==
    /\ LoopAt("run")
    /\ GoOn("publish")
    /\ UNCHANGED <<endVars, clientVars, savedVars, callVars, mainVars, hostVars, crash>>

StartRun ==
    /\ LoopAt("run")
    /\ phase' = [phase EXCEPT ![Newest] = "on"]
    /\ GoOn("publish")
    /\ UNCHANGED <<endVars, querier, suspended, set, sinkVars, reporterVars, savedVars, callVars, mainVars, hostVars, crash>>

StartPublish ==
    /\ LoopAt("publish")
    /\ instance' = Newest
    /\ GoOn("connect")
    /\ UNCHANGED <<stored, spoilt, endVars, clientVars, callVars, mainVars, hostVars, crash>>

\* the count of a reporter added to a client that has ended is taken back by nobody
Counted(i) == leaked' = [leaked EXCEPT ![i] = @ \/ phase[i] = "off"]

\* connectReporter, then GetInterval for the answer
StartConnect ==
    /\ LoopAt("connect")
    /\ Counted(instance)
    /\ IF set[instance].intv = 0 THEN Panic("nilInterval") ELSE Answered /\ UNCHANGED crash
    /\ UNCHANGED <<endVars, runVars, set, sinkVars, attached, savedVars, callVars, mainVars, hostVars>>

\* suspend and resume are one step here: what happens inside them is LatencyClient's
SuspendCmd ==
    /\ LoopAt("suspend")
    /\ suspended' = [suspended EXCEPT ![instance] = TRUE]
    /\ Answered
    /\ UNCHANGED <<endVars, phase, querier, set, sinkVars, reporterVars, savedVars, callVars, mainVars, hostVars, crash>>

ResumeCmd ==
    /\ LoopAt("resume")
    /\ suspended' = [suspended EXCEPT ![instance] = FALSE]
    /\ Answered
    /\ UNCHANGED <<endVars, phase, querier, set, sinkVars, reporterVars, savedVars, callVars, mainVars, hostVars, crash>>

ConfigCmd ==
    /\ LoopAt("config")
    /\ \E c \in Cfgs : set' = [set EXCEPT ![instance].cfg = c]
    /\ GoOn("send")
    /\ UNCHANGED <<endVars, runVars, sinkVars, reporterVars, savedVars, callVars, mainVars, hostVars, crash>>

PeriodCmd ==
    /\ LoopAt("period")
    /\ IF NoInterval(instance)
       THEN Panic("nilInterval") /\ UNCHANGED set
       ELSE /\ \E v \in 1..2 : set' = [set EXCEPT ![instance].intv = v]
            /\ GoOn("send")
            /\ UNCHANGED crash
    /\ UNCHANGED <<endVars, runVars, sinkVars, reporterVars, savedVars, callVars, mainVars, hostVars>>

\* reQuery is received by a querier that waits for its next round
SendReQuery ==
    /\ LoopAt("send")
    /\ phase[instance] = "on" /\ querier[instance] = "idle" /\ set[instance].intv > 0
    /\ Answered
    /\ UNCHANGED <<endVars, clientVars, savedVars, callVars, mainVars, hostVars, crash>>

----------------------------------------------------------------------------
\* plugin: NewPlugin registers and opens, then Init, then AddReporter under the given name

PluginCmd ==
    /\ LoopAt("plugin")
    /\ \/ Registered(Base[cmd]) /\ Answered /\ UNCHANGED hostVars
       \/ StorePlugin(Base[cmd]) /\ GoOn("open")
    /\ UNCHANGED <<endVars, clientVars, savedVars, callVars, mainVars, crash>>

PluginOpen ==
    /\ LoopAt("open")
    /\ \/ OpenPlugin(Base[cmd]) /\ GoOn("initPlugin")
       \/ Answered /\ UNCHANGED hostVars
    /\ UNCHANGED <<endVars, clientVars, savedVars, callVars, mainVars, crash>>

PluginInit ==
    /\ LoopAt("initPlugin")
    /\ \/ InitPlugin(Base[cmd]) /\ GoOn("add")
       \/ InitFails(Base[cmd]) /\ Answered
    /\ UNCHANGED <<endVars, clientVars, savedVars, callVars, mainVars, crash>>

PluginAdd ==
    /\ LoopAt("add")
    /\ IF cmd \in attached[instance] THEN UNCHANGED <<attached, leaked, late>>
       ELSE /\ attached' = [attached EXCEPT ![instance] = @ \cup {cmd}]
            /\ late' = [late EXCEPT ![cmd] = None]
            /\ Counted(instance)
    /\ Answered
    /\ UNCHANGED <<endVars, runVars, set, sinkVars, savedVars, call, early, mainVars, hostVars, crash>>

----------------------------------------------------------------------------
\* unplugin: DelReporter, GetAndUnRegisterPlugin, then Stop and Join of the container

\* fault: the entry stays
KeepReporter(i, g) == UNCHANGED <<attached, leaked>>
\* DelReporter leaves the count to the reporter's end, which finds the entry no more
DeleteReporter(i, g) ==
    /\ attached' = [attached EXCEPT ![i] = @ \ {g}]
    /\ leaked' = [leaked EXCEPT ![i] = @ \/ phase[i] # "off"]

UnpluginCmd ==
    /\ LoopAt("unplugin")
    /\ IF cmd \in attached[instance]
       THEN /\ DeleteReporter(instance, cmd)
            /\ late' = [late EXCEPT ![cmd] = 0]
            /\ GoOn("unregister")
       ELSE Answered /\ UNCHANGED <<attached, leaked, late>>
    /\ UNCHANGED <<endVars, runVars, set, sinkVars, savedVars, call, early, mainVars, hostVars, crash>>

\* the Stop that follows needs the function of the container
UnpluginUnregister ==
    /\ LoopAt("unregister")
    /\ \/ UnregisterPlugin(cmd) /\ registry[cmd] # "broken" /\ GoOn("destory") /\ UNCHANGED crash
       \/ UnregisterPlugin(cmd) /\ registry[cmd] = "broken" /\ Panic("nilFunction")
       \/ ~(cmd \in Libs /\ Registered(cmd)) /\ Answered /\ UNCHANGED <<hostVars, crash>>
    /\ UNCHANGED <<endVars, clientVars, savedVars, callVars, mainVars>>

\* what the vendor's method does with an api that is nil is not known: it may return, as if
\* there were one, panic, or never return
LoopLost(n) ==
    /\ NoApi(n) /\ UNCHANGED hostVars
    /\ \/ Panic("nilApi")
       \/ GoOn("hung") /\ UNCHANGED crash

UnpluginDestory ==
    /\ LoopAt("destory")
    /\ \/ StopPlugin(cmd) /\ GoOn("joinPlugin") /\ UNCHANGED crash
       \/ NoCancel(cmd) /\ Panic("nilCancel") /\ UNCHANGED hostVars
       \/ LoopLost(cmd)
    /\ UNCHANGED <<endVars, clientVars, savedVars, callVars, mainVars>>

UnpluginJoin ==
    /\ LoopAt("joinPlugin")
    /\ \/ JoinPlugin(cmd) /\ Answered /\ UNCHANGED crash
       \/ LoopLost(cmd)
    /\ UNCHANGED <<endVars, clientVars, savedVars, callVars, mainVars>>

----------------------------------------------------------------------------
\* a client: its querier and its reporter

\* the context has been looked at, and the gate is next
Look(i) ==
    /\ Alive /\ phase[i] = "on" /\ ~signalled
    /\ querier[i] = "idle" /\ report[i] < MaxReports
    /\ querier' = [querier EXCEPT ![i] = "gate"]
    /\ UNCHANGED <<loopVars, endVars, phase, suspended, set, sinkVars, reporterVars, savedVars, callVars, mainVars, hostVars, crash>>

\* behind the gate the context is looked at again
Pass(i) ==
    /\ Alive /\ querier[i] = "gate" /\ ~suspended[i]
    /\ querier' = [querier EXCEPT ![i] = IF phase[i] = "on" /\ ~signalled THEN "query" ELSE "idle"]
    /\ UNCHANGED <<loopVars, endVars, phase, suspended, set, sinkVars, reporterVars, savedVars, callVars, mainVars, hostVars, crash>>

\* a run of one query ends with it
AfterQuery(i) ==
    IF set[i].intv = 0 THEN StopClient(i) ELSE UNCHANGED <<phase, suspended>>

\* an error: a run of one query asks for the interval it does not have
AskFails(i) ==
    /\ Alive /\ querier[i] = "query"
    /\ IF set[i].intv = 0 THEN crash' = "nilInterval" /\ UNCHANGED querier
       ELSE querier' = [querier EXCEPT ![i] = "idle"] /\ UNCHANGED crash
    /\ UNCHANGED <<loopVars, endVars, phase, suspended, set, sinkVars, reporterVars, savedVars, callVars, mainVars, hostVars>>

\* an answer with nothing measured: the last report is published once more
AskIdly(i) ==
    /\ Alive /\ querier[i] = "query"
    /\ querier' = [querier EXCEPT ![i] = "idle"]
    /\ AfterQuery(i)
    /\ UNCHANGED <<loopVars, endVars, set, sinkVars, reporterVars, savedVars, callVars, mainVars, hostVars, crash>>

\* the report is stored before the file is truncated and written
Measure(i) ==
    /\ Alive /\ querier[i] = "query"
    /\ report' = [report EXCEPT ![i] = @ + 1]
    /\ IF set[i].sink = None
       THEN querier' = [querier EXCEPT ![i] = "idle"] /\ AfterQuery(i)
       ELSE querier' = [querier EXCEPT ![i] = "sink"] /\ UNCHANGED <<phase, suspended>>
    /\ UNCHANGED <<loopVars, endVars, set, file, unsaved, reporterVars, savedVars, callVars, mainVars, hostVars, crash>>

\* a write that fails is logged: it leaves the file as it was, or one that cannot be read
Sink(i) ==
    /\ Alive /\ querier[i] = "sink"
    /\ \/ /\ file' = [file EXCEPT ![set[i].sink] = report[i]]
          /\ unsaved' = [unsaved EXCEPT ![i] = FALSE]
       \/ /\ \E r \in {file[set[i].sink], 0} : file' = [file EXCEPT ![set[i].sink] = r]
          /\ unsaved' = [unsaved EXCEPT ![i] = TRUE]
    /\ querier' = [querier EXCEPT ![i] = "idle"]
    /\ AfterQuery(i)
    /\ UNCHANGED <<loopVars, endVars, set, report, reporterVars, savedVars, callVars, mainVars, hostVars, crash>>

\* fault: the reporter may still be in a call
EndedEarly(i) == querier[i] = "idle"
\* the querier has returned, and the reporter has sent what was left
Ended(i) == querier[i] = "idle" /\ ~(call # None /\ call.by = i)

\* a querier that finds the context done ends the run; after it nobody looks at the gate
Finish(i) ==
    /\ Alive /\ phase[i] \in {"on", "stopping"}
    /\ phase[i] = "on" => signalled
    /\ Ended(i)
    /\ phase' = [phase EXCEPT ![i] = "off"]
    /\ suspended' = [suspended EXCEPT ![i] = FALSE]
    /\ UNCHANGED <<loopVars, endVars, querier, set, sinkVars, reporterVars, savedVars, callVars, mainVars, hostVars, crash>>

\* Range has read the entry of a plugin; it may be unplugged before it is called
Pick(i, g) ==
    /\ Alive /\ phase[i] \in {"on", "stopping"} /\ call = None
    /\ g \in attached[i]
    /\ call' = [by |-> i, of |-> g, found |-> registry[Base[g]] # "broken", at |-> "picked"]
    /\ UNCHANGED <<loopVars, endVars, clientVars, savedVars, late, early, mainVars, hostVars, crash>>

Enter ==
    /\ Alive /\ call # None /\ call.at = "picked"
    /\ \E a \in IF NoApi(Base[call.of]) THEN {"entered", "hung"} ELSE {"entered"} :
          call' = [call EXCEPT !.at = a]
    /\ late' = [late EXCEPT ![call.of] = IF @ \in 0..1 THEN @ + 1 ELSE @]
    /\ UNCHANGED <<loopVars, endVars, clientVars, savedVars, early, mainVars, hostVars, crash>>

\* a call of a function that was not found, unless it has been since, or on an api that is nil
EnterPanics ==
    /\ Alive /\ call # None /\ call.at = "picked"
    /\ \/ ~call.found /\ crash' = "nilFunction"
       \/ NoApi(Base[call.of]) /\ crash' = "nilApi"
    /\ UNCHANGED <<loopVars, endVars, clientVars, savedVars, callVars, mainVars, hostVars>>

Return ==
    /\ Alive /\ call # None /\ call.at = "entered"
    /\ call' = None
    /\ UNCHANGED <<loopVars, endVars, clientVars, savedVars, late, early, mainVars, hostVars, crash>>

----------------------------------------------------------------------------
\* the goroutine of the command line: it loads the plugins it was given and initialises them

MainAt(l) == Alive /\ main = l
MainGoes(l) == main' = l /\ UNCHANGED <<todo, rangeVars, target>>

\* there is a configuration for each plugin, and no other of its name
MainLoad(g) ==
    /\ MainAt("load") /\ g \in todo
    /\ \/ /\ StorePlugin(Base[g]) /\ main' = "open"
          /\ todo' = todo \ {g} /\ visit' = [of |-> g, found |-> FALSE]
          /\ UNCHANGED <<seen, due, target>>
       \/ MainGoes("exit1") /\ UNCHANGED hostVars
    /\ UNCHANGED <<loopVars, endVars, clientVars, savedVars, callVars, crash>>

MainOpen ==
    /\ MainAt("open")
    /\ \/ OpenPlugin(Base[visit.of]) /\ MainGoes("initPlugin")
       \/ MainGoes("exit1") /\ UNCHANGED hostVars
    /\ UNCHANGED <<loopVars, endVars, clientVars, savedVars, callVars, crash>>

MainInit ==
    /\ MainAt("initPlugin")
    /\ \/ InitPlugin(Base[visit.of]) /\ MainGoes("load")
       \/ MainGoes("exit1") /\ UNCHANGED hostVars
    /\ UNCHANGED <<loopVars, endVars, clientVars, savedVars, callVars, crash>>

----------------------------------------------------------------------------
\* RangePlugins: it visits the entries that were there when it began, unless they are gone, and
\* perhaps some that came since

RangeBegins(l) ==
    /\ main' = l /\ seen' = {} /\ due' = {n \in Libs : Registered(n)} /\ visit' = None
    /\ UNCHANGED <<todo, target>>
Unseen == {n \in Libs \ seen : Registered(n)}

MainVisit(n) ==
    /\ MainAt("range") \/ MainAt("plugins")
    /\ n \in Unseen
    /\ main' = IF main = "range" THEN "attach" ELSE "destory"
    /\ visit' = [of |-> n, found |-> registry[n] # "broken"]
    /\ seen' = seen \cup {n}
    /\ UNCHANGED <<todo, due, target, loopVars, endVars, clientVars, savedVars, callVars, hostVars, crash>>

\* RunE attaches whatever is registered to the client, under the name it is registered by
MainRange ==
    /\ MainAt("load") /\ todo = {}
    /\ RangeBegins("range")
    /\ UNCHANGED <<loopVars, endVars, clientVars, savedVars, callVars, hostVars, crash>>

MainAttach ==
    /\ MainAt("attach")
    /\ IF visit.of \in attached[1] THEN MainGoes("exit1") /\ UNCHANGED <<attached, late>>
       ELSE /\ attached' = [attached EXCEPT ![1] = @ \cup {visit.of}]
            /\ late' = [late EXCEPT ![visit.of] = None]
            /\ MainGoes("range")
    /\ UNCHANGED <<loopVars, endVars, runVars, set, sinkVars, leaked, savedVars, call, early, hostVars, crash>>

MainAttached ==
    /\ MainAt("range") /\ Unseen \cap due = {}
    /\ MainGoes("start")
    /\ UNCHANGED <<loopVars, endVars, clientVars, savedVars, callVars, hostVars, crash>>

MainStart ==
    /\ MainAt("start")
    /\ phase' = [phase EXCEPT ![1] = "on"]
    /\ MainGoes("wait")
    /\ UNCHANGED <<loopVars, endVars, querier, suspended, set, sinkVars, reporterVars, savedVars, callVars, hostVars, crash>>

\* Join of the server waits for the handlers, whose context ends with the process's; then
\* PostRun stops and joins the plugins that its Range finds
MainWait ==
    /\ MainAt("wait") /\ signalled
    /\ RangeBegins("plugins")
    /\ UNCHANGED <<loopVars, endVars, clientVars, savedVars, callVars, hostVars, crash>>

MainLost(n) ==
    /\ NoApi(n) /\ UNCHANGED hostVars
    /\ \/ crash' = "nilApi" /\ UNCHANGED mainVars
       \/ MainGoes("hung") /\ UNCHANGED crash

\* the function is missing if the container that was read has none yet
MainDestory ==
    /\ MainAt("destory")
    /\ LET n == visit.of
           missing == ~visit.found /\ registry[n] = "broken"
       IN  \/ missing /\ crash' = "nilFunction" /\ UNCHANGED <<hostVars, mainVars>>
           \/ /\ ~missing
              /\ \/ StopPlugin(n) /\ MainGoes("joinPlugin") /\ UNCHANGED crash
                 \/ NoCancel(n) /\ crash' = "nilCancel" /\ UNCHANGED <<hostVars, mainVars>>
                 \/ MainLost(n)
    /\ UNCHANGED <<loopVars, endVars, clientVars, savedVars, callVars>>

MainJoinPlugin ==
    /\ MainAt("joinPlugin")
    /\ \/ JoinPlugin(visit.of) /\ MainGoes("plugins") /\ UNCHANGED crash
       \/ MainLost(visit.of)
    /\ UNCHANGED <<loopVars, endVars, clientVars, savedVars, callVars>>

MainPluginsDone ==
    /\ MainAt("plugins") /\ Unseen \cap due = {}
    /\ MainGoes("svrStop")
    /\ UNCHANGED <<loopVars, endVars, clientVars, savedVars, callVars, hostVars, crash>>

MainStopServer ==
    /\ MainAt("svrStop")
    /\ \/ EnterStop /\ MainGoes("clear")
       \/ once = "used" /\ MainGoes("client") /\ UNCHANGED <<once, closed, crash>>
    /\ UNCHANGED <<loopVars, signalled, busy, handlers, clientVars, savedVars, callVars, hostVars>>

MainClear ==
    /\ MainAt("clear")
    /\ LeaveStop /\ MainGoes("client")
    /\ UNCHANGED <<loopVars, signalled, busy, closed, clientVars, savedVars, callVars, hostVars, crash>>

MainClient ==
    /\ MainAt("client")
    /\ main' = IF instance = None THEN "exit1" ELSE "stop"
    /\ target' = instance
    /\ UNCHANGED <<todo, rangeVars, loopVars, endVars, clientVars, savedVars, callVars, hostVars, crash>>

MainStop ==
    /\ MainAt("stop")
    /\ StopClient(target)
    /\ MainGoes("join")
    /\ UNCHANGED <<loopVars, endVars, querier, set, sinkVars, reporterVars, savedVars, callVars, hostVars, crash>>

MainJoin ==
    /\ MainAt("join") /\ Joinable(target)
    /\ MainGoes("exit0")
    /\ UNCHANGED <<loopVars, endVars, clientVars, savedVars, callVars, hostVars, crash>>

\* a signal: the select that waits is served at once
Interrupt ==
    /\ Alive /\ ~signalled
    /\ signalled' = TRUE
    /\ busy' = (loop # "blocked")
    /\ loop' = IF loop = "blocked" THEN "deferStop" ELSE loop
    /\ UNCHANGED <<cmd, executed, once, closed, handlers, clientVars, savedVars, callVars, mainVars, hostVars, crash>>

----------------------------------------------------------------------------
LoopStep ==
    \/ Top \/ Release \/ Block \/ TakeDone \/ TakeClosed \/ DeleteHandler
    \/ DeferStop \/ DeferClear
    \/ StopCmd \/ StopJoin
    \/ StartFails \/ StartInit \/ StartRun \/ StartPublish \/ StartConnect
    \/ SuspendCmd \/ ResumeCmd \/ ConfigCmd \/ PeriodCmd \/ SendReQuery
    \/ PluginCmd \/ PluginOpen \/ PluginInit \/ PluginAdd
    \/ UnpluginCmd \/ UnpluginUnregister \/ UnpluginDestory \/ UnpluginJoin

Command == \E c \in Menu : \E a \in Args(c) : TakeCommand(c, a)

Answer(i) == Pass(i) \/ AskFails(i) \/ AskIdly(i) \/ Measure(i) \/ Sink(i)

CallStep == Enter \/ EnterPanics \/ Return

MainStep ==
    \/ \E g \in Given : MainLoad(g)
    \/ MainOpen \/ MainInit \/ MainRange \/ MainAttach \/ MainAttached \/ MainStart
    \/ \E n \in Libs : MainVisit(n)
    \/ MainWait \/ MainDestory \/ MainJoinPlugin \/ MainPluginsDone
    \/ MainStopServer \/ MainClear \/ MainClient \/ MainStop \/ MainJoin

Next ==
    \/ LoopStep \/ Command \/ CallStep \/ MainStep \/ Interrupt
    \/ \E i \in Clients : Look(i) \/ Answer(i) \/ Finish(i)
    \/ \E i \in Clients, g \in Given : Pick(i, g)

Spec == Init /\ [][Next]_vars

\* What the scheduler and the vendor's calls grant: every goroutine that can go on does.  A
\* query returns at the latest when the run is over, whose context it has (client.go:182), and a
\* call on an api that is there returns.  The end of a client needs its reporter between two
\* calls, and what is left in its notify channel is finite.
Fairness ==
    /\ WF_vars(LoopStep) /\ WF_vars(MainStep) /\ WF_vars(CallStep)
    /\ \A i \in Clients : WF_vars(Answer(i)) /\ SF_vars(Finish(i))

FairSpec == Spec /\ Fairness

----------------------------------------------------------------------------
\* Properties

\* A signal that finds the server waiting for a command ends without a panic of the shutdown:
\* the loop and main both release the handlers (server.go:154, root.go:281), through one Once.
\* Only a loop that was executing comes back to line 206 and releases what is released.
CleanStop == crash \in {"doubleClose", "sliceBounds"} => busy

\* Until main stops the plugins, each plugin that a running client reports to is registered,
\* found and initialised, whatever was loaded, unloaded, refused, stopped and started
\* (cmd.go:148-237): "unplugin" and the stop at the end reach what is in use.  Only a plugin or
\* unplugin command taken before main has attached the plugins of the command line breaks it:
\* main attaches every entry it finds, that of a load that failed or is under way with the others
\* (root.go:258-263, report.go:66-153).
AttachedReady ==
    main \in Serving /\ instance # None /\ ~early =>
        \A g \in attached[instance] : registry[Base[g]] = "ready"

\* Of the calls of a plugin that begin after it was unplugged there is at most the one whose
\* entry the reporter had read (client.go:523, cmd.go:212-222).
LateBound == \A g \in Given : late[g] \in {None, 0, 1}

\* The last report is carried over a stop and a start by the sink file (client.go:111-139,
\* :334-344): unless the start names another file, or the last write failed, the next client does
\* not begin with less than the one before had.
ReportSurvives ==
    \A i \in Made :
        i + 1 \in Made /\ set[i].sink # None /\ set[i + 1].sink = set[i].sink /\ ~unsaved[i]
            => report[i + 1] >= report[i]

\* When the command ends well nothing is left halfway: no write of the sink file and no call
\* of a plugin (root.go:293-296, client.go:654-658).
QuietExit == main = "exit0" => Sinking = {} /\ call = None

Began(i) == phase[i] = "none" /\ phase'[i] # "none"

\* A start without arguments runs with the settings of the client before it, unless a start
\* that failed in between has changed what was stored for it (server.go:305-309, :341-377).
PlainStart ==
    [][\A i \in Clients : Began(i) /\ cmd = "plain" /\ ~spoilt => set'[i] = set[i - 1]]_vars

\* A stop, a period command, the answer of a start or a query that fails takes the process down
\* for an interval that was never stored only with a one-shot client, or before main has started
\* the first one: a periodic client that commands find is running, whatever stops, starts and
\* failures came before (server.go:303-310, 378-398, cmd.go:59-104, client.go:415-416, 595-597).
NilIntervalIsOneShot ==
    crash = "nilInterval" => main \in Attaching \cup {"start"} \/ set[Newest].intv = 0

\* A function or a cancel that a plugin does not have takes the process down only when main stops
\* at the end one whose load or Init failed or was not done, or after a plugin or unplugin command
\* that came before main had attached its own: the globals of a library outlive its containers,
\* but however often a plugin was loaded and unloaded, "unplugin" and a report find both with one
\* that was ready (cmd.go:148-237, report.go:168-192, cplugin.go:212-257, yd4go/main.go:95-132,
\* 189-198).  It does not speak of the api: a report, a destory or a join that finds none calls a
\* method of nil, which may end the process too.
StopsReadyPlugins ==
    crash \in {"nilFunction", "nilCancel"} =>
        early \/ (main = "destory" /\ registry[visit.of] \in {"broken", "loaded"})

\* After a signal the process ends or panics, unless main waits for a plugin that does not return
\* from a call on nil, or for a client whose Join is kept by the count of a deleted or late
\* reporter, by a report that does not return, or by a querier at a gate that was closed behind the
\* end of the run (root.go:293-296, client.go:400, 655, 658-665, report.go:168-192).
SignalEnds ==
    signalled ~> \/ Exited \/ crash # "none" \/ main = "hung"
                 \/ main = "join" /\ (leaked[target] \/ CallHung(target) \/ Stranded(target))

\* The end of a client is on its way: a query is answered, a call of its reporter returns, or
\* nothing holds it any more.
Closing(i) ==
    \/ querier[i] \in {"query", "sink"} \/ (querier[i] = "gate" /\ ~suspended[i])
    \/ call # None /\ call.by = i /\ ~CallHung(i)
    \/ phase[i] \in {"on", "stopping"} /\ Ended(i)

\* After the signal main never waits for what does not come: when it must wait for the Once of
\* Stop the loop is inside it and goes on, and the client it joins was started and is ending,
\* whatever the loop was doing (server.go:154-164, root.go:281-296, client.go:652-669).  Only
\* the count of a deleted or late reporter holds it up, a report that does not return, or a gate
\* that was closed behind the end of the run.
ShutdownGoesOn ==
    signalled /\ Alive =>
        /\ main = "svrStop" /\ once = "busy" => loop = "clear"
        /\ main = "join" =>
              Joinable(target) \/ leaked[target] \/ CallHung(target) \/ Stranded(target) \/ Closing(target)

\* What is seen of the clients from outside: a ClientSuccession.
Succession == INSTANCE ClientSuccession WITH
                  Places <- Sinks, generation <- Newest, serving <- phase[Newest] # "off",
                  place <- set[Newest].sink, held <- report[Newest],
                  pending <- Newest \in Sinking, kept <- file

\* The process implements the succession: through stops, starts that fail or change the settings
\* and the sink file, failed writes, one-shot runs, plugins and the shutdown, only the newest
\* client measures and writes, it ends only after it has tried to write its last report, and the
\* next one begins with what its own sink file holds (client.go:111-139, 307-347, 652-669,
\* server.go:299-317, 319-411, root.go:293-296).
SuccessionImplemented == Succession!Spec
==============================================================================
