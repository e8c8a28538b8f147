--------------------------- MODULE CtlServerProofs ---------------------------
(* The safety of the report command, for any number of commands, clients,   *)
(* reports, configurations, sink files and plugins.                         *)
EXTENDS CtlServer, FiniteSetTheorems, TLAPS

----------------------------------------------------------------------------
\* The invariant, in parts

LoopTypes ==
    /\ loop \in LoopLabels /\ executed \in 0..MaxCmds
    /\ cmd \in Given \cup Starts \cup {None}
MainTypes ==
    /\ main \in MainLabels /\ todo \subseteq Given /\ visit \in Visits \cup {None}
    /\ seen \subseteq Libs /\ due \subseteq Libs /\ target \in Clients \cup {None}
EndTypes ==
    /\ signalled \in BOOLEAN /\ busy \in BOOLEAN /\ once \in {"free", "busy", "used"}
    /\ closed \in BOOLEAN /\ handlers \in BOOLEAN
    /\ crash \in Panics \cup {"none"}
RunTypes ==
    /\ phase \in [Clients -> {"none", "made", "on", "stopping", "off"}]
    /\ querier \in [Clients -> {"idle", "gate", "query", "sink"}]
    /\ suspended \in [Clients -> BOOLEAN]
SinkTypes ==
    /\ report \in [Clients -> 0..MaxReports] /\ file \in [Sinks -> 0..MaxReports]
    /\ unsaved \in [Clients -> BOOLEAN]
    /\ \A i \in Clients : querier[i] \in {"gate", "query"} => report[i] < MaxReports
ReporterTypes == attached \in [Clients -> SUBSET Given] /\ leaked \in [Clients -> BOOLEAN]
SavedTypes ==
    /\ set \in [Clients -> Settings] /\ stored \in Settings \cup {None}
    /\ spoilt \in BOOLEAN /\ instance \in Clients \cup {None}
CallTypes ==
    /\ call \in Calls \cup {None} /\ late \in [Given -> 0..2 \cup {None}] /\ early \in BOOLEAN

Types ==
    /\ LoopTypes /\ MainTypes /\ EndTypes /\ RunTypes /\ SinkTypes /\ ReporterTypes /\ SavedTypes
    /\ CallTypes /\ HostOK

PluginLabels == {"plugin", "open", "initPlugin", "add", "unplugin", "unregister", "destory",
                 "joinPlugin"}
\* A command that acts on a client finds one, and has an argument of its kind; main has a
\* plugin wherever it acts on one.
Arguments ==
    /\ loop \in PluginLabels => cmd \in Given
    /\ loop = "start" => cmd \in Starts
    /\ loop \in PluginLabels \cup {"stop", "stopJoin", "connect", "suspend", "resume", "config",
                                   "period", "send"}
          => instance # None
    /\ loop \in {"run", "publish"} => instance = None
    /\ main \in {"open", "initPlugin"} => visit # None
    /\ main \in {"attach", "destory", "joinPlugin"} => visit # None /\ visit.of \in Libs

\* A querier is at work, and a call under way, only for a client that runs, and a write of
\* a sink file only for one that has such a file.
Working ==
    /\ \A i \in Clients : phase[i] \in {"none", "made", "off"} => querier[i] = "idle"
    /\ \A i \in Clients : querier[i] = "sink" => set[i].sink # None
    /\ call # None => phase[call.by] \in {"on", "stopping"}

Starting == Attaching \cup {"start"}
\* Clients are made one after the other, and the next one when the one before has ended.
Generations ==
    /\ Newest \in Clients /\ Made = 1..Newest
    /\ main \in Starting => Newest = 1 /\ instance # None /\ phase[1] = "made"
    /\ instance # None => instance = Newest
    /\ \A i \in Clients : i < Newest => phase[i] = "off"
    /\ instance = None /\ loop \notin {"run", "publish"} => phase[Newest] = "off"
    /\ loop = "start" /\ instance = None => Newest < MaxClients
    /\ loop = "run" => phase[Newest] = "made"
    /\ Working

\* Nothing is taken down before the signal, and after a signal that found the loop waiting
\* the loop goes through Stop once.
Shutdown ==
    /\ ~signalled =>
          /\ loop \notin {"delete", "release", "deferStop", "clear", "gone"}
          /\ once = "free" /\ ~closed /\ ~busy
          /\ main \in Serving \cup {"exit1"}
    /\ signalled /\ ~busy => loop \in {"deferStop", "clear", "gone"}
    /\ closed /\ ~busy => once # "free"
    /\ ~busy => crash \notin {"doubleClose", "sliceBounds"}

\* Only the client in use, and those that have ended, have plugins.
Plugged ==
    /\ \A i \in Clients : attached[i] # {} /\ i # instance => phase[i] = "off"
    /\ loop \in {"run", "publish"} => attached[Newest] = {}

\* What was unplugged is attached to no client in use, so that only the call whose entry was
\* read before can still begin.
Unplugged ==
    \A g \in Given :
        /\ late[g] \in {None, 0, 1}
        /\ late[g] # None /\ instance # None => g \notin attached[instance]
        /\ late[g] = 1 => call = None \/ call.at # "picked" \/ call.of # g

\* A sink file holds the report of the newest client that uses it, unless that is about to write
\* it or failed to.
Sunk ==
    /\ set[Newest].sink # None /\ querier[Newest] # "sink" /\ ~unsaved[Newest] =>
          file[set[Newest].sink] = report[Newest]
    /\ ReportSurvives

\* Between a stop and a start the settings of the stopped client are stored.
SavedForStart ==
    loop = "stopJoin" \/ (instance = None /\ loop \notin {"run", "publish"}) =>
        stored \in Settings /\ (~spoilt => stored = set[Newest])

\* When main takes down a client it is the last one that will be made.
Ending ==
    /\ signalled => loop # "blocked"
    /\ main \in {"stop", "join", "exit0"} =>
          /\ target = Newest
          /\ instance = None => loop \notin {"start", "run", "publish", "select", "blocked"}
    /\ main \in {"join", "exit0"} => phase[target] # "on"
    /\ main = "exit0" => phase[target] = "off"

IInv ==
    /\ Types /\ Arguments /\ Generations /\ Shutdown /\ Plugged /\ Unplugged /\ Sunk /\ SavedForStart
    /\ Ending

----------------------------------------------------------------------------
\* The number of clients

LEMMA Counting == ASSUME NEW n \in Nat, Made = 1..n PROVE Newest = n
BY FS_Interval DEF Newest

LEMMA SameClients ==
    ASSUME \A i \in Clients : phase'[i] = "none" <=> phase[i] = "none"
    PROVE  Made' = Made /\ Newest' = Newest
<1>1. Made' = Made
  BY DEF Made
<1> QED
  BY <1>1 DEF Newest

----------------------------------------------------------------------------
\* The steps, and what they leave alone

ServerStep ==
    Top \/ Release \/ Block \/ TakeDone \/ TakeClosed \/ DeleteHandler \/ DeferStop \/ DeferClear
ClientStep ==
    \/ StopCmd \/ StopJoin \/ StartFails \/ StartInit \/ StartRun \/ StartPublish \/ StartConnect
    \/ SuspendCmd \/ ResumeCmd \/ ConfigCmd \/ PeriodCmd \/ SendReQuery
PluginStep ==
    \/ PluginCmd \/ PluginOpen \/ PluginInit \/ PluginAdd
    \/ UnpluginCmd \/ UnpluginUnregister \/ UnpluginDestory \/ UnpluginJoin
QuerierStep(i) ==
    Look(i) \/ Pass(i) \/ AskFails(i) \/ AskIdly(i) \/ Measure(i) \/ Sink(i) \/ Finish(i)
\* main loads, looks and waits
MainQuiet ==
    \/ \E g \in Given : MainLoad(g)
    \/ MainOpen \/ MainInit \/ MainRange \/ MainAttached \/ MainWait \/ MainPluginsDone
    \/ \E n \in Libs : MainVisit(n)
    \/ MainClient \/ MainJoin
MainUnloads == MainDestory \/ MainJoinPlugin
MainStops == MainStopServer \/ MainClear
MainRuns == MainStart \/ MainStop

LEMMA Steps ==
    Next => \/ ServerStep \/ ClientStep \/ PluginStep \/ Command \/ Interrupt \/ CallStep
            \/ MainQuiet \/ MainAttach \/ MainUnloads \/ MainStops \/ MainRuns
            \/ \E i \in Clients : QuerierStep(i)
            \/ \E i \in Clients, g \in Given : Pick(i, g)
BY DEF Next, LoopStep, MainStep, ServerStep, ClientStep, PluginStep, QuerierStep, Answer, MainQuiet,
    MainUnloads, MainStops, MainRuns

LEMMA ServerFrame ==
    ServerStep => /\ UNCHANGED <<signalled, busy, cmd, executed>> /\ Alive
                  /\ UNCHANGED <<clientVars, savedVars, callVars, mainVars, hostVars>>
BY DEF ServerStep, Top, Release, Block, TakeDone, TakeClosed, DeleteHandler, DeferStop, DeferClear,
    LoopAt, GoOn, Panic, loopVars, endVars

LEMMA ClientFrame ==
    ClientStep => Alive /\ UNCHANGED <<endVars, attached, callVars, mainVars, hostVars>>
<1> USE DEF LoopAt, clientVars, reporterVars
<1>1. CASE StopCmd \/ StopJoin \/ StartFails \/ StartInit \/ StartRun \/ StartPublish \/ StartConnect
  BY <1>1 DEF StopCmd, StopJoin, StartFails, StartInit, StartRun, StartPublish, StartConnect
<1>2. CASE SuspendCmd \/ ResumeCmd \/ ConfigCmd \/ PeriodCmd \/ SendReQuery
  BY <1>2 DEF SuspendCmd, ResumeCmd, ConfigCmd, PeriodCmd, SendReQuery
<1> QED
  BY <1>1, <1>2 DEF ClientStep

LEMMA PluginFrame ==
    PluginStep =>
        /\ Alive /\ UNCHANGED <<endVars, runVars, set, sinkVars, savedVars, call, early, mainVars>>
        /\ UNCHANGED <<attached, leaked, late>> \/ PluginAdd \/ UnpluginCmd
<1> USE DEF LoopAt, clientVars, reporterVars, callVars
<1>1. CASE PluginCmd \/ PluginOpen \/ PluginInit \/ UnpluginUnregister \/ UnpluginDestory \/ UnpluginJoin
  BY <1>1 DEF PluginCmd, PluginOpen, PluginInit, UnpluginUnregister, UnpluginDestory, UnpluginJoin
<1>2. CASE PluginAdd \/ UnpluginCmd
  BY <1>2 DEF PluginAdd, UnpluginCmd
<1> QED
  BY <1>1, <1>2 DEF PluginStep

LEMMA CommandFrame ==
    Command => Alive /\ UNCHANGED <<endVars, clientVars, savedVars, call, late, mainVars, hostVars, crash>>
BY DEF Command, TakeCommand

LEMMA CallFrame ==
    CallStep => Alive /\ UNCHANGED <<loopVars, endVars, clientVars, savedVars, early, mainVars, hostVars>>
BY DEF CallStep, Enter, EnterPanics, Return, callVars

LEMMA PickFrame ==
    ASSUME NEW i, NEW g, Pick(i, g)
    PROVE  /\ UNCHANGED <<loopVars, endVars, clientVars, savedVars, late, early, mainVars, hostVars, crash>>
           /\ Alive
BY DEF Pick

LEMMA QuerierFrame ==
    ASSUME NEW i, QuerierStep(i)
    PROVE  /\ UNCHANGED <<loopVars, endVars, set, reporterVars, savedVars, callVars, mainVars, hostVars>>
           /\ Alive
           /\ UNCHANGED crash \/ AskFails(i)
BY DEF QuerierStep, Look, Pass, AskFails, AskIdly, Measure, Sink, Finish

LEMMA InterruptFrame ==
    Interrupt => /\ UNCHANGED <<cmd, executed, once, closed, handlers>> /\ Alive
                 /\ UNCHANGED <<clientVars, savedVars, callVars, mainVars, hostVars, crash>>
BY DEF Interrupt

LEMMA MainQuietFrame ==
    MainQuiet => Alive /\ UNCHANGED <<loopVars, endVars, clientVars, savedVars, callVars, crash>>
<1>1. CASE \E g \in Given : MainLoad(g)
  BY <1>1 DEF MainLoad, MainAt
<1>2. CASE MainOpen \/ MainInit \/ MainRange \/ MainAttached \/ MainWait \/ MainPluginsDone
  BY <1>2 DEF MainOpen, MainInit, MainRange, MainAttached, MainWait, MainPluginsDone, MainAt
<1>3. CASE MainClient \/ MainJoin \/ \E n \in Libs : MainVisit(n)
  BY <1>3 DEF MainVisit, MainClient, MainJoin, MainAt
<1> QED
  BY <1>1, <1>2, <1>3 DEF MainQuiet

LEMMA MainAttachFrame ==
    MainAttach => /\ UNCHANGED <<loopVars, endVars, runVars, set, sinkVars, leaked, savedVars, call, early>>
                  /\ UNCHANGED <<hostVars, crash>> /\ Alive
BY DEF MainAttach, MainAt

LEMMA MainUnloadsFrame ==
    MainUnloads => Alive /\ UNCHANGED <<loopVars, endVars, clientVars, savedVars, callVars>>
BY DEF MainUnloads, MainDestory, MainJoinPlugin, MainAt

LEMMA MainStopsFrame ==
    MainStops => /\ UNCHANGED <<loopVars, signalled, busy, clientVars, savedVars, callVars, hostVars>>
                 /\ Alive
BY DEF MainStops, MainStopServer, MainClear, MainAt, EnterStop, EnterOnce

LEMMA MainRunsFrame ==
    MainRuns => /\ UNCHANGED <<loopVars, endVars, querier, set, sinkVars, reporterVars, savedVars, callVars>>
                /\ UNCHANGED <<hostVars, crash>> /\ Alive
BY DEF MainRuns, MainStart, MainStop, MainAt

----------------------------------------------------------------------------
\* Types

LEMMA LoopTypesKept == ASSUME LoopTypes, Next PROVE LoopTypes'
<1> USE DEF LoopTypes, LoopLabels, Answered, GoOn, Panic, LoopAt, loopVars
<1>1. CASE ServerStep
  BY <1>1 DEF ServerStep, Top, Release, Block, TakeDone, TakeClosed, DeleteHandler, DeferStop,
      DeferClear
<1>2. CASE StopCmd \/ StopJoin \/ StartFails \/ StartInit \/ StartRun \/ StartPublish \/ StartConnect
  BY <1>2 DEF StopCmd, StopJoin, StartFails, StartInit, StartRun, StartPublish, StartConnect
<1>3. CASE SuspendCmd \/ ResumeCmd \/ ConfigCmd \/ PeriodCmd \/ SendReQuery
  BY <1>3 DEF SuspendCmd, ResumeCmd, ConfigCmd, PeriodCmd, SendReQuery
<1>4. CASE PluginStep
  BY <1>4 DEF PluginStep, PluginCmd, PluginOpen, PluginInit, PluginAdd, UnpluginCmd,
      UnpluginUnregister, UnpluginDestory, UnpluginJoin, LoopLost
<1>5. ASSUME NEW c \in Menu, NEW a \in Args(c), TakeCommand(c, a) PROVE LoopTypes'
  BY <1>5, MenuAssumption, BoundsAssumption DEF TakeCommand, Args, Commands
<1>6. CASE Interrupt
  BY <1>6 DEF Interrupt
<1>7. CASE UNCHANGED loopVars
  BY <1>7
<1> QED
  BY <1>1, <1>2, <1>3, <1>4, <1>5, <1>6, <1>7, Steps, CallFrame, PickFrame, QuerierFrame,
     MainQuietFrame, MainAttachFrame, MainUnloadsFrame, MainStopsFrame, MainRunsFrame
  DEF ClientStep, Command

LEMMA MainTypesKept == ASSUME MainTypes, SavedTypes, Next PROVE MainTypes'
<1> USE DEF MainTypes, MainLabels, Serving, Attaching, mainVars, rangeVars, MainGoes
<1>1. ASSUME NEW g \in Given, MainLoad(g) PROVE MainTypes'
  <2>1. [of |-> g, found |-> FALSE] \in Visits
    BY DEF Visits
  <2> QED
    BY <1>1, <2>1 DEF MainLoad
<1>2. CASE MainOpen \/ MainInit \/ MainRange \/ MainAttached \/ MainWait \/ MainPluginsDone
  BY <1>2 DEF MainOpen, MainInit, MainRange, MainAttached, MainWait, MainPluginsDone, RangeBegins
<1>3. ASSUME NEW n \in Libs, MainVisit(n) PROVE MainTypes'
  <2>1. n \in Given
    BY BaseAssumption
  <2>2. [of |-> n, found |-> registry[n] # "broken"] \in Visits
    BY <2>1 DEF Visits
  <2> QED
    BY <1>3, <2>2 DEF MainVisit
<1>4. CASE MainClient \/ MainJoin
  BY <1>4 DEF MainClient, MainJoin, SavedTypes
<1>5. CASE MainAttach \/ MainUnloads \/ MainStops \/ MainRuns
  BY <1>5 DEF MainAttach, MainUnloads, MainDestory, MainJoinPlugin, MainLost, MainStops,
      MainStopServer, MainClear, MainRuns, MainStart, MainStop
<1>6. CASE UNCHANGED mainVars
  BY <1>6
<1> QED
  BY <1>1, <1>2, <1>3, <1>4, <1>5, <1>6, Steps, ServerFrame, ClientFrame, PluginFrame, CommandFrame,
     InterruptFrame, CallFrame, PickFrame, QuerierFrame
  DEF MainQuiet

LEMMA EndTypesKept == ASSUME EndTypes, Next PROVE EndTypes'
<1> USE DEF EndTypes, Panics, endVars, Panic
<1>1. CASE ServerStep
  BY <1>1 DEF ServerStep, Top, Release, Block, TakeDone, TakeClosed, DeleteHandler, DeferStop,
      DeferClear, EnterStop, EnterOnce, LeaveStop
<1>2. CASE ClientStep
  <2>1. crash' = crash \/ crash' = "nilInterval"
    BY <1>2 DEF ClientStep, StopCmd, StopJoin, StartFails, StartInit, StartRun, StartPublish,
        StartConnect, SuspendCmd, ResumeCmd, ConfigCmd, PeriodCmd, SendReQuery
  <2> QED
    BY <1>2, <2>1, ClientFrame
<1>3. CASE PluginStep
  <2>1. crash' \in {crash, "nilFunction", "nilCancel", "nilApi"}
    BY <1>3 DEF PluginStep, PluginCmd, PluginOpen, PluginInit, PluginAdd, UnpluginCmd,
        UnpluginUnregister, UnpluginDestory, UnpluginJoin, LoopLost
  <2> QED
    BY <1>3, <2>1, PluginFrame
<1>4. CASE Command \/ CallStep \/ Interrupt
  <2>1. crash' \in {crash, "nilFunction", "nilApi"}
    BY <1>4, CommandFrame DEF CallStep, Enter, EnterPanics, Return, Interrupt
  <2> QED
    BY <1>4, <2>1, CommandFrame, CallFrame DEF Interrupt
<1>5. CASE MainUnloads
  <2>1. crash' \in {crash, "nilFunction", "nilCancel", "nilApi"}
    BY <1>5 DEF MainUnloads, MainDestory, MainJoinPlugin, MainLost
  <2> QED
    BY <1>5, <2>1, MainUnloadsFrame
<1>6. CASE MainStops
  BY <1>6 DEF MainStops, MainStopServer, EnterStop, EnterOnce, MainClear, LeaveStop
<1>7. ASSUME NEW i \in Clients, QuerierStep(i) PROVE EndTypes'
  <2>1. crash' \in {crash, "nilInterval"}
    BY <1>7, QuerierFrame DEF AskFails
  <2> QED
    BY <1>7, <2>1, QuerierFrame
<1> QED
  BY <1>1, <1>2, <1>3, <1>4, <1>5, <1>6, <1>7, Steps, PickFrame, MainQuietFrame, MainAttachFrame,
     MainRunsFrame

LEMMA SettingsRecords ==
    /\ \A s \in Settings, c \in Cfgs : [s EXCEPT !.cfg = c] \in Settings
    /\ \A s \in Settings, v \in 0..2 : [s EXCEPT !.intv = v] \in Settings
    /\ \A s \in Settings, p \in Sinks \cup {None} : [s EXCEPT !.sink = p] \in Settings
    /\ \A s \in Settings : s.cfg \in Cfgs /\ s.sink \in Sinks \cup {None} /\ s.intv \in 0..2
    /\ \A s, t \in Settings : [s EXCEPT !.cfg = t.cfg] \in Settings
BY DEF Settings

LEMMA SinksKept ==
    /\ \A s \in Settings, c \in Cfgs : [s EXCEPT !.cfg = c].sink = s.sink
    /\ \A s \in Settings, v \in 0..2 : [s EXCEPT !.intv = v].sink = s.sink
BY DEF Settings

LEMMA StartSettingsTyped ==
    ASSUME stored \in Settings, NEW a \in Starts
    PROVE  StartSettings(a) \subseteq Settings
<1>1. ASSUME NEW v \in 0..2 PROVE [stored EXCEPT !.intv = v] \in Settings
  BY SettingsRecords
<1>2. CASE a = "cfg"
  BY <1>2, SettingsRecords DEF StartSettings
<1>3. CASE a = "interval"
  BY <1>1, <1>3 DEF StartSettings
<1>4. CASE a = "once"
  BY <1>1, <1>4 DEF StartSettings
<1>5. CASE a = "sink"
  BY <1>5, SettingsRecords DEF StartSettings
<1>6. CASE a = "plain"
  BY <1>6 DEF StartSettings
<1> QED
  BY <1>2, <1>3, <1>4, <1>5, <1>6 DEF Starts

\* What a step does to the settings of the clients there are.
LEMMA SettingsSteps ==
    ASSUME SavedTypes, Arguments, Next, ~StartInit
    PROVE  set' \in [Clients -> Settings] /\ \A i \in Clients : set'[i].sink = set[i].sink
<1> USE DEF SavedTypes, clientVars
<1>1. CASE ConfigCmd \/ PeriodCmd
  <2>1. instance \in Clients /\ set[instance] \in Settings
    BY <1>1 DEF ConfigCmd, PeriodCmd, LoopAt, Arguments
  <2>2. \/ set' = set
        \/ \E c \in Cfgs : set' = [set EXCEPT ![instance] = [set[instance] EXCEPT !.cfg = c]]
        \/ \E v \in 0..2 : set' = [set EXCEPT ![instance] = [set[instance] EXCEPT !.intv = v]]
    BY <1>1 DEF ConfigCmd, PeriodCmd
  <2>3. \E s \in Settings : s.sink = set[instance].sink /\ set' = [set EXCEPT ![instance] = s]
    <3>1. CASE set' = set
      BY <2>1, <3>1
    <3>2. ASSUME NEW c \in Cfgs, set' = [set EXCEPT ![instance] = [set[instance] EXCEPT !.cfg = c]]
          PROVE  \E s \in Settings : s.sink = set[instance].sink /\ set' = [set EXCEPT ![instance] = s]
      BY <2>1, <3>2, SettingsRecords, SinksKept
    <3>3. ASSUME NEW v \in 0..2, set' = [set EXCEPT ![instance] = [set[instance] EXCEPT !.intv = v]]
          PROVE  \E s \in Settings : s.sink = set[instance].sink /\ set' = [set EXCEPT ![instance] = s]
      BY <2>1, <3>3, SettingsRecords, SinksKept
    <3> QED
      BY <2>2, <3>1, <3>2, <3>3
  <2> QED
    BY <2>1, <2>3
<1>2. CASE StopCmd \/ StopJoin \/ StartFails \/ StartRun \/ StartPublish \/ StartConnect \/ SuspendCmd
           \/ ResumeCmd \/ SendReQuery
  BY <1>2 DEF StopCmd, StopJoin, StartFails, StartRun, StartPublish, StartConnect, SuspendCmd,
      ResumeCmd, SendReQuery
<1>3. CASE set' = set
  BY <1>3
<1> QED
  BY <1>1, <1>2, <1>3, Steps, ServerFrame, PluginFrame, CommandFrame, InterruptFrame, CallFrame,
     PickFrame, QuerierFrame, MainQuietFrame, MainAttachFrame, MainUnloadsFrame, MainStopsFrame,
     MainRunsFrame
  DEF ClientStep

LEMMA SavedTypesKept ==
    ASSUME SavedTypes, Arguments, Generations, SavedForStart, Next PROVE SavedTypes'
<1> USE DEF SavedTypes, savedVars, clientVars
<1>1. CASE StartInit
  <2>1. stored \in Settings /\ cmd \in Starts
    BY <1>1 DEF StartInit, LoopAt, SavedForStart, Arguments
  <2>2. \E s \in Settings : set' = [set EXCEPT ![Newest + 1] = s] /\ stored' = [stored EXCEPT !.cfg = s.cfg]
    BY <1>1, <2>1, StartSettingsTyped DEF StartInit
  <2>3. set' \in [Clients -> Settings] /\ stored' \in Settings
    BY <2>1, <2>2, SettingsRecords
  <2> QED
    BY <1>1, <2>3 DEF StartInit
<1>2. CASE StartFails
  <2>1. stored' = stored \/ \E c \in Cfgs : stored \in Settings /\ stored' = [stored EXCEPT !.cfg = c]
    BY <1>2 DEF StartFails, LoopAt, SavedForStart
  <2>2. stored' \in Settings \cup {None}
    BY <2>1, SettingsRecords
  <2> QED
    BY <1>2, <2>2 DEF StartFails
<1>3. CASE StopCmd \/ StopJoin \/ StartPublish
  BY <1>3 DEF StopCmd, SaveSettings, StopJoin, StartPublish, LoopAt, Arguments, Generations
<1>4. CASE ~StartInit /\ UNCHANGED savedVars
  BY <1>4, SettingsSteps
<1> QED
  BY <1>1, <1>2, <1>3, <1>4, Steps, ServerFrame, PluginFrame, CommandFrame, InterruptFrame, CallFrame,
     PickFrame, QuerierFrame, MainQuietFrame, MainAttachFrame, MainUnloadsFrame, MainStopsFrame,
     MainRunsFrame
  DEF ClientStep, StartRun, StartConnect, SuspendCmd, ResumeCmd, ConfigCmd, PeriodCmd, SendReQuery

LEMMA RunTypesKept == ASSUME RunTypes, Generations, Next PROVE RunTypes'
<1> USE DEF RunTypes, runVars, clientVars, StopClient
<1>1. CASE StopCmd \/ StopJoin \/ StartFails \/ StartInit \/ StartRun \/ StartPublish \/ StartConnect
  BY <1>1 DEF StopCmd, StopJoin, StartFails, StartInit, StartRun, StartPublish, StartConnect
<1>2. CASE SuspendCmd \/ ResumeCmd \/ ConfigCmd \/ PeriodCmd \/ SendReQuery
  BY <1>2 DEF SuspendCmd, ResumeCmd, ConfigCmd, PeriodCmd, SendReQuery
<1>3. CASE MainRuns
  BY <1>3 DEF MainRuns, MainStart, MainStop
<1>4. ASSUME NEW i \in Clients, QuerierStep(i) PROVE RunTypes'
  BY <1>4 DEF QuerierStep, Look, Pass, AskFails, AskIdly, AfterQuery, Measure, Sink, Finish
<1>5. CASE UNCHANGED runVars
  BY <1>5
<1> QED
  BY <1>1, <1>2, <1>3, <1>4, <1>5, Steps, ServerFrame, PluginFrame, CommandFrame, InterruptFrame,
     CallFrame, PickFrame, MainQuietFrame, MainAttachFrame, MainUnloadsFrame, MainStopsFrame
  DEF ClientStep

\* A client that is being made is a new one.
LEMMA NextClient ==
    ASSUME RunTypes, Generations, Arguments, StartInit
    PROVE  /\ Newest + 1 \in Clients /\ phase[Newest + 1] = "none"
           /\ Made' = 1..(Newest + 1) /\ Newest' = Newest + 1
<1>1. Newest + 1 \in Clients
  BY BoundsAssumption DEF StartInit, LoopAt, Generations, Clients
<1>2. phase[Newest + 1] = "none"
  BY <1>1 DEF Generations, Made, Clients
<1>3. phase' = [phase EXCEPT ![Newest + 1] = "made"]
  BY DEF StartInit
<1>4. Made' = Made \cup {Newest + 1}
  BY <1>1, <1>3 DEF Made, RunTypes
<1>5. Made' = 1..(Newest + 1)
  BY <1>4 DEF Generations, Clients
<1>6. Newest' = Cardinality(1..(Newest + 1))
  BY <1>5 DEF Newest
<1> QED
  BY <1>1, <1>2, <1>5, <1>6, FS_Interval DEF Generations, Clients

\* A new client is initialised with the stored settings but for the argument of its start.
LEMMA NewSettings ==
    ASSUME SavedTypes, RunTypes, Generations, Arguments, SavedForStart, StartInit
    PROVE  \E s \in Settings :
              /\ s \in StartSettings(cmd)
              /\ set' = [set EXCEPT ![Newest + 1] = s]
              /\ stored' = [stored EXCEPT !.cfg = s.cfg]
              /\ report' = [report EXCEPT ![Newest + 1] = Recovered(s)]
<1>1. stored \in Settings /\ cmd \in Starts
  BY DEF StartInit, LoopAt, SavedForStart, Arguments
<1>2. StartSettings(cmd) \subseteq Settings
  BY <1>1, StartSettingsTyped
<1> QED
  BY <1>2 DEF StartInit

LEMMA SinkTypesKept ==
    ASSUME RunTypes, SinkTypes, SavedTypes, Arguments, Generations, SavedForStart, Next
    PROVE  SinkTypes'
<1> USE BoundsAssumption DEF SinkTypes, sinkVars, runVars, clientVars
<1>1. CASE StartInit
  <2>1. Newest + 1 \in Clients /\ phase[Newest + 1] = "none"
    BY <1>1, NextClient
  <2>2. querier[Newest + 1] = "idle"
    BY <2>1 DEF Generations, Working
  <2>3. PICK s \in Settings : report' = [report EXCEPT ![Newest + 1] = Recovered(s)]
    BY <1>1, NewSettings
  <2>4. Recovered(s) \in 0..MaxReports
    BY <2>3, SettingsRecords DEF Recovered
  <2>5. UNCHANGED <<querier, file, unsaved>>
    BY <1>1 DEF StartInit
  <2> QED
    BY <2>1, <2>2, <2>3, <2>4, <2>5
<1>2. CASE ~StartInit /\ ClientStep
  BY <1>2 DEF ClientStep, StopCmd, StopJoin, StartFails, StartRun, StartPublish, StartConnect,
      SuspendCmd, ResumeCmd, ConfigCmd, PeriodCmd, SendReQuery
<1>3. ASSUME NEW i \in Clients, QuerierStep(i) PROVE SinkTypes'
  <2>1. CASE Look(i) \/ Pass(i) \/ AskFails(i) \/ AskIdly(i) \/ Finish(i)
    BY <2>1 DEF Look, Pass, AskFails, AskIdly, Finish, RunTypes
  <2>2. CASE Measure(i)
    BY <2>2 DEF Measure, RunTypes
  <2>3. CASE Sink(i)
    <3>1. set[i] \in Settings /\ set[i].sink # None
      BY <2>3 DEF Sink, Generations, Working, SavedTypes
    <3>2. set[i].sink \in Sinks
      BY <3>1, SettingsRecords
    <3>3. \E r \in 0..MaxReports : file' = [file EXCEPT ![set[i].sink] = r]
      BY <2>3, <3>2 DEF Sink
    <3>4. unsaved' \in [Clients -> BOOLEAN] /\ file' \in [Sinks -> 0..MaxReports]
      BY <2>3, <3>3 DEF Sink
    <3> QED
      BY <2>3, <3>4 DEF Sink, RunTypes
  <2> QED
    BY <1>3, <2>1, <2>2, <2>3 DEF QuerierStep
<1>4. CASE UNCHANGED <<querier, sinkVars>>
  BY <1>4
<1> QED
  BY <1>1, <1>2, <1>3, <1>4, Steps, ServerFrame, PluginFrame, CommandFrame, InterruptFrame,
     CallFrame, PickFrame, MainQuietFrame, MainAttachFrame, MainUnloadsFrame, MainStopsFrame,
     MainRunsFrame

LEMMA ReporterTypesKept ==
    ASSUME ReporterTypes, MainTypes, Arguments, Next PROVE ReporterTypes'
<1> USE DEF ReporterTypes, reporterVars, clientVars
<1>1. CASE PluginAdd
  <2>1. cmd \in Given
    BY <1>1 DEF PluginAdd, LoopAt, Arguments, PluginLabels
  <2>2. \A i \in Clients : attached[i] \cup {cmd} \in SUBSET Given
    BY <2>1
  <2>3. attached' \in [Clients -> SUBSET Given]
    BY <1>1, <2>2 DEF PluginAdd
  <2> QED
    BY <1>1, <2>3 DEF PluginAdd, Counted
<1>2. CASE UnpluginCmd
  <2>1. \A i \in Clients : attached[i] \ {cmd} \in SUBSET Given
    OBVIOUS
  <2>2. attached' \in [Clients -> SUBSET Given]
    BY <1>2, <2>1 DEF UnpluginCmd, DeleteReporter
  <2> QED
    BY <1>2, <2>2 DEF UnpluginCmd, DeleteReporter
<1>3. CASE MainAttach
  <2>1. visit.of \in Given
    BY <1>3, BaseAssumption DEF MainAttach, MainAt, Arguments
  <2>2. \A i \in Clients : attached[i] \cup {visit.of} \in SUBSET Given
    BY <2>1
  <2>3. attached' \in [Clients -> SUBSET Given]
    BY <1>3, <2>2 DEF MainAttach
  <2> QED
    BY <1>3, <2>3 DEF MainAttach
<1>4. CASE StartConnect
  BY <1>4 DEF StartConnect, Counted
<1>5. CASE ~StartConnect /\ ClientStep
  BY <1>5 DEF ClientStep, StopCmd, StopJoin, StartFails, StartInit, StartRun, StartPublish,
      SuspendCmd, ResumeCmd, ConfigCmd, PeriodCmd, SendReQuery
<1>6. CASE UNCHANGED reporterVars
  BY <1>6
<1> QED
  BY <1>1, <1>2, <1>3, <1>4, <1>5, <1>6, Steps, ServerFrame, PluginFrame, CommandFrame, InterruptFrame,
     CallFrame, PickFrame, QuerierFrame, MainQuietFrame, MainUnloadsFrame, MainStopsFrame,
     MainRunsFrame

LEMMA CallTypesKept == ASSUME CallTypes, Next PROVE CallTypes'
<1> USE DEF CallTypes, callVars
<1>1. CASE Enter
  <2>1. call \in Calls /\ \E a \in {"entered", "hung"} : call' = [call EXCEPT !.at = a]
    BY <1>1 DEF Enter
  <2>2. call' \in Calls /\ call.of \in Given
    BY <2>1 DEF Calls
  <2>3. late' = [late EXCEPT ![call.of] = IF @ \in 0..1 THEN @ + 1 ELSE @] /\ early' = early
    BY <1>1 DEF Enter
  <2>4. late' \in [Given -> 0..2 \cup {None}]
    BY <2>2, <2>3
  <2> QED
    BY <2>2, <2>3, <2>4
<1>2. CASE EnterPanics \/ Return
  BY <1>2 DEF EnterPanics, Return
<1>3. CASE PluginStep
  BY <1>3, PluginFrame DEF PluginAdd, UnpluginCmd
<1>4. CASE MainAttach
  BY <1>4 DEF MainAttach
<1>5. CASE Command
  BY <1>5 DEF Command, TakeCommand
<1>6. ASSUME NEW i \in Clients, NEW g \in Given, Pick(i, g) PROVE CallTypes'
  <2>1. call' \in Calls
    BY <1>6 DEF Pick, Calls
  <2> QED
    BY <1>6, <2>1 DEF Pick
<1>7. CASE UNCHANGED callVars
  BY <1>7
<1> QED
  BY <1>1, <1>2, <1>3, <1>4, <1>5, <1>6, <1>7, Steps, ServerFrame, ClientFrame, InterruptFrame,
     QuerierFrame, MainQuietFrame, MainUnloadsFrame, MainStopsFrame, MainRunsFrame
  DEF CallStep

LEMMA HostKept == ASSUME HostOK, Next PROVE HostOK'
<1> USE DEF HostOK, hostVars, Containers, Globals
<1>1. CASE PluginStep
  BY <1>1 DEF PluginStep, PluginCmd, StorePlugin, PluginOpen, OpenPlugin, PluginInit, InitPlugin,
      InitFails, Failures, PluginAdd, UnpluginCmd, UnpluginUnregister, UnregisterPlugin,
      UnpluginDestory, StopPlugin, UnpluginJoin, JoinPlugin, LoopLost
<1>2. ASSUME NEW g \in Given, MainLoad(g) PROVE HostOK'
  BY <1>2 DEF MainLoad, StorePlugin
<1>3. CASE MainOpen \/ MainInit
  BY <1>3 DEF MainOpen, OpenPlugin, MainInit, InitPlugin
<1>4. CASE MainRange \/ MainAttached \/ MainWait \/ MainPluginsDone \/ MainClient \/ MainJoin
           \/ \E n \in Libs : MainVisit(n)
  BY <1>4 DEF MainRange, MainAttached, MainWait, MainPluginsDone, MainClient, MainJoin, MainVisit
<1>5. CASE MainUnloads
  BY <1>5 DEF MainUnloads, MainDestory, StopPlugin, MainJoinPlugin, JoinPlugin, MainLost
<1>6. CASE UNCHANGED hostVars
  BY <1>6
<1> QED
  BY <1>1, <1>2, <1>3, <1>4, <1>5, <1>6, Steps, ServerFrame, ClientFrame, CommandFrame, InterruptFrame,
     CallFrame, PickFrame, QuerierFrame, MainAttachFrame, MainStopsFrame, MainRunsFrame
  DEF MainQuiet

----------------------------------------------------------------------------
\* The clients

LEMMA ArgumentsKept ==
    ASSUME Types, Arguments, Generations, Next PROVE Arguments'
<1> USE NoneAssumption DEF Arguments, PluginLabels, Answered, GoOn, Panic, LoopAt, loopVars, savedVars,
                           mainVars, rangeVars, MainGoes
<1>1. CASE ServerStep
  BY <1>1, ServerFrame DEF ServerStep, Top, Release, Block, TakeDone, TakeClosed, DeleteHandler,
      DeferStop, DeferClear
<1>2. CASE StartPublish
  BY <1>2, ClientFrame DEF StartPublish, ClientStep, Generations
<1>3. CASE StopCmd \/ StopJoin \/ StartFails \/ StartInit \/ StartRun \/ StartConnect
  BY <1>3, ClientFrame DEF StopCmd, StopJoin, StartFails, StartInit, StartRun, StartConnect, ClientStep
<1>4. CASE SuspendCmd \/ ResumeCmd \/ ConfigCmd \/ PeriodCmd \/ SendReQuery
  BY <1>4, ClientFrame DEF SuspendCmd, ResumeCmd, ConfigCmd, PeriodCmd, SendReQuery, ClientStep
<1>5. CASE PluginStep
  BY <1>5, PluginFrame DEF PluginStep, PluginCmd, PluginOpen, PluginInit, PluginAdd, UnpluginCmd,
      UnpluginUnregister, UnpluginDestory, UnpluginJoin, LoopLost
<1>6. ASSUME NEW c \in Menu, NEW a \in Args(c), TakeCommand(c, a) PROVE Arguments'
  <2>1. c \in Commands
    BY MenuAssumption
  <2>2. c = "start" => a \in Starts
    BY DEF Args
  <2>3. c \in {"plugin", "unplugin"} => a \in Given
    BY DEF Args
  <2> QED
    BY <1>6, <2>1, <2>2, <2>3 DEF TakeCommand, Commands
<1>7. CASE MainQuiet
  <2>1. ASSUME NEW g \in Given, MainLoad(g) PROVE Arguments'
    <3>1. [of |-> g, found |-> FALSE] \in Visits
      BY DEF Visits
    <3> QED
      BY <1>7, <2>1, <3>1, MainQuietFrame DEF MainLoad
  <2>2. ASSUME NEW n \in Libs, MainVisit(n) PROVE Arguments'
    <3>1. visit' = [of |-> n, found |-> registry[n] # "broken"] /\ n \in Given
      BY <2>2, BaseAssumption DEF MainVisit
    <3>2. visit' \in Visits /\ visit'.of = n
      BY <3>1 DEF Visits
    <3> QED
      BY <1>7, <2>2, <3>2, MainQuietFrame DEF MainVisit
  <2>3. CASE MainOpen \/ MainInit \/ MainRange \/ MainAttached \/ MainWait \/ MainPluginsDone \/ MainClient
             \/ MainJoin
    BY <1>7, <2>3, MainQuietFrame DEF MainOpen, MainInit, MainRange, RangeBegins, MainAttached,
        MainWait, MainPluginsDone, MainClient, MainJoin, MainAt
  <2> QED
    BY <1>7, <2>1, <2>2, <2>3 DEF MainQuiet
<1>8. CASE MainAttach \/ MainUnloads \/ MainStops \/ MainRuns
  BY <1>8, MainAttachFrame, MainUnloadsFrame, MainStopsFrame, MainRunsFrame
  DEF MainAttach, MainUnloads, MainDestory, MainJoinPlugin, MainLost, MainStops, MainStopServer,
      MainClear, MainRuns, MainStart, MainStop, MainAt
<1>9. CASE Interrupt
  BY <1>9, InterruptFrame DEF Interrupt
<1>10. CASE UNCHANGED <<loopVars, savedVars, mainVars>>
  BY <1>10
<1> QED
  BY <1>1, <1>2, <1>3, <1>4, <1>5, <1>6, <1>7, <1>8, <1>9, <1>10, Steps, CallFrame, PickFrame,
     QuerierFrame
  DEF ClientStep, Command

\* What one step does to the phase of a client, other than the one being made.
LEMMA PhaseSteps ==
    ASSUME RunTypes, SavedTypes, Generations, Next, ~StartInit
    PROVE  \A i \in Clients :
              \/ phase'[i] = phase[i]
              \/ phase[i] = "made" /\ phase'[i] = "on" /\ (StartRun \/ MainStart)
              \/ phase[i] = "on" /\ phase'[i] = "stopping"
              \/ phase[i] \in {"on", "stopping"} /\ phase'[i] = "off" /\ Ended(i)
<1> DEFINE Moves(j) ==
              \/ phase'[j] = phase[j]
              \/ phase[j] = "made" /\ phase'[j] = "on" /\ (StartRun \/ MainStart)
              \/ phase[j] = "on" /\ phase'[j] = "stopping"
              \/ phase[j] \in {"on", "stopping"} /\ phase'[j] = "off" /\ Ended(j)
<1> USE DEF RunTypes, runVars, clientVars
<1>1. CASE StopCmd
  BY <1>1 DEF StopCmd, StopClient
<1>2. CASE StartRun
  BY <1>2 DEF StartRun, LoopAt, Generations
<1>3. CASE ClientStep /\ ~StopCmd /\ ~StartRun
  BY <1>3 DEF ClientStep, StopJoin, StartFails, StartPublish, StartConnect, SuspendCmd, ResumeCmd,
      ConfigCmd, PeriodCmd, SendReQuery
<1>4. CASE MainRuns
  BY <1>4 DEF MainRuns, MainStart, MainStop, StopClient, MainAt, Generations, Attaching, Starting
<1>5. ASSUME NEW i \in Clients, QuerierStep(i) PROVE \A j \in Clients : Moves(j)
  BY <1>5 DEF QuerierStep, Look, Pass, AskFails, AskIdly, AfterQuery, StopClient, Measure, Sink, Finish
<1>6. CASE UNCHANGED phase
  BY <1>6
<1> QED
  BY <1>1, <1>2, <1>3, <1>4, <1>5, <1>6, Steps, ServerFrame, PluginFrame, CommandFrame, InterruptFrame,
     CallFrame, PickFrame, MainQuietFrame, MainAttachFrame, MainUnloadsFrame, MainStopsFrame

LEMMA SameNewest ==
    ASSUME RunTypes, SavedTypes, Generations, Next, ~StartInit
    PROVE  /\ Made' = Made /\ Newest' = Newest
           /\ \A i \in Clients : phase[i] = "off" => phase'[i] = "off"
<1>1. \A i \in Clients : phase'[i] = "none" <=> phase[i] = "none"
  BY PhaseSteps
<1> QED
  BY <1>1, PhaseSteps, SameClients

\* Only four steps change which client is in use; the others leave the loop out of the places
\* where one is being started, and do not enter a start that has no client left.
LEMMA InstanceSteps ==
    ASSUME Next
    PROVE  \/ StartInit \/ StartRun \/ StartPublish \/ StopJoin
           \/ /\ instance' = instance
              /\ \/ loop' = loop
                 \/ /\ {loop, loop'} \cap {"run", "publish"} = {}
                    /\ loop' = "start" => instance # None \/ Newest < MaxClients
<1> DEFINE Same ==
              /\ instance' = instance
              /\ \/ loop' = loop
                 \/ /\ {loop, loop'} \cap {"run", "publish"} = {}
                    /\ loop' = "start" => instance # None \/ Newest < MaxClients
<1> USE DEF Answered, GoOn, Panic, LoopAt, loopVars, savedVars
<1>1. CASE StopCmd \/ StartFails \/ StartConnect
  BY <1>1 DEF StopCmd, StartFails, StartConnect
<1>2. CASE SuspendCmd \/ ResumeCmd \/ ConfigCmd \/ PeriodCmd \/ SendReQuery
  BY <1>2 DEF SuspendCmd, ResumeCmd, ConfigCmd, PeriodCmd, SendReQuery
<1>3. CASE ServerStep
  BY <1>3 DEF ServerStep, Top, Release, Block, TakeDone, TakeClosed, DeleteHandler, DeferStop,
      DeferClear
<1>4. CASE PluginStep
  BY <1>4, PluginFrame DEF PluginStep, PluginCmd, PluginOpen, PluginInit, PluginAdd, UnpluginCmd,
      UnpluginUnregister, UnpluginDestory, UnpluginJoin, LoopLost
<1>5. ASSUME NEW c \in Menu, NEW a \in Args(c), TakeCommand(c, a) PROVE Same
  <2>1. c \in Commands
    BY MenuAssumption
  <2> QED
    BY <1>5, <2>1 DEF TakeCommand, Commands
<1>6. CASE Interrupt
  BY <1>6 DEF Interrupt
<1>7. CASE UNCHANGED <<loopVars, savedVars>>
  BY <1>7
<1> QED
  BY <1>1, <1>2, <1>3, <1>4, <1>5, <1>6, <1>7, Steps, CallFrame, PickFrame, QuerierFrame,
     MainQuietFrame, MainAttachFrame, MainUnloadsFrame, MainStopsFrame, MainRunsFrame
  DEF ClientStep, Command

\* Main comes to its Start by way of its plugins, and leaves it only to serve, or to give up.
LEMMA MainSteps ==
    ASSUME Next
    PROVE  \/ main' = main
           \/ /\ UNCHANGED <<loopVars, instance>> /\ Alive
              /\ main' \in Starting => main \in Starting
              /\ main \in Starting => main' \in Starting \/ main' = "exit1" \/ MainStart
<1> DEFINE Goes ==
              /\ UNCHANGED <<loopVars, instance>> /\ Alive
              /\ main' \in Starting => main \in Starting
              /\ main \in Starting => main' \in Starting \/ main' = "exit1" \/ MainStart
<1> USE DEF mainVars, savedVars, Attaching, Starting, MainGoes, MainAt
<1>1. CASE MainQuiet
  <2>1. CASE \E g \in Given : MainLoad(g)
    BY <1>1, <2>1, MainQuietFrame DEF MainLoad
  <2>2. CASE \E n \in Libs : MainVisit(n)
    BY <1>1, <2>2, MainQuietFrame DEF MainVisit
  <2>3. CASE MainOpen \/ MainInit \/ MainRange \/ MainAttached
    BY <1>1, <2>3, MainQuietFrame DEF MainOpen, MainInit, MainRange, MainAttached, RangeBegins
  <2>4. CASE MainWait \/ MainPluginsDone \/ MainClient \/ MainJoin
    BY <1>1, <2>4, MainQuietFrame DEF MainWait, MainPluginsDone, MainClient, MainJoin, RangeBegins
  <2> QED
    BY <1>1, <2>1, <2>2, <2>3, <2>4 DEF MainQuiet
<1>2. CASE MainAttach \/ MainRuns
  BY <1>2, MainAttachFrame, MainRunsFrame DEF MainAttach, MainRuns, MainStart, MainStop
<1>3. CASE MainUnloads \/ MainStops
  BY <1>3, MainUnloadsFrame, MainStopsFrame
  DEF MainUnloads, MainDestory, MainJoinPlugin, MainLost, MainStops, MainStopServer, MainClear
<1>4. CASE UNCHANGED mainVars
  BY <1>4
<1> QED
  BY <1>1, <1>2, <1>3, <1>4, Steps, ServerFrame, ClientFrame, PluginFrame, CommandFrame,
     InterruptFrame, CallFrame, PickFrame, QuerierFrame

LEMMA WorkingKept ==
    ASSUME RunTypes, SavedTypes, CallTypes, Arguments, Generations, SavedForStart, Next
    PROVE  Working'
<1> USE DEF RunTypes, runVars, clientVars, callVars
<1>1. \A i \in Clients : phase'[i] \in {"none", "made", "off"} => querier'[i] = "idle"
  <2>1. CASE StartInit
    <3>1. Newest + 1 \in Clients /\ phase[Newest + 1] = "none"
      BY <2>1, NextClient
    <3> QED
      BY <2>1, <3>1 DEF StartInit, Generations, Working
  <2>2. ASSUME ~StartInit, UNCHANGED querier
        PROVE  \A i \in Clients : phase'[i] \in {"none", "made", "off"} => querier'[i] = "idle"
    BY <2>2, PhaseSteps DEF Generations, Working, Ended
  <2>3. ASSUME NEW i \in Clients, QuerierStep(i)
        PROVE  \A j \in Clients : phase'[j] \in {"none", "made", "off"} => querier'[j] = "idle"
    BY <2>3 DEF QuerierStep, Look, Pass, AskFails, AskIdly, AfterQuery, StopClient, Measure, Sink,
        Finish, Ended, Generations, Working
  <2>4. CASE ClientStep /\ ~StartInit
    BY <2>2, <2>4 DEF ClientStep, StopCmd, StopJoin, StartFails, StartRun, StartPublish, StartConnect,
        SuspendCmd, ResumeCmd, ConfigCmd, PeriodCmd, SendReQuery
  <2>5. CASE UNCHANGED querier
    BY <2>1, <2>2, <2>5
  <2> QED
    BY <2>1, <2>3, <2>4, <2>5, Steps, ServerFrame, PluginFrame, CommandFrame, InterruptFrame,
       CallFrame, PickFrame, MainQuietFrame, MainAttachFrame, MainUnloadsFrame, MainStopsFrame,
       MainRunsFrame
<1>2. \A i \in Clients : querier'[i] = "sink" => set'[i].sink # None
  <2>1. CASE StartInit
    <3>1. Newest + 1 \in Clients /\ phase[Newest + 1] = "none"
      BY <2>1, NextClient
    <3>2. querier[Newest + 1] # "sink"
      BY <3>1 DEF Generations, Working
    <3> QED
      BY <2>1, <3>1, <3>2 DEF StartInit, Generations, Working, SavedTypes
  <2>2. CASE ~StartInit
    <3>1. \A i \in Clients : set'[i].sink = set[i].sink
      BY <2>2, SettingsSteps
    <3>2. ASSUME NEW i \in Clients, QuerierStep(i)
          PROVE  \A j \in Clients : querier'[j] = "sink" => querier[j] = "sink" \/ set[j].sink # None
      BY <3>2 DEF QuerierStep, Look, Pass, AskFails, AskIdly, Measure, Sink, Finish
    <3>3. CASE ClientStep
      BY <2>2, <3>1, <3>3 DEF Generations, Working, ClientStep, StopCmd, StopJoin, StartFails, StartRun,
          StartPublish, StartConnect, SuspendCmd, ResumeCmd, ConfigCmd, PeriodCmd, SendReQuery
    <3>4. CASE UNCHANGED querier
      BY <3>1, <3>4 DEF Generations, Working
    <3> QED
      BY <3>1, <3>2, <3>3, <3>4, Steps, ServerFrame, PluginFrame, CommandFrame, InterruptFrame,
         CallFrame, PickFrame, MainQuietFrame, MainAttachFrame, MainUnloadsFrame, MainStopsFrame,
         MainRunsFrame DEF Generations, Working
  <2> QED
    BY <2>1, <2>2
<1>3. call' # None => phase'[call'.by] \in {"on", "stopping"}
  <2>1. ASSUME NEW i \in Clients, NEW g \in Given, Pick(i, g)
        PROVE  phase'[call'.by] \in {"on", "stopping"}
    BY <2>1 DEF Pick
  <2>2. CASE Enter
    <3>1. call' # None => call'.by = call.by /\ call # None
      BY <2>2 DEF Enter
    <3> QED
      BY <2>2, <3>1 DEF Enter, Generations, Working
  <2>3. CASE Return
    BY <2>3 DEF Return
  <2>4. ASSUME UNCHANGED call, call # None
        PROVE  phase'[call'.by] \in {"on", "stopping"}
    <3>1. call.by \in Clients /\ phase[call.by] \in {"on", "stopping"} /\ ~Ended(call.by)
      BY <2>4 DEF CallTypes, Calls, Generations, Working, Ended
    <3>2. CASE StartInit
      <4>1. phase[Newest + 1] = "none" /\ phase' = [phase EXCEPT ![Newest + 1] = "made"]
        BY <3>2, NextClient DEF StartInit
      <4> QED
        BY <2>4, <3>1, <4>1
    <3>3. CASE ~StartInit
      BY <2>4, <3>1, <3>3, PhaseSteps
    <3> QED
      BY <3>2, <3>3
  <2>5. UNCHANGED call \/ Enter \/ Return \/ \E i \in Clients, g \in Given : Pick(i, g)
    BY Steps, ServerFrame, ClientFrame, PluginFrame, CommandFrame, InterruptFrame, QuerierFrame,
       MainQuietFrame, MainAttachFrame, MainUnloadsFrame, MainStopsFrame, MainRunsFrame
    DEF CallStep, EnterPanics
  <2> QED
    BY <2>1, <2>2, <2>3, <2>4, <2>5
<1> QED
  BY <1>1, <1>2, <1>3 DEF Working

LEMMA GenerationsKept ==
    ASSUME Types, Arguments, Generations, SavedForStart, Next PROVE Generations'
<1> USE DEF Types
<1>1. Working'
  BY WorkingKept
<1>2. CASE StartInit
  <2>1. /\ phase' = [phase EXCEPT ![Newest + 1] = "made"] /\ UNCHANGED <<instance, main>>
        /\ loop = "start" /\ loop' = "run" /\ instance = None
    BY <1>2 DEF StartInit, LoopAt, GoOn, mainVars
  <2>2. Newest + 1 \in Clients /\ Made' = 1..(Newest + 1) /\ Newest' = Newest + 1
    BY <1>2, NextClient
  <2>3. phase[Newest] = "off" /\ main \notin Starting
    BY <2>1 DEF Generations
  <2>4. \A i \in Clients : i < Newest + 1 => phase'[i] = "off"
    BY <2>1, <2>3 DEF Generations, Clients, RunTypes
  <2> QED
    BY <1>1, <2>1, <2>2, <2>3, <2>4 DEF Generations, RunTypes
<1>3. CASE ~StartInit
  <2>1. /\ Made' = Made /\ Newest' = Newest
        /\ \A i \in Clients : phase[i] = "off" => phase'[i] = "off"
    BY <1>3, SameNewest
  <2>2. main' \in Starting => Newest' = 1 /\ instance' # None /\ phase'[1] = "made"
    <3> SUFFICES ASSUME main' \in Starting
                 PROVE  instance' # None /\ phase'[1] = "made" /\ Newest = 1
      BY <2>1
    <3>1. main \in Starting /\ instance # None /\ phase[1] = "made" /\ Newest = 1 /\ 1 \in Clients
      BY MainSteps DEF Generations, Clients
    <3>2. ~MainStart /\ ~StartRun /\ ~StartPublish
      BY <3>1 DEF MainStart, MainGoes, StartRun, StartPublish, LoopAt, Arguments, Starting, Attaching
    <3>3. ~StopJoin
      BY <3>1 DEF StopJoin, Joinable, Generations
    <3> QED
      BY <1>3, <3>1, <3>2, <3>3, PhaseSteps, InstanceSteps
  <2>3. /\ instance' # None => instance' = Newest'
        /\ instance' = None /\ loop' \notin {"run", "publish"} => phase'[Newest'] = "off"
        /\ loop' = "start" /\ instance' = None => Newest' < MaxClients
    <3>1. CASE StartRun
      BY <3>1, <2>1 DEF StartRun, GoOn, LoopAt, Arguments, savedVars, Generations
    <3>2. CASE StartPublish
      BY <3>2, <2>1, NoneAssumption DEF StartPublish, GoOn, Generations
    <3>3. CASE StopJoin
      BY <3>3, <2>1 DEF StopJoin, Answered, Joinable, LoopAt, Arguments, Generations
    <3> QED
      BY <1>3, <2>1, <3>1, <3>2, <3>3, InstanceSteps DEF Generations
  <2>4. loop' = "run" => phase'[Newest'] = "made"
    <3> SUFFICES ASSUME loop' = "run"
                 PROVE  phase'[Newest] = "made"
      BY <2>1
    <3>1. ~StartRun /\ ~StartPublish /\ ~StopJoin
      BY DEF StartRun, StartPublish, StopJoin, GoOn, Answered
    <3>2. loop = "run"
      BY <1>3, <3>1, InstanceSteps
    <3>3. ~MainStart
      BY <3>2 DEF MainStart, MainAt, Generations, Arguments, Starting
    <3> QED
      BY <1>3, <3>1, <3>2, <3>3, PhaseSteps DEF Generations
  <2>5. \A i \in Clients : i < Newest' => phase'[i] = "off"
    BY <2>1 DEF Generations
  <2> QED
    BY <1>1, <2>1, <2>2, <2>3, <2>4, <2>5 DEF Generations
<1> QED
  BY <1>2, <1>3

----------------------------------------------------------------------------
\* The shutdown

LEMMA ShutdownKept == ASSUME Types, Shutdown, Next PROVE Shutdown'
<1> USE DEF Shutdown, Types, EndTypes, endVars, Panic, GoOn, Answered, LoopAt, Alive, loopVars, mainVars,
            Attaching, Serving, MainGoes, MainAt
<1>1. CASE Top \/ Release \/ Block \/ TakeDone
  BY <1>1 DEF Top, Release, Block, TakeDone
<1>2. CASE TakeClosed \/ DeleteHandler \/ DeferStop \/ DeferClear
  BY <1>2 DEF TakeClosed, DeleteHandler, DeferStop, EnterStop, EnterOnce, DeferClear, LeaveStop
<1>3. CASE StopCmd \/ StopJoin \/ StartFails \/ StartInit \/ StartRun \/ StartPublish \/ StartConnect
  BY <1>3 DEF StopCmd, StopJoin, StartFails, StartInit, StartRun, StartPublish, StartConnect
<1>4. CASE SuspendCmd \/ ResumeCmd \/ ConfigCmd \/ PeriodCmd \/ SendReQuery
  BY <1>4 DEF SuspendCmd, ResumeCmd, ConfigCmd, PeriodCmd, SendReQuery
<1>5. CASE PluginStep
  BY <1>5, PluginFrame DEF PluginStep, PluginCmd, PluginOpen, PluginInit, PluginAdd, UnpluginCmd,
      UnpluginUnregister, UnpluginDestory, UnpluginJoin, LoopLost
<1>6. ASSUME NEW c \in Menu, NEW a \in Args(c), TakeCommand(c, a) PROVE Shutdown'
  <2>1. c \in Commands
    BY MenuAssumption
  <2> QED
    BY <1>6, <2>1 DEF TakeCommand, Commands
<1>7. CASE MainQuiet
  <2>1. CASE \E g \in Given : MainLoad(g)
    BY <1>7, <2>1, MainQuietFrame DEF MainLoad
  <2>2. CASE \E n \in Libs : MainVisit(n)
    BY <1>7, <2>2, MainQuietFrame DEF MainVisit
  <2>3. CASE MainOpen \/ MainInit \/ MainRange \/ MainAttached
    BY <1>7, <2>3, MainQuietFrame DEF MainOpen, MainInit, MainRange, MainAttached, RangeBegins
  <2>4. CASE MainWait \/ MainPluginsDone \/ MainClient \/ MainJoin
    BY <1>7, <2>4, MainQuietFrame DEF MainWait, MainPluginsDone, MainClient, MainJoin, RangeBegins
  <2> QED
    BY <1>7, <2>1, <2>2, <2>3, <2>4 DEF MainQuiet
<1>8. CASE MainAttach \/ MainRuns
  BY <1>8, MainAttachFrame, MainRunsFrame DEF MainAttach, MainRuns, MainStart, MainStop
<1>9. CASE MainUnloads
  BY <1>9, MainUnloadsFrame DEF MainUnloads, MainDestory, MainJoinPlugin, MainLost
<1>10. CASE MainStops
  BY <1>10 DEF MainStops, MainStopServer, EnterStop, EnterOnce, MainClear, LeaveStop
<1>11. CASE Interrupt
  BY <1>11 DEF Interrupt
<1>12. CASE CallStep
  BY <1>12, CallFrame DEF CallStep, Enter, EnterPanics, Return
<1>13. ASSUME NEW i \in Clients, QuerierStep(i) PROVE Shutdown'
  BY <1>13, QuerierFrame DEF AskFails
<1>14. ASSUME NEW i \in Clients, NEW g \in Given, Pick(i, g) PROVE Shutdown'
  BY <1>14, PickFrame
<1> QED
  BY <1>1, <1>2, <1>3, <1>4, <1>5, <1>6, <1>7, <1>8, <1>9, <1>10, <1>11, <1>12, <1>13, <1>14, Steps
  DEF ServerStep, ClientStep, Command

LEMMA EndingKept ==
    ASSUME Types, Arguments, Generations, Shutdown, Ending, Next PROVE Ending'
<1> USE DEF Ending, Types, GoOn, Answered, LoopAt, loopVars, mainVars, savedVars, endVars, Panic,
            Attaching, Serving, MainGoes, MainAt
<1>1. CASE StartInit
  BY <1>1 DEF StartInit, Shutdown
<1>2. CASE ~StartInit
  <2>1. Newest' = Newest /\ \A i \in Clients : phase[i] = "off" => phase'[i] = "off"
    BY <1>2, SameNewest
  <2>2. Newest \in Clients /\ (main \notin Serving \cup {"exit1"} => signalled)
    BY DEF Generations, Shutdown
  <2>3. main \in {"join", "exit0"} => phase'[target] # "on"
    <3> SUFFICES ASSUME main \in {"join", "exit0"} PROVE phase'[target] # "on"
      OBVIOUS
    <3>1. target \in Clients /\ phase[target] # "on" /\ ~MainStart /\ ~StartRun
      BY <2>2 DEF MainStart, StartRun, Arguments
    <3> QED
      BY <1>2, <3>1, PhaseSteps
  <2> USE <2>1
  <2>4. CASE ServerStep
    BY <2>2, <2>3, <2>4, ServerFrame DEF ServerStep, Top, Release, Block, TakeDone, TakeClosed,
        DeleteHandler, DeferStop, DeferClear
  <2>5. CASE StopCmd \/ StopJoin \/ StartFails \/ StartRun \/ StartPublish \/ StartConnect
    BY <2>2, <2>3, <2>5, NoneAssumption, ClientFrame
    DEF StopCmd, StopJoin, StartFails, StartRun, StartPublish, StartConnect, Arguments, ClientStep
  <2>6. CASE SuspendCmd \/ ResumeCmd \/ ConfigCmd \/ PeriodCmd \/ SendReQuery
    BY <2>2, <2>3, <2>6, ClientFrame DEF SuspendCmd, ResumeCmd, ConfigCmd, PeriodCmd, SendReQuery, ClientStep
  <2>7. CASE PluginStep
    BY <2>2, <2>3, <2>7, PluginFrame DEF PluginStep, PluginCmd, PluginOpen, PluginInit, PluginAdd,
        UnpluginCmd, UnpluginUnregister, UnpluginDestory, UnpluginJoin, LoopLost
  <2>8. ASSUME NEW c \in Menu, NEW a \in Args(c), TakeCommand(c, a) PROVE Ending'
    <3>1. c \in Commands
      BY MenuAssumption
    <3> QED
      BY <2>2, <2>3, <2>8, <3>1 DEF TakeCommand, Commands
  <2>9. CASE MainQuiet
    <3>1. CASE \E g \in Given : MainLoad(g)
      BY <2>9, <3>1, MainQuietFrame DEF MainLoad
    <3>2. CASE \E n \in Libs : MainVisit(n)
      BY <2>9, <3>2, MainQuietFrame DEF MainVisit
    <3>3. CASE MainOpen \/ MainInit \/ MainRange \/ MainAttached \/ MainWait \/ MainPluginsDone
      BY <2>9, <3>3, MainQuietFrame DEF MainOpen, MainInit, MainRange, MainAttached, MainWait,
          MainPluginsDone, RangeBegins
    <3>4. CASE MainClient
      BY <2>9, <3>4, MainQuietFrame DEF MainClient, Generations
    <3>5. CASE MainJoin
      BY <2>2, <2>3, <2>9, <3>5, MainQuietFrame DEF MainJoin, Joinable
    <3> QED
      BY <2>9, <3>1, <3>2, <3>3, <3>4, <3>5 DEF MainQuiet
  <2>10. CASE MainAttach \/ MainStart
    BY <2>2, <2>10, MainAttachFrame, MainRunsFrame DEF MainAttach, MainRuns, MainStart
  <2>11. CASE MainStop
    BY <2>2, <2>11, MainRunsFrame DEF MainRuns, MainStop, StopClient, RunTypes
  <2>12. CASE MainUnloads \/ MainStops
    BY <2>2, <2>3, <2>12, MainUnloadsFrame, MainStopsFrame
    DEF MainUnloads, MainDestory, MainJoinPlugin, MainLost, MainStops, MainStopServer, MainClear
  <2>13. CASE Interrupt
    BY <2>2, <2>3, <2>13 DEF Interrupt
  <2>14. CASE UNCHANGED <<loopVars, endVars, savedVars, mainVars>>
    BY <2>2, <2>3, <2>14
  <2>15. CASE CallStep
    BY <2>2, <2>3, <2>15, CallFrame
  <2> QED
    BY <1>2, <2>4, <2>5, <2>6, <2>7, <2>8, <2>9, <2>10, <2>11, <2>12, <2>13, <2>14, <2>15, Steps,
       PickFrame, QuerierFrame
    DEF ClientStep, Command, MainRuns
<1> QED
  BY <1>1, <1>2

----------------------------------------------------------------------------
\* The reporters

LEMMA PluggedKept ==
    ASSUME Types, Arguments, Generations, SavedForStart, Plugged, Next PROVE Plugged'
<1> USE DEF Plugged, Types, clientVars, reporterVars, savedVars, loopVars, GoOn, Answered, LoopAt, Panic
<1>1. CASE StartInit
  <2>1. Newest + 1 \in Clients /\ phase[Newest + 1] = "none" /\ Newest' = Newest + 1
    BY <1>1, NextClient
  <2>2. attached[Newest + 1] = {}
    BY <1>1, <2>1, NoneAssumption DEF StartInit
  <2>3. phase' = [phase EXCEPT ![Newest + 1] = "made"] /\ UNCHANGED <<attached, instance>>
    BY <1>1 DEF StartInit
  <2> QED
    BY <2>1, <2>2, <2>3 DEF RunTypes
<1>2. CASE ~StartInit
  <2>1. Newest' = Newest /\ \A i \in Clients : phase[i] = "off" => phase'[i] = "off"
    BY <1>2, SameNewest
  <2> USE <2>1
  <2>2. CASE StopCmd \/ StartFails \/ StartRun \/ StartConnect
    BY <2>2 DEF StopCmd, StartFails, StartRun, StartConnect
  <2>3. CASE StopJoin
    BY <2>3 DEF StopJoin, Joinable
  <2>4. CASE StartPublish
    <3>1. instance = None /\ attached[Newest] = {} /\ Newest \in Clients
      BY <2>4 DEF StartPublish, Arguments, Generations
    <3> QED
      BY <2>4, <3>1, NoneAssumption DEF StartPublish
  <2>5. CASE SuspendCmd \/ ResumeCmd \/ ConfigCmd \/ PeriodCmd \/ SendReQuery
    BY <2>5 DEF SuspendCmd, ResumeCmd, ConfigCmd, PeriodCmd, SendReQuery
  <2>6. CASE PluginAdd
    <3>1. UNCHANGED <<instance, phase>> /\ instance # None /\ loop' = "top"
      BY <2>6 DEF PluginAdd, Arguments, PluginLabels, runVars
    <3>2. \A i \in Clients : i # instance => attached'[i] = attached[i]
      BY <2>6 DEF PluginAdd, ReporterTypes
    <3> QED
      BY <2>6, <3>1, <3>2 DEF PluginAdd, runVars
  <2>7. CASE UnpluginCmd
    <3>1. \A i \in Clients : attached'[i] \subseteq attached[i]
      BY <2>7 DEF UnpluginCmd, DeleteReporter, ReporterTypes
    <3> QED
      BY <2>7, <3>1 DEF UnpluginCmd, runVars
  <2>8. CASE MainAttach
    <3>1. Newest = 1 /\ instance = 1 /\ loop \notin {"run", "publish"}
      BY <2>8 DEF MainAttach, MainAt, Generations, Starting, Attaching, Arguments
    <3>2. \A i \in Clients : i # 1 => attached'[i] = attached[i]
      BY <2>8 DEF MainAttach, ReporterTypes
    <3> QED
      BY <2>8, <3>1, <3>2, MainAttachFrame DEF runVars
  <2>9. ASSUME UNCHANGED <<attached, instance>>, loop' \notin {"run", "publish"} PROVE Plugged'
    BY <2>9
  <2>10. UNCHANGED loopVars => loop' = loop
    OBVIOUS
  <2>11. CASE ServerStep
    BY <2>11, ServerFrame DEF ServerStep, Top, Release, Block, TakeDone, TakeClosed, DeleteHandler,
        DeferStop, DeferClear
  <2>12. CASE PluginStep /\ ~PluginAdd /\ ~UnpluginCmd
    <3>1. loop' = loop \/ loop' \notin {"run", "publish"}
      BY <2>12 DEF PluginStep, PluginCmd, PluginOpen, PluginInit, UnpluginUnregister, UnpluginDestory,
          UnpluginJoin, LoopLost
    <3> QED
      BY <2>12, <3>1, PluginFrame
  <2>13. ASSUME NEW c \in Menu, NEW a \in Args(c), TakeCommand(c, a) PROVE Plugged'
    <3>1. c \in Commands
      BY MenuAssumption
    <3> QED
      BY <2>13, <3>1 DEF TakeCommand, Commands
  <2>14. CASE Interrupt
    BY <2>14 DEF Interrupt
  <2>15. CASE UNCHANGED <<attached, savedVars, loopVars>>
    BY <2>15
  <2> QED
    BY <1>2, <2>2, <2>3, <2>4, <2>5, <2>6, <2>7, <2>8, <2>11, <2>12, <2>13, <2>14, <2>15, Steps,
       CallFrame, PickFrame, QuerierFrame, MainQuietFrame, MainUnloadsFrame, MainStopsFrame,
       MainRunsFrame
    DEF ClientStep, Command
<1> QED
  BY <1>1, <1>2

LEMMA UnpluggedKept ==
    ASSUME Types, Arguments, Generations, Plugged, Unplugged, Next PROVE Unplugged'
<1> USE NoneAssumption DEF Unplugged, Types, CallTypes, ReporterTypes, callVars, clientVars, reporterVars,
                           savedVars
<1>1. CASE StopCmd \/ StopJoin \/ StartFails \/ StartInit \/ StartRun \/ StartConnect
  BY <1>1, ClientFrame DEF StopCmd, StopJoin, StartFails, StartInit, StartRun, StartConnect, ClientStep
<1>2. CASE StartPublish
  BY <1>2, ClientFrame DEF StartPublish, LoopAt, Plugged, ClientStep
<1>3. CASE SuspendCmd \/ ResumeCmd \/ ConfigCmd \/ PeriodCmd \/ SendReQuery
  BY <1>3, ClientFrame DEF SuspendCmd, ResumeCmd, ConfigCmd, PeriodCmd, SendReQuery, ClientStep
<1>4. CASE PluginAdd
  BY <1>4 DEF PluginAdd
<1>5. CASE UnpluginCmd
  BY <1>5 DEF UnpluginCmd, DeleteReporter, SavedTypes
<1>6. CASE PluginStep /\ ~PluginAdd /\ ~UnpluginCmd
  BY <1>6, PluginFrame
<1>7. CASE MainAttach
  <2>1. instance \in Clients \cup {None} /\ UNCHANGED <<instance, call>> /\ visit.of \in Given
    BY <1>7, BaseAssumption DEF MainAttach, MainAt, SavedTypes, Arguments
  <2>2. /\ \A i \in Clients : attached'[i] \subseteq attached[i] \cup {visit.of}
        /\ \A g \in Given : late'[g] = late[g] \/ late'[g] = None
        /\ attached' = attached \/ late'[visit.of] = None
    BY <1>7, <2>1 DEF MainAttach
  <2> QED
    BY <2>1, <2>2
<1>8. CASE Command
  BY <1>8, CommandFrame
<1>9. CASE Enter
  <2>1. call \in Calls /\ call.at = "picked" /\ \E a \in {"entered", "hung"} : call' = [call EXCEPT !.at = a]
    BY <1>9 DEF Enter
  <2>2. call'.at # "picked" /\ call.of \in Given
    BY <2>1 DEF Calls
  <2>3. late' = [late EXCEPT ![call.of] = IF @ \in 0..1 THEN @ + 1 ELSE @]
    BY <1>9 DEF Enter
  <2>4. UNCHANGED <<instance, attached>> /\ call # None
    BY <1>9 DEF Enter
  <2>5. \A g \in Given : late[g] = 1 => g # call.of
    BY <2>1, <2>4
  <2> QED
    BY <2>2, <2>3, <2>4, <2>5
<1>10. CASE EnterPanics \/ Return
  BY <1>10 DEF EnterPanics, Return
<1>11. ASSUME NEW i \in Clients, NEW g \in Given, Pick(i, g) PROVE Unplugged'
  <2>1. i = instance /\ g \in attached[instance]
    BY <1>11 DEF Pick, Plugged
  <2>2. late[g] # 1
    BY <2>1
  <2>3. /\ call' = [by |-> i, of |-> g, found |-> registry[Base[g]] # "broken", at |-> "picked"]
        /\ UNCHANGED <<late, instance, attached>>
    BY <1>11 DEF Pick
  <2>4. call'.of = g
    BY <2>3
  <2> QED
    BY <2>2, <2>3, <2>4
<1>12. CASE UNCHANGED <<callVars, attached, savedVars>>
  BY <1>12
<1> QED
  BY <1>1, <1>2, <1>3, <1>4, <1>5, <1>6, <1>7, <1>8, <1>9, <1>10, <1>11, <1>12, Steps, ServerFrame,
     InterruptFrame, QuerierFrame, MainQuietFrame, MainUnloadsFrame, MainStopsFrame, MainRunsFrame
  DEF ClientStep, CallStep

----------------------------------------------------------------------------
\* The report and the settings that are handed on

\* Only the newest client is at work.
LEMMA AtWork ==
    ASSUME RunTypes, Generations, NEW i \in Clients, querier[i] # "idle" \/ phase[i] \in {"on", "stopping"}
    PROVE  i = Newest /\ phase[i] \in {"on", "stopping"}
<1>1. phase[i] \in {"on", "stopping"}
  BY DEF RunTypes, Generations, Working
<1> QED
  BY <1>1 DEF Generations, Made, Clients

LEMMA SunkKept ==
    ASSUME Types, Arguments, Generations, SavedForStart, Sunk, Next PROVE Sunk'
<1> USE DEF Sunk, ReportSurvives, Types, RunTypes, SinkTypes, SavedTypes, clientVars, sinkVars, runVars
<1>0. Newest \in Clients /\ Made = 1..Newest
  BY DEF Generations
<1>1. CASE StartInit
  <2>1. /\ Newest + 1 \in Clients /\ phase[Newest + 1] = "none"
        /\ Made' = 1..(Newest + 1) /\ Newest' = Newest + 1
    BY <1>1, NextClient
  <2>2. PICK s \in Settings : /\ set' = [set EXCEPT ![Newest + 1] = s]
                              /\ report' = [report EXCEPT ![Newest + 1] = Recovered(s)]
    BY <1>1, NewSettings
  <2>3. UNCHANGED <<querier, file, unsaved>>
    BY <1>1 DEF StartInit
  <2>4. Sinking = {}
    BY <1>1 DEF StartInit, LoopAt, Generations, Working, Sinking, Made, Clients
  <2>5. s.sink # None => report'[Newest + 1] = file[s.sink]
    BY <2>1, <2>2, <2>4 DEF Recovered
  <2>6. set'[Newest + 1] = s
    BY <2>1, <2>2
  <2>7. set[Newest].sink # None /\ ~unsaved[Newest] => file[set[Newest].sink] = report[Newest]
    BY <1>0, <2>4 DEF Sinking
  <2>8. \A i \in Made : set'[i] = set[i] /\ report'[i] = report[i] /\ i # Newest + 1 /\ i \in Clients
    <3>1. \A i \in Made : i # Newest + 1
      BY <1>0 DEF Clients
    <3>2. \A i \in Made : i \in Clients
      BY DEF Made
    <3> QED
      BY <2>2, <3>1, <3>2
  <2>9. ASSUME NEW i \in Made', i + 1 \in Made', set'[i].sink # None, set'[i + 1].sink = set'[i].sink,
               ~unsaved'[i]
        PROVE  report'[i + 1] >= report'[i]
    <3>1. CASE i = Newest
      <4>1. Newest \in Made /\ set'[Newest] = set[Newest] /\ report'[Newest] = report[Newest]
            /\ report[Newest] \in Nat
        BY <1>0, <2>8, BoundsAssumption DEF Clients
      <4>2. s.sink # None /\ s.sink = set[Newest].sink /\ ~unsaved[Newest]
        BY <2>3, <2>6, <2>9, <3>1, <4>1
      <4>3. report'[Newest + 1] = report[Newest]
        BY <2>5, <2>7, <4>2
      <4> QED
        BY <3>1, <4>1, <4>3
    <3>2. CASE i # Newest
      <4>1. i \in Made /\ i + 1 \in Made
        BY <1>0, <2>1, <2>9, <3>2 DEF Clients
      <4> QED
        BY <2>3, <2>8, <2>9, <4>1
    <3> QED
      BY <3>1, <3>2
  <2>10. ReportSurvives'
    BY <2>9
  <2> QED
    BY <2>1, <2>3, <2>5, <2>6, <2>10
<1>2. CASE ~StartInit
  <2>1. Newest' = Newest /\ Made' = Made /\ \A i \in Clients : set'[i].sink = set[i].sink
    BY <1>2, SameNewest, SettingsSteps
  <2>2. \A i \in Made : i \in Clients /\ (i + 1 \in Made => i + 1 \in Clients)
    BY DEF Made
  <2>3. ASSUME UNCHANGED <<querier, sinkVars>> PROVE Sunk'
    BY <1>0, <2>1, <2>2, <2>3
  <2>4. ASSUME NEW i \in Clients, QuerierStep(i) PROVE Sunk'
    <3>1. CASE Look(i) \/ Pass(i) \/ AskFails(i) \/ AskIdly(i) \/ Finish(i)
      <4>1. UNCHANGED sinkVars /\ \A j \in Clients : querier[j] = "sink" => querier'[j] = "sink"
        BY <3>1 DEF Look, Pass, AskFails, AskIdly, Finish
      <4> QED
        BY <1>0, <2>1, <2>2, <4>1
    <3>2. CASE Measure(i)
      <4>1. i = Newest
        BY <3>2, AtWork DEF Measure
      <4>2. /\ report' = [report EXCEPT ![i] = @ + 1] /\ UNCHANGED <<file, unsaved>>
            /\ set[i].sink # None => querier' = [querier EXCEPT ![i] = "sink"]
        BY <3>2 DEF Measure
      <4>3. \A j \in Clients : report[j] \in Nat
        BY BoundsAssumption
      <4>4. \A j \in Made : j + 1 \in Made => j # i
        BY <1>0, <4>1 DEF Clients
      <4>5. ASSUME NEW j \in Made, j + 1 \in Made, set'[j].sink # None, set'[j + 1].sink = set'[j].sink,
                   ~unsaved'[j]
            PROVE  report'[j + 1] >= report'[j]
        <5>1. j \in Clients /\ j + 1 \in Clients /\ report[j + 1] >= report[j]
          BY <2>1, <2>2, <4>2, <4>5
        <5>2. report'[j] = report[j] /\ report'[j + 1] \in {report[j + 1], report[j + 1] + 1}
          BY <4>2, <4>4, <4>5, <5>1
        <5> QED
          BY <4>3, <5>1, <5>2
      <4> QED
        BY <1>0, <2>1, <4>1, <4>2, <4>5
    <3>3. CASE Sink(i)
      <4>1. i = Newest
        BY <3>3, AtWork DEF Sink
      <4>2. \A j \in Made : j + 1 \in Made => j # i
        BY <1>0, <4>1 DEF Clients
      <4>3. set[i].sink \in Sinks
        BY <3>3, SettingsRecords DEF Sink, Generations, Working
      <4>4. /\ report' = report /\ \A j \in Clients : j # i => unsaved'[j] = unsaved[j]
            /\ ~unsaved'[i] => file'[set[i].sink] = report[i]
        BY <3>3, <4>3 DEF Sink
      <4>5. ReportSurvives'
        BY <2>1, <2>2, <4>2, <4>4
      <4> QED
        BY <1>0, <2>1, <4>1, <4>4, <4>5
    <3> QED
      BY <2>4, <3>1, <3>2, <3>3 DEF QuerierStep
  <2>5. CASE ClientStep
    BY <1>2, <2>3, <2>5 DEF ClientStep, StopCmd, StopJoin, StartFails, StartRun, StartPublish,
        StartConnect, SuspendCmd, ResumeCmd, ConfigCmd, PeriodCmd, SendReQuery
  <2> QED
    BY <2>3, <2>4, <2>5, Steps, ServerFrame, PluginFrame, CommandFrame, InterruptFrame, CallFrame,
       PickFrame, MainQuietFrame, MainAttachFrame, MainUnloadsFrame, MainStopsFrame, MainRunsFrame
<1> QED
  BY <1>1, <1>2

LEMMA SavedForStartKept ==
    ASSUME Types, Arguments, Generations, SavedForStart, Next PROVE SavedForStart'
<1> USE DEF SavedForStart, Types, Answered, GoOn, Panic, LoopAt, loopVars, savedVars, clientVars
<1>1. CASE StartInit
  BY <1>1 DEF StartInit
<1>2. CASE ~StartInit
  <2>1. Newest' = Newest /\ Newest \in Clients
    BY <1>2, SameNewest DEF Generations
  <2> USE <2>1
  <2>2. CASE StopCmd
    BY <2>2 DEF StopCmd, SaveSettings, Arguments, Generations, SavedTypes
  <2>3. CASE StopJoin \/ StartRun
    BY <2>3 DEF StopJoin, StartRun, Generations
  <2>4. CASE StartFails
    <3>1. stored' = stored \/ \E c \in Cfgs : stored' = [stored EXCEPT !.cfg = c]
      BY <2>4 DEF StartFails
    <3>2. UNCHANGED <<stored, spoilt>> \/ spoilt' = (spoilt \/ stored' # stored)
      BY <2>4 DEF StartFails
    <3>3. /\ UNCHANGED <<instance, set>>
          /\ instance = None => stored \in Settings /\ (~spoilt => stored = set[Newest])
          /\ loop' = "top"
      BY <2>4 DEF StartFails
    <3>4. instance = None => stored' \in Settings
      BY <3>1, <3>3, SettingsRecords
    <3>5. ~spoilt' => stored' = stored /\ ~spoilt
      BY <3>2 DEF SavedTypes
    <3> QED
      BY <3>3, <3>4, <3>5
  <2>5. CASE StartPublish \/ StartConnect
    BY <2>5, NoneAssumption DEF StartPublish, StartConnect, Arguments
  <2>6. CASE SuspendCmd \/ ResumeCmd \/ ConfigCmd \/ PeriodCmd \/ SendReQuery
    BY <2>6 DEF SuspendCmd, ResumeCmd, ConfigCmd, PeriodCmd, SendReQuery, Arguments
  <2>7. CASE PluginStep
    BY <2>7, PluginFrame DEF PluginStep, PluginCmd, PluginOpen, PluginInit, PluginAdd, UnpluginCmd,
        UnpluginUnregister, UnpluginDestory, UnpluginJoin, LoopLost, Arguments, PluginLabels
  <2>8. CASE ServerStep
    BY <2>8, ServerFrame DEF ServerStep, Top, Release, Block, TakeDone, TakeClosed, DeleteHandler,
        DeferStop, DeferClear
  <2>9. ASSUME NEW c \in Menu, NEW a \in Args(c), TakeCommand(c, a) PROVE SavedForStart'
    <3>1. c \in Commands
      BY MenuAssumption
    <3> QED
      BY <2>9, <3>1 DEF TakeCommand, Commands
  <2>10. CASE Interrupt
    BY <2>10 DEF Interrupt
  <2>11. CASE UNCHANGED <<set, savedVars, loopVars>>
    BY <2>11
  <2> QED
    BY <1>2, <2>2, <2>3, <2>4, <2>5, <2>6, <2>7, <2>8, <2>9, <2>10, <2>11, Steps, CallFrame, PickFrame,
       QuerierFrame, MainQuietFrame, MainAttachFrame, MainUnloadsFrame, MainStopsFrame, MainRunsFrame
    DEF ClientStep, Command
<1> QED
  BY <1>1, <1>2

----------------------------------------------------------------------------
\* The theorems

LEMMA Initially == Init => IInv
<1> SUFFICES ASSUME Init PROVE IInv
  OBVIOUS
<1> USE DEF Init
<1>1. 1 \in Clients /\ Made = {1} /\ Made = 1..1
  BY BoundsAssumption DEF Clients, Made
<1>2. Newest = 1
  BY <1>1, Counting
<1>3. set \in [Clients -> Settings] /\ \A i \in Clients : set[i].sink \in Sinks \cup {None}
  BY SettingsRecords
<1>4. LoopTypes /\ MainTypes /\ EndTypes
  <2>1. LoopTypes
    BY BoundsAssumption DEF LoopTypes, LoopLabels
  <2>2. MainTypes
    BY FlaggedAssumption DEF MainTypes, MainLabels, Serving, Attaching
  <2>3. EndTypes
    BY DEF EndTypes, Panics
  <2> QED
    BY <2>1, <2>2, <2>3
<1>5. RunTypes /\ SinkTypes /\ ReporterTypes
  BY BoundsAssumption DEF RunTypes, SinkTypes, ReporterTypes
<1>6. SavedTypes /\ CallTypes
  BY <1>1, <1>3 DEF SavedTypes, CallTypes
<1>7. HostOK
  BY DEF HostInit, HostOK, Containers, Globals
<1>8. Arguments /\ Shutdown /\ Ending
  BY DEF Arguments, PluginLabels, Shutdown, Serving, Attaching, Ending
<1>9. Generations
  BY <1>1, <1>2, NoneAssumption DEF Generations, Working, Clients
<1>10. Plugged /\ Unplugged
  BY NoneAssumption DEF Plugged, Unplugged
<1>11. Sunk
  <2>1. \A i \in Made : i + 1 \notin Made
    BY <1>1
  <2> QED
    BY <1>1, <1>2, <1>3, <2>1 DEF Sunk, ReportSurvives
<1>12. SavedForStart
  BY <1>1, NoneAssumption DEF SavedForStart
<1> QED
  BY <1>4, <1>5, <1>6, <1>7, <1>8, <1>9, <1>10, <1>11, <1>12 DEF IInv, Types

LEMMA Inductive == IInv /\ [Next]_vars => IInv'
<1> SUFFICES ASSUME IInv, [Next]_vars PROVE IInv'
  OBVIOUS
<1>1. CASE Next
  <2>1. Types'
    BY <1>1, LoopTypesKept, MainTypesKept, EndTypesKept, RunTypesKept, SinkTypesKept,
       ReporterTypesKept, SavedTypesKept, CallTypesKept, HostKept DEF IInv, Types
  <2> QED
    BY <1>1, <2>1, ArgumentsKept, GenerationsKept, ShutdownKept, PluggedKept, UnpluggedKept,
       SunkKept, SavedForStartKept, EndingKept DEF IInv
<1>2. CASE UNCHANGED vars
  <2> USE <1>2 DEF vars, loopVars, endVars, runVars, sinkVars, reporterVars, clientVars, savedVars,
                   callVars, rangeVars, mainVars, hostVars
  <2>1. Made' = Made /\ Newest' = Newest
    BY SameClients
  <2>2. LoopTypes' /\ MainTypes' /\ EndTypes' /\ RunTypes' /\ SinkTypes'
    BY DEF IInv, Types, LoopTypes, MainTypes, EndTypes, RunTypes, SinkTypes
  <2>3. ReporterTypes' /\ SavedTypes' /\ CallTypes' /\ HostOK'
    BY DEF IInv, Types, ReporterTypes, SavedTypes, CallTypes, HostOK
  <2>4. Arguments' /\ Generations' /\ Shutdown' /\ Ending'
    BY <2>1 DEF IInv, Arguments, Generations, Working, Shutdown, Ending
  <2>5. Plugged' /\ Unplugged' /\ Sunk' /\ SavedForStart'
    BY <2>1 DEF IInv, Plugged, Unplugged, Sunk, ReportSurvives, SavedForStart
  <2> QED
    BY <2>2, <2>3, <2>4, <2>5 DEF IInv, Types
<1> QED
  BY <1>1, <1>2

LEMMA Invariance == Spec => []IInv
<1> QED
  BY Initially, Inductive, PTL DEF Spec

\* Every variable keeps its type, the client in use is one that was made, and a reporter that
\* is in a call has a client that runs (server.go:295-399, cmd.go:17-237, report.go:58-192).
THEOREM TypeCorrect == Spec => []TypeOK
<1>1. IInv => TypeOK
  <2> SUFFICES ASSUME IInv PROVE TypeOK
    OBVIOUS
  <2>1. instance \in Made \cup {None}
    BY DEF IInv, Generations, Clients
  <2>2. call # None => phase[call.by] # "off"
    BY DEF IInv, Generations, Working
  <2>3. LoopTypes /\ MainTypes /\ EndTypes /\ RunTypes /\ SinkTypes /\ ReporterTypes /\ SavedTypes
        /\ CallTypes /\ HostOK
    BY DEF IInv, Types
  <2> QED
    BY <2>1, <2>2, <2>3 DEF LoopTypes, MainTypes, EndTypes, RunTypes, SinkTypes, ReporterTypes,
       SavedTypes, CallTypes, TypeOK
<1> QED
  BY <1>1, Invariance, PTL

\* A signal that finds the server waiting never ends in a second release of the handlers or a
\* delete of none, however main and the loop meet in Stop (server.go:154-231, root.go:281).
THEOREM CleanStopCorrect == Spec => []CleanStop
<1>1. IInv => CleanStop
  BY DEF IInv, Shutdown, CleanStop
<1> QED
  BY <1>1, Invariance, PTL

\* After unplugin at most one call of the plugin begins, the one whose entry was read before
\* (client.go:523, cmd.go:212-222).
THEOREM LateBoundCorrect == Spec => []LateBound
<1>1. IInv => LateBound
  BY DEF IInv, Unplugged, LateBound
<1> QED
  BY <1>1, Invariance, PTL

\* A client that is started after a stop, with the same sink file and no failed write before it,
\* has at least the report of the stopped one (client.go:111-139, :334-344, server.go:350-355).
THEOREM ReportSurvivesCorrect == Spec => []ReportSurvives
<1>1. IInv => ReportSurvives
  BY DEF IInv, Sunk
<1> QED
  BY <1>1, Invariance, PTL

\* A command that ends well leaves no file half written and no plugin in a call
\* (root.go:293-296, client.go:654-658).
THEOREM QuietExitCorrect == Spec => []QuietExit
<1>1. IInv => QuietExit
  <2> SUFFICES ASSUME IInv, main = "exit0" PROVE Sinking = {} /\ call = None
    BY DEF QuietExit
  <2>1. phase[Newest] = "off"
    BY DEF IInv, Ending
  <2>2. \A i \in Clients : phase[i] \in {"none", "off"}
    BY <2>1 DEF IInv, Generations, Made, Clients
  <2>3. Sinking = {}
    BY <2>2 DEF IInv, Generations, Working, Sinking
  <2>4. call = None
    BY <2>2 DEF IInv, Generations, Working, Types, CallTypes, Calls
  <2> QED
    BY <2>3, <2>4
<1> QED
  BY <1>1, Invariance, PTL

\* A start without arguments has the settings that the stop before it kept, unless a start
\* that failed came in between (server.go:305-309, :341-377).
THEOREM PlainStartCorrect == Spec => PlainStart
<1>1. IInv /\ [Next]_vars =>
         [\A i \in Clients : Began(i) /\ cmd = "plain" /\ ~spoilt => set'[i] = set[i - 1]]_vars
  <2> SUFFICES ASSUME IInv, Next, NEW i \in Clients, Began(i), cmd = "plain", ~spoilt
               PROVE  set'[i] = set[i - 1]
    OBVIOUS
  <2>1. CASE ~StartInit
    BY <2>1, PhaseSteps DEF Began, IInv, Types
  <2>2. CASE StartInit
    <3>1. Newest + 1 \in Clients /\ phase' = [phase EXCEPT ![Newest + 1] = "made"]
      BY <2>2, NextClient DEF StartInit, IInv, Types
    <3>2. i = Newest + 1
      BY <3>1 DEF Began, IInv, Types, RunTypes
    <3>3. stored = set[Newest]
      BY <2>2 DEF StartInit, LoopAt, IInv, SavedForStart
    <3>4. set'[Newest + 1] = stored
      BY <2>2, <3>1 DEF StartInit, StartSettings, IInv, Types, SavedTypes
    <3>5. Newest \in Nat
      BY DEF IInv, Generations, Clients
    <3> QED
      BY <3>2, <3>3, <3>4, <3>5
  <2> QED
    BY <2>1, <2>2
<1> QED
  BY <1>1, Invariance, PTL DEF PlainStart, Spec

----------------------------------------------------------------------------
\* The end of the process

\* Who holds the Once is inside Stop, and once main has started the client every client that
\* is shared has run.
HeldOnce == once = "busy" => loop = "clear" \/ main = "clear"
Started ==
    main \notin Starting \cup {"exit1"} /\ (instance # None \/ loop = "publish") => phase[Newest] # "made"

LEMMA HeldOnceKept == ASSUME Types, HeldOnce, Next PROVE HeldOnce'
<1> USE DEF HeldOnce, Types, EndTypes, endVars, Panic, GoOn, Answered, LoopAt, loopVars, mainVars,
            MainGoes, MainAt
<1>1. CASE ServerStep
  BY <1>1 DEF ServerStep, Top, Release, Block, TakeDone, TakeClosed, DeleteHandler, DeferStop,
      EnterStop, EnterOnce, DeferClear, LeaveStop
<1>2. CASE StopCmd \/ StopJoin \/ StartFails \/ StartInit \/ StartRun \/ StartPublish \/ StartConnect
  BY <1>2 DEF StopCmd, StopJoin, StartFails, StartInit, StartRun, StartPublish, StartConnect
<1>3. CASE SuspendCmd \/ ResumeCmd \/ ConfigCmd \/ PeriodCmd \/ SendReQuery
  BY <1>3 DEF SuspendCmd, ResumeCmd, ConfigCmd, PeriodCmd, SendReQuery
<1>4. CASE PluginStep
  BY <1>4, PluginFrame DEF PluginStep, PluginCmd, PluginOpen, PluginInit, PluginAdd, UnpluginCmd,
      UnpluginUnregister, UnpluginDestory, UnpluginJoin, LoopLost
<1>5. CASE Command \/ Interrupt
  BY <1>5 DEF Command, TakeCommand, Interrupt
<1>6. CASE MainQuiet
  <2>1. main # "clear"
    BY <1>6 DEF MainQuiet, MainLoad, MainOpen, MainInit, MainRange, MainAttached, MainWait,
        MainPluginsDone, MainVisit, MainClient, MainJoin
  <2> QED
    BY <1>6, <2>1, MainQuietFrame
<1>7. CASE MainAttach \/ MainRuns
  BY <1>7, MainAttachFrame, MainRunsFrame DEF MainAttach, MainRuns, MainStart, MainStop
<1>8. CASE MainUnloads
  BY <1>8, MainUnloadsFrame DEF MainUnloads, MainDestory, MainJoinPlugin, MainLost
<1>9. CASE MainStops
  BY <1>9 DEF MainStops, MainStopServer, EnterStop, EnterOnce, MainClear, LeaveStop
<1>10. CASE UNCHANGED <<loopVars, endVars, mainVars>>
  BY <1>10
<1> QED
  BY <1>1, <1>2, <1>3, <1>4, <1>5, <1>6, <1>7, <1>8, <1>9, <1>10, Steps, CallFrame, PickFrame,
     QuerierFrame
  DEF ClientStep

LEMMA StartedKept ==
    ASSUME Types, Arguments, Generations, Started, Next PROVE Started'
<1> USE DEF Started, Types, RunTypes
<1>0. Newest \in Clients /\ phase[Newest] # "none"
  BY DEF Generations, Made, Clients
<1>1. CASE StartInit
  BY <1>1, NoneAssumption DEF StartInit, LoopAt, GoOn
<1>2. CASE ~StartInit
  <2>1. Newest' = Newest
    BY <1>2, SameNewest
  <2>2. phase[Newest] # "made" => phase'[Newest] # "made"
    BY <1>0, <1>2, PhaseSteps
  <2>3. CASE MainStart
    BY <1>0, <2>1, <2>3 DEF MainStart, MainAt, Generations, Starting
  <2>4. CASE StartRun
    BY <1>0, <2>1, <2>4 DEF StartRun
  <2>5. CASE StartPublish
    BY <1>0, <2>1, <2>2, <2>5 DEF StartPublish, LoopAt, mainVars
  <2>6. CASE StopJoin
    BY <2>1, <2>6 DEF StopJoin, Answered
  <2>7. CASE ~MainStart /\ ~StartRun /\ ~StartPublish /\ ~StopJoin
    <3>1. main' \notin Starting \cup {"exit1"} => main \notin Starting \cup {"exit1"}
      BY <2>7, MainSteps DEF Alive, Exited
    <3>2. instance' = instance /\ (loop' = loop \/ {loop, loop'} \cap {"run", "publish"} = {})
      BY <1>2, <2>7, InstanceSteps
    <3> QED
      BY <2>1, <2>2, <3>1, <3>2
  <2> QED
    BY <2>3, <2>4, <2>5, <2>6, <2>7
<1> QED
  BY <1>1, <1>2

LEMMA StartedAlways == Spec => [](HeldOnce /\ Started)
<1>1. Init => HeldOnce /\ Started
  BY DEF Init, HeldOnce, Started, Starting, Attaching
<1>2. IInv /\ HeldOnce /\ Started /\ [Next]_vars => (HeldOnce /\ Started)'
  <2>1. CASE Next
    BY <2>1, HeldOnceKept, StartedKept DEF IInv
  <2>2. CASE UNCHANGED vars
    BY <2>2 DEF HeldOnce, Started, Newest, Made, vars, loopVars, endVars, mainVars, runVars, clientVars,
       savedVars
  <2> QED
    BY <2>1, <2>2
<1> QED
  BY <1>1, <1>2, Invariance, PTL DEF Spec

\* After the signal main never waits for what does not come: it finds the Once of Stop held
\* by nobody but a loop that goes on, and joins a client that was started and is ending,
\* which only the count of a deleted or late reporter holds up, a report that does not return,
\* or a gate closed behind the end of the run (server.go:154-164, root.go:281-296,
\* client.go:400, 652-669).
THEOREM ShutdownGoesOnCorrect == Spec => []ShutdownGoesOn
<1>1. IInv /\ HeldOnce /\ Started => ShutdownGoesOn
  <2> SUFFICES ASSUME IInv, HeldOnce, Started, main = "join"
               PROVE  Joinable(target) \/ leaked[target] \/ CallHung(target) \/ Stranded(target)
                      \/ Closing(target)
    BY DEF ShutdownGoesOn, HeldOnce
  <2>1. target = Newest /\ target \in Clients /\ phase[target] \notin {"none", "on"}
    BY DEF IInv, Ending, Generations, Made, Clients
  <2>2. phase[target] # "made"
    <3>1. CASE instance # None
      BY <2>1, <3>1 DEF Started, Starting, Attaching
    <3>2. CASE instance = None
      BY <2>1, <3>2 DEF IInv, Ending, Generations
    <3> QED
      BY <3>1, <3>2
  <2>3. phase[target] \in {"stopping", "off"} /\ querier[target] \in {"idle", "gate", "query", "sink"}
    BY <2>1, <2>2 DEF IInv, Types, RunTypes
  <2>4. CASE phase[target] = "off"
    BY <2>4 DEF Joinable
  <2>5. CASE phase[target] = "stopping" /\ querier[target] = "idle"
    BY <2>5 DEF Closing, Ended, CallHung
  <2>6. CASE phase[target] = "stopping" /\ querier[target] # "idle"
    BY <2>3, <2>6 DEF Closing, Stranded
  <2> QED
    BY <2>3, <2>4, <2>5, <2>6
<1> QED
  BY <1>1, StartedAlways, Invariance, PTL

\* Nothing happens after a panic or an exit.
LEMMA NextAlive == ASSUME Next PROVE Alive
<1>1. ASSUME NEW i \in Clients, QuerierStep(i) PROVE Alive
  BY <1>1, QuerierFrame
<1>2. ASSUME NEW i \in Clients, NEW g \in Given, Pick(i, g) PROVE Alive
  BY <1>2 DEF Pick
<1>3. ServerStep \/ ClientStep \/ PluginStep \/ Command \/ Interrupt \/ CallStep => Alive
  BY ServerFrame, ClientFrame, PluginFrame, CommandFrame, InterruptFrame, CallFrame
<1>4. MainQuiet \/ MainAttach \/ MainUnloads \/ MainStops \/ MainRuns => Alive
  BY MainQuietFrame, MainAttachFrame, MainUnloadsFrame, MainStopsFrame, MainRunsFrame
<1> QED
  BY <1>1, <1>2, <1>3, <1>4, Steps

LEMMA NilSteps ==
    ASSUME Next, crash' = "nilInterval"
    PROVE  /\ UNCHANGED <<main, set>> /\ Alive /\ ~StartInit
           /\ \/ loop \in {"stop", "period"} /\ NoInterval(instance)
              \/ loop = "connect" /\ set[instance].intv = 0
              \/ \E i \in Clients : querier[i] = "query" /\ set[i].intv = 0
<1> USE DEF LoopAt, Panic, mainVars, endVars, savedVars, clientVars
<1>0. Alive
  BY NextAlive
<1>1. crash' # crash
  BY <1>0 DEF Alive
<1>2. CASE StopCmd \/ PeriodCmd
  <2>1. main' = main /\ loop \in {"stop", "period"} /\ ~StartInit
    BY <1>2, ClientFrame DEF StopCmd, PeriodCmd, ClientStep, StartInit
  <2>2. NoInterval(instance)
    BY <1>1, <1>2 DEF StopCmd, PeriodCmd
  <2>3. set' = set
    BY <1>2, <2>2 DEF StopCmd, PeriodCmd
  <2> QED
    BY <1>0, <2>1, <2>2, <2>3
<1>3. CASE StartConnect
  <2>1. ~StartInit /\ UNCHANGED <<main, set>> /\ loop = "connect" /\ set[instance].intv = 0
    BY <1>1, <1>3 DEF StartConnect, StartInit
  <2> QED
    BY <1>0, <2>1
<1>4. ~(ClientStep /\ ~StopCmd /\ ~PeriodCmd /\ ~StartConnect)
  BY <1>1 DEF ClientStep, StopJoin, StartFails, StartInit, StartRun, StartPublish, SuspendCmd, ResumeCmd,
      ConfigCmd, SendReQuery
<1>5. ~ServerStep
  BY <1>1 DEF ServerStep, Top, Release, Block, TakeDone, TakeClosed, DeleteHandler, DeferStop,
      EnterStop, EnterOnce, DeferClear
<1>6. ~PluginStep
  BY <1>1 DEF PluginStep, PluginCmd, PluginOpen, PluginInit, PluginAdd, UnpluginCmd,
      UnpluginUnregister, UnpluginDestory, UnpluginJoin, LoopLost
<1>7. ~Command /\ ~Interrupt /\ ~CallStep
  BY <1>1, CommandFrame, InterruptFrame DEF CallStep, Enter, EnterPanics, Return
<1>8. ~MainQuiet /\ ~MainAttach /\ ~MainRuns
  BY <1>1, MainQuietFrame, MainAttachFrame, MainRunsFrame
<1>9. ~MainUnloads /\ ~MainStops
  BY <1>1 DEF MainUnloads, MainDestory, MainJoinPlugin, MainLost, MainStops, MainStopServer, EnterStop,
      EnterOnce, MainClear
<1>10. ASSUME NEW i \in Clients, NEW g \in Given, Pick(i, g) PROVE FALSE
  BY <1>1, <1>10, PickFrame
<1>11. ASSUME NEW i \in Clients, QuerierStep(i)
       PROVE  /\ UNCHANGED <<main, set>> /\ ~StartInit
              /\ querier[i] = "query" /\ set[i].intv = 0
  <2>1. AskFails(i) /\ UNCHANGED <<main, set, loop>>
    BY <1>1, <1>11, QuerierFrame DEF loopVars
  <2>2. querier[i] = "query" /\ set[i].intv = 0
    BY <1>1, <2>1 DEF AskFails
  <2>3. ~StartInit
    BY <2>1 DEF StartInit, GoOn
  <2> QED
    BY <2>1, <2>2, <2>3
<1> QED
  BY <1>0, <1>2, <1>3, <1>4, <1>5, <1>6, <1>7, <1>8, <1>9, <1>10, <1>11, Steps

\* An interval that was never stored takes the process down only with a one-shot client, or
\* before main has started the first one (server.go:303-310, 378-398, cmd.go:59-104,
\* client.go:415-416, 595-597).
THEOREM NilIntervalCorrect == Spec => []NilIntervalIsOneShot
<1>1. Init => NilIntervalIsOneShot
  BY DEF Init, NilIntervalIsOneShot
<1>2. IInv /\ Started /\ NilIntervalIsOneShot /\ [Next]_vars => NilIntervalIsOneShot'
  <2>1. CASE UNCHANGED vars
    BY <2>1, SameClients DEF vars, mainVars, runVars, clientVars, NilIntervalIsOneShot
  <2>2. ASSUME IInv, Started, Next, crash' = "nilInterval"
        PROVE  main' \in Attaching \cup {"start"} \/ set'[Newest'].intv = 0
    <3>1. /\ UNCHANGED <<main, set>> /\ Alive /\ ~StartInit
          /\ \/ loop \in {"stop", "period"} /\ NoInterval(instance)
             \/ loop = "connect" /\ set[instance].intv = 0
             \/ \E i \in Clients : querier[i] = "query" /\ set[i].intv = 0
      BY <2>2, NilSteps
    <3>2. Newest' = Newest
      BY <2>2, <3>1, SameNewest DEF IInv, Types
    <3>3. loop \in {"stop", "period", "connect"} => instance = Newest /\ instance # None
      BY <2>2 DEF IInv, Arguments, Generations
    <3>4. \A i \in Clients : querier[i] = "query" => i = Newest
      BY <2>2, AtWork DEF IInv, Types
    <3>5. CASE loop \in {"stop", "period"} /\ NoInterval(instance)
      BY <2>2, <3>1, <3>2, <3>3, <3>5 DEF NoInterval, Started, Alive, Exited, Starting
    <3> QED
      BY <3>1, <3>2, <3>3, <3>4, <3>5
  <2> QED
    BY <2>1, <2>2 DEF NilIntervalIsOneShot
<1> QED
  BY <1>1, <1>2, StartedAlways, Invariance, PTL DEF Spec

----------------------------------------------------------------------------
\* The plugins, when no command has touched them before main had attached its own

\* What the client in use reports to is ready, and no two of it share a container; the command
\* under execution works on another one.
Ready ==
    /\ instance # None =>
          /\ \A g \in attached[instance] : registry[Base[g]] = "ready"
          /\ \A g, h \in attached[instance] : Base[g] = Base[h] => g = h
    /\ loop \in {"open", "initPlugin", "add", "unregister"} =>
          \A g \in attached[instance] : Base[g] # Base[cmd]
    /\ loop = "open" => registry[Base[cmd]] = "broken"
    /\ loop = "initPlugin" => registry[Base[cmd]] = "loaded"
    /\ loop \in {"add", "unregister"} => registry[Base[cmd]] = "ready"

\* While main loads and attaches plugins it is alone with them.
Alone ==
    /\ main \in Attaching =>
          /\ loop \notin PluginLabels
          /\ \A n \in Libs : lib[n] # "failed"
          /\ \A n \in Libs : registry[n] \in {"none", "ready"}
                             \/ (main \in {"open", "initPlugin"} /\ n = Base[visit.of])
    /\ main = "open" => registry[Base[visit.of]] = "broken"
    /\ main = "initPlugin" => registry[Base[visit.of]] = "loaded"
    /\ main = "attach" => registry[visit.of] = "ready"
    /\ main \in {"load", "open", "initPlugin"} => attached[1] = {}
    /\ main \in {"range", "attach"} => attached[1] \subseteq Libs

\* A library whose one Init failed stays with the container that met it, so that what is ready,
\* and what is being unplugged, has a library with a cancel.
Libraries ==
    /\ \A n \in Libs : registry[n] = "ready" => ~NoCancel(n)
    /\ \A n \in Libs : lib[n] = "failed" => registry[n] = "loaded"
    /\ loop \in {"open", "initPlugin"} => lib[Base[cmd]] # "failed"
    /\ loop = "destory" => cmd \in Libs /\ ~NoCancel(cmd)
    /\ main = "destory" => registry[visit.of] \in {"broken", "loaded"} \/ ~NoCancel(visit.of)

\* A reporter calls functions that were found.
Found == call # None => call.found

Prepared == Ready /\ Alone /\ Libraries /\ Found

\* Steps that leave the plugins, and who works on them, alone.
LEMMA PreparedQuiet ==
    ASSUME Prepared, Arguments, UNCHANGED <<hostVars, attached, call>>,
           instance' \in {instance, None} \/ attached[instance'] = {},
           UNCHANGED <<main, visit>> \/ main' \notin Attaching \cup {"destory"},
           UNCHANGED <<loop, cmd, instance>> \/ loop' \notin PluginLabels
             \/ (loop' \in {"plugin", "unplugin"} /\ main' \notin Attaching)
    PROVE  Prepared'
<1> USE DEF Prepared, hostVars
<1>1. Ready'
  BY DEF Ready, PluginLabels, Arguments
<1>2. Alone'
  BY DEF Alone, PluginLabels, Attaching
<1>3. Libraries'
  BY DEF Libraries, NoCancel, PluginLabels
<1>4. Found'
  BY DEF Found
<1> QED
  BY <1>1, <1>2, <1>3, <1>4

\* No command works on a plugin while main attaches its own.
LEMMA AloneAtWork == ASSUME Alone, loop \in PluginLabels PROVE main \notin Attaching
BY DEF Alone

\* A step of the server that works on one plugin.
LEMMA PreparedPlugin ==
    ASSUME Types, Arguments, Prepared, PluginStep PROVE Prepared'
<1> USE DEF Prepared, Types, HostOK, hostVars, SavedTypes, ReporterTypes, GoOn, Answered, Panic, LoopAt,
            loopVars, clientVars, reporterVars, savedVars
<1>1. /\ loop \in PluginLabels /\ main \notin Attaching /\ UNCHANGED <<instance, call, main, visit>>
      /\ cmd \in Given /\ Base[cmd] \in Libs /\ instance \in Clients /\ instance # None
  <2>1. loop \in PluginLabels
    BY DEF PluginStep, PluginCmd, PluginOpen, PluginInit, PluginAdd, UnpluginCmd, UnpluginUnregister,
        UnpluginDestory, UnpluginJoin, PluginLabels
  <2> QED
    BY <2>1, AloneAtWork, PluginFrame DEF Arguments, Libs, mainVars, rangeVars
<1>2. Alone' /\ Found'
  BY <1>1 DEF Alone, Found, Attaching
<1>3. \A g \in Given : Base[g] \in Libs
  BY DEF Libs
<1>4. CASE PluginCmd
  <2>1. CASE StorePlugin(Base[cmd]) /\ GoOn("open")
    <3>1. /\ registry[Base[cmd]] = "none" /\ registry' = [registry EXCEPT ![Base[cmd]] = "broken"]
          /\ lib' = lib /\ loop' = "open" /\ cmd' = cmd /\ attached' = attached
      BY <1>4, <2>1 DEF StorePlugin, Registered, PluginCmd
    <3>2. \A g \in attached[instance] : Base[g] # Base[cmd]
      BY <1>1, <3>1 DEF Ready
    <3>3. Ready'
      BY <1>1, <1>3, <3>1, <3>2 DEF Ready
    <3>4. Libraries'
      BY <1>1, <3>1 DEF Libraries, NoCancel, Arguments
    <3> QED
      BY <1>2, <3>3, <3>4
  <2> QED
    BY <1>1, <1>4, <2>1, PreparedQuiet DEF PluginCmd, PluginLabels
<1>5. CASE PluginOpen
  <2>1. CASE OpenPlugin(Base[cmd]) /\ GoOn("initPlugin")
    <3>1. /\ registry[Base[cmd]] = "broken" /\ registry' = [registry EXCEPT ![Base[cmd]] = "loaded"]
          /\ lib' = lib /\ loop = "open" /\ loop' = "initPlugin" /\ cmd' = cmd /\ attached' = attached
      BY <1>5, <2>1 DEF OpenPlugin, PluginOpen, Ready
    <3>2. Ready'
      BY <1>1, <1>3, <3>1 DEF Ready
    <3>3. Libraries'
      BY <1>1, <3>1 DEF Libraries, NoCancel, Arguments
    <3> QED
      BY <1>2, <3>2, <3>3
  <2> QED
    BY <1>1, <1>5, <2>1, PreparedQuiet DEF PluginOpen, PluginLabels
<1>6. CASE PluginInit
  <2>1. /\ loop = "initPlugin" /\ registry[Base[cmd]] = "loaded" /\ lib[Base[cmd]] # "failed"
        /\ attached' = attached
    BY <1>6 DEF PluginInit, Ready, Libraries
  <2>2. CASE InitPlugin(Base[cmd]) /\ GoOn("add")
    <3>1. /\ registry' = [registry EXCEPT ![Base[cmd]] = "ready"] /\ loop' = "add" /\ cmd' = cmd
          /\ lib'[Base[cmd]] \notin {"fresh", "failed"}
          /\ \A n \in Libs : n # Base[cmd] => lib'[n] = lib[n]
      BY <1>1, <2>1, <2>2 DEF InitPlugin
    <3>2. Ready'
      BY <1>1, <1>3, <2>1, <3>1 DEF Ready
    <3>3. Libraries'
      BY <1>1, <3>1 DEF Libraries, NoCancel, Arguments
    <3> QED
      BY <1>2, <3>2, <3>3
  <2>3. CASE InitFails(Base[cmd]) /\ Answered
    <3>1. /\ registry' = registry /\ loop' = "top" /\ \A n \in Libs : n # Base[cmd] => lib'[n] = lib[n]
      BY <1>1, <2>1, <2>3 DEF InitFails
    <3>2. Ready'
      BY <1>1, <2>1, <3>1 DEF Ready
    <3>3. Libraries'
      BY <1>1, <2>1, <3>1 DEF Libraries, NoCancel, Arguments
    <3> QED
      BY <1>2, <3>2, <3>3
  <2> QED
    BY <1>6, <2>2, <2>3 DEF PluginInit
<1>7. CASE PluginAdd
  <2>1. loop = "add" /\ loop' = "top" /\ UNCHANGED hostVars
        /\ attached'[instance] = attached[instance] \cup {cmd}
    BY <1>1, <1>7 DEF PluginAdd
  <2>2. Ready'
    BY <1>1, <2>1 DEF Ready
  <2>3. Libraries'
    BY <1>1, <2>1 DEF Libraries, NoCancel
  <2> QED
    BY <1>2, <2>2, <2>3
<1>8. CASE UnpluginCmd
  <2>1. CASE cmd \in attached[instance]
    <3>1. loop' = "unregister" /\ cmd' = cmd /\ UNCHANGED hostVars
          /\ attached'[instance] = attached[instance] \ {cmd}
      BY <1>1, <1>8, <2>1 DEF UnpluginCmd, DeleteReporter
    <3>2. Ready'
      BY <1>1, <2>1, <3>1 DEF Ready
    <3>3. Libraries'
      BY <1>1, <3>1 DEF Libraries, NoCancel
    <3> QED
      BY <1>2, <3>2, <3>3
  <2> QED
    BY <1>1, <1>8, <2>1, PreparedQuiet DEF UnpluginCmd, PluginLabels
<1>9. CASE UnpluginUnregister
  <2>1. loop = "unregister" /\ registry[Base[cmd]] = "ready" /\ attached' = attached
    BY <1>9 DEF UnpluginUnregister, Ready
  <2>2. CASE cmd \in Libs /\ Registered(cmd)
    <3>1. Base[cmd] = cmd
      BY <2>2, BaseAssumption
    <3>2. /\ registry' = [registry EXCEPT ![cmd] = "none"] /\ lib' = lib /\ loop' = "destory" /\ cmd' = cmd
      BY <1>9, <2>1, <2>2, <3>1 DEF UnpluginUnregister, UnregisterPlugin
    <3>3. Ready'
      BY <1>1, <1>3, <2>1, <3>1, <3>2 DEF Ready
    <3>4. Libraries'
      BY <1>1, <2>1, <2>2, <3>1, <3>2 DEF Libraries, NoCancel, Arguments
    <3> QED
      BY <1>2, <3>3, <3>4
  <2> QED
    BY <1>1, <1>9, <2>2, PreparedQuiet DEF UnpluginUnregister, UnregisterPlugin, PluginLabels
<1>10. CASE UnpluginDestory \/ UnpluginJoin
  <2>1. /\ attached' = attached /\ registry' = registry
        /\ loop' \in {"destory", "joinPlugin", "top", "hung"}
        /\ loop' = "destory" => loop = "destory" /\ cmd' = cmd
    <3>1. attached' = attached
      BY <1>10 DEF UnpluginDestory, UnpluginJoin
    <3>2. CASE UnpluginDestory
      BY <3>1, <3>2 DEF UnpluginDestory, StopPlugin, LoopLost
    <3>3. CASE UnpluginJoin
      BY <3>1, <3>3 DEF UnpluginJoin, JoinPlugin, LoopLost
    <3> QED
      BY <1>10, <3>2, <3>3
  <2>2. \A n \in Libs : lib'[n] = lib[n] \/ lib'[n] \in {"down", "released"}
    <3>1. StopPlugin(cmd) \/ JoinPlugin(cmd) \/ UNCHANGED lib
      BY <1>10 DEF UnpluginDestory, UnpluginJoin, LoopLost
    <3>2. CASE StopPlugin(cmd)
      BY <3>2 DEF StopPlugin
    <3> QED
      BY <3>1, <3>2 DEF JoinPlugin
  <2>3. Ready'
    BY <1>1, <2>1 DEF Ready
  <2>4. Libraries'
    BY <1>1, <2>1, <2>2 DEF Libraries, NoCancel, Arguments
  <2> QED
    BY <1>2, <2>3, <2>4
<1> QED
  BY <1>4, <1>5, <1>6, <1>7, <1>8, <1>9, <1>10 DEF PluginStep

\* A step of main that loads, visits, attaches or stops a plugin.
LEMMA PreparedMain ==
    ASSUME Types, Arguments, Generations, Prepared, MainQuiet \/ MainAttach \/ MainUnloads
    PROVE  Prepared'
<1> USE DEF Prepared, Types, HostOK, hostVars, ReporterTypes, loopVars, clientVars, reporterVars, savedVars,
            callVars, MainGoes, MainAt, rangeVars, Attaching
<1>1. UNCHANGED <<loop, cmd, instance, call>> /\ \A g \in Given : Base[g] \in Libs
  BY MainQuietFrame, MainAttachFrame, MainUnloadsFrame DEF Libs
<1>2. Found'
  BY <1>1 DEF Found
<1>3. main \in Attaching => loop \notin PluginLabels /\ loop \notin {"open", "initPlugin", "add", "unregister", "destory"}
                            /\ instance = 1 /\ 1 \in Clients
  BY DEF Alone, PluginLabels, Generations, Starting, Clients
<1>4. ASSUME NEW g \in Given, MainLoad(g) PROVE Prepared'
  <2>1. CASE main' = "exit1"
    BY <1>1, <1>4, <2>1, PreparedQuiet DEF MainLoad
  <2>2. CASE main' # "exit1"
    <3>1. /\ main = "load" /\ main' = "open" /\ visit'.of = g /\ UNCHANGED <<lib, attached>>
          /\ registry' = [registry EXCEPT ![Base[g]] = "broken"]
      BY <1>4, <2>2 DEF MainLoad, StorePlugin
    <3>2. attached[1] = {}
      BY <3>1 DEF Alone
    <3>3. Ready'
      BY <1>1, <1>3, <3>1, <3>2 DEF Ready
    <3>4. Alone'
      BY <1>1, <1>3, <3>1, <3>2 DEF Alone
    <3>5. Libraries'
      BY <1>1, <1>3, <3>1 DEF Libraries, Alone, NoCancel
    <3> QED
      BY <1>2, <3>3, <3>4, <3>5
  <2> QED
    BY <2>1, <2>2
<1>5. CASE MainOpen
  <2>1. CASE main' = "exit1"
    BY <1>1, <1>5, <2>1, PreparedQuiet DEF MainOpen
  <2>2. CASE main' # "exit1"
    <3>1. /\ main = "open" /\ main' = "initPlugin" /\ UNCHANGED <<visit, lib, attached>>
          /\ registry[Base[visit.of]] = "broken" /\ Base[visit.of] \in Libs
          /\ registry' = [registry EXCEPT ![Base[visit.of]] = "loaded"]
      BY <1>1, <1>5, <2>2 DEF MainOpen, OpenPlugin, Alone, Arguments, MainTypes, Visits
    <3>2. attached[1] = {}
      BY <3>1 DEF Alone
    <3>3. Ready'
      BY <1>1, <1>3, <3>1, <3>2 DEF Ready
    <3>4. Alone'
      BY <1>1, <1>3, <3>1, <3>2 DEF Alone
    <3>5. Libraries'
      BY <1>1, <1>3, <3>1 DEF Libraries, Alone, NoCancel
    <3> QED
      BY <1>2, <3>3, <3>4, <3>5
  <2> QED
    BY <2>1, <2>2
<1>6. CASE MainInit
  <2>1. CASE main' = "exit1"
    BY <1>1, <1>6, <2>1, PreparedQuiet DEF MainInit
  <2>2. CASE main' # "exit1"
    <3>1. /\ main = "initPlugin" /\ main' = "load" /\ UNCHANGED <<visit, attached>>
          /\ registry[Base[visit.of]] = "loaded" /\ Base[visit.of] \in Libs
          /\ InitPlugin(Base[visit.of])
      BY <1>1, <1>6, <2>2 DEF MainInit, Alone, Arguments, MainTypes, Visits
    <3>2. attached[1] = {} /\ lib[Base[visit.of]] # "failed"
      BY <3>1 DEF Alone
    <3>3. /\ registry' = [registry EXCEPT ![Base[visit.of]] = "ready"]
          /\ lib'[Base[visit.of]] \notin {"fresh", "failed"}
          /\ \A n \in Libs : n # Base[visit.of] => lib'[n] = lib[n]
      BY <3>1, <3>2 DEF InitPlugin
    <3>4. Ready'
      BY <1>1, <1>3, <3>1, <3>2, <3>3 DEF Ready
    <3>5. Alone'
      BY <1>1, <1>3, <3>1, <3>2, <3>3 DEF Alone
    <3>6. Libraries'
      BY <1>1, <1>3, <3>1, <3>3 DEF Libraries, Alone, NoCancel
    <3> QED
      BY <1>2, <3>4, <3>5, <3>6
  <2> QED
    BY <2>1, <2>2
<1>7. CASE MainRange
  <2>1. main = "load" /\ main' = "range" /\ UNCHANGED <<registry, lib, attached>>
    BY <1>7 DEF MainRange, RangeBegins
  <2>2. Ready' /\ Libraries'
    BY <1>1, <2>1 DEF Ready, Libraries, NoCancel
  <2>3. Alone'
    BY <1>1, <2>1 DEF Alone
  <2> QED
    BY <1>2, <2>2, <2>3
<1>8. ASSUME NEW n \in Libs, MainVisit(n) PROVE Prepared'
  <2>1. UNCHANGED <<registry, lib, attached>> /\ visit'.of = n /\ registry[n] # "none"
    BY <1>8 DEF MainVisit, Unseen, Registered
  <2>2. \/ main = "range" /\ main' = "attach"
        \/ main = "plugins" /\ main' = "destory"
    BY <1>8 DEF MainVisit
  <2>3. Ready'
    BY <1>1, <2>1 DEF Ready
  <2>4. Alone'
    BY <1>1, <2>1, <2>2 DEF Alone
  <2>5. registry[n] \in {"broken", "loaded", "ready"}
    BY <2>1 DEF Containers
  <2>6. Libraries'
    BY <1>1, <2>1, <2>2, <2>5 DEF Libraries, NoCancel
  <2> QED
    BY <1>2, <2>3, <2>4, <2>6
<1>9. CASE MainAttached \/ MainWait \/ MainPluginsDone \/ MainClient \/ MainJoin
  <2>1. UNCHANGED <<hostVars, attached>> /\ main' \notin Attaching \cup {"destory"}
    BY <1>9 DEF MainAttached, MainWait, RangeBegins, MainPluginsDone, MainClient, MainJoin
  <2> QED
    BY <1>1, <2>1, PreparedQuiet
<1>10. CASE MainAttach
  <2>1. CASE main' = "exit1"
    BY <1>1, <1>10, <2>1, PreparedQuiet, MainAttachFrame DEF MainAttach
  <2>2. CASE main' # "exit1"
    <3>1. /\ main = "attach" /\ main' = "range" /\ visit.of \in Libs /\ UNCHANGED <<registry, lib>>
          /\ attached' = [attached EXCEPT ![1] = @ \cup {visit.of}]
      <4>1. main = "attach" /\ visit.of \in Libs
        BY <1>10 DEF MainAttach, Arguments
      <4>2. UNCHANGED <<registry, lib>>
        BY <1>10, MainAttachFrame
      <4>3. main' = "range" /\ attached' = [attached EXCEPT ![1] = @ \cup {visit.of}]
        BY <1>10, <2>2 DEF MainAttach
      <4> QED
        BY <4>1, <4>2, <4>3
    <3>2. attached'[1] = attached[1] \cup {visit.of} /\ attached'[1] \subseteq Libs
      BY <1>3, <3>1 DEF Alone
    <3>3. \A g \in attached'[1] : Base[g] = g /\ registry[g] = "ready"
      <4>1. instance = 1 /\ instance # None /\ \A g \in Libs : Base[g] = g
        BY <1>3, <3>1, NoneAssumption, BaseAssumption
      <4>2. \A g \in attached[1] : registry[Base[g]] = "ready"
        BY <4>1 DEF Ready
      <4>3. registry[visit.of] = "ready"
        BY <3>1 DEF Alone
      <4> QED
        BY <3>1, <3>2, <4>1, <4>2, <4>3
    <3>4. Ready'
      BY <1>1, <1>3, <3>1, <3>3 DEF Ready
    <3>5. Alone'
      BY <1>1, <3>1, <3>2 DEF Alone
    <3>6. Libraries'
      BY <1>1, <3>1 DEF Libraries, NoCancel
    <3> QED
      BY <1>2, <3>4, <3>5, <3>6
  <2> QED
    BY <2>1, <2>2
<1>11. CASE MainUnloads
  <2>1. /\ registry' = registry /\ attached' = attached /\ main \in {"destory", "joinPlugin"}
        /\ main' \in {"destory", "joinPlugin", "plugins", "hung"}
        /\ main' = "destory" => main = "destory" /\ visit' = visit
    <3>1. attached' = attached
      BY <1>11, MainUnloadsFrame
    <3>2. CASE MainDestory
      BY <3>1, <3>2 DEF MainDestory, StopPlugin, MainLost, mainVars
    <3>3. CASE MainJoinPlugin
      BY <3>1, <3>3 DEF MainJoinPlugin, JoinPlugin, MainLost, mainVars
    <3> QED
      BY <1>11, <3>2, <3>3 DEF MainUnloads
  <2>2. \A n \in Libs : lib'[n] = lib[n] \/ lib'[n] \in {"down", "released"}
    <3>1. StopPlugin(visit.of) \/ JoinPlugin(visit.of) \/ UNCHANGED lib
      BY <1>11 DEF MainUnloads, MainDestory, MainJoinPlugin, MainLost
    <3>2. CASE StopPlugin(visit.of)
      BY <3>2 DEF StopPlugin
    <3> QED
      BY <3>1, <3>2 DEF JoinPlugin
  <2>3. Ready' /\ Alone'
    BY <1>1, <2>1 DEF Ready, Alone
  <2>4. Libraries'
    <3>1. \A n \in Libs : ~NoCancel(n) => ~NoCancel(n)'
      BY <2>2 DEF NoCancel
    <3>2. \A n \in Libs : lib'[n] = "failed" => lib[n] = "failed"
      BY <2>2
    <3>3. main' = "destory" => visit.of \in Libs
      BY <2>1 DEF Arguments
    <3>4. cmd \in Given /\ loop \in {"open", "initPlugin"} => Base[cmd] \in Libs
      BY <1>1
    <3>5. loop \in {"open", "initPlugin"} => cmd \in Given
      BY DEF Arguments, PluginLabels
    <3> QED
      BY <1>1, <2>1, <3>1, <3>2, <3>3, <3>4, <3>5 DEF Libraries
  <2> QED
    BY <1>2, <2>3, <2>4
<1> QED
  BY <1>4, <1>5, <1>6, <1>7, <1>8, <1>9, <1>10, <1>11 DEF MainQuiet

LEMMA PreparedKept ==
    ASSUME Types, Arguments, Generations, Plugged, Prepared, Next, ~early'
    PROVE  Prepared'
<1> USE DEF Types, clientVars, reporterVars, savedVars, callVars, loopVars, mainVars, rangeVars, Panic,
            GoOn, Answered, LoopAt
<1>1. CASE ServerStep
  <2>1. UNCHANGED <<loop, cmd>> \/ loop' \notin PluginLabels
    BY <1>1 DEF ServerStep, Top, Release, Block, TakeDone, TakeClosed, DeleteHandler, DeferStop,
        DeferClear, PluginLabels
  <2> QED
    BY <1>1, <2>1, ServerFrame, PreparedQuiet
<1>2. CASE StartPublish
  <2>1. attached[instance'] = {} /\ loop' = "connect"
    BY <1>2 DEF StartPublish, Plugged
  <2> QED
    BY <1>2, <2>1, ClientFrame, PreparedQuiet DEF PluginLabels, ClientStep
<1>3. CASE ClientStep /\ ~StartPublish
  <2>1. UNCHANGED <<loop, cmd, instance>> \/ (loop' \notin PluginLabels /\ instance' \in {instance, None})
    BY <1>3 DEF ClientStep, StopCmd, StopJoin, StartFails, StartInit, StartRun, StartConnect, SuspendCmd,
        ResumeCmd, ConfigCmd, PeriodCmd, SendReQuery, PluginLabels
  <2> QED
    BY <1>3, <2>1, ClientFrame, PreparedQuiet
<1>4. CASE PluginStep
  BY <1>4, PreparedPlugin
<1>5. ASSUME NEW c \in Menu, NEW a \in Args(c), TakeCommand(c, a) PROVE Prepared'
  <2>1. loop' \notin PluginLabels \/ (loop' \in {"plugin", "unplugin"} /\ main' \notin Attaching)
    BY <1>5, MenuAssumption DEF TakeCommand, Commands, PluginLabels
  <2> QED
    BY <1>5, <2>1, PreparedQuiet DEF TakeCommand
<1>6. CASE Interrupt
  <2>1. UNCHANGED loop \/ loop' = "deferStop"
    BY <1>6 DEF Interrupt
  <2> QED
    BY <1>6, <2>1, InterruptFrame, PreparedQuiet DEF PluginLabels
<1>7. CASE CallStep
  <2>1. UNCHANGED <<hostVars, attached, loopVars, mainVars, savedVars>>
    BY <1>7, CallFrame
  <2>2. call' # None => call # None /\ call'.found = call.found
    BY <1>7 DEF CallStep, Enter, EnterPanics, Return, CallTypes, Calls
  <2>3. Ready' /\ Alone' /\ Libraries'
    BY <2>1 DEF Prepared, Ready, Alone, Libraries, NoCancel, hostVars
  <2> QED
    BY <2>2, <2>3 DEF Prepared, Found
<1>8. ASSUME NEW i \in Clients, NEW g \in Given, Pick(i, g) PROVE Prepared'
  <2>1. UNCHANGED <<hostVars, attached, loopVars, mainVars, savedVars>>
    BY <1>8, PickFrame
  <2>2. call'.found
    <3>1. i = instance /\ g \in attached[instance] /\ instance # None
      BY <1>8, NoneAssumption DEF Pick, Plugged
    <3>2. registry[Base[g]] # "broken"
      BY <3>1 DEF Prepared, Ready
    <3> QED
      BY <1>8, <3>2 DEF Pick
  <2>3. Ready' /\ Alone' /\ Libraries'
    BY <2>1 DEF Prepared, Ready, Alone, Libraries, NoCancel, hostVars
  <2> QED
    BY <2>2, <2>3 DEF Prepared, Found
<1>9. ASSUME NEW i \in Clients, QuerierStep(i) PROVE Prepared'
  BY <1>9, QuerierFrame, PreparedQuiet
<1>10. CASE MainQuiet \/ MainAttach \/ MainUnloads
  BY <1>10, PreparedMain
<1>11. CASE MainStops \/ MainRuns
  <2>1. (main' = main /\ visit' = visit) \/ main' \notin Attaching \cup {"destory"}
    BY <1>11 DEF MainStops, MainStopServer, MainClear, MainRuns, MainStart, MainStop, MainGoes, Attaching
  <2>2. UNCHANGED visit
    BY <1>11 DEF MainStops, MainStopServer, MainClear, MainRuns, MainStart, MainStop, MainGoes
  <2> QED
    BY <1>11, <2>1, <2>2, MainStopsFrame, MainRunsFrame, PreparedQuiet
<1> QED
  BY <1>1, <1>2, <1>3, <1>4, <1>5, <1>6, <1>7, <1>8, <1>9, <1>10, <1>11, Steps DEF Command

\* Once a plugin was touched in the start-up it has been.
LEMMA EarlyStays == ASSUME Next, ~early' PROVE ~early
<1>1. ~Command => early' = early
  BY Steps, ServerFrame, ClientFrame, PluginFrame, InterruptFrame, CallFrame, PickFrame, QuerierFrame,
     MainQuietFrame, MainAttachFrame, MainUnloadsFrame, MainStopsFrame, MainRunsFrame
  DEF callVars, Pick
<1>2. Command => (early => early')
  BY DEF Command, TakeCommand
<1> QED
  BY <1>1, <1>2

LEMMA PreparedAlways == Spec => [](early \/ Prepared)
<1>1. Init => Prepared
  BY NoneAssumption, BoundsAssumption
  DEF Init, HostInit, Prepared, Ready, Alone, Attaching, PluginLabels, Libraries, Found, Clients
<1>2. IInv /\ (early \/ Prepared) /\ [Next]_vars => (early \/ Prepared)'
  <2>1. ASSUME IInv, early \/ Prepared, Next PROVE (early \/ Prepared)'
    BY <2>1, EarlyStays, PreparedKept DEF IInv
  <2>2. ASSUME early \/ Prepared, UNCHANGED vars PROVE (early \/ Prepared)'
    BY <2>2 DEF Prepared, Ready, Alone, Libraries, NoCancel, Found, vars, loopVars, mainVars, rangeVars,
       clientVars, reporterVars, savedVars, callVars, hostVars
  <2> QED
    BY <2>1, <2>2
<1> QED
  BY <1>1, <1>2, Invariance, PTL DEF Spec

\* Whatever main loads and attaches, and whatever is plugged, refused, unplugged, stopped and
\* started after it has, a client that is in use reports only to plugins that are registered,
\* found and initialised (report.go:66-153, cmd.go:148-237).
THEOREM AttachedReadyCorrect == Spec => []AttachedReady
<1>1. IInv /\ (early \/ Prepared) => AttachedReady
  BY DEF Prepared, Ready, AttachedReady
<1> QED
  BY <1>1, Invariance, PreparedAlways, PTL

LEMMA PluginPanics ==
    ASSUME IInv, Prepared, Next, crash' \in {"nilFunction", "nilCancel"}
    PROVE  crash' = crash \/ (UNCHANGED <<main, visit, registry>> /\ main = "destory"
                              /\ registry[visit.of] \in {"broken", "loaded"})
<1> USE DEF Panic, LoopAt
<1>1. CASE ServerStep \/ ClientStep
  BY <1>1 DEF ServerStep, Top, Release, Block, TakeDone, TakeClosed, DeleteHandler, DeferStop,
      EnterStop, EnterOnce, DeferClear, ClientStep, StopCmd, StopJoin, StartFails, StartInit, StartRun,
      StartPublish, StartConnect, SuspendCmd, ResumeCmd, ConfigCmd, PeriodCmd, SendReQuery
<1>2. CASE PluginStep
  <2>1. CASE UnpluginUnregister
    <3>1. registry[Base[cmd]] = "ready" /\ (cmd \in Libs => Base[cmd] = cmd)
      BY <2>1, BaseAssumption DEF UnpluginUnregister, Prepared, Ready
    <3> QED
      BY <2>1, <3>1 DEF UnpluginUnregister, UnregisterPlugin
  <2>2. CASE UnpluginDestory
    BY <2>2 DEF UnpluginDestory, LoopLost, Prepared, Libraries
  <2> QED
    BY <1>2, <2>1, <2>2 DEF PluginStep, PluginCmd, PluginOpen, PluginInit, PluginAdd, UnpluginCmd,
       UnpluginJoin, LoopLost
<1>3. CASE Command \/ Interrupt
  BY <1>3 DEF Command, TakeCommand, Interrupt
<1>4. CASE CallStep
  BY <1>4 DEF CallStep, Enter, EnterPanics, Return, Prepared, Found
<1>5. CASE MainDestory
  BY <1>5 DEF MainDestory, MainLost, MainAt, Prepared, Libraries, mainVars, rangeVars, hostVars
<1>6. CASE MainJoinPlugin
  BY <1>6 DEF MainJoinPlugin, MainLost
<1>7. CASE MainStops
  BY <1>7 DEF MainStops, MainStopServer, EnterStop, EnterOnce, MainClear
<1>8. ASSUME NEW i \in Clients, QuerierStep(i) PROVE crash' = crash
  BY <1>8, QuerierFrame DEF AskFails
<1> QED
  BY <1>1, <1>2, <1>3, <1>4, <1>5, <1>6, <1>7, <1>8, Steps, PickFrame, MainQuietFrame, MainAttachFrame,
     MainRunsFrame
  DEF MainUnloads

\* However often plugins are loaded and unloaded, only the end of the command is taken down by
\* a function or a cancel that a plugin does not have, and only by one whose load or Init failed or
\* was not done, unless a command came before main had attached its own (cmd.go:148-237,
\* report.go:168-192, cplugin.go:212-257, yd4go/main.go:95-132, 189-198).
THEOREM StopsReadyPluginsCorrect == Spec => []StopsReadyPlugins
<1>1. Init => StopsReadyPlugins
  BY DEF Init, StopsReadyPlugins
<1>2. IInv /\ (early \/ Prepared) /\ StopsReadyPlugins /\ [Next]_vars => StopsReadyPlugins'
  <2>1. CASE UNCHANGED vars
    BY <2>1 DEF vars, mainVars, rangeVars, callVars, hostVars, StopsReadyPlugins
  <2>2. ASSUME IInv, early \/ Prepared, Next, ~early', crash' \in {"nilFunction", "nilCancel"}
        PROVE  main' = "destory" /\ registry'[visit'.of] \in {"broken", "loaded"}
    <3>1. crash = "none"
      BY <2>2, NextAlive DEF Alive
    <3>2. Prepared
      BY <2>2, EarlyStays
    <3> QED
      BY <2>2, <3>1, <3>2, PluginPanics
  <2> QED
    BY <2>1, <2>2 DEF StopsReadyPlugins
<1> QED
  BY <1>1, <1>2, PreparedAlways, Invariance, PTL DEF Spec


----------------------------------------------------------------------------
\* What is seen of the clients from outside

shown == <<Newest, phase[Newest] # "off", set[Newest].sink, report[Newest], Newest \in Sinking, file>>

\* Only a client that is made, or that works or ends, is seen to change.
LEMMA SeenSteps ==
    ASSUME RunTypes, Next
    PROVE  \/ StartInit
           \/ \E i \in Clients : Measure(i) \/ Sink(i) \/ Finish(i)
           \/ /\ UNCHANGED <<report, file>>
              /\ \A i \in Clients : querier'[i] = "sink" <=> querier[i] = "sink"
<1> USE DEF RunTypes, clientVars, runVars, sinkVars
<1>1. CASE ClientStep
  BY <1>1 DEF ClientStep, StopCmd, StopJoin, StartFails, StartRun, StartPublish, StartConnect, SuspendCmd,
      ResumeCmd, ConfigCmd, PeriodCmd, SendReQuery
<1>2. ASSUME NEW i \in Clients, QuerierStep(i)
      PROVE  \/ Measure(i) \/ Sink(i) \/ Finish(i)
             \/ /\ UNCHANGED <<report, file>>
                /\ \A j \in Clients : querier'[j] = "sink" <=> querier[j] = "sink"
  BY <1>2 DEF QuerierStep, Look, Pass, AskFails, AskIdly
<1>3. CASE UNCHANGED <<querier, sinkVars>>
  BY <1>3
<1> QED
  BY <1>1, <1>2, <1>3, Steps, ServerFrame, PluginFrame, CommandFrame, InterruptFrame, CallFrame, PickFrame,
     MainQuietFrame, MainAttachFrame, MainUnloadsFrame, MainStopsFrame, MainRunsFrame

\* A client is off when it ends, and only then.
LEMMA OffByFinish ==
    ASSUME RunTypes, SavedTypes, Generations, Next, ~StartInit, NEW i \in Clients, ~Finish(i)
    PROVE  phase'[i] = "off" <=> phase[i] = "off"
<1> USE DEF RunTypes, runVars, clientVars
<1>1. CASE ClientStep /\ ~StartRun
  BY <1>1 DEF ClientStep, StopCmd, StopClient, StopJoin, StartFails, StartPublish, StartConnect, SuspendCmd,
      ResumeCmd, ConfigCmd, PeriodCmd, SendReQuery
<1>2. CASE StartRun
  BY <1>2 DEF StartRun, LoopAt, Generations
<1>3. CASE MainRuns
  BY <1>3 DEF MainRuns, MainStart, MainStop, StopClient, MainAt, Generations, Attaching, Starting
<1>4. ASSUME NEW j \in Clients, QuerierStep(j) PROVE phase'[i] = "off" <=> phase[i] = "off"
  BY <1>4 DEF QuerierStep, Look, Pass, AskFails, AskIdly, AfterQuery, StopClient, Measure, Sink, Finish
<1>5. CASE UNCHANGED phase
  BY <1>5
<1> QED
  BY <1>1, <1>2, <1>3, <1>4, <1>5, Steps, ServerFrame, PluginFrame, CommandFrame, InterruptFrame,
     CallFrame, PickFrame, MainQuietFrame, MainAttachFrame, MainUnloadsFrame, MainStopsFrame

LEMMA SuccessionStep ==
    ASSUME IInv, Next
    PROVE  Succession!Next \/ UNCHANGED shown
<1>0. /\ Newest \in Clients /\ Types /\ Arguments /\ Generations /\ SavedForStart
      /\ RunTypes /\ SinkTypes /\ SavedTypes
  BY DEF IInv, Generations, Types
<1>1. CASE StartInit
  <2>1. Newest + 1 \in Clients /\ Newest' = Newest + 1
    BY <1>0, <1>1, NextClient
  <2>2. phase[Newest] = "off" /\ Sinking = {}
    BY <1>0, <1>1 DEF StartInit, LoopAt, Generations, Working, Sinking, Made, Clients, RunTypes
  <2>3. PICK s \in Settings : /\ set' = [set EXCEPT ![Newest + 1] = s]
                              /\ report' = [report EXCEPT ![Newest + 1] = Recovered(s)]
    BY <1>0, <1>1, NewSettings
  <2>4. /\ phase' = [phase EXCEPT ![Newest + 1] = "made"] /\ UNCHANGED <<querier, file>>
    BY <1>1 DEF StartInit
  <2>5. /\ phase'[Newest'] = "made" /\ set'[Newest'] = s
        /\ report'[Newest'] = IF s.sink = None THEN 0 ELSE file[s.sink]
    BY <1>0, <2>1, <2>2, <2>3, <2>4 DEF Recovered, RunTypes, SinkTypes, SavedTypes
  <2>6. s.sink \in Sinks \cup {None}
    BY SettingsRecords
  <2>7. Newest \notin Sinking /\ Newest' \notin Sinking'
    BY <2>2, <2>4 DEF Sinking
  <2> QED
    BY <2>1, <2>2, <2>4, <2>5, <2>6, <2>7 DEF Succession!Begin, Succession!Next
<1>2. CASE ~StartInit
  <2>1. Newest' = Newest /\ set'[Newest].sink = set[Newest].sink
    BY <1>0, <1>2, SameNewest, SettingsSteps
  <2>2. \A i \in Clients : report[i] \in Nat
    BY <1>0, BoundsAssumption DEF SinkTypes
  <2>3. ASSUME NEW i \in Clients, Measure(i) PROVE Succession!Next
    <3>1. i = Newest /\ phase[i] \in {"on", "stopping"} /\ querier[i] = "query"
      BY <1>0, <2>3, AtWork DEF Measure
    <3>2. report'[i] = report[i] + 1 /\ file' = file
      BY <1>0, <2>3 DEF Measure, SinkTypes
    <3>3. phase'[i] # "off"
      BY <1>0, <2>3, <3>1 DEF Measure, AfterQuery, StopClient, RunTypes
    <3>4. Newest \notin Sinking /\ (Newest \in Sinking' <=> set[Newest].sink # None)
      BY <1>0, <2>3, <3>1 DEF Measure, Sinking, RunTypes
    <3> QED
      BY <2>1, <3>1, <3>2, <3>3, <3>4 DEF Succession!Measure, Succession!Next
  <2>4. ASSUME NEW i \in Clients, Sink(i) PROVE Succession!Next
    <3>1. i = Newest /\ phase[i] \in {"on", "stopping"} /\ querier[i] = "sink"
      BY <1>0, <2>4, AtWork DEF Sink
    <3>2. /\ report' = report
          /\ \E r \in {report[i], file[set[i].sink], 0} : file' = [file EXCEPT ![set[i].sink] = r]
      BY <2>4 DEF Sink
    <3>3. phase'[i] # "off"
      BY <1>0, <2>4, <3>1 DEF Sink, AfterQuery, StopClient, RunTypes
    <3>4. Newest \in Sinking /\ Newest \notin Sinking'
      BY <1>0, <2>4, <3>1 DEF Sink, Sinking, RunTypes
    <3> QED
      <4>1. \E r \in {report[Newest], file[set[Newest].sink], 0} :
               file' = [file EXCEPT ![set[Newest].sink] = r]
        BY <3>1, <3>2
      <4>2. /\ phase[Newest] # "off" /\ (phase[Newest] # "off")' = (phase[Newest] # "off")
            /\ (Newest \in Sinking)' = FALSE
        BY <2>1, <3>1, <3>3, <3>4
      <4>3. UNCHANGED <<Newest, set[Newest].sink, report[Newest]>>
        BY <2>1, <3>2
      <4> QED
        BY <3>4, <4>1, <4>2, <4>3 DEF Succession!Save, Succession!Next
  <2>5. ASSUME NEW i \in Clients, Finish(i) PROVE Succession!Next
    <3>1. i = Newest /\ phase[i] \in {"on", "stopping"} /\ querier[i] = "idle"
      BY <1>0, <2>5, AtWork DEF Finish, Ended
    <3>2. UNCHANGED <<report, file, querier>> /\ phase'[i] = "off"
      BY <1>0, <2>5 DEF Finish, RunTypes, sinkVars
    <3>3. Newest \notin Sinking /\ Newest \notin Sinking'
      BY <3>1, <3>2 DEF Sinking
    <3> QED
      BY <2>1, <3>1, <3>2, <3>3 DEF Succession!End, Succession!Next
  <2>6. ASSUME ~\E i \in Clients : Measure(i) \/ Sink(i) \/ Finish(i)
        PROVE  UNCHANGED shown
    <3>1. UNCHANGED <<report, file>> /\ \A i \in Clients : querier'[i] = "sink" <=> querier[i] = "sink"
      BY <1>0, <1>2, <2>6, SeenSteps
    <3>2. \A i \in Clients : i \in Sinking' <=> i \in Sinking
      BY <3>1 DEF Sinking
    <3>3. \A i \in Clients : ~Finish(i)
      BY <2>6
    <3>4. phase'[Newest] = "off" <=> phase[Newest] = "off"
      BY <1>0, <1>2, <3>3, OffByFinish
    <3> QED
      BY <1>0, <2>1, <3>1, <3>2, <3>4 DEF shown
  <2> QED
    BY <2>3, <2>4, <2>5, <2>6
<1> QED
  BY <1>1, <1>2

LEMMA SuccessionInit == Init => Succession!Init
<1> SUFFICES ASSUME Init PROVE Succession!Init
  OBVIOUS
<1>1. 1 \in Clients /\ Made = 1..1
  BY BoundsAssumption DEF Init, Clients, Made
<1>2. Newest = 1
  BY <1>1, Counting
<1>3. PICK s \in Settings : set = [i \in Clients |-> s]
  BY DEF Init
<1>4. set[1].sink \in Sinks \cup {None}
  BY <1>1, <1>3, SettingsRecords
<1>5. /\ phase[1] = "made" /\ report[1] = 0 /\ 1 \notin Sinking
      /\ file = [p \in Sinks |-> 0]
  BY <1>1 DEF Init, Sinking
<1> QED
  BY <1>2, <1>4, <1>5 DEF Succession!Init

\* For any number of commands, clients, reports, sink files and plugins the process implements
\* the succession: through stops, starts that fail or change the settings and the sink file, failed
\* writes, one-shot runs and the shutdown only the newest client measures and writes, it ends only
\* after it has tried to write its last report, and the next one begins with what its own sink file
\* holds (client.go:111-139, 307-347, 652-669, server.go:299-317, 319-411, root.go:293-296).
THEOREM SuccessionRefined == Spec => SuccessionImplemented
<1>1. IInv /\ [Next]_vars => [Succession!Next]_shown
  <2>1. CASE Next
    BY <2>1, SuccessionStep
  <2>2. CASE UNCHANGED vars
    <3>1. UNCHANGED <<phase, querier, set, report, file>>
      BY <2>2 DEF vars, clientVars, runVars, sinkVars
    <3>2. Newest' = Newest /\ Sinking' = Sinking
      BY <3>1, SameClients DEF Sinking
    <3> QED
      BY <3>1, <3>2 DEF shown
  <2> QED
    BY <2>1, <2>2
<1>2. [Succession!Next]_shown <=> [Succession!Next]_(Succession!vars)
  BY DEF shown, Succession!vars
<1> QED
  BY <1>1, <1>2, Invariance, SuccessionInit, PTL DEF Spec, SuccessionImplemented, Succession!Spec
==============================================================================
