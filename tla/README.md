# latencytool in TLA+

latencytool polls an elastic server for the latency of the exchange fronts,
turns each answer into a list of front addresses in order of priority, and
hands it to reporters: plugins that push the order into a trading API, and a
control server that broadcasts it to consoles. The consoles send commands back:
suspend, resume, change the interval or the query, add or remove a plugin, stop.

This directory holds the specifications of that program. Paths and line numbers
in the modules are relative to `src/`.

| file | what it is |
|---|---|
| `LatencyClient.tla` | the latency client: querier, reporter goroutine, callers |
| `MCLatencyClient.tla` | its instances for TLC |
| `LatencyClientTypeProofs.tla` | type correctness, proved |
| `LatencyClientProofs.tla` | gate, stop, configuration, feed, Join, panics and `state`, proved |
| `LatencyFeed.tla` | what the client promises its reporters, abstractly |
| `LatencyFeedProofs.tla` | the client implements it, proved |
| `CtlHandler.tla` | the TCP control handler: connections, ids, the dispatcher |
| `MCCtlHandler.tla` | its instances for TLC |
| `CtlHandlerProofs.tla` | type correctness, routing and registration, proved |
| `CtlHandlerOrderProofs.tla` | the order of answers and the command cache, proved |
| `CommandService.tla` | what the handler promises its clients, abstractly |
| `CommandServiceProofs.tla` | the handler implements it, proved |
| `CtlServer.tla` | the process of the report command: main, the control server, the clients it stops and starts, the sink files |
| `PluginHost.tla` | the plugin registry and the libraries, part of `CtlServer` |
| `ClientSuccession.tla` | what the process promises about its clients and the sink files, abstractly |
| `CtlServerProofs.tla` | all its safety properties, the shutdown and the succession, proved |
| `MCCtlServer.tla` | its instances for TLC |
| `CtlClient.tla` | the process of a control client with its text user interface |
| `CtlClientProofs.tla` | type correctness, the settled screen and a lost connection, proved |
| `MCCtlClient.tla` | its instance for TLC |
| `*.cfg` | one TLC run each |
| `PROJECT.json` | components, runs, mutated definitions, map to the source, findings, hazards, theorems |

Run `tlc -config gate.cfg MCLatencyClient.tla` and `tlapm LatencyClientProofs.tla`.

## The system

### Components

**Latency client** (`client.go`, `state.go`). State: the live `QueryConfig`
(an atomic pointer), the interval (an atomic pointer, nil until a periodic
Start), the `suspend` flag and the WaitGroup `suspendWg` that is its gate, the
run context and `stopOnce`, the channels `notify` (capacity 10), `reQuery`
(unbuffered) and `watchRun`, the last report, the map of reporters and the
WaitGroup `reporterWg` that Join waits on. Operations: Init, Start, Suspend,
Resume, ChangeInterval, SetConfig, QueryLatency, GetConfig, GetInterval,
GetLastState, AddReporter, DelReporter, Stop, Join. Two goroutines of its own:
`runQuerier` (gate, query, sink, publish, wait for the interval or a change)
and `runReporter` (read `notify`, call every reporter).
Correct when: a suspended client does not ask; a resumed one asks again; a
changed configuration is the one asked next; reporters see States in order and
none is lost when the client stops in order; Stop and Join return.

**Query configuration** (`query.go`). `QueryConfig` holds the fields of a query
and a `TimeRange` map. `SetConfig(key, value)` sets one item and
`SetConfig(map)` of the client applies them to a shallow copy, so the map is
shared with the live configuration. Correct when: a rejected change changes
nothing, and a query asks one consistent configuration.

**Report sink** (`client.go:308-345`). The last non-empty report is kept in
memory and written to a file, from which the next client, or the next process,
recovers it. Correct when: the report never goes back, and a crash or a write that
fails costs no more than the last report.

**Control server** (`ctl/server.go`, `cmd.go`, `result.go`). State: the atomic
pointer to the client, the list of handlers, three `sync.Once`, and the stored
configuration of the last client. One goroutine, `runForever`, takes a command
from any handler, executes it on the client and publishes the result to that
handler; a reporter named "controller" broadcasts each State. Correct when:
every command is answered; stop and start leave a client that works; the
shutdown releases every handler once. It takes commands from the moment it is
started, which is before main has loaded its plugins and started the client.

**Control handlers** (`ctl/handler*.go`, `message.go`). State: the table of
connections, the cache from message key to the writer that waits for the
result, the channel of commands (capacity 10), the channel of results. A
goroutine per TCP connection; one dispatcher. Correct when: a result reaches
the client that asked, under its id; broadcasts reach every live connection;
one client's failure is its own.

**Control clients** (`ctl/client*.go`). A sequence of ids, a connection, and
message loops that subscribe to what arrives. Correct when: no loop misses the
answer it waits for, and all end when the connection does.

**Plugin registry** (`libs/`). Registered plugins by name, with the library's
functions. Correct when: what a client reports to is registered, loaded and
initialised, and what was plugged can be unplugged.

**Plugins** (`libs/yd4go`, `libs/rem4go`). Globals of a shared library: one
`initOnce`, an api, a cancel. They live as long as the process, also when the
plugin is unloaded and loaded again.

**Command line** (`cli/latencytool/cmd`). Main builds the client, the server and
the handlers, starts the server, loads its plugins, attaches them to the client,
starts the client, waits in Join and takes everything down on a signal.
Correct when: it ends, once, and leaves nothing half done.

**Text interface** (`cli/latencytool/tui`). An event loop that runs what the
user types, handlers of results and States that draw. Correct when: the screen
settles on the newest State, and the process ends with its connection or its
user.

### How they interact

```
 console --TCP/IPC--> handler --hdlCommands--> control server --calls--> latency client
    ^                   |  ^                      |                        |   |
    |                   |  +------- results ------+                        |   +--> elastic
    +---- dispatcher ---+  +------- broadcast --- "controller" reporter ---+
                                                  plugins  <-- reporters --+
```

The modules cut the system where it has the narrowest interfaces:

| module | inside | at its border |
|---|---|---|
| `LatencyClient` | one client, all its goroutines | main and the control server as callers |
| `CtlServer` with `PluginHost` | main, the server's loop, stop and start of clients, plugins, sink files | a client is a querier that asks and a reporter that calls; a handler is a channel |
| `CtlHandler` | the handler's goroutines, ids, routing | the server executes commands and publishes; a client sends and reads |
| `CtlClient` | the goroutines of a console | the server answers and broadcasts in the order it does |
| `LatencyFeed` | the abstract promise to reporters | implemented by `LatencyClient` |
| `CommandService` | the abstract promise to consoles: answers to the asker, in order, once | implemented by `CtlHandler` |
| `ClientSuccession` | the abstract promise about stop, start and the sink files | implemented by `CtlServer` |

Calls: main and the control server call the client directly; the client calls
reporters back on its reporter goroutine. Messages: commands, results and
broadcasts go through bounded channels with timeouts (5 s to hand over a
command, 3 s to publish a result, 5 s to publish a broadcast). Shared state:
the atomic pointers and WaitGroups of the client, the sync.Maps of reporters,
connections and waiting writers, the TimeRange map.

### What is hard

* The gate: a flag changed by CAS and a WaitGroup moved after it, by several
  callers, with the end of a run that reopens it.
* Two rendezvous: SetConfig and ChangeInterval with the querier, on a channel
  without a buffer, from the goroutine that executes all commands.
* Join and the reporters that come and go: a WaitGroup that is raised inside
  the goroutine it waits for and lowered for the reporters then present.
* A live configuration that is copied by value in part and shared in part.
* Bounded channels whose senders give up: what is dropped, what is overtaken.
* Ids of different connections in one space, made apart by masks.
* One dispatcher that writes to all clients without a deadline.
* The end: main and the server's loop take the same things down, each by its
  own path, while commands, queries and calls of plugins are under way.
* State that outlives its owner: a sink file, a stored configuration, an entry
  of the registry, the globals of a library.
* One event loop that executes commands and is waited for by the drawing.
* Panics that end the process: a nil interval, a negative or reused WaitGroup,
  a send on or a second close of a closed channel, a concurrent map access.

`hazards` in PROJECT.json lists them at their lines with the properties about
each.

## LatencyClient

Every goroutine has a program counter, `pc`. A step is what happens between two
points where another goroutine can be observed: an atomic operation, a channel
operation, a WaitGroup operation, a call to elastic. `crash` holds the panic
that ended the process; no step is enabled after one.

| in the model | in the code |
|---|---|
| `Start` | `LatencyClient.Start`, one step: nobody else has the run yet |
| `SwapSuspend`, `SuspendSwap`, `SuspendAdd` | `Suspend`: the CAS, then `suspendWg.Add` |
| `ResumeSwap`, `OpenGate`, `ResumeDone` | `Resume`: the CAS, then `suspendWg.Done` |
| `ChangeInterval`, `Send` | the store, then the send on `reQuery` |
| `SetConfigBegin`, `SetConfigApply`, `SetConfigStore`, `Send` | the shallow copy, the items written to it, the store, the send |
| `QueryLatency`, `GetInterval`, `GetLastState...` | the reads the commands make |
| `AddReporter`, `AddReporterCount`, `DelReporter` | the map, then `reporterWg.Add` |
| `BeginStop`, `AfterCancel`, `BeginJoin`, `JoinReporters`, ... | `cancelRun` under `stopOnce`, `Join` in its two waits |
| `Top` ... `CloseWatch` | the loop of `runQuerier` and its deferred closes |
| `ReporterBegin` ... `DrainEnd` | `runReporter`: receive, Range over the reporters, the deferred Range that counts them down |

PROJECT.json `map` gives the lines of each definition.

Modelled with care:

* `Suspend` and `Resume` are two steps each, so are `AddReporter` and a Join.
* A WaitGroup wakes its waiters when it reaches zero; a woken waiter runs later
  and panics if the group was raised again meanwhile, as Go's does.
* `Range` over a sync.Map visits each key at most once, and must visit those
  that are there from beginning to end.
* The `TimeRange` map is one variable shared by the live configuration and
  every copy; `tmp` holds only the fields a copy has by value.
* A publish that times out drops the State. The timeout is a disjunct enabled
  when the channel is full.
* A Suspend that takes effect after cancelRun has opened the gate is remembered
  (`belated`): nobody opens the gate again for the querier it parks.
* A query may fail, may return an empty list (the last report is then published
  again with the new one's place in time kept), or a list.
* The recovered report is any report not newer than the clock.

Abstractions: the latency list is its timestamp and the configuration it was
measured under; the fields by value are one value `rest`, the range one value.
Left out: SetConfig with a JSON document that sets TimeRange to null, the
aliasing of slices inside it (the same hazard as the range), the second Stop and
Join of the command line's PostRun on a client that has ended (they change
nothing). `runCancel` in the deferred function changes nothing once `cancelRun`
ran, and the receive side of `watchRun` only delivers nil, except for the line
after the nil dereference, which is never reached. GetConfig and QueryLatency
read the configuration on the goroutine that alone changes it, so they do not
race with SetConfig.

### Runs

| run | instance | shows |
|---|---|---|
| `gate` | main starts, joins, or stops and joins the client beside the server; the control server suspends, resumes, stops; both modes; the context may be cancelled | `TypeOK`, `GateBalanced`: the gate's counter is the flag, up to calls that are half-way. `SuspendBound`: after Suspend at most one more query. `GatePanicIsRace`: the gate's counter falls below zero only when a call undoes a half-way Suspend. `ParkedAfterStop`: after cancelRun only a later Suspend, or a Resume that is about to wake it, has the querier asleep at the gate. `StopReturns`: Stop and Join return whatever queries fail, unless such a Suspend is never undone. `KeepsPublishing`: an unsuspended client publishes again, if some query is answered |
| `config` | a periodic client, or one of one query, that nobody suspends, stops or interrupts; SetConfig, ChangeInterval, the reading commands; two values of the fields | `FreshConfig`: after SetConfig returns no query under older fields counts. `LabelledFields`. `LastStateForward`. `ControlResponsive`: a command gets past its signal to the querier as long as the run goes on and some query is answered; once a run of one query has ended nobody receives, and the command, with the goroutine that executes it, waits for good |
| `feed` | two reporters, one present at Start; AddReporter, DelReporter; main shuts down and joins; a channel of two | `FeedInOrder`, `ReporterForward`, `JoinDelivered`. `ReporterPanicIsRace`: Join's count falls below zero only when the feed ends inside an AddReporter. `FeedImplemented`: the client implements `LatencyFeed` |
| `paused_config` | Suspend and SetConfig | violated: the querier is parked at the gate, nobody receives, and the goroutine that would execute the resume waits |
| `unplug_stop` | unplugin, then stop | violated: the count of the removed reporter stays, Join waits forever |
| `oneshot_error` | a one-shot run whose query fails | violated: the interval that the error path reads was never stored |

Deadlock is not checked: the program ends.

Bounds. Two callers: main and the one goroutine that executes commands are the
callers the program has; in `gate` main may also stop the client, as
PersistentPostRunE does (root.go:292-296), while the other executes a suspend.
The interrupt is a step of its own. `NotifyCap` is 1
or 2 instead of 10, so that the channel is full after one or two States;
`MaxClock` 0 or 1 tells an older State from a newer one; `MaxReporterWg` bounds
how often AddReporter raises the count; two reporters, two values of the
fields, one range. Calls are repeated without a bound.

Fairness (`FairSpec`). The Go scheduler runs a goroutine that can run: weak
fairness of the querier (a query ends, well or not), of the reporter goroutine (a
callback returns) and of each call once begun. Main goes on to Start. Nobody is
obliged to begin any other call. The interval is longer than the time to enter
the select: with a caller blocked on `reQuery` the timer does not win forever.
That elastic answers some query if it is asked forever, `SomeAnswer`, is not
assumed of the program: it is the premise of `KeepsPublishing` and
`ControlResponsive`, which are false without it, as the querier looks at neither
`reQuery` nor the timer after a failure (client.go:421). `StopReturns` has no such
premise.

Seen in exploring the model and not among the runs: `Resume` followed at once by
`Suspend`, before the woken querier has run, panics with a reused WaitGroup;
AddReporter while Join is being woken does too; a Range of `watch` without
reporters joins at once; `state` shows an old list with the new configuration.

### Proofs

For every value of the constants (any number of callers and reporters, any
capacity). `LatencyClientTypeProofs` proves `TypeCorrect`. `LatencyClientProofs`:

* `GateCorrect`. `GateBalanced` is inductive once types are known. `GateFrame`
  splits the steps into those that leave the protocol of the gate alone and
  those that act on it; `GateActSteps` says that one of the latter moves one
  goroutine into or out of a half-way point, so one cardinality changes by one.
* `SuspendBoundCorrect`. `SuspendBound` is inductive too: it counts the query
  that has passed the gate before it is sent, which the plain promise does not.
* `GatePanicCorrect`, from `GateBalanced`: with the flag and the half-way calls
  accounted for, a counter of zero that somebody is about to lower leaves only
  an `Add` that is still to come.
* `ParkedAfterStopCorrect`, the part of `StopReturns` that is a safety property.
  `SleepInv` says that nobody is asleep at a counter that is zero, that the Once
  is held by a goroutine inside `cancelRun`, and that a flag that is up after
  `cancelRun` was raised by a Suspend that came late. `GateBalanced` turns the
  counter of the gate into the flag.
* `FreshConfigCorrect`. `FreshConfig` is inductive: while a change is stored and
  its send has not ended, some caller is at `send` or `blocked` and the formula
  says nothing; the send ends only with the querier leaving its select.
* `JoinCorrect`, assuming that a reporter is registered before Start.
  `JoinDelivered` is not inductive; `JoinInv` adds that while a reporter is
  counted nobody is past the wait of Join before the reporter goroutine has
  drained a closed channel. Without the assumption a Join that comes before the
  reporter goroutine counts itself (client.go:476) finds zero and returns.
* `ReporterPanicCorrect`. Its invariant, `CountInv`, bounds the count from below:
  with those still between the map and the Add, it covers the reporter goroutine
  and every reporter the deferred Range can still count out.
* `FeedCorrect`, `ReporterForwardCorrect`, `LabelsCorrect`, from one invariant,
  `FeedInv`: what reporters saw, the State being delivered, the channel, the
  State to be published and the newest State ever built are in order, and each
  State in flight carries the fields it was measured under.
* `LastStateForwardCorrect`. `AnswersKnown` adds to `FeedInv` that what `state`
  has answered is no newer than the last report, through both of its loads.

`LatencyFeedProofs` proves `FeedRefined`: every behaviour of the client is one of
`LatencyFeed`, the reporters being its subscribers, `notify` its buffer and the
State that `runReporter` walks with the State under delivery. A step of the
client is one step of the feed or none: a publish is `Offer` (it is the newest
State, by `FeedInv`), the receive is `Take`, AddReporter and DelReporter are
`Register` and `Leave`, the `Range` that comes upon a reporter that was added
after it began is `Engage`, the callback `Hand`, the end of the `Range` `Done`.

Model-checked only: everything under fairness (`StopReturns`, `KeepsPublishing`,
`ControlResponsive`); the prover does not do liveness.

## CtlHandler

A session is one connection of a client. `sock` is the connection as the client
leaves it, `conn` the place of its goroutine in `handleConn`. The n-th command
of a session carries the id n, split into the bits below the port (`low`), the
bits the port covers (`high`) and the address.

| in the model | in the code |
|---|---|
| `Connect` | Accept, and the goroutine it starts |
| `Send`, `Drain`, `Hangup` | the client: Command, recv, Release |
| `AddConn`, `Forget`, `CloseConn` | `addConn`, `delConn`, the deferred function |
| `Key`, `Unmasked` | the mask of `handleConn`, the XOR of `Write` |
| `Scan` | the scanner's next message, its writer put in the cache |
| `Offer` | the send on `hdlCommands`, its timeout, its panic when closed |
| `Execute`, `Answer`, `Broadcast` | the control server as the handler sees it |
| `Subscribe`, `Dispatch`, `WriteResult`, `PickConn`, `WriteNews`, `RangeEnd`, `DispatchEnd` | `dispatchResults` |
| `Release` | `Release` and `baseRelease` |

Reading a message and storing its writer is one step: only the session's own
goroutine can see the message before. A write waits while the client's socket is
full; to a client that has gone it vanishes or fails, and after `handleConn` has
closed the connection it fails. `target`, `message` and the bookkeeping of the
Range are cleared when the dispatcher is done with them. The library's channel
between the server and the dispatcher (`MemoChannel`) is a bounded queue: its
code is not in the repository. The dispatcher subscribes to it in its own
goroutine (`Subscribe`): what is published before reaches nobody, and such a
command is given up.

| run | instance | shows |
|---|---|---|
| `routing` | two connections of one host, ports that differ in one bit; one sends two commands, the other one; a broadcast; channels and sockets that hold one message | `TypeOK`, `OwnAnswers`, `AnswersInOrder`, `Registered`, `CacheExact`. `ServiceImplemented`: the handler implements `CommandService`. `Answered`, under fairness: commands are left waiting for good only by a command that never returns or a client that never reads |
| `wide_ids` | one connection sends more commands than there are ids below the port | violated: an id loses the bits it shares with the port; id 2 comes back as 0 |

Bounds. Capacities of one make every channel full at once; two ports of two
bits show the masks; `LowSpan` is the 65536 of the code. Every connection has an
address of its own, as two connections that are open at one time have.

Fairness: the goroutines of the handler run, and the server takes what it is
offered. That it finishes the command it executes is not assumed, since SetConfig
and Join may wait for good (`paused_config`, `unplug_stop`), nor that a client
reads: these are the two cases that `Answered` names. Nobody is obliged to send
or to hang up. `released` and `crash` count as excuses in `Answered`, since
nothing is promised after them.

Proofs (`CtlHandlerProofs`, any number of connections and commands):
`TypeCorrect`; `OwnAnswersCorrect`, assuming `DistinctAddr` (no two connections
of a run have one address) and `SmallIds` (ids stay below the port). The heart is
`KeyOfOne`: a key determines its command. The invariant `Routed` adds that a
cached key leads to the session that asked and that the dispatcher writes to the
session of its message. `RegisteredCorrect`, assuming `DistinctAddr`; its
invariant adds that nothing is registered for a connection that has not come.
Both assumptions are needed: `wide_ids` is the run without the second, and a
connection that takes over an address before the old one has ended is kept from
the table by `LoadOrStore` and taken out of it by the old one's `delConn`.

`CtlHandlerOrderProofs` proves `AnswersInOrderCorrect` and `CacheExactCorrect`
under the same two assumptions. Neither property is inductive: an answer that is
out of order, or a cache entry without a command, goes back to something that was
wrong in a channel long before. The proof looks at the `Line` of six places a
command goes through: offered to the channel, queued, executed, in the results,
being written, handed to the client. `OrderInv` says that no command is further
along than an earlier one of its session (`InLine`), that both channels are in
order within themselves (`Ascending`), that whoever is in the line has been read
(`Behind`, `LostRead`) and that one given up has left it (`LostApart`). A step
moves at most one command from a place to the next or out of the line, so there
are lemmas about lines alone (that joining, moving on and leaving keep the order)
and one step of proof per action that names what it moves.

`CommandServiceProofs` proves `ServiceRefined`, under the two assumptions again: a
client's commands are those it has sent, its answers those written to its socket
that are not broadcasts, and a command is given up once it is neither answered,
nor unread, nor under way. What is under way is read off the cache, by
`CacheExact`; that the answer written is the one to the oldest open command is
`OrderInv`, and that it goes to the right socket is `Routed`. So a step of the
handler is an `Ask`, a `Reply`, a `GiveUp` or nothing.

Model-checked only: `Answered`, which needs fairness.

## CtlServer and PluginHost

The process of `latencytool report`, from the moment PersistentPreRunE has
started the control server. Two goroutines have a program counter: `main`, the
command line, and `loop`, `runForever` of the control server, which executes one
command at a time. The clients, numbered as they are made, have a `phase` (made,
on, stopping, off), a `querier` (waiting for its next round, at the gate, in a
query, writing the sink file) and a gate (`suspended`); one call of a plugin may
be under way. `crash` holds the panic that ended the process.

| in the model | in the code |
|---|---|
| `MainLoad`, `MainOpen`, `MainInit` | PreRunE: `NewPlugin` registers and opens, `Init`, for each plugin of the command line |
| `MainRange`, `MainVisit`, `MainAttach`, `MainAttached`, `MainStart` | RunE: `RangePlugins` attaches what is registered, then Start |
| `Top`, `Release`, `Block`, `TakeDone`, `TakeClosed`, `DeleteHandler` | the rounds of `runForever`, its select, the closed channel |
| `TakeCommand` | a command received; "no client" is answered at once |
| `EnterStop`, `LeaveStop` with `DeferStop`, `DeferClear`, `MainStopServer`, `MainClear` | `CtlServer.Stop`: `stopOnce`, the channel closed, the handler dropped |
| `StopCmd`, `StopJoin` | `StopLatencyClient`: keep the settings, Stop, Join |
| `StartFails`, `StartInit`, `StartRun`, `StartPublish`, `StartConnect` | `StartLatencyClient`: arguments stored one by one, Init with the sink file, Start, the pointer, the reporter |
| `SuspendCmd`, `ResumeCmd` | `suspend`, `resume` |
| `ConfigCmd`, `PeriodCmd`, `SendReQuery` | the change and its hand-over to the querier |
| `PluginCmd`, `PluginOpen`, `PluginInit`, `PluginAdd` | `plugin`: `NewPlugin` registers, opens; `Init`; `AddReporter` |
| `UnpluginCmd`, `UnpluginUnregister`, `UnpluginDestory`, `UnpluginJoin` | `unplugin`: `DelReporter`, unregister, Stop, Join of the container |
| `Look`, `Pass` | the look at the context, the gate and the look behind it |
| `AskFails`, `AskIdly`, `Measure`, `Sink`, `Finish` | a query that fails, one with nothing measured, a report kept, the file written, the end of a run |
| `Pick`, `Enter`, `EnterPanics`, `Return` | a reporter: the entry read, the library called |
| `MainWait`, `MainDestory`, `MainJoinPlugin`, `MainPluginsDone` | Join of the server; PostRun: each registered plugin stopped and joined |
| `MainClient`, `MainStop`, `MainJoin`, `Interrupt` | PersistentPostRunE, the signal |
| `StorePlugin` ... `JoinPlugin` | `libs.go`, `cplugin.go`, and `Init`, `destory`, `join` of the libraries |
| `LoopLost`, `MainLost` | a destory or a join that finds no api |

Modelled with care:

* The server takes commands while main still loads and attaches plugins
  (root.go:258-263, report.go:66-153). Both load through the one registry, and
  main attaches every entry it finds, that of a load that failed or is under way
  with the others; and a command may find a client that was never started.
  `early` remembers that a plugin was touched in that window.
* `RangePlugins` ranges over a `sync.Map`: it visits every entry that was there
  when it began and is not gone (`due`), none twice (`seen`), and those that came
  since perhaps.
* A signal ends the context while the loop is anywhere. A select that starts
  after it may take the context, a command or the closed channel, so the loop
  may still execute commands. A loop that was executing comes back to the look
  at the context before its select (server.go:206), releases the handlers and
  never leaves; this is where the second release closes a closed channel.
* Main and the loop meet in one `Once`: its second caller waits for the first.
* The end of a run opens the gate (client.go:658-665), but the loop may still
  execute `suspend` after it: a querier that is at the gate then stays there, and
  main in its Join (`Stranded`).
* The registry knows a plugin by its name without the prefix `C.`, the client
  by the name that was given.
* A library is loaded once and keeps its globals: a second container passes
  `Init` without doing anything. After a destory (yd4go) or a join (rem4go) there
  is no api. What a report, a destory or a join does then is a call of a method of
  nil, whose body is the vendor's: it returns, panics or never returns.
* A reporter added to a client that has ended, or deleted from one that runs,
  leaves a count (`leaked`) that keeps its Join waiting.
* A start may name another sink file, or none (server.go:350-355). It reads the
  file, which may be half written by a client that still sinks.
* A write of the sink file may fail, which is only logged (client.go:338-344): it
  leaves the file as it was or one that cannot be read; `unsaved` remembers it.
* A query that fails in a run of one query dereferences the interval that was
  never stored (client.go:416).

Abstractions: the settings are a configuration, the sink file, and the interval;
the arguments of a start are one of five kinds; a report is a number. `suspend`
and `resume` are one step each (their two steps are `LatencyClient`'s). `query`,
`state` and `info` do not change what this module keeps. A Go plugin goes the way
of a C plugin. A query returns, at the latest with the context of its run, and
so does a call on an api that is there. SIGKILL is a process that takes no
further step: what is in `file` then is what the next process finds.

| run | instance | shows |
|---|---|---|
| `service` | any three commands of all eight kinds, one plugin given on the command line, two clients one after the other, one report each, two configurations, two sink files or none, a signal at any time | `CleanStop`: the shutdown panics only when the signal met a busy loop. `ReportSurvives`: a client with the sink file of the one before has its report, unless the last write failed. `NilIntervalIsOneShot`: an interval that was never stored is read only with a one-shot client, or before the first one is started. `QuietExit`: no write of the file and no call are under way when main ends. `PlainStart`: a start without arguments has the settings of the stop. `SuccessionImplemented`: the process implements `ClientSuccession` |
| `plugins` | any three of start, stop, plugin and unplugin; one library with two names, given on the command line, whose destory drops the api, and a second one that keeps it for its join; two clients, a signal at any time | `TypeOK`. `AttachedReady`: a client reports only to what is registered, loaded and initialised, unless a plugin was touched before main had attached its own. `LateBound`: at most one call begins after an unplug. `StopsReadyPlugins`: a missing function or cancel ends the process only when main stops, at the end, a plugin that was not loaded and initialised, or after such an early command |
| `shutdown` | any two commands of all eight kinds, one library, one configuration, no sink file | `SignalEnds`: after a signal the process ends, or panics, but for four named cases: main is in a call on a nil api that does not return, or in a Join kept by a leaked count, by a report on such an api, or by a querier at a gate closed behind the end of its run. `ShutdownGoesOn`: main never waits for what is not under way, but for the last three |

Deadlock is not checked: the process ends, and the named cases stop it.

Bounds. `MaxClients` 2 has one client stopped and one started; every property
relates at most two. Three commands reach stop, start and a plugin command after
it, plugin-unplugin-plugin, a failed start between stop and start, and suspend
beside a shutdown. One report apart tells a lost one from a kept one. Two
libraries, one of them with two names, have every mixture of names and of what a
destory leaves. `plugins` has no report and no sink file: a reporter calls with
any State, also one with nothing measured, so the plugins see every call without
them. In `service` the configurations and the sink files are symmetric: no
definition does more with them than compare them, all of them begin alike, and
no property of the run is about liveness. Two commands are enough for
`SignalEnds`, since what keeps main is done by one command and found by the
shutdown; a sink file is one more step of a querier that goes on.

Fairness. Each goroutine that can go on does (weak fairness of `LoopStep`,
`MainStep`, `CallStep` and `Answer`: a query has the context of the run and
returns when it is over, client.go:182). `Finish` is strongly fair: the end of a
client waits for a moment between two calls, and as the querier has ended, what
is left in `notify` is finite. A closed gate, a leaked count and a call that
never returns disable these steps; fairness does not carry them over. No command
and no signal need come.

Proofs (`CtlServerProofs`). For any number of commands, clients, reports,
configurations, sink files and plugins: `TypeCorrect`, `CleanStopCorrect`,
`LateBoundCorrect`, `ReportSurvivesCorrect`, `QuietExitCorrect` and
`PlainStartCorrect`, from one invariant, `IInv`, whose parts need each other:

* `Arguments`, `Generations`, `Working`: what the places of the loop and of main
  say of the command, the pointer and the plugin they are at; only the newest
  client is not over, and only a client that runs has a querier at work or a
  plugin in a call.
* `Shutdown`: before a signal nothing is taken down; after one that found the loop
  waiting, the loop is on its one way through `Stop`. `CleanStop` follows.
* `Plugged`: only the client in use, and those that have ended, have plugins.
* `Unplugged`: a plugin that was unplugged is not attached, so the call whose
  entry was read before is the only one that can begin (`LateBound`).
* `Sunk`: the sink file of the newest client holds its report, unless it is about
  to write it or failed to; with `Generations` a start that keeps the file finds
  the report of the stopped client (`ReportSurvives`).
* `SavedForStart`: between a stop and a start what is stored is what was stopped.
* `Ending`: the client that main takes down is the last one made, so that no
  other is at work when main ends (`QuietExit`).

Four more theorems add a part to it, which keeps itself:

* `ShutdownGoesOnCorrect`, the safety half of `SignalEnds`. `HeldOnce`: who holds
  the Once is inside `Stop`. `Ending` names the client that main joins.
* `NilIntervalCorrect`, from `Started`: once main has started the first client,
  what a command finds has run, so if it is periodic its interval was stored.
* `AttachedReadyCorrect` and `StopsReadyPluginsCorrect`, from `Prepared`, which
  holds as long as no command was `early`. `Ready`: between opening, initialising
  and adding a plugin the registry is where the loop's place says, and no plugin
  of the client in use has the same name in the registry, so neither a failed plug
  nor an unplug takes away what another one of the client stands on. `Alone`:
  while main loads and attaches, nobody else works on the registry, so what its
  Range finds is ready. `Libraries`: a library whose one Init failed stays under
  the container that met it, so what is ready or is being unplugged has a cancel,
  whatever was loaded again in between. `Found`: a report calls a function that
  was found.

`SuccessionRefined`: the process implements `ClientSuccession`. The generation is
the number of clients that have been made, its place the newest client's sink
file, what is held its report, what is kept the files. A start that names another
file, or none, and a write that fails are steps of the abstract specification
too; `Generations` says that a start comes after the end of the client before,
`Working` that only the newest one measures and writes.

Model-checked only: `SignalEnds`, which needs fairness.

What the model shows besides, without being stated as a property (no document
promises the contrary): the libraries are stopped before the client that
reports to them, as cobra runs PostRun before PersistentPostRun, so that a report
may meet a library without an api; a plugin whose load failed stays registered,
is attached if main comes by, and is stopped at the end, which calls a function
that is not there; after stop and start the plugins of the first client are
registered and attached to nothing; a plugin given as `C.x` cannot be unplugged
under either name; a stop, a period or a config that comes before main has
started its client panics or waits for the start.

## CtlClient

The process of `latencytool ctl` with its text interface, over TCP (with or
without SSH) or IPC. Goroutines: `main`, `recv`, the message loop `msgs`, the
event loop `ui`. The server is reduced to the order in which it measures,
executes, answers and broadcasts; it can go away.

| in the model | in the code |
|---|---|
| `Measure`, `Broadcast`, `Execute`, `WriteResult` | the server's querier, reporter, loop and dispatcher |
| `Lose`, `Connect` | the connection ends, at the server or in the tunnel; IPC dials, again after a loss |
| `StartRecv`, `StartInfo`, `StartLoop`, `MainJoin` | `Start`, the first command, `MessageLoop`, `Join` |
| `Recv`, `RecvEnds` | `recv` of TCP, the callback of IPC with `waitConn` |
| `Subscribe`, `Store`, `CloseLoop` | the subscription made, then stored in `msgLoopSubs`; `closeLoop` ends those that are stored |
| `Handle`, `HandleState`, `HandleResult`, `DrawView` | the handlers of the message loop and what they draw |
| `Command` | `Command` of either client; a write may fail |
| `Type`, `TypeConnected`, `ExitFn`, `PostRun` | the event loop, `top`, `exit`, the end of the message loop |

`Draw` waits for the event loop, so `top`, which draws from inside the event
loop, waits for itself (`topDraw`) once there is a State. An answer is made and
written in two steps, so a broadcast may come in between. `Recv` publishes only
to those that have subscribed. The message channel and the IPC connection are
libraries, external in the map. IPC hands over one status at a time: its channel
has no buffer.

| run | instance | shows |
|---|---|---|
| `console` | both transports; any two of `config`, `top`, `exit` typed at any time; two States | `TypeOK`. `SettledView`: when everything was delivered and a broadcast came last, the screen shows the newest State with the configuration it was measured with. `LossGoesOn`: a lost TCP connection always has somebody who has yet to find it, or a message loop that was told to end. `LostEnds`: it ends the process. Both but for two named cases. `ExitEnds`: `exit` ends it, unless main waits for a first IPC connection |

Two keys have a command typed before and after an exit or a loss; two States
have an old and a new one. Fairness: the client's goroutines run; the server and
the user need do nothing. Deadlock is not checked: the process ends or waits.

The two cases of `LostEnds` are what the code does: `top` in the event loop, and
a connection given up before the message loop has stored its subscription
(`missed`). `crash` is the second transition of an IPC connection to Connected,
which closes `waitConn` again (client_ipc.go:67).

Proofs (`CtlClientProofs`, for either transport and any number of commands and
States). `TypeCorrect`; its invariant `Types` counts the commands under way
against those that were typed (`Counted`), without which nothing bounds the
server's configuration. `SettledViewCorrect`: `SettledView` speaks only of a state
in which all is delivered, so its invariant, `ScreenInv`, says what a broadcast is
on its way: the last one in the connection, else the last in the channel of the
message loop, else the last one handled is the newest State (`Delivery`), and what
of it has not been drawn is still to be drawn (`Drawn`). The other parts say that
a client that drops broadcasts has lost its connection (`Closing`), and that one
that has not subscribed has heard none (`Unreached`). Once the connection has
ended nothing is promised of the screen. `LossGoesOnCorrect` is the safety half of
`LostEnds`: its invariant, `LossInv`, says that the message loop waits on a
subscription that is stored or was ended (`Held`), that a reader that has ended
has ended it (`GivenUp`), and when the loop and the event loop may be gone
(`Stopped`).

Model-checked only: `LostEnds` and `ExitEnds`, which need fairness.

## What is not modelled

* The elastic query and the grammar of a time range (`query.go`): in
  `LatencyClient` only as far as the client sees them. The `TimeRange` map that
  a copy shares with the live configuration is in the state, but a property that
  holds cannot speak of it: every query races with every change.
* The IPC handler of the server: one session without a mask; the connection
  count, which is only displayed.
* What the plugins' vendor libraries do, but for their globals and what a call on
  an api that is gone may do; the separate path of Go plugins; the log levels,
  seats and priorities of plugins.
* What precedes the start of the control server (flags, the first client's Init):
  an error ends the process with nothing running. What main does after it is in
  `CtlServer`. The `watch` command is `report` without plugins.
* `consoleExecute` (root.go:55): it looks for the flag `cmd` among the flags of
  the report command, where it is not, and returns at once.
* The history of States in the interface, which nothing reads, the log view, the
  layout, the drawing of the tables.
* Logging in over SSH.

## Hazards

`hazards` in PROJECT.json lists 40, at their lines, with the properties about
each. Those without one say why: mostly because the thing that can go wrong does
go wrong in the model as in the code and no document of the repository promises
the opposite, so that there is nothing true to state.

## What could follow

The grammar of time ranges as operators against a reference definition; the IPC
handler beside the TCP handler. Every safety property that a passing run checks
is proved, the three refinements included; what is left to TLC is liveness, with
`ParkedAfterStop`, `ShutdownGoesOn` and `LossGoesOn` as the proved part of it:
`StopReturns`, `KeepsPublishing`, `ControlResponsive`, `Answered`, `SignalEnds`,
`LostEnds` and `ExitEnds`.
