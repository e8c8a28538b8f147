------------------------------ MODULE CtlClient ------------------------------
(****************************************************************************)
(* The process of a control client with its text user interface              *)
(* (src/ctl/client*.go, src/cli/latencytool/tui): main starts it, recv       *)
(* reads the connection, the message loop shows what it hears, and the event *)
(* loop of the terminal runs the commands that are typed.  The server that   *)
(* answers and broadcasts is reduced to the order in which it does so.       *)
(*                                                                          *)
(* The message channel hands a message to who has subscribed by then; the    *)
(* event loop runs one callback or one draw at a time.  Both are libraries,  *)
(* modelled from how the code uses them.                                     *)
(****************************************************************************)
EXTENDS Naturals, Sequences

CONSTANTS
    Transports, \* the kinds of connection to model, "tcp" or "ipc"; one through SSH is "tcp"
    Keys,       \* the commands that are typed
    MaxKeys,    \* bound of the model on the commands typed
    MaxStates,  \* bound of the model on the states measured
    None

Remote == {"info", "state", "config", "period", "other"}
\* "info" stands for the interval, the summary and the plugins
Views == {"top", "config", "info"}
States == [stamp : 1..MaxStates, cfg : 0..MaxKeys]

ASSUME TransportsAssumption == Transports \subseteq {"tcp", "ipc"}
ASSUME KeysAssumption == Keys \subseteq Remote \cup {"top", "exit"}
ASSUME BoundsAssumption == MaxKeys \in Nat /\ MaxStates \in Nat
ASSUME NoneAssumption == None \notin States \cup 0..MaxKeys

VARIABLES
    transport,
    \* the server and the connection
    conn,      \* "dialing", "open", "lost" or "closed"
    sent,      \* commands on their way to the server
    rsp,       \* the answer the server is about to write
    wire,      \* what the connection has for the client
    cfg,       \* the configuration of the server, as a version
    measured,  \* the states measured, by their configuration
    told,      \* how many of them have been broadcast
    \* the client
    main,      \* "init", "loop", "join" or "exited"
    recv,      \* "off", "read" or "gone"
    opened,    \* times waitConn was closed
    msgs,      \* the message loop: "none", "subscribe", "store", "wait", "gone"
    heard,     \* its notify channel
    shut,      \* the notify channel is closed
    stored,    \* msgLoopSubs has the subscription
    missed,    \* closeLoop has come before the subscription was stored (history)
    \* the user interface
    ui,        \* the event loop: "idle", "topDraw", "stopped", or the command it holds until
               \* IPC has connected
    typed,     \* number of commands typed
    lastState,
    todo,      \* views the message loop has yet to draw
    view,      \* the state and the configuration on the screen
    newest,    \* what was handled last was a broadcast (history)
    crash

serverVars == <<rsp, cfg, measured, told>>
loopVars == <<msgs, heard, shut, stored, missed>>
viewVars == <<lastState, todo, view, newest>>
vars == <<transport, conn, sent, wire, serverVars, main, recv, opened, loopVars, ui, typed,
          viewVars, crash>>

Messages ==
    [type : {"state"}, state : States]
        \cup [type : {"result"}, cmd : Remote, state : States \cup {None}, cfg : 0..MaxKeys]
        \cup [type : {"status"}]

Subscribed == msgs \notin {"none", "subscribe"}

\* Every value has its type; nothing is heard before the subscription, and the message loop
\* draws only what it has a state for.
TypeOK ==
    /\ transport \in Transports
    /\ conn \in {"dialing", "open", "lost", "closed"}
    /\ sent \in Seq(Remote) /\ rsp \in Messages \cup {None} /\ wire \in Seq(Messages)
    /\ cfg \in 0..MaxKeys /\ measured \in Seq(0..MaxKeys) /\ told \in 0..Len(measured)
    /\ main \in {"init", "loop", "join", "exited"} /\ recv \in {"off", "read", "gone"}
    /\ opened \in 0..1
    /\ msgs \in {"none", "subscribe", "store", "wait", "gone"}
    /\ heard \in Seq(Messages) /\ (~Subscribed => heard = <<>>)
    /\ shut \in BOOLEAN /\ stored \in BOOLEAN /\ missed \in BOOLEAN
    /\ ui \in {"idle", "topDraw", "stopped"} \cup Remote /\ typed \in 0..MaxKeys
    /\ lastState \in States \cup {None}
    /\ todo \in Seq(Views)
    /\ (\E v \in {"top", "config"} : \E k \in 1..Len(todo) : todo[k] = v) => lastState # None
    /\ view \in [top : 0..MaxStates, cfg : 0..MaxKeys \cup {None}]
    /\ newest \in BOOLEAN /\ crash \in BOOLEAN

Alive == ~crash /\ main # "exited"

Init ==
    /\ transport \in Transports
    /\ conn = IF transport = "ipc" THEN "dialing" ELSE "open"
    /\ sent = <<>> /\ rsp = None /\ wire = <<>>
    /\ cfg = 0 /\ measured = <<>> /\ told = 0
    /\ main = "init" /\ recv = "off" /\ opened = 0
    /\ msgs = "none" /\ heard = <<>> /\ shut = FALSE /\ stored = FALSE /\ missed = FALSE
    /\ ui = "idle" /\ typed = 0
    /\ lastState = None /\ todo = <<>> /\ view = [top |-> 0, cfg |-> None] /\ newest = FALSE
    /\ crash = FALSE

----------------------------------------------------------------------------
\* the server

State(n) == [stamp |-> n, cfg |-> measured[n]]

Measure ==
    /\ conn \in {"dialing", "open"} /\ Len(measured) < MaxStates
    /\ measured' = Append(measured, cfg)
    /\ UNCHANGED <<transport, conn, sent, wire, rsp, cfg, told, main, recv, opened, loopVars, ui, typed, viewVars, crash>>

\* a state is broadcast some time after it is stored, to the connections there are
Broadcast ==
    /\ conn \in {"dialing", "open"} /\ told < Len(measured)
    /\ told' = told + 1
    /\ wire' = IF conn = "open" THEN Append(wire, [type |-> "state", state |-> State(told + 1)])
                                ELSE wire
    /\ UNCHANGED <<transport, conn, sent, rsp, cfg, measured, main, recv, opened, loopVars, ui, typed, viewVars, crash>>

\* a command is executed; "info" and "state" answer with the state stored last, labelled
\* with the configuration of the moment
Execute ==
    /\ conn = "open" /\ rsp = None /\ sent # <<>>
    /\ LET c == Head(sent)
           n == Len(measured)
       IN  /\ cfg' = IF c = "config" THEN cfg + 1 ELSE cfg
           /\ rsp' = [type |-> "result", cmd |-> c, cfg |-> cfg',
                      state |-> IF c \in {"info", "state"} /\ n > 0
                                THEN [stamp |-> n, cfg |-> cfg] ELSE None]
    /\ sent' = Tail(sent)
    /\ UNCHANGED <<transport, conn, wire, measured, told, main, recv, opened, loopVars, ui, typed, viewVars, crash>>

WriteResult ==
    /\ conn = "open" /\ rsp # None
    /\ wire' = Append(wire, rsp)
    /\ rsp' = None
    /\ UNCHANGED <<transport, conn, sent, cfg, measured, told, main, recv, opened, loopVars, ui, typed, viewVars, crash>>

\* the server or, on the way to it, the tunnel of SSH goes away: either direction ends both
Lose ==
    /\ conn = "open"
    /\ conn' = "lost" /\ sent' = <<>> /\ rsp' = None
    /\ UNCHANGED <<transport, wire, cfg, measured, told, main, recv, opened, loopVars, ui, typed, viewVars, crash>>

\* IPC reports a change of its status before it goes on; it dials until there is a server,
\* again if that one goes away
Connect ==
    /\ transport = "ipc" /\ conn \in {"dialing", "lost"}
    /\ \A k \in 1..Len(wire) : wire[k].type # "status"
    /\ conn' = "open"
    /\ wire' = Append(wire, [type |-> "status"])
    /\ UNCHANGED <<transport, sent, serverVars, main, recv, opened, loopVars, ui, typed, viewVars, crash>>

----------------------------------------------------------------------------
\* the client

\* fault: the subscription is forgotten without being ended
ForgetLoop == stored' = FALSE /\ UNCHANGED <<shut, missed>>
\* ends the subscriptions that are stored
CloseLoop ==
    /\ shut' = (shut \/ stored)
    /\ stored' = FALSE
    /\ missed' = (missed \/ msgs \in {"none", "subscribe", "store"})

\* A command goes out, or its write fails: a TCP client then gives up its message loop.  A
\* first write to a connection just lost may still succeed.  An IPC client waits until it has
\* been connected once.
Command(c) ==
    /\ transport = "ipc" => opened > 0
    /\ \/ conn = "open" /\ sent' = Append(sent, c) /\ UNCHANGED <<shut, stored, missed>>
       \/ conn = "lost" /\ UNCHANGED <<sent, shut, stored, missed>>
       \/ /\ conn \in {"lost", "closed"}
          /\ IF transport = "tcp" THEN CloseLoop ELSE UNCHANGED <<shut, stored, missed>>
          /\ UNCHANGED sent

\* Start: recv, and a first command
StartRecv ==
    /\ Alive /\ main = "init" /\ recv = "off"
    /\ recv' = "read"
    /\ UNCHANGED <<transport, conn, sent, wire, serverVars, main, opened, loopVars, ui, typed, viewVars, crash>>

StartInfo ==
    /\ Alive /\ main = "init" /\ recv # "off"
    /\ Command("info")
    /\ main' = "loop"
    /\ UNCHANGED <<transport, conn, wire, serverVars, recv, opened, msgs, heard, ui, typed, viewVars, crash>>

\* MessageLoop returns when its goroutine has been started
StartLoop ==
    /\ Alive /\ main = "loop"
    /\ main' = "join" /\ msgs' = "subscribe"
    /\ UNCHANGED <<transport, conn, sent, wire, serverVars, recv, opened, heard, shut, stored, missed, ui, typed, viewVars, crash>>

\* Join returns when the client has been released
MainJoin ==
    /\ Alive /\ main = "join" /\ conn = "closed"
    /\ main' = "exited"
    /\ UNCHANGED <<transport, conn, sent, wire, serverVars, recv, opened, loopVars, ui, typed, viewVars, crash>>

\* a message is published to who has subscribed; a status of IPC closes waitConn when it is
\* looked at while there is a connection
Recv ==
    /\ Alive /\ recv = "read" /\ conn # "closed" /\ wire # <<>>
    /\ LET m == Head(wire)
       IN  /\ heard' = IF m.type # "status" /\ Subscribed /\ ~shut THEN Append(heard, m) ELSE heard
           /\ opened' = IF m.type = "status" /\ conn = "open" THEN 1 ELSE opened
           /\ crash' = (m.type = "status" /\ conn = "open" /\ opened = 1)
    /\ wire' = Tail(wire)
    /\ UNCHANGED <<transport, conn, sent, serverVars, main, recv, msgs, shut, stored, missed, ui, typed, viewVars>>

\* nothing more to read: TCP ends the message loop, IPC only ends when it is closed here
RecvEnds ==
    /\ Alive /\ recv = "read"
    /\ conn = "closed" \/ (transport = "tcp" /\ conn = "lost" /\ wire = <<>>)
    /\ recv' = "gone"
    /\ IF transport = "tcp" THEN CloseLoop ELSE UNCHANGED <<shut, stored, missed>>
    /\ UNCHANGED <<transport, conn, sent, wire, serverVars, main, opened, msgs, heard, ui, typed, viewVars, crash>>

----------------------------------------------------------------------------
\* the message loop

Subscribe ==
    /\ Alive /\ msgs = "subscribe"
    /\ msgs' = "store"
    /\ shut' = (conn = "closed")
    /\ UNCHANGED <<transport, conn, sent, wire, serverVars, main, recv, opened, heard, stored, missed, ui, typed, viewVars, crash>>

Store ==
    /\ Alive /\ msgs = "store"
    /\ stored' = TRUE /\ msgs' = "wait"
    /\ UNCHANGED <<transport, conn, sent, wire, serverVars, main, recv, opened, heard, shut, missed, ui, typed, viewVars, crash>>

\* fault: handleState leaves the configuration on the screen
HandleTop(s) == lastState' = s /\ todo' = <<"top">>
\* handleState
HandleState(s) == lastState' = s /\ todo' = <<"top", "config">>

\* fault: the configuration is drawn without a state
ConfigAlways == <<"config">>
ConfigViews == IF lastState # None THEN <<"config">> ELSE <<>>

HandleResult(m) ==
    IF m.state # None
    THEN /\ lastState' = m.state
         /\ todo' = IF m.cmd = "info" THEN <<"top", "config", "info">> ELSE <<"top", "config">>
    ELSE /\ lastState' = IF m.cmd = "config" /\ lastState # None
                         THEN [lastState EXCEPT !.cfg = m.cfg] ELSE lastState
         /\ todo' = CASE m.cmd \in {"info", "period"} -> <<"info">>
                      [] m.cmd = "config" -> ConfigViews
                      [] OTHER -> <<>>

Handle ==
    /\ Alive /\ msgs = "wait" /\ todo = <<>> /\ heard # <<>>
    /\ LET m == Head(heard)
       IN  /\ IF m.type = "state" THEN HandleState(m.state) ELSE HandleResult(m)
           /\ newest' = (m.type = "state")
    /\ heard' = Tail(heard)
    /\ UNCHANGED <<transport, conn, sent, wire, serverVars, main, recv, opened, msgs, shut, stored, missed, ui, typed, view, crash>>

\* Draw waits for the event loop
DrawView ==
    /\ Alive /\ todo # <<>> /\ ui = "idle"
    /\ view' = CASE Head(todo) = "top" -> [view EXCEPT !.top = lastState.stamp]
                 [] Head(todo) = "config" -> [view EXCEPT !.cfg = lastState.cfg]
                 [] OTHER -> view
    /\ todo' = Tail(todo)
    /\ UNCHANGED <<transport, conn, sent, wire, serverVars, main, recv, opened, loopVars, ui, typed, lastState, newest, crash>>

\* fault: only the terminal is stopped
StopOnly == ui' = "stopped" /\ UNCHANGED <<conn, sent, rsp, wire, shut>>
\* the terminal is stopped and the client released: its connection and its channel
ExitFn ==
    /\ ui' = "stopped"
    /\ conn' = "closed" /\ sent' = <<>> /\ rsp' = None /\ wire' = <<>>
    /\ shut' = TRUE

\* after the loop, and 5 seconds
PostRun ==
    /\ Alive /\ msgs = "wait" /\ todo = <<>> /\ heard = <<>> /\ shut
    /\ ExitFn
    /\ msgs' = "gone"
    /\ UNCHANGED <<transport, cfg, measured, told, main, recv, opened, heard, stored, missed, typed, viewVars, crash>>

----------------------------------------------------------------------------
\* the event loop

Type(k) ==
    /\ Alive /\ ui = "idle" /\ typed < MaxKeys
    /\ typed' = typed + 1
    /\ CASE k = "exit" -> ExitFn /\ UNCHANGED <<stored, missed>>
         \* Draw in a callback of the event loop waits for the callback's own end
         [] k = "top" -> /\ ui' = IF lastState = None THEN "idle" ELSE "topDraw"
                         /\ UNCHANGED <<conn, sent, rsp, wire, shut, stored, missed>>
         [] OTHER -> IF transport = "ipc" /\ opened = 0
                     THEN /\ ui' = k
                          /\ UNCHANGED <<conn, sent, rsp, wire, shut, stored, missed>>
                     ELSE Command(k) /\ UNCHANGED <<conn, rsp, wire, ui>>
    /\ UNCHANGED <<transport, cfg, measured, told, main, recv, opened, msgs, heard, viewVars, crash>>

\* a callback has waited for IPC to connect
TypeConnected ==
    /\ Alive /\ ui \in Remote
    /\ Command(ui)
    /\ ui' = "idle"
    /\ UNCHANGED <<transport, conn, wire, serverVars, main, recv, opened, msgs, heard, typed, viewVars, crash>>

----------------------------------------------------------------------------
Server == Measure \/ Broadcast \/ Execute \/ WriteResult \/ Lose \/ Connect
Main == StartRecv \/ StartInfo \/ StartLoop \/ MainJoin
Reader == Recv \/ RecvEnds
MessageLoop == Subscribe \/ Store \/ Handle \/ DrawView \/ PostRun

Next ==
    \/ Alive /\ Server
    \/ Main \/ Reader \/ MessageLoop \/ TypeConnected
    \/ \E k \in Keys : Type(k)

Spec == Init /\ [][Next]_vars

\* each goroutine of the client goes on while it can; of the server and of the user nothing
\* is asked
Fairness == WF_vars(Main) /\ WF_vars(Reader) /\ WF_vars(MessageLoop) /\ WF_vars(TypeConnected)
FairSpec == Spec /\ Fairness

----------------------------------------------------------------------------
\* Properties

\* nothing is on its way from the server to the screen
Settled ==
    /\ ~crash /\ conn = "open" /\ told = Len(measured)
    /\ sent = <<>> /\ rsp = None /\ wire = <<>>
    /\ msgs = "wait" /\ heard = <<>> /\ todo = <<>>

\* When everything has been delivered and what came last was a broadcast, the screen shows
\* the newest state with the configuration it was measured with, whatever answers came in
\* between (tui/run.go:31-148).
SettledView ==
    Settled /\ newest => view = [top |-> Len(measured), cfg |-> measured[Len(measured)]]

\* A lost TCP connection is never given up by everybody at once: as long as the process lives
\* its reader has yet to find the loss, or the message loop has been told to end and no callback
\* of the event loop is in its way.  The exceptions are those of LostEnds (client_tcp.go:17-43,
\* :57-72, ctl/client.go:61-76, :101-117).
LossGoesOn ==
    transport = "tcp" /\ conn = "lost" /\ Alive /\ ui # "topDraw" /\ ~missed =>
        \/ recv = "read" \/ (recv = "off" /\ main = "init")
        \/ shut /\ msgs = "wait" /\ ui = "idle"

\* When a TCP connection is lost the process ends, unless the event loop is caught in "top",
\* or the connection was given up before the message loop had stored its subscription
\* (client_tcp.go:17-43, ctl/client.go:61-76, :101-117, tui/run.go:208-214).
LostEnds ==
    transport = "tcp" /\ conn = "lost" ~> main = "exited" \/ ui = "topDraw" \/ missed

\* When the terminal has been stopped the process ends, unless main still waits for the first
\* connection of IPC, which nothing makes any more (client_ipc.go:84-85, root.go:202-212).
ExitEnds ==
    ui = "stopped" ~>
        main = "exited" \/ crash \/ (transport = "ipc" /\ main = "init" /\ opened = 0)
==============================================================================
