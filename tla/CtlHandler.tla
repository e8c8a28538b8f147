------------------------------ MODULE CtlHandler ------------------------------
(****************************************************************************)
(* The TCP control handler (src/ctl/handler_tcp.go, handler.go): a goroutine *)
(* per connection turns what a client sends into commands for the control   *)
(* server, and one dispatcher writes results and broadcasts back.           *)
(*                                                                          *)
(* A command travels under a key: the client's own message id with the      *)
(* address of its connection written over the upper bits.  The key finds    *)
(* the connection the result belongs to, and is stripped on the way back.   *)
(*                                                                          *)
(* The n-th command of session s is <<s, n>>; it carries the id Id(n).      *)
(****************************************************************************)
EXTENDS Integers, Sequences

CONSTANTS
    Sessions,   \* the connections clients open
    Addr,       \* Addr[s]: the remote address, [ip, port]; port is a set of bits
    Width,      \* number of bits of a port (16 in the code)
    LowSpan,    \* ids below the port bits (2^16 in the code)
    MaxCmds,    \* MaxCmds[s]: bound of the model on the commands of session s
    MaxNews,    \* bound of the model on broadcasts
    CmdCap,     \* capacity of hdlCommands (10 in the code)
    ResultCap,  \* capacity of the channel results and broadcasts go through
    SockCap,    \* messages a socket buffers for a client that does not read
    None

Bits == 0..Width - 1
Commands == UNION {{s} \X (1..MaxCmds[s]) : s \in Sessions}
News == <<>>                        \* a broadcast

ASSUME SessionsAssumption == None \notin Sessions \cup Commands
ASSUME AddrAssumption ==
    \A s \in Sessions : Addr[s] = [ip |-> Addr[s].ip, port |-> Addr[s].port]
                        /\ Addr[s].port \subseteq Bits
ASSUME SizesAssumption ==
    /\ Width \in Nat /\ LowSpan \in Nat \ {0} /\ MaxCmds \in [Sessions -> Nat] /\ MaxNews \in Nat
    /\ CmdCap \in Nat \ {0} /\ ResultCap \in Nat \ {0} /\ SockCap \in Nat \ {0}

VARIABLES
    sock,      \* sock[s]: the connection as the client leaves it
    conn,      \* conn[s]: where its goroutine is
    sent,      \* sent[s]: number of commands the client has sent (cmdSeq)
    read,      \* read[s]: number of them its goroutine has read
    unread,    \* unread[s]: messages in the socket that the client has not read
    got,       \* got[s]: the answers written to it
    writers,   \* writers[a]: hdlConnections, the session registered for address a
    cache,     \* cache[k]: hdlCommandCache, the session that waits for key k
    commands,  \* hdlCommands
    executing, \* the command the server executes
    results,   \* results and broadcasts on their way to the dispatcher
    dispatch,  \* where dispatchResults is
    message,   \* the message it writes
    target,    \* the session it writes to
    todo,      \* addresses the Range under way must still visit
    visited,   \* addresses it has visited
    news,      \* broadcasts so far
    lost,      \* commands given up after a timeout or without a writer (history)
    released,  \* the handler was released
    crash      \* a send on the closed hdlCommands ended the process

clientVars == <<sock, sent, unread, got>>
connVars   == <<conn, read, writers, cache, commands>>
serverVars == <<executing, news>>
dispVars   == <<dispatch, message, target, todo, visited>>
vars == <<clientVars, connVars, serverVars, dispVars, results, lost, released, crash>>

------------------------------------------------------------------------------
(* Message ids.                                                             *)

\* the n-th id of a session, split at the lowest port bit
Id(n) == [low |-> n % LowSpan,
          high |-> {b \in Bits : n >= LowSpan /\ (n \div (LowSpan * 2^b)) % 2 = 1}]

\* fault: commands of different connections share one space of ids
PlainKey(s, n) == [ip |-> None, high |-> Id(n).high, low |-> Id(n).low]

\* the id with the address written over it, and what is left of it without the address
Key(s, n) == [ip |-> Addr[s].ip, high |-> Id(n).high \cup Addr[s].port, low |-> Id(n).low]
Unmasked(s, k) == [low |-> k.low,
                   high |-> (k.high \ Addr[s].port) \cup (Addr[s].port \ k.high)]

Addrs == {Addr[s] : s \in Sessions}
Keys == {Key(c[1], c[2]) : c \in Commands}

Answers == [id : [low : Nat, high : SUBSET Bits], of : Commands]

ConnsOK ==
    /\ sock \in [Sessions -> {"new", "open", "shut"}]
    /\ conn \in [Sessions -> {"none", "add", "scan", "send", "gone"}]
    /\ sent \in [Sessions -> Nat] /\ read \in [Sessions -> Nat]
    /\ \A s \in Sessions : /\ read[s] <= sent[s] /\ sent[s] <= MaxCmds[s]
                           /\ conn[s] = "send" => read[s] >= 1
                           /\ conn[s] = "none" <=> sock[s] = "new"

TablesOK ==
    /\ unread \in [Sessions -> 0..SockCap] /\ got \in [Sessions -> Seq(Answers)]
    /\ writers \in [Addrs -> Sessions \cup {None}]
    /\ cache \in [Keys -> Sessions \cup {None}]

QueuesOK ==
    /\ commands \in Seq(Commands) /\ Len(commands) <= CmdCap
    /\ executing \in Commands \cup {None}
    /\ results \in Seq(Commands \cup {News}) /\ Len(results) <= ResultCap
    /\ news \in 0..MaxNews /\ lost \subseteq Commands

DispatchOK ==
    /\ dispatch \in {"new", "recv", "result", "range", "news", "gone"}
    /\ message \in Commands \cup {None} /\ target \in Sessions \cup {None}
    /\ dispatch = "result" => message # None /\ target # None
    /\ dispatch = "news" => target # None
    /\ todo \subseteq Addrs /\ visited \subseteq Addrs

TypeOK == ConnsOK /\ TablesOK /\ QueuesOK /\ DispatchOK
          /\ released \in BOOLEAN /\ crash \in BOOLEAN

Init ==
    /\ sock = [s \in Sessions |-> "new"] /\ conn = [s \in Sessions |-> "none"]
    /\ sent = [s \in Sessions |-> 0] /\ read = [s \in Sessions |-> 0]
    /\ unread = [s \in Sessions |-> 0] /\ got = [s \in Sessions |-> <<>>]
    /\ writers = [a \in Addrs |-> None] /\ cache = [k \in Keys |-> None]
    /\ commands = <<>> /\ executing = None /\ results = <<>>
    /\ dispatch = "new" /\ message = None /\ target = None
    /\ todo = {} /\ visited = {}
    /\ news = 0 /\ lost = {} /\ released = FALSE /\ crash = FALSE

------------------------------------------------------------------------------
(* The clients: a message id counts up, a goroutine reads what arrives.     *)

Connect(s) ==
    /\ ~crash /\ ~released /\ sock[s] = "new"
    \* an address is free again once the connection that had it is shut
    /\ \A t \in Sessions : Addr[t] = Addr[s] => sock[t] # "open"
    /\ sock' = [sock EXCEPT ![s] = "open"] /\ conn' = [conn EXCEPT ![s] = "add"]
    /\ UNCHANGED <<sent, unread, got, read, writers, cache, commands, serverVars, dispVars,
                   results, lost, released, crash>>

Send(s) ==
    /\ ~crash /\ sock[s] = "open" /\ sent[s] < MaxCmds[s]
    /\ sent' = [sent EXCEPT ![s] = @ + 1]
    /\ UNCHANGED <<sock, unread, got, connVars, serverVars, dispVars, results, lost, released,
                   crash>>

Drain(s) ==
    /\ ~crash /\ sock[s] = "open" /\ unread[s] > 0
    /\ unread' = [unread EXCEPT ![s] = @ - 1]
    /\ UNCHANGED <<sock, sent, got, connVars, serverVars, dispVars, results, lost, released,
                   crash>>

Hangup(s) ==
    /\ ~crash /\ sock[s] = "open"
    /\ sock' = [sock EXCEPT ![s] = "shut"]
    /\ UNCHANGED <<sent, unread, got, connVars, serverVars, dispVars, results, lost, released,
                   crash>>

------------------------------------------------------------------------------
(* handleConn.                                                              *)

\* LoadOrStore keeps the writer that is there
AddConn(s) ==
    /\ ~crash /\ conn[s] = "add"
    /\ writers' = [writers EXCEPT ![Addr[s]] = IF @ = None THEN s ELSE @]
    /\ conn' = [conn EXCEPT ![s] = "scan"]
    /\ UNCHANGED <<clientVars, read, cache, commands, serverVars, dispVars, results, lost,
                   released, crash>>

\* the scanner has a message: its writer is known before the server can see it
Scan(s) ==
    /\ ~crash /\ conn[s] = "scan" /\ read[s] < sent[s]
    /\ read' = [read EXCEPT ![s] = @ + 1]
    /\ cache' = [cache EXCEPT ![Key(s, read[s] + 1)] = s]
    /\ conn' = [conn EXCEPT ![s] = "send"]
    /\ UNCHANGED <<clientVars, writers, commands, serverVars, dispVars, results, lost,
                   released, crash>>

\* the server takes it, or nobody does for the timeout, or the channel is closed
Offer(s) ==
    /\ ~crash /\ conn[s] = "send"
    /\ \/ /\ ~released
          /\ IF Len(commands) < CmdCap
             THEN commands' = Append(commands, <<s, read[s]>>) /\ UNCHANGED lost
             ELSE lost' = lost \cup {<<s, read[s]>>} /\ UNCHANGED commands
          /\ conn' = [conn EXCEPT ![s] = "scan"] /\ UNCHANGED crash
       \/ released /\ crash' = TRUE /\ UNCHANGED <<conn, commands, lost>>
    /\ UNCHANGED <<clientVars, read, writers, cache, serverVars, dispVars, results, released>>

\* delConn forgets whatever is registered under the address
Forget(s) == writers' = [writers EXCEPT ![Addr[s]] = None]

\* what the client sent before it hung up may be lost with the connection
CloseConn(s) ==
    /\ ~crash /\ conn[s] = "scan" /\ sock[s] = "shut"
    /\ Forget(s)
    /\ conn' = [conn EXCEPT ![s] = "gone"]
    /\ UNCHANGED <<clientVars, read, cache, commands, serverVars, dispVars, results, lost,
                   released, crash>>

------------------------------------------------------------------------------
(* The control server as the handler sees it: one command at a time.        *)

Execute ==
    /\ ~crash /\ executing = None /\ commands # <<>>
    /\ executing' = Head(commands) /\ commands' = Tail(commands)
    /\ UNCHANGED <<clientVars, conn, read, writers, cache, news, dispVars, results, lost,
                   released, crash>>

\* what is published before the dispatcher has subscribed reaches nobody
Heard == dispatch # "new"

\* fault: results have no bound
RoomAlways == ~released /\ Heard

Room == ~released /\ Heard /\ Len(results) < ResultCap

\* fault: a command whose result finds no room is executed again after the next one
AnswerLater ==
    /\ ~crash /\ executing # None
    /\ IF Room
       THEN results' = Append(results, executing) /\ executing' = None /\ UNCHANGED commands
       ELSE /\ commands # <<>> /\ executing' = Head(commands)
            /\ commands' = Append(Tail(commands), executing) /\ UNCHANGED results
    /\ UNCHANGED <<clientVars, conn, read, writers, cache, news, dispVars, lost, released,
                   crash>>

\* Publish gives up when there is no room in time
Answer ==
    /\ ~crash /\ executing # None
    /\ IF Room
       THEN results' = Append(results, executing) /\ UNCHANGED lost
       ELSE lost' = lost \cup {executing} /\ UNCHANGED results
    /\ executing' = None
    /\ UNCHANGED <<clientVars, connVars, news, dispVars, released, crash>>

Broadcast ==
    /\ ~crash /\ news < MaxNews /\ Room
    /\ news' = news + 1 /\ results' = Append(results, News)
    /\ UNCHANGED <<clientVars, connVars, executing, dispVars, lost, released, crash>>

\* Stop: the listener, hdlCommands and the results are closed; connections stay
Release ==
    /\ ~crash /\ ~released
    /\ released' = TRUE
    /\ UNCHANGED <<clientVars, connVars, serverVars, dispVars, results, lost, crash>>

------------------------------------------------------------------------------
(* dispatchResults, the one goroutine that writes to all connections.       *)

\* the dispatcher subscribes when its goroutine runs, after the handler was started
Subscribe ==
    /\ ~crash /\ dispatch = "new"
    /\ dispatch' = "recv"
    /\ UNCHANGED <<clientVars, connVars, serverVars, message, target, todo, visited, results,
                   lost, released, crash>>

Command(m) == m # News

\* fault: the entry stays in the cache
Kept(k) == UNCHANGED cache

Taken(k) == cache' = [cache EXCEPT ![k] = None]

\* LoadAndDelete finds the writer of a result; Range starts for a broadcast
Dispatch ==
    /\ ~crash /\ dispatch = "recv" /\ results # <<>>
    /\ LET m == Head(results) IN
        IF ~Command(m)
        THEN /\ dispatch' = "range" /\ visited' = {}
             /\ todo' = {a \in Addrs : writers[a] # None}
             /\ UNCHANGED <<message, target, cache, lost>>
        ELSE LET w == cache[Key(m[1], m[2])] IN
             /\ target' = w /\ message' = IF w = None THEN None ELSE m
             /\ dispatch' = IF w = None THEN "recv" ELSE "result"
             /\ lost' = IF w = None THEN lost \cup {m} ELSE lost
             /\ Taken(Key(m[1], m[2]))
             /\ UNCHANGED <<todo, visited>>
    /\ results' = Tail(results)
    /\ UNCHANGED <<clientVars, conn, read, writers, commands, serverVars, released, crash>>

\* conn.Write has no deadline: it waits while the socket of a live client is full
Written(s) ==
    /\ sock[s] = "open" /\ unread[s] < SockCap
    /\ unread' = [unread EXCEPT ![s] = @ + 1] /\ UNCHANGED writers

\* faults: a client that does not read at once counts as gone; a write to one that is gone
\* never returns
UnwrittenSlow(s) ==
    /\ sock[s] = "shut" \/ unread[s] = SockCap
    /\ Forget(s) /\ UNCHANGED unread
UnwrittenEver(s) == FALSE /\ UNCHANGED <<writers, unread>>

\* the client is gone: what is written before the reset arrives vanishes, then Write fails
Unwritten(s) ==
    /\ sock[s] = "shut"
    /\ Forget(s) \/ (conn[s] # "gone" /\ UNCHANGED writers)
    /\ UNCHANGED unread

WriteResult ==
    /\ ~crash /\ dispatch = "result"
    /\ \/ /\ Written(target)
          /\ got' = [got EXCEPT ![target] =
                Append(@, [id |-> Unmasked(target, Key(message[1], message[2])), of |-> message])]
       \/ Unwritten(target) /\ UNCHANGED got
    /\ dispatch' = "recv" /\ message' = None /\ target' = None
    /\ UNCHANGED <<sock, sent, conn, read, cache, commands, serverVars, todo, visited, results,
                   lost, released, crash>>

\* Range calls back once for each writer; one added meanwhile may be left out
PickConn ==
    /\ ~crash /\ dispatch = "range"
    /\ \E a \in Addrs \ visited :
        /\ writers[a] # None
        /\ target' = writers[a] /\ visited' = visited \cup {a}
    /\ dispatch' = "news"
    /\ UNCHANGED <<clientVars, connVars, serverVars, message, todo, results, lost, released,
                   crash>>

WriteNews ==
    /\ ~crash /\ dispatch = "news"
    /\ Written(target) \/ Unwritten(target)
    /\ dispatch' = "range" /\ target' = None
    /\ UNCHANGED <<sock, sent, got, conn, read, cache, commands, serverVars, message, todo,
                   visited, results, lost, released, crash>>

RangeEnd ==
    /\ ~crash /\ dispatch = "range"
    /\ \A a \in todo \ visited : writers[a] = None
    /\ dispatch' = "recv" /\ todo' = {} /\ visited' = {}
    /\ UNCHANGED <<clientVars, connVars, serverVars, message, target, results, lost, released,
                   crash>>

\* the results are closed and read to the end
DispatchEnd ==
    /\ ~crash /\ dispatch = "recv" /\ released /\ results = <<>>
    /\ dispatch' = "gone"
    /\ UNCHANGED <<clientVars, connVars, serverVars, message, target, todo, visited, results,
                   lost, released, crash>>

------------------------------------------------------------------------------
Next ==
    \/ \E s \in Sessions :
        \/ Connect(s) \/ Send(s) \/ Drain(s) \/ Hangup(s)
        \/ AddConn(s) \/ Scan(s) \/ Offer(s) \/ CloseConn(s)
    \/ Execute \/ Answer \/ Broadcast \/ Release
    \/ Subscribe \/ Dispatch \/ WriteResult \/ PickConn \/ WriteNews \/ RangeEnd \/ DispatchEnd

\* Goroutines run on and the server takes what is offered.  Nobody obliges it to finish the
\* command it executes (SetConfig and Join may wait for good), nor a client to read.
Fairness ==
    /\ \A s \in Sessions : /\ WF_vars(AddConn(s)) /\ WF_vars(Scan(s))
                           /\ WF_vars(Offer(s)) /\ WF_vars(CloseConn(s))
    /\ WF_vars(Execute) /\ WF_vars(Subscribe) /\ WF_vars(Dispatch) /\ WF_vars(WriteResult)
    /\ WF_vars(PickConn) /\ WF_vars(WriteNews) /\ WF_vars(RangeEnd) /\ WF_vars(DispatchEnd)

Spec == Init /\ [][Next]_vars
FairSpec == Spec /\ Fairness

------------------------------------------------------------------------------
(* Properties.                                                              *)

\* A result goes to the client whose command it answers, under the id that client gave the
\* command, whatever other clients send: the address in the key keeps the ids of different
\* connections apart and comes off again on the way back (Write and handleConn).
OwnAnswers ==
    \A s \in Sessions : \A i \in DOMAIN got[s] :
        /\ got[s][i].of[1] = s
        /\ got[s][i].id = Id(got[s][i].of[2])

\* A client gets its answers in the order of its commands and none of them twice; it matches
\* nothing by id, so the order is all that tells it which command an answer belongs to.
AnswersInOrder ==
    \A s \in Sessions : \A i, j \in DOMAIN got[s] :
        i < j => got[s][i].of[2] < got[s][j].of[2]

\* A connection that is being read is the one registered under its address, so broadcasts
\* reach it: nothing but the end of a connection takes its writer out (addConn, delConn).
Registered ==
    \A s \in Sessions :
        conn[s] \in {"scan", "send"} /\ sock[s] = "open" => writers[Addr[s]] = s

\* the commands between Store and LoadAndDelete
InFlight ==
    {c \in Commands : \/ conn[c[1]] = "send" /\ read[c[1]] = c[2]
                      \/ executing = c
                      \/ \E i \in DOMAIN commands : commands[i] = c
                      \/ \E i \in DOMAIN results : results[i] = c}

\* hdlCommandCache holds exactly the commands under way and those that were given up: a result
\* always finds its writer, and only a command nobody answers leaves its entry behind.
CacheExact ==
    LET open == InFlight \cup lost IN
    \A c \in Commands : cache[Key(c[1], c[2])] # None <=> c \in open

\* the one goroutine of the server is inside a command, the one of the dispatcher writes to a
\* client that has not hung up
ServerInside == executing # None
WritingToOpen == dispatch \in {"result", "news"} /\ sock[target] = "open"

Waiting == {c \in Commands : /\ sent[c[1]] >= c[2] /\ c \notin lost /\ sock[c[1]] # "shut"
                             /\ \A i \in DOMAIN got[c[1]] : got[c[1]][i].of # c}

\* No command is left waiting: each is answered at last, unless it was given up, its client has
\* hung up or the handler was released.  Two things stop everybody's answers, and nothing else
\* does, neither full channels nor broadcasts nor clients that leave: a command that never
\* returns (server.go:260 into client.go:586 or 653) and a client that stays and never reads
\* (handler_tcp.go:39 has no deadline).
Answered ==
    Waiting # {} ~> Waiting = {} \/ released \/ crash \/ []ServerInside \/ []WritingToOpen

\* What the clients see of the handler: a CommandService.  A command that was read is given up
\* once it is neither under way nor written to its client.
Writing == {c \in Commands : dispatch = "result" /\ message = c}
Handed == {c \in Commands : \E i \in DOMAIN got[c[1]] : got[c[1]][i].of = c}
GivenUp == {c \in Commands : c[2] <= read[c[1]]} \ (InFlight \cup Writing \cup Handed)
Replies == [s \in Sessions |-> [i \in 1..Len(got[s]) |-> got[s][i].of]]

Service == INSTANCE CommandService WITH
               Clients <- Sessions, asked <- sent, replies <- Replies, dropped <- GivenUp

\* The handler implements the service: through timeouts of either channel, slow clients,
\* broken connections, broadcasts and the release, an answer is the one to the oldest command
\* of its client that is still open, and what was given up is not answered after all
\* (handler_tcp.go:77-96, handler.go:78-148, server.go:193-199, 221-297).
ServiceImplemented == Service!Spec

==============================================================================
