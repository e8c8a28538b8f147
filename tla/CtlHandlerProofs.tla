--------------------------- MODULE CtlHandlerProofs ---------------------------
(* Type correctness of CtlHandler, and the routing of its answers, for any   *)
(* number of connections.                                                    *)
EXTENDS CtlHandler, TLAPS

LEMMA CommandsOf ==
    ASSUME NEW s \in Sessions, NEW n \in Nat, 1 <= n, n <= MaxCmds[s]
    PROVE  <<s, n>> \in Commands
<1>1. MaxCmds[s] \in Nat
  BY SizesAssumption
<1> QED
  BY <1>1 DEF Commands

LEMMA CommandParts ==
    ASSUME NEW c \in Commands
    PROVE  c = <<c[1], c[2]>> /\ c[1] \in Sessions /\ c[2] \in Nat /\ 1 <= c[2]
           /\ c[2] <= MaxCmds[c[1]]
BY SizesAssumption DEF Commands

LEMMA KeyTyped ==
    ASSUME NEW c \in Commands, NEW s \in Sessions
    PROVE  /\ Key(c[1], c[2]) \in Keys
           /\ Unmasked(s, Key(c[1], c[2])) \in [low : Nat, high : SUBSET Bits]
<1>1. c[2] % LowSpan \in Nat
  BY CommandParts, SizesAssumption
<1>2. Key(c[1], c[2]) \in Keys
  BY DEF Keys
<1>3. Key(c[1], c[2]).low \in Nat /\ Key(c[1], c[2]).high \subseteq Bits
  BY <1>1, CommandParts, AddrAssumption DEF Key, Id
<1>4. Addr[s].port \subseteq Bits
  BY AddrAssumption
<1> QED
  BY <1>2, <1>3, <1>4 DEF Unmasked

LEMMA InitTyped == Init => TypeOK
<1> SUFFICES ASSUME Init PROVE TypeOK
  OBVIOUS
<1> USE SizesAssumption DEF Init
<1>1. ConnsOK
  BY DEF ConnsOK
<1>2. TablesOK
  BY DEF TablesOK
<1>3. QueuesOK
  BY DEF QueuesOK
<1>4. DispatchOK
  BY DEF DispatchOK
<1> QED
  BY <1>1, <1>2, <1>3, <1>4 DEF TypeOK

\* What a step leaves alone stays typed.
LEMMA ConnsKept ==
    ASSUME ConnsOK, UNCHANGED <<sock, conn, sent, read>>
    PROVE  ConnsOK'
BY DEF ConnsOK

LEMMA TablesKept ==
    ASSUME TablesOK, UNCHANGED <<unread, got, writers, cache>>
    PROVE  TablesOK'
BY DEF TablesOK

LEMMA QueuesKept ==
    ASSUME QueuesOK, UNCHANGED <<commands, executing, results, news, lost>>
    PROVE  QueuesOK'
BY DEF QueuesOK

LEMMA DispatchKept ==
    ASSUME DispatchOK, UNCHANGED dispVars
    PROVE  DispatchOK'
BY DEF DispatchOK, dispVars

\* The steps of a session and its goroutine.
LEMMA SessionTyped ==
    ASSUME TypeOK, NEW s \in Sessions,
           Connect(s) \/ Send(s) \/ Drain(s) \/ Hangup(s) \/ AddConn(s) \/ Scan(s)
           \/ Offer(s) \/ CloseConn(s)
    PROVE  TypeOK'
<1> USE ConnsKept, TablesKept, QueuesKept, DispatchKept
    DEF TypeOK, clientVars, connVars, serverVars
<1>1. CASE Connect(s)
  <2>1. ConnsOK'
    BY <1>1 DEF Connect, ConnsOK
  <2> QED
    BY <1>1, <2>1 DEF Connect
<1>2. CASE Send(s)
  <2>1. MaxCmds[s] \in Nat
    BY SizesAssumption
  <2>2. sent' \in [Sessions -> Nat] /\ sent'[s] = sent[s] + 1
        /\ \A t \in Sessions \ {s} : sent'[t] = sent[t]
    BY <1>2 DEF Send, ConnsOK
  <2>3. ConnsOK'
    <3>1. /\ read[s] \in Nat /\ sent[s] \in Nat /\ sent[s] < MaxCmds[s] /\ read' = read
          /\ sock' = sock /\ conn' = conn
      BY <1>2 DEF Send, ConnsOK
    <3>2. read[s] <= sent'[s] /\ sent'[s] <= MaxCmds[s]
      BY <2>1, <2>2, <3>1 DEF ConnsOK
    <3> QED
      BY <2>2, <3>1, <3>2 DEF ConnsOK
  <2> QED
    BY <1>2, <2>3 DEF Send
<1>3. CASE Drain(s)
  <2>1. unread' \in [Sessions -> 0..SockCap]
    <3>1. unread[s] - 1 \in 0..SockCap
      BY <1>3, SizesAssumption DEF Drain, TablesOK
    <3> QED
      BY <1>3, <3>1 DEF Drain, TablesOK
  <2>2. TablesOK'
    BY <1>3, <2>1 DEF Drain, TablesOK
  <2> QED
    BY <1>3, <2>2 DEF Drain
<1>4. CASE Hangup(s)
  <2>1. ConnsOK'
    BY <1>4 DEF Hangup, ConnsOK
  <2> QED
    BY <1>4, <2>1 DEF Hangup
<1>5. CASE AddConn(s)
  <2>1. ConnsOK'
    BY <1>5 DEF AddConn, ConnsOK
  <2>2. TablesOK'
    BY <1>5 DEF AddConn, TablesOK
  <2> QED
    BY <1>5, <2>1, <2>2 DEF AddConn
<1>6. CASE Scan(s)
  <2>1. /\ read' \in [Sessions -> Nat] /\ read'[s] = read[s] + 1 /\ read'[s] <= sent[s]
        /\ \A t \in Sessions \ {s} : read'[t] = read[t]
    BY <1>6 DEF Scan, ConnsOK
  <2>2. /\ conn' \in [Sessions -> {"none", "add", "scan", "send", "gone"}]
        /\ \A t \in Sessions \ {s} : conn'[t] = conn[t]
        /\ conn[s] = "scan" /\ conn'[s] = "send" /\ sock' = sock /\ sent' = sent
    BY <1>6 DEF Scan, ConnsOK
  <2>3. \A t \in Sessions : read[t] \in Nat
    BY DEF ConnsOK
  <2>4. ConnsOK'
    <3>1. \A t \in Sessions : /\ read'[t] <= sent[t]
                              /\ conn'[t] = "send" => read'[t] >= 1
      BY <2>1, <2>2, <2>3 DEF ConnsOK
    <3> QED
      BY <2>1, <2>2, <3>1 DEF ConnsOK
  <2>5. TablesOK'
    BY <1>6 DEF Scan, TablesOK
  <2> QED
    BY <1>6, <2>4, <2>5 DEF Scan
<1>7. CASE Offer(s)
  <2>1. <<s, read[s]>> \in Commands
    <3>1. read[s] \in Nat /\ sent[s] \in Nat /\ MaxCmds[s] \in Nat
      BY SizesAssumption DEF ConnsOK
    <3>2. 1 <= read[s] /\ read[s] <= sent[s] /\ sent[s] <= MaxCmds[s]
      BY <1>7 DEF Offer, ConnsOK
    <3>3. read[s] <= MaxCmds[s]
      BY <3>1, <3>2
    <3> QED
      BY <3>1, <3>2, <3>3, CommandsOf
  <2>2. CASE ~released
    <3>1. ConnsOK'
      BY <1>7, <2>2 DEF Offer, ConnsOK
    <3>2. QueuesOK'
      <4>1. CASE Len(commands) < CmdCap
        <5> DEFINE c == <<s, read[s]>>
        <5>a. commands' = Append(commands, c) /\ commands \in Seq(Commands) /\ c \in Commands
          BY <1>7, <2>1, <2>2, <4>1 DEF Offer, QueuesOK
        <5> HIDE DEF c
        <5>1. commands' \in Seq(Commands) /\ Len(commands') = Len(commands) + 1
          BY <5>a
        <5>2. Len(commands) \in Nat
          BY DEF QueuesOK
        <5>3. Len(commands') <= CmdCap
          BY <4>1, <5>1, <5>2, SizesAssumption
        <5> QED
          BY <1>7, <2>2, <4>1, <5>1, <5>3 DEF Offer, QueuesOK
      <4>2. CASE ~(Len(commands) < CmdCap)
        BY <1>7, <2>1, <2>2, <4>2 DEF Offer, QueuesOK
      <4> QED
        BY <4>1, <4>2
    <3>3. crash' = crash
      BY <1>7, <2>2 DEF Offer
    <3> QED
      BY <1>7, <3>1, <3>2, <3>3 DEF Offer
  <2>3. CASE released
    <3>1. crash' \in BOOLEAN /\ UNCHANGED <<conn, commands, lost>>
      BY <1>7, <2>3 DEF Offer
    <3> QED
      BY <1>7, <3>1 DEF Offer
  <2> QED
    BY <2>2, <2>3
<1>8. CASE CloseConn(s)
  <2>1. ConnsOK'
    BY <1>8 DEF CloseConn, ConnsOK
  <2>2. TablesOK'
    BY <1>8 DEF CloseConn, Forget, TablesOK
  <2> QED
    BY <1>8, <2>1, <2>2 DEF CloseConn
<1> QED
  BY <1>1, <1>2, <1>3, <1>4, <1>5, <1>6, <1>7, <1>8

\* Appending to the results when there is room.
LEMMA ResultsTyped ==
    ASSUME QueuesOK, Room, NEW m \in Commands \cup {News}, results' = Append(results, m)
    PROVE  results' \in Seq(Commands \cup {News}) /\ Len(results') <= ResultCap
<1>1. results \in Seq(Commands \cup {News}) /\ Len(results) < ResultCap
  BY DEF QueuesOK, Room
<1>2. Len(results') = Len(results) + 1 /\ Len(results) \in Nat
  BY <1>1
<1>3. Len(results') <= ResultCap
  BY <1>1, <1>2, SizesAssumption
<1> QED
  BY <1>1, <1>3

LEMMA Popped ==
    ASSUME NEW S, NEW q \in Seq(S), q # <<>>, NEW cap \in Nat, Len(q) <= cap
    PROVE  Head(q) \in S /\ Tail(q) \in Seq(S) /\ Len(Tail(q)) <= cap
<1>1. Len(Tail(q)) = Len(q) - 1 /\ Len(q) \in Nat
  OBVIOUS
<1> QED
  BY <1>1

LEMMA ServerTyped ==
    ASSUME TypeOK, Execute \/ Answer \/ Broadcast \/ Release
    PROVE  TypeOK'
<1> USE ConnsKept, TablesKept, QueuesKept, DispatchKept
    DEF TypeOK, clientVars, connVars, serverVars
<1>1. CASE Execute
  <2>1. /\ commands \in Seq(Commands) /\ commands # <<>> /\ Len(commands) \in Nat
        /\ executing' = Head(commands) /\ commands' = Tail(commands)
    BY <1>1 DEF Execute, QueuesOK
  <2>2. executing' \in Commands /\ commands' \in Seq(Commands) /\ Len(commands') <= CmdCap
    BY <2>1, Popped, SizesAssumption DEF QueuesOK
  <2>4. QueuesOK'
    BY <1>1, <2>2 DEF Execute, QueuesOK
  <2> QED
    BY <1>1, <2>4 DEF Execute
<1>2. CASE Answer
  <2>1. executing \in Commands
    BY <1>2 DEF Answer, QueuesOK
  <2>2. /\ results' \in Seq(Commands \cup {News}) /\ Len(results') <= ResultCap
        /\ lost' \subseteq Commands
    BY <1>2, <2>1, ResultsTyped DEF Answer, QueuesOK
  <2>3. QueuesOK'
    BY <1>2, <2>2 DEF Answer, QueuesOK
  <2> QED
    BY <1>2, <2>3 DEF Answer
<1>3. CASE Broadcast
  <2>1. results' \in Seq(Commands \cup {News}) /\ Len(results') <= ResultCap
    BY <1>3, ResultsTyped DEF Broadcast
  <2>2. news' \in 0..MaxNews
    BY <1>3, SizesAssumption DEF Broadcast, QueuesOK
  <2>3. QueuesOK'
    BY <1>3, <2>1, <2>2 DEF Broadcast, QueuesOK
  <2> QED
    BY <1>3, <2>3 DEF Broadcast
<1>4. CASE Release
  <2>1. released' \in BOOLEAN
    BY <1>4 DEF Release
  <2> QED
    BY <1>4, <2>1 DEF Release
<1> QED
  BY <1>1, <1>2, <1>3, <1>4

LEMMA DispatchHead ==
    ASSUME TypeOK, Dispatch
    PROVE  /\ results' \in Seq(Commands \cup {News}) /\ Len(results') <= ResultCap
           /\ Head(results) # News => Head(results) \in Commands
<1>1. /\ results \in Seq(Commands \cup {News}) /\ results # <<>> /\ results' = Tail(results)
      /\ Len(results) <= ResultCap /\ ResultCap \in Nat
  BY SizesAssumption DEF Dispatch, TypeOK, QueuesOK
<1> QED
  BY <1>1, Popped

LEMMA WriteTyped ==
    ASSUME TypeOK, NEW s \in Sessions, Written(s) \/ Unwritten(s)
    PROVE  unread' \in [Sessions -> 0..SockCap] /\ writers' \in [Addrs -> Sessions \cup {None}]
<1>1. CASE Written(s)
  <2>1. unread[s] + 1 \in 0..SockCap
    BY <1>1, SizesAssumption DEF Written, TypeOK, TablesOK
  <2> QED
    BY <1>1, <2>1 DEF Written, TypeOK, TablesOK
<1>2. CASE Unwritten(s)
  <2>1. unread' = unread /\ (Forget(s) \/ writers' = writers)
    BY <1>2 DEF Unwritten
  <2> QED
    BY <2>1 DEF TypeOK, TablesOK, Forget
<1> QED
  BY <1>1, <1>2

LEMMA DispatcherTyped ==
    ASSUME TypeOK,
           \/ Subscribe \/ Dispatch \/ WriteResult
           \/ PickConn \/ WriteNews \/ RangeEnd \/ DispatchEnd
    PROVE  TypeOK'
<1> USE ConnsKept, TablesKept, QueuesKept, DispatchKept
    DEF TypeOK, clientVars, connVars, serverVars
<1>1. CASE Dispatch
  <2> DEFINE m == Head(results)
             w == cache[Key(m[1], m[2])]
  <2>1. CASE m = News
    <3>1. /\ dispatch' = "range" /\ visited' = {} /\ todo' = {a \in Addrs : writers[a] # None}
          /\ UNCHANGED <<message, target, cache, lost>>
      BY <1>1, <2>1 DEF Dispatch, Command
    <3>2. QueuesOK'
      BY <1>1, <3>1, DispatchHead DEF Dispatch, QueuesOK
    <3>3. DispatchOK'
      BY <3>1 DEF DispatchOK
    <3> QED
      BY <1>1, <3>1, <3>2, <3>3 DEF Dispatch
  <2>2. CASE m # News
    <3>1. m \in Commands /\ m # None
      BY <1>1, <2>2, DispatchHead, SessionsAssumption
    <3>2. Key(m[1], m[2]) \in Keys /\ w \in Sessions \cup {None}
      BY <3>1, KeyTyped, CommandParts DEF TablesOK
    <3>3. /\ target' = w /\ message' = (IF w = None THEN None ELSE m)
          /\ dispatch' = (IF w = None THEN "recv" ELSE "result")
          /\ lost' = (IF w = None THEN lost \cup {m} ELSE lost)
          /\ cache' = [cache EXCEPT ![Key(m[1], m[2])] = None]
          /\ UNCHANGED <<todo, visited>>
      BY <1>1, <2>2 DEF Dispatch, Command, Taken
    <3> HIDE DEF w, m
    <3>4. TablesOK'
      BY <1>1, <3>3 DEF Dispatch, TablesOK
    <3>5. QueuesOK'
      BY <1>1, <3>1, <3>3, DispatchHead DEF Dispatch, QueuesOK
    <3>6. DispatchOK'
      BY <3>1, <3>2, <3>3 DEF DispatchOK
    <3> QED
      BY <1>1, <3>4, <3>5, <3>6 DEF Dispatch
  <2> QED
    BY <2>1, <2>2
<1>2. CASE WriteResult
  <2>1. message \in Commands /\ target \in Sessions
    BY <1>2 DEF WriteResult, DispatchOK
  <2> DEFINE a == [id |-> Unmasked(target, Key(message[1], message[2])), of |-> message]
  <2>2. a \in Answers
    BY <2>1, KeyTyped DEF Answers
  <2>3. got' = [got EXCEPT ![target] = Append(@, a)] \/ got' = got
    BY <1>2 DEF WriteResult
  <2> HIDE DEF a
  <2>4. got' \in [Sessions -> Seq(Answers)]
    <3>1. got \in [Sessions -> Seq(Answers)] /\ got[target] \in Seq(Answers)
      BY <2>1 DEF TablesOK
    <3>2. Append(got[target], a) \in Seq(Answers)
      BY <2>2, <3>1
    <3> QED
      BY <2>1, <2>3, <3>1, <3>2
  <2>5. unread' \in [Sessions -> 0..SockCap] /\ writers' \in [Addrs -> Sessions \cup {None}]
    BY <1>2, <2>1, WriteTyped DEF WriteResult
  <2>6. TablesOK'
    BY <1>2, <2>4, <2>5 DEF WriteResult, TablesOK
  <2>7. DispatchOK'
    BY <1>2 DEF WriteResult, DispatchOK
  <2> QED
    BY <1>2, <2>6, <2>7 DEF WriteResult
<1>3. CASE PickConn
  <2>1. PICK a \in Addrs \ visited : /\ writers[a] # None
                                     /\ target' = writers[a] /\ visited' = visited \cup {a}
    BY <1>3 DEF PickConn
  <2>2. DispatchOK'
    BY <1>3, <2>1 DEF PickConn, DispatchOK, TablesOK
  <2> QED
    BY <1>3, <2>2 DEF PickConn
<1>4. CASE WriteNews
  <2>1. target \in Sessions
    BY <1>4 DEF WriteNews, DispatchOK
  <2>2. unread' \in [Sessions -> 0..SockCap] /\ writers' \in [Addrs -> Sessions \cup {None}]
    BY <1>4, <2>1, WriteTyped DEF WriteNews
  <2>3. TablesOK'
    BY <1>4, <2>2 DEF WriteNews, TablesOK
  <2>4. DispatchOK'
    BY <1>4 DEF WriteNews, DispatchOK
  <2> QED
    BY <1>4, <2>3, <2>4 DEF WriteNews
<1>5. CASE RangeEnd
  <2>1. DispatchOK'
    BY <1>5 DEF RangeEnd, DispatchOK
  <2> QED
    BY <1>5, <2>1 DEF RangeEnd
<1>6. CASE Subscribe \/ DispatchEnd
  <2>1. DispatchOK'
    BY <1>6 DEF Subscribe, DispatchEnd, DispatchOK
  <2> QED
    BY <1>6, <2>1 DEF Subscribe, DispatchEnd
<1> QED
  BY <1>1, <1>2, <1>3, <1>4, <1>5, <1>6

LEMMA StutterTyped ==
    ASSUME TypeOK, UNCHANGED vars
    PROVE  TypeOK'
BY ConnsKept, TablesKept, QueuesKept, DispatchKept
   DEF TypeOK, vars, clientVars, connVars, serverVars

\* Every reachable state is well typed: the queues never hold more than their channels, a
\* session never has more unread messages than its socket takes, and the dispatcher writes
\* only to a writer it has found.
THEOREM TypeCorrect == Spec => []TypeOK
<1>1. TypeOK /\ [Next]_vars => TypeOK'
  BY SessionTyped, ServerTyped, DispatcherTyped, StutterTyped DEF Next
<1> QED
  BY InitTyped, <1>1, PTL DEF Spec

------------------------------------------------------------------------------
(* Routing.  The address of a connection tells it from every other, and ids   *)
(* stay below the bits of the port.                                           *)

DistinctAddr == \A s, t \in Sessions : Addr[s] = Addr[t] => s = t
SmallIds == \A s \in Sessions : MaxCmds[s] < LowSpan

LEMMA SmallId ==
    ASSUME SmallIds, NEW c \in Commands
    PROVE  Id(c[2]) = [low |-> c[2], high |-> {}]
<1>1. c[2] \in Nat /\ MaxCmds[c[1]] \in Nat /\ LowSpan \in Nat \ {0}
  BY CommandParts, SizesAssumption
<1>2. c[2] < LowSpan
  BY <1>1, CommandParts DEF SmallIds
<1>3. c[2] % LowSpan = c[2]
  BY <1>1, <1>2
<1>4. ~(c[2] >= LowSpan)
  BY <1>1, <1>2
<1> DEFINE upper == {b \in Bits : c[2] >= LowSpan /\ (c[2] \div (LowSpan * 2^b)) % 2 = 1}
<1>5. upper = {}
  BY <1>4, Zenon
<1>6. Id(c[2]) = [low |-> c[2] % LowSpan, high |-> upper]
  BY Zenon DEF Id
<1> HIDE DEF upper
<1> QED
  BY <1>3, <1>5, <1>6

LEMMA SmallKey ==
    ASSUME SmallIds, NEW c \in Commands
    PROVE  Key(c[1], c[2]) = [ip |-> Addr[c[1]].ip, high |-> Addr[c[1]].port, low |-> c[2]]
<1>0. Id(c[2]) = [low |-> c[2], high |-> {}]
  BY SmallId, Zenon
<1>1. Id(c[2]).low = c[2] /\ Id(c[2]).high = {}
  BY <1>0
<1>2. {} \cup Addr[c[1]].port = Addr[c[1]].port
  BY CommandParts, AddrAssumption
<1>3. Key(c[1], c[2]) = [ip |-> Addr[c[1]].ip, high |-> Id(c[2]).high \cup Addr[c[1]].port,
                         low |-> Id(c[2]).low]
  BY Zenon DEF Key
<1> QED
  BY <1>1, <1>2, <1>3

\* A key belongs to one command.
LEMMA KeyOfOne ==
    ASSUME DistinctAddr, SmallIds, NEW c \in Commands, NEW d \in Commands,
           Key(c[1], c[2]) = Key(d[1], d[2])
    PROVE  c = d
<1>0. /\ Key(c[1], c[2]) = [ip |-> Addr[c[1]].ip, high |-> Addr[c[1]].port, low |-> c[2]]
      /\ Key(d[1], d[2]) = [ip |-> Addr[d[1]].ip, high |-> Addr[d[1]].port, low |-> d[2]]
  BY SmallKey, Zenon
<1>1. [ip |-> Addr[c[1]].ip, high |-> Addr[c[1]].port, low |-> c[2]]
        = [ip |-> Addr[d[1]].ip, high |-> Addr[d[1]].port, low |-> d[2]]
  BY <1>0, Zenon
<1>2. /\ Addr[c[1]].ip = Addr[d[1]].ip /\ Addr[c[1]].port = Addr[d[1]].port /\ c[2] = d[2]
  BY <1>1
<1>3. c[1] \in Sessions /\ d[1] \in Sessions
  BY CommandParts
<1>4. Addr[c[1]] = Addr[d[1]]
  BY <1>2, <1>3, AddrAssumption
<1>5. c[1] = d[1]
  BY <1>3, <1>4 DEF DistinctAddr
<1>6. c = <<c[1], c[2]>> /\ d = <<d[1], d[2]>>
  BY CommandParts
<1> QED
  BY <1>2, <1>5, <1>6

\* A client gets back the id it gave.
LEMMA IdComesBack ==
    ASSUME SmallIds, NEW c \in Commands
    PROVE  Unmasked(c[1], Key(c[1], c[2])) = Id(c[2])
<1>0. Key(c[1], c[2]) = [ip |-> Addr[c[1]].ip, high |-> Addr[c[1]].port, low |-> c[2]]
  BY SmallKey, Zenon
<1>1. Key(c[1], c[2]).low = c[2] /\ Key(c[1], c[2]).high = Addr[c[1]].port
  BY <1>0
<1>2. Unmasked(c[1], Key(c[1], c[2])) =
        [low |-> c[2],
         high |-> (Addr[c[1]].port \ Addr[c[1]].port) \cup (Addr[c[1]].port \ Addr[c[1]].port)]
  BY <1>1, Zenon DEF Unmasked
<1>3. Id(c[2]) = [low |-> c[2], high |-> {}]
  BY SmallId
<1>4. (Addr[c[1]].port \ Addr[c[1]].port) \cup (Addr[c[1]].port \ Addr[c[1]].port) = {}
  OBVIOUS
<1> QED
  BY <1>2, <1>3, <1>4

\* a cached key leads to the session that asked, and so does the dispatcher
CacheOwned ==
    \A c \in Commands : cache[Key(c[1], c[2])] \in {c[1], None}
TargetOwned == dispatch = "result" => target = message[1]
Routed == CacheOwned /\ TargetOwned /\ OwnAnswers

LEMMA InitRouted == Init => Routed
<1> SUFFICES ASSUME Init PROVE Routed
  OBVIOUS
<1>1. CacheOwned
  BY KeyTyped, CommandParts DEF Init, CacheOwned
<1>2. TargetOwned /\ OwnAnswers
  BY DEF Init, TargetOwned, OwnAnswers
<1> QED
  BY <1>1, <1>2 DEF Routed

LEMMA RoutedKept ==
    ASSUME Routed, UNCHANGED <<cache, dispatch, target, message, got>>
    PROVE  Routed'
BY DEF Routed, CacheOwned, TargetOwned, OwnAnswers

LEMMA RoutedStep ==
    ASSUME DistinctAddr, SmallIds, TypeOK, Routed, [Next]_vars
    PROVE  Routed'
<1> USE RoutedKept DEF clientVars, connVars, serverVars, dispVars
<1>1. CASE UNCHANGED vars
  BY <1>1 DEF vars
<1>2. ASSUME NEW s \in Sessions,
             Connect(s) \/ Send(s) \/ Drain(s) \/ Hangup(s) \/ AddConn(s) \/ Offer(s)
             \/ CloseConn(s)
      PROVE  Routed'
  BY <1>2 DEF Connect, Send, Drain, Hangup, AddConn, Offer, CloseConn
<1>3. CASE Execute \/ Answer \/ Broadcast \/ Release
  BY <1>3 DEF Execute, Answer, Broadcast, Release
<1>4. ASSUME NEW s \in Sessions, Scan(s)
      PROVE  Routed'
  <2> DEFINE d == <<s, read[s] + 1>>
  <2>1. d \in Commands
    <3>1. read[s] \in Nat /\ sent[s] \in Nat /\ MaxCmds[s] \in Nat
      BY SizesAssumption DEF TypeOK, ConnsOK
    <3>2. read[s] < sent[s] /\ sent[s] <= MaxCmds[s]
      BY <1>4 DEF Scan, TypeOK, ConnsOK
    <3>3. read[s] + 1 \in Nat /\ 1 <= read[s] + 1 /\ read[s] + 1 <= MaxCmds[s]
      BY <3>1, <3>2
    <3> QED
      BY <3>3, CommandsOf
  <2>2. cache' = [cache EXCEPT ![Key(d[1], d[2])] = d[1]]
    BY <1>4 DEF Scan
  <2>3. UNCHANGED <<dispatch, target, message, got>>
    BY <1>4 DEF Scan
  <2> HIDE DEF d
  <2>4. CacheOwned'
    <3> SUFFICES ASSUME NEW c \in Commands PROVE cache'[Key(c[1], c[2])] \in {c[1], None}
      BY DEF CacheOwned
    <3>1. CASE c = d
      BY <2>1, <2>2, <3>1, KeyTyped, CommandParts DEF TypeOK, TablesOK
    <3>2. CASE c # d
      <4>1. Key(c[1], c[2]) # Key(d[1], d[2])
        BY <2>1, <3>2, KeyOfOne
      <4>2. cache'[Key(c[1], c[2])] = cache[Key(c[1], c[2])]
        BY <2>2, <4>1, KeyTyped, CommandParts DEF TypeOK, TablesOK
      <4> QED
        BY <4>2 DEF Routed, CacheOwned
    <3> QED
      BY <3>1, <3>2
  <2> QED
    BY <2>3, <2>4 DEF Routed, TargetOwned, OwnAnswers
<1>5. CASE Dispatch
  <2> DEFINE m == Head(results)
  <2>1. CASE m = News
    <3>1. dispatch' = "range" /\ UNCHANGED <<cache, got>>
      BY <1>5, <2>1 DEF Dispatch, Command
    <3> QED
      BY <3>1 DEF Routed, CacheOwned, TargetOwned, OwnAnswers
  <2>2. CASE m # News
    <3> DEFINE w == cache[Key(m[1], m[2])]
    <3>1. m \in Commands
      BY <1>5, <2>2, DispatchHead
    <3>2. /\ target' = w /\ message' = (IF w = None THEN None ELSE m)
          /\ dispatch' = (IF w = None THEN "recv" ELSE "result")
          /\ cache' = [cache EXCEPT ![Key(m[1], m[2])] = None]
          /\ got' = got
      BY <1>5, <2>2 DEF Dispatch, Command, Taken
    <3>3. w \in {m[1], None}
      BY <3>1 DEF Routed, CacheOwned
    <3> HIDE DEF m, w
    <3>4. TargetOwned'
      BY <3>2, <3>3 DEF TargetOwned
    <3>5. CacheOwned'
      BY <3>2, KeyTyped, CommandParts DEF Routed, CacheOwned, TypeOK, TablesOK
    <3> QED
      BY <3>2, <3>4, <3>5 DEF Routed, OwnAnswers
  <2> QED
    BY <2>1, <2>2
<1>6. CASE WriteResult
  <2> DEFINE a == [id |-> Unmasked(target, Key(message[1], message[2])), of |-> message]
  <2>1. message \in Commands /\ target \in Sessions /\ target = message[1]
    BY <1>6 DEF WriteResult, TypeOK, DispatchOK, Routed, TargetOwned
  <2>2. a.of[1] = target /\ a.id = Id(a.of[2])
    BY <2>1, IdComesBack
  <2>3. got' = [got EXCEPT ![target] = Append(@, a)] \/ got' = got
    BY <1>6 DEF WriteResult
  <2>4. cache' = cache /\ dispatch' = "recv"
    BY <1>6 DEF WriteResult
  <2> HIDE DEF a
  <2>5. OwnAnswers'
    <3>1. CASE got' = got
      BY <3>1 DEF Routed, OwnAnswers
    <3>2. CASE got' = [got EXCEPT ![target] = Append(@, a)]
      <4> SUFFICES ASSUME NEW s \in Sessions, NEW i \in DOMAIN got'[s]
                   PROVE  got'[s][i].of[1] = s /\ got'[s][i].id = Id(got'[s][i].of[2])
        BY DEF OwnAnswers
      <4>1. got \in [Sessions -> Seq(Answers)]
        BY DEF TypeOK, TablesOK
      <4>2. CASE s # target
        BY <3>2, <4>1, <4>2 DEF Routed, OwnAnswers
      <4>3. CASE s = target
        <5>1. got[s] \in Seq(Answers) /\ got'[s] = Append(got[s], a)
          BY <3>2, <4>1, <4>3
        <5>2. (i \in DOMAIN got[s] /\ got'[s][i] = got[s][i]) \/ got'[s][i] = a
          BY <5>1
        <5> QED
          BY <2>2, <4>3, <5>2 DEF Routed, OwnAnswers
      <4> QED
        BY <4>2, <4>3
    <3> QED
      BY <2>3, <3>1, <3>2
  <2> QED
    BY <2>4, <2>5 DEF Routed, CacheOwned, TargetOwned
<1>7. CASE Subscribe \/ PickConn \/ WriteNews \/ RangeEnd \/ DispatchEnd
  <2>1. dispatch' # "result" /\ UNCHANGED <<cache, got>>
    BY <1>7 DEF Subscribe, PickConn, WriteNews, RangeEnd, DispatchEnd
  <2> QED
    BY <2>1 DEF Routed, CacheOwned, TargetOwned, OwnAnswers
<1> QED
  BY <1>1, <1>2, <1>3, <1>4, <1>5, <1>6, <1>7 DEF Next

\* For any number of connections with addresses of their own, whose ids stay below the bits of
\* the port: no answer reaches another client, and each comes back under its own id.
THEOREM OwnAnswersCorrect ==
    ASSUME DistinctAddr, SmallIds
    PROVE  Spec => []OwnAnswers
<1>1. Routed /\ TypeOK /\ [Next]_vars => Routed'
  BY RoutedStep
<1>2. Routed => OwnAnswers
  BY DEF Routed
<1> QED
  BY InitRouted, TypeCorrect, <1>1, <1>2, PTL DEF Spec

------------------------------------------------------------------------------
(* Registration.                                                            *)

\* nothing is registered for a connection that has not come yet
Unregistered ==
    \A s \in Sessions : conn[s] \in {"none", "add"} => writers[Addr[s]] = None

LEMMA AddrIn == \A s \in Sessions : Addr[s] \in Addrs
BY DEF Addrs

LEMMA RegisteredStep ==
    ASSUME DistinctAddr, TypeOK, Unregistered, Registered, [Next]_vars
    PROVE  Unregistered' /\ Registered'
<1> USE AddrIn DEF clientVars, connVars, serverVars, dispVars, Unregistered, Registered
<1>1. CASE UNCHANGED vars
  BY <1>1 DEF vars
<1>2. ASSUME NEW s \in Sessions,
             Connect(s) \/ Send(s) \/ Drain(s) \/ Hangup(s) \/ Scan(s) \/ Offer(s)
      PROVE  Unregistered' /\ Registered'
  <2>1. UNCHANGED writers
    BY <1>2 DEF Connect, Send, Drain, Hangup, Scan, Offer
  <2>2. \A t \in Sessions :
            /\ conn'[t] \in {"none", "add"} => conn[t] \in {"none", "add"}
            /\ conn'[t] \in {"scan", "send"} /\ sock'[t] = "open" =>
                    conn[t] \in {"scan", "send"} /\ sock[t] = "open"
    <3>1. CASE Offer(s)
      <4>1. sock' = sock /\ (conn' = conn \/ conn' = [conn EXCEPT ![s] = "scan"])
            /\ conn[s] = "send"
        BY <3>1 DEF Offer
      <4> QED
        BY <4>1 DEF TypeOK, ConnsOK
    <3>2. CASE ~Offer(s)
      <4>1. CASE Connect(s)
        BY <4>1 DEF Connect, TypeOK, ConnsOK
      <4>2. CASE Hangup(s)
        BY <4>2 DEF Hangup, TypeOK, ConnsOK
      <4>3. CASE Scan(s)
        BY <4>3 DEF Scan, TypeOK, ConnsOK
      <4>4. CASE Send(s) \/ Drain(s)
        BY <4>4 DEF Send, Drain
      <4> QED
        BY <1>2, <3>2, <4>1, <4>2, <4>3, <4>4
    <3> QED
      BY <3>1, <3>2
  <2> QED
    BY <2>1, <2>2
<1>3. CASE Execute \/ Answer \/ Broadcast \/ Release
  BY <1>3 DEF Execute, Answer, Broadcast, Release
<1>4. ASSUME NEW s \in Sessions, AddConn(s)
      PROVE  Unregistered' /\ Registered'
  <2>1. writers' = [writers EXCEPT ![Addr[s]] = s]
    BY <1>4 DEF AddConn
  <2>2. conn' = [conn EXCEPT ![s] = "scan"] /\ sock' = sock
    BY <1>4 DEF AddConn
  <2> QED
    BY <2>1, <2>2 DEF TypeOK, ConnsOK, TablesOK, DistinctAddr
<1>5. ASSUME NEW s \in Sessions, CloseConn(s)
      PROVE  Unregistered' /\ Registered'
  <2>1. writers' = [writers EXCEPT ![Addr[s]] = None] /\ sock[s] = "shut" /\ sock' = sock
        /\ conn' = [conn EXCEPT ![s] = "gone"]
    BY <1>5 DEF CloseConn, Forget
  <2> QED
    BY <2>1 DEF TypeOK, ConnsOK, TablesOK, DistinctAddr
<1>6. CASE Subscribe \/ Dispatch \/ PickConn \/ RangeEnd \/ DispatchEnd
  BY <1>6 DEF Subscribe, Dispatch, PickConn, RangeEnd, DispatchEnd
<1>7. CASE WriteResult \/ WriteNews
  <2>1. target \in Sessions
    BY <1>7 DEF WriteResult, WriteNews, TypeOK, DispatchOK
  <2>2. conn' = conn /\ sock' = sock
    BY <1>7 DEF WriteResult, WriteNews
  <2>3. \/ writers' = writers
        \/ writers' = [writers EXCEPT ![Addr[target]] = None] /\ sock[target] = "shut"
    <3>1. Written(target) \/ Unwritten(target)
      BY <1>7 DEF WriteResult, WriteNews
    <3> QED
      BY <3>1 DEF Written, Unwritten, Forget
  <2> QED
    BY <2>1, <2>2, <2>3 DEF TypeOK, TablesOK, DistinctAddr
<1> QED
  BY <1>1, <1>2, <1>3, <1>4, <1>5, <1>6, <1>7 DEF Next

\* With addresses of their own, connections that are read stay registered for broadcasts.
THEOREM RegisteredCorrect ==
    ASSUME DistinctAddr
    PROVE  Spec => []Registered
<1>1. Init => Unregistered /\ Registered
  BY AddrIn DEF Init, Unregistered, Registered
<1>2. Unregistered /\ Registered /\ TypeOK /\ [Next]_vars => (Unregistered /\ Registered)'
  BY RegisteredStep
<1> QED
  BY <1>1, <1>2, TypeCorrect, PTL DEF Spec

===============================================================================
