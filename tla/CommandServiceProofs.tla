------------------------- MODULE CommandServiceProofs -------------------------
(* The control handler implements CommandService, for any number of          *)
(* connections and commands.  What is under way is read off the command      *)
(* cache: CacheExact says that it holds what is under way and what was lost. *)
EXTENDS CtlHandlerOrderProofs, SequenceTheorems

------------------------------------------------------------------------------
(* Commands under way.                                                       *)

Cached == {c \in Commands : cache[Key(c[1], c[2])] # None}
UnderWay == (Cached \ lost) \cup Writing
ReadOnes == {c \in Commands : c[2] <= read[c[1]]}

LEMMA GivenUpIs ==
    ASSUME OrderInv
    PROVE  InFlight = Cached \ lost /\ GivenUp = ReadOnes \ (UnderWay \cup Handed)
<1>1. \A c \in InFlight : c \in Commands /\ c \notin lost
  <2>1. 3 \in Places /\ 4 \in Places /\ 5 \in Places /\ 6 \in Places
    BY DEF Places
  <2> QED
    BY <2>1, LineIs, InFlightIs DEF OrderInv, LostApart, InFlight
<1>2. InFlight = Cached \ lost
  BY <1>1 DEF OrderInv, CacheExact, Cached
<1> QED
  BY <1>2 DEF GivenUp, ReadOnes, UnderWay

LEMMA NextGivenUpIs ==
    ASSUME OrderInv'
    PROVE  GivenUp' = ReadOnes' \ (UnderWay' \cup Handed')
<1>1. \A c \in InFlight' : c \in Commands /\ c \notin lost'
  <2>1. 3 \in Places /\ 4 \in Places /\ 5 \in Places /\ 6 \in Places
    BY DEF Places
  <2> QED
    BY <2>1, NextLineIs, InFlightIs DEF OrderInv, LostApart, InFlight
<1>2. InFlight' = Cached' \ lost'
  BY <1>1 DEF OrderInv, CacheExact, Cached
<1> QED
  BY <1>2 DEF GivenUp, ReadOnes, UnderWay

\* What is under way was read, was not answered, and comes after all that is being written.
LEMMA UnderWayIs ==
    ASSUME OrderInv
    PROVE  /\ UnderWay \subseteq ReadOnes /\ UnderWay \cap Handed = {}
           /\ \A c \in Writing, d \in UnderWay : c[1] = d[1] => c = d \/ c[2] < d[2]
<1>1. \A k \in Places : \A c \in Line[k] : c \in Commands /\ c[2] <= read[c[1]]
  BY LineIs DEF OrderInv, Behind, Lines
<1>2. UnderWay = Writing \cup Resulted \cup Executed \cup Queued \cup Offered
  BY GivenUpIs, InFlightIs DEF UnderWay
<1>3. 1 \in Places /\ 2 \in Places /\ 3 \in Places /\ 4 \in Places /\ 5 \in Places /\ 6 \in Places
  BY DEF Places
<1>4. UnderWay \subseteq ReadOnes
  BY <1>1, <1>2, <1>3, LineIs DEF ReadOnes
<1>5. UnderWay \cap Handed = {}
  <2>1. \A c \in Handed : c \notin Line[2] /\ c \notin Line[3] /\ c \notin Line[4]
                          /\ c \notin Line[5] /\ c \notin Line[6]
    BY <1>3, LineIs, Irreflexive DEF OrderInv
  <2> QED
    BY <1>2, <2>1, LineIs
<1>6. ASSUME NEW c \in Writing, NEW d \in UnderWay, c[1] = d[1] PROVE c = d \/ c[2] < d[2]
  <2>1. Precedes(Writing, Resulted) /\ Precedes(Writing, Executed) /\ Precedes(Writing, Queued)
        /\ Precedes(Writing, Offered)
    <3>1. 2 < 3 /\ 2 < 4 /\ 2 < 5 /\ 2 < 6
      OBVIOUS
    <3> QED
      BY <1>3, <3>1, LineIs DEF OrderInv, InLine
  <2>2. CASE d \in Writing
    BY <1>6, <2>2 DEF Writing
  <2> QED
    BY <1>2, <1>6, <2>1, <2>2 DEF Precedes
<1> QED
  BY <1>4, <1>5, <1>6

------------------------------------------------------------------------------
(* The answers a client has got.                                             *)

CommandsOfAnswers(q) == [i \in 1..Len(q) |-> q[i].of]

LEMMA AnswersAppend ==
    ASSUME NEW q \in Seq(Answers), NEW a \in Answers
    PROVE  CommandsOfAnswers(Append(q, a)) = Append(CommandsOfAnswers(q), a.of)
<1> DEFINE r == Append(q, a)
           u == Append(CommandsOfAnswers(q), a.of)
<1>1. /\ r \in Seq(Answers) /\ Len(q) \in Nat /\ Len(r) = Len(q) + 1 /\ r[Len(q) + 1] = a
      /\ \A i \in 1..Len(q) : r[i] = q[i]
  BY AppendProperties, LenProperties
<1>2. a.of \in Commands /\ \A i \in 1..Len(q) : q[i].of \in Commands
  <2>1. \A i \in 1..Len(q) : q[i] \in Answers
    BY ElementOfSeq
  <2> QED
    BY <2>1 DEF Answers
<1>3. /\ CommandsOfAnswers(q) \in Seq(Commands) /\ Len(CommandsOfAnswers(q)) = Len(q)
      /\ \A i \in 1..Len(q) : CommandsOfAnswers(q)[i] = q[i].of
  <2>1. CommandsOfAnswers(q) \in [1..Len(q) -> Commands]
    BY <1>2 DEF CommandsOfAnswers
  <2>2. CommandsOfAnswers(q) \in Seq(Commands)
    BY <1>1, <2>1, SeqDef
  <2>3. Len(CommandsOfAnswers(q)) = Len(q)
    BY <1>1, <2>1, <2>2, LenProperties
  <2> QED
    BY <2>2, <2>3 DEF CommandsOfAnswers
<1>4. /\ u \in Seq(Commands) /\ Len(u) = Len(q) + 1 /\ u[Len(q) + 1] = a.of
      /\ \A i \in 1..Len(q) : u[i] = q[i].of
  BY <1>2, <1>3, AppendProperties
<1>5. DOMAIN u = 1..(Len(q) + 1) /\ DOMAIN CommandsOfAnswers(r) = 1..(Len(q) + 1)
  BY <1>1, <1>4, LenProperties DEF CommandsOfAnswers
<1>6. \A i \in 1..(Len(q) + 1) : i \in 1..Len(q) \/ i = Len(q) + 1
  BY <1>1
<1>7. \A i \in 1..(Len(q) + 1) : CommandsOfAnswers(r)[i] = u[i]
  BY <1>1, <1>4, <1>6 DEF CommandsOfAnswers
<1>8. u = [i \in 1..(Len(q) + 1) |-> u[i]] /\ CommandsOfAnswers(r) = [i \in 1..(Len(q) + 1) |-> r[i].of]
  BY <1>1, <1>4, <1>5 DEF CommandsOfAnswers
<1> QED
  BY <1>1, <1>5, <1>7, <1>8 DEF CommandsOfAnswers

LEMMA SettledIs ==
    ASSUME TypeOK, NEW c \in Commands
    PROVE  Service!Settled(c) <=> c \in GivenUp \cup Handed
<1>1. c[1] \in Sessions /\ got[c[1]] \in Seq(Answers)
  BY CommandParts DEF TypeOK, TablesOK
<1>2. DOMAIN got[c[1]] = 1..Len(got[c[1]])
  BY <1>1, LenProperties
<1>3. (\E i \in DOMAIN Replies[c[1]] : Replies[c[1]][i] = c) <=> c \in Handed
  BY <1>1, <1>2 DEF Replies, Handed
<1> QED
  BY <1>3 DEF Service!Settled

LEMMA OpenIs ==
    ASSUME TypeOK, OrderInv, NEW c \in UnderWay
    PROVE  /\ c \in Commands /\ c[1] \in Sessions /\ c = <<c[1], c[2]>>
           /\ c[2] \in Service!Open(c[1])
           /\ c \in Writing => \A k \in Service!Open(c[1]) : c[2] <= k
<1>1. c \in ReadOnes /\ c \notin Handed /\ c \notin GivenUp /\ c \in Commands
  BY UnderWayIs, GivenUpIs DEF ReadOnes
<1> DEFINE s == c[1]
<1>2. s \in Sessions /\ c = <<s, c[2]>> /\ c[2] \in Nat /\ 1 <= c[2] /\ c[2] <= read[s]
  BY <1>1, CommandParts DEF ReadOnes
<1>3. /\ read[s] \in Nat /\ sent[s] \in Nat /\ read[s] <= sent[s] /\ sent[s] <= MaxCmds[s]
      /\ MaxCmds[s] \in Nat
  BY <1>2, SizesAssumption DEF TypeOK, ConnsOK
<1>4. c[2] \in 1..sent[s]
  BY <1>2, <1>3
<1>5. c[2] \in Service!Open(s)
  BY <1>1, <1>2, <1>4, SettledIs DEF Service!Open
<1>6. ASSUME c \in Writing, NEW k \in Service!Open(s) PROVE c[2] <= k
  <2> DEFINE d == <<s, k>>
  <2>1. k \in 1..sent[s] /\ ~Service!Settled(d)
    BY DEF Service!Open
  <2>2. k \in Nat /\ 1 <= k /\ k <= MaxCmds[s]
    BY <1>3, <2>1
  <2>3. d \in Commands /\ d[1] = s /\ d[2] = k
    BY <1>2, <2>2, CommandsOf
  <2>4. d \notin GivenUp \cup Handed
    BY <2>1, <2>3, SettledIs
  <2> HIDE DEF d
  <2>5. CASE k <= read[s]
    <3>1. d \in UnderWay
      BY <2>3, <2>4, <2>5, GivenUpIs DEF ReadOnes
    <3>2. c = d \/ c[2] < d[2]
      BY <1>6, <2>3, <3>1, UnderWayIs
    <3> QED
      BY <1>2, <2>2, <2>3, <3>2
  <2>6. CASE ~(k <= read[s])
    BY <1>2, <1>3, <2>2, <2>6
  <2> QED
    BY <2>5, <2>6
<1> QED
  BY <1>1, <1>2, <1>5, <1>6

------------------------------------------------------------------------------
(* The steps.                                                                *)

shown == <<sent, Replies, GivenUp>>

\* A step that moves a command, or nothing, on its way.
LEMMA MovesOn ==
    ASSUME OrderInv, OrderInv', UNCHANGED <<sent, got, read>>, UnderWay' = UnderWay
    PROVE  UNCHANGED shown
BY GivenUpIs, NextGivenUpIs DEF shown, Replies, Handed, ReadOnes

\* A step after which a command is no longer under way, and not answered either.
LEMMA GivesUp ==
    ASSUME TypeOK, OrderInv, OrderInv', UNCHANGED <<sent, got, read>>, NEW c \in UnderWay,
           UnderWay' = UnderWay \ {c}
    PROVE  Service!Next
<1>1. c \in ReadOnes /\ c \notin Handed
  BY UnderWayIs
<1>2. GivenUp' = GivenUp \cup {c}
  BY <1>1, GivenUpIs, NextGivenUpIs DEF Handed, ReadOnes
<1>3. Replies' = Replies
  BY DEF Replies
<1>4. c[1] \in Sessions /\ c = <<c[1], c[2]>> /\ c[2] \in Service!Open(c[1])
  BY OpenIs
<1>5. Service!GiveUp(c[1])
  BY <1>2, <1>3, <1>4 DEF Service!GiveUp
<1> QED
  BY <1>4, <1>5 DEF Service!Next

LEMMA SendService ==
    ASSUME OrderInv, OrderInv', NEW s \in Sessions, Send(s)
    PROVE  Service!Next
<1>1. /\ sent' = [sent EXCEPT ![s] = @ + 1]
      /\ UNCHANGED <<got, read, cache, lost, dispatch, message>>
  BY DEF Send, connVars, dispVars
<1>2. UnderWay' = UnderWay /\ Handed' = Handed /\ ReadOnes' = ReadOnes
  BY <1>1 DEF UnderWay, Cached, Writing, Handed, ReadOnes
<1>3. UNCHANGED <<Replies, GivenUp>>
  BY <1>1, <1>2, GivenUpIs, NextGivenUpIs DEF Replies
<1> QED
  BY <1>1, <1>3 DEF Service!Next, Service!Ask

LEMMA ScanService ==
    ASSUME DistinctAddr, SmallIds, TypeOK, OrderInv, OrderInv', NEW s \in Sessions, Scan(s)
    PROVE  UNCHANGED shown
<1> DEFINE c == <<s, read[s] + 1>>
<1>1. c \in Commands /\ c[1] = s /\ c[2] = read[s] + 1 /\ cache' = [cache EXCEPT ![Key(c[1], c[2])] = s]
  BY ReadCommand DEF Scan
<1> HIDE DEF c
<1>2. /\ read' = [read EXCEPT ![s] = read[s] + 1] /\ read \in [Sessions -> Nat] /\ s # None
      /\ UNCHANGED <<sent, got, lost, dispatch, message>> /\ lost \subseteq Commands
  BY SessionsAssumption DEF Scan, clientVars, dispVars, TypeOK, ConnsOK, QueuesOK
<1>3. c \notin lost
  BY <1>1, <1>2 DEF OrderInv, LostRead
<1>4. Cached' = Cached \cup {c}
  <2>1. cache \in [Keys -> Sessions \cup {None}] /\ \A d \in Commands : Key(d[1], d[2]) \in Keys
    BY KeyTyped DEF TypeOK, TablesOK
  <2>2. \A d \in Commands : d # c => cache'[Key(d[1], d[2])] = cache[Key(d[1], d[2])]
    BY <1>1, <2>1, KeyOfOne
  <2>3. cache'[Key(c[1], c[2])] # None
    BY <1>1, <1>2, <2>1
  <2> QED
    BY <1>1, <2>2, <2>3 DEF Cached
<1>5. ReadOnes' = ReadOnes \cup {c}
  <2>1. \A d \in Commands : d[1] # s => read'[d[1]] = read[d[1]]
    BY <1>2, CommandParts
  <2>2. \A d \in Commands : d[1] = s => (d[2] <= read'[d[1]] <=> d[2] <= read[d[1]] \/ d = c)
    BY <1>1, <1>2, CommandParts
  <2> QED
    BY <1>1, <2>1, <2>2 DEF ReadOnes
<1>6. UnderWay' = UnderWay \cup {c} /\ Handed' = Handed /\ Replies' = Replies
  BY <1>2, <1>3, <1>4 DEF UnderWay, Writing, Handed, Replies
<1>7. c \notin ReadOnes
  BY <1>1, <1>2 DEF ReadOnes
<1>8. GivenUp' = GivenUp
  BY <1>5, <1>6, <1>7, GivenUpIs, NextGivenUpIs
<1> QED
  BY <1>2, <1>6, <1>8 DEF shown

\* What waits for its result is not being written.
LEMMA WritingApart ==
    ASSUME OrderInv
    PROVE  Writing \cap InFlight = {}
<1>1. 2 \in Places /\ 3 \in Places /\ 4 \in Places /\ 5 \in Places /\ 6 \in Places
  BY DEF Places
<1>2. \A c \in Writing : c \notin Line[3] /\ c \notin Line[4] /\ c \notin Line[5] /\ c \notin Line[6]
  BY <1>1, LineIs, Irreflexive DEF OrderInv
<1> QED
  BY <1>2, LineIs, InFlightIs

LEMMA TimedOut ==
    ASSUME TypeOK, OrderInv, OrderInv', NEW c \in InFlight, lost' = lost \cup {c},
           UNCHANGED <<sent, got, read, cache, dispatch, message>>
    PROVE  Service!Next
<1>1. c \in UnderWay /\ c \notin Writing
  BY GivenUpIs, WritingApart DEF UnderWay
<1>2. UnderWay' = UnderWay \ {c}
  BY <1>1 DEF UnderWay, Cached, Writing
<1> QED
  BY <1>1, <1>2, GivesUp

LEMMA OfferService ==
    ASSUME TypeOK, OrderInv, OrderInv', NEW s \in Sessions, Offer(s)
    PROVE  Service!Next \/ UNCHANGED shown
<1> DEFINE c == <<s, read[s]>>
<1>1. /\ UNCHANGED <<sent, got, read, cache, dispatch, message>> /\ conn[s] = "send"
      /\ lost' = lost \/ lost' = lost \cup {c}
  BY DEF Offer, clientVars, dispVars
<1>2. c \in InFlight
  BY <1>1, ReadCommand, InFlightIs
<1>3. CASE lost' = lost
  <2>1. UnderWay' = UnderWay
    BY <1>1, <1>3 DEF UnderWay, Cached, Writing
  <2> QED
    BY <1>1, <2>1, MovesOn
<1> HIDE DEF c
<1>4. CASE lost' = lost \cup {c}
  BY <1>1, <1>2, <1>4, TimedOut
<1> QED
  BY <1>1, <1>3, <1>4

LEMMA AnswerService ==
    ASSUME TypeOK, OrderInv, OrderInv', Answer
    PROVE  Service!Next \/ UNCHANGED shown
<1>1. /\ UNCHANGED <<sent, got, read, cache, dispatch, message>>
      /\ executing \in Commands
      /\ lost' = lost \/ lost' = lost \cup {executing}
  BY DEF Answer, clientVars, connVars, dispVars, TypeOK, QueuesOK
<1>2. executing \in InFlight
  <2>1. executing \in Executed
    BY <1>1 DEF Executed
  <2> QED
    BY <2>1, InFlightIs
<1>3. CASE lost' = lost
  <2>1. UnderWay' = UnderWay
    BY <1>1, <1>3 DEF UnderWay, Cached, Writing
  <2> QED
    BY <1>1, <2>1, MovesOn
<1>4. CASE lost' = lost \cup {executing}
  BY <1>1, <1>2, <1>4, TimedOut
<1> QED
  BY <1>1, <1>3, <1>4

LEMMA DispatchService ==
    ASSUME DistinctAddr, SmallIds, TypeOK, OrderInv, OrderInv', Dispatch
    PROVE  UNCHANGED shown
<1> DEFINE m == Head(results)
           w == cache[Key(m[1], m[2])]
<1>1. /\ results \in Seq(Commands \cup {News}) /\ results # <<>> /\ dispatch = "recv"
      /\ m \in Commands \cup {News} /\ UNCHANGED <<sent, got, read>>
  BY DEF Dispatch, clientVars, TypeOK, QueuesOK
<1>2. Writing = {}
  BY <1>1 DEF Writing
<1>3. CASE m = News
  <2>1. dispatch' = "range" /\ UNCHANGED <<cache, lost>>
    BY <1>3 DEF Dispatch, Command
  <2>2. UnderWay' = UnderWay
    BY <1>2, <2>1 DEF UnderWay, Cached, Writing
  <2> QED
    BY <1>1, <2>2, MovesOn
<1>4. CASE m # News
  <2>1. m \in Commands
    BY <1>1, <1>4
  <2>2. m \in InFlight
    <3>1. 1 \in DOMAIN results /\ results[1] = m
      BY <1>1
    <3> QED
      BY <2>1, <3>1 DEF InFlight
  <2>3. m \in Cached /\ m \notin lost /\ w # None
    BY <2>2, GivenUpIs DEF Cached
  <2>4. /\ message' = m /\ dispatch' = "result" /\ lost' = lost
        /\ cache' = [cache EXCEPT ![Key(m[1], m[2])] = None]
    BY <1>4, <2>3 DEF Dispatch, Command, Taken
  <2> HIDE DEF m, w
  <2>5. Cached' = Cached \ {m}
    <3>1. cache \in [Keys -> Sessions \cup {None}] /\ \A d \in Commands : Key(d[1], d[2]) \in Keys
      BY <2>1, CommandParts, KeyTyped DEF TypeOK, TablesOK
    <3>2. \A d \in Commands : d # m => cache'[Key(d[1], d[2])] = cache[Key(d[1], d[2])]
      BY <2>1, <2>4, <3>1, KeyOfOne
    <3>3. cache'[Key(m[1], m[2])] = None
      BY <2>1, <2>4, <3>1
    <3> QED
      BY <3>2, <3>3 DEF Cached
  <2>6. Writing' = {m}
    BY <2>1, <2>4 DEF Writing
  <2>7. UnderWay' = UnderWay
    BY <1>2, <2>3, <2>4, <2>5, <2>6 DEF UnderWay
  <2> QED
    BY <1>1, <2>7, MovesOn
<1> QED
  BY <1>3, <1>4

LEMMA WriteService ==
    ASSUME TypeOK, Routed, OrderInv, OrderInv', WriteResult
    PROVE  Service!Next
<1> DEFINE c == message
           s == target
           a == [id |-> Unmasked(s, Key(c[1], c[2])), of |-> c]
<1>1. /\ dispatch = "result" /\ dispatch' = "recv" /\ c \in Commands /\ s \in Sessions
      /\ s = c[1] /\ got \in [Sessions -> Seq(Answers)] /\ a.of = c
      /\ got' = got \/ got' = [got EXCEPT ![s] = Append(got[s], a)]
      /\ UNCHANGED <<sent, read, cache, lost>>
  BY DEF WriteResult, TypeOK, TablesOK, DispatchOK, Routed, TargetOwned
<1>2. a \in Answers
  BY <1>1, KeyTyped DEF Answers
<1>3. Writing = {c} /\ Writing' = {} /\ c \in UnderWay
  BY <1>1 DEF Writing, UnderWay
<1>4. UnderWay' = UnderWay \ {c}
  BY <1>1, <1>3, WritingApart, GivenUpIs DEF UnderWay, Cached
<1>5. CASE got' = got
  BY <1>1, <1>3, <1>4, <1>5, GivesUp
<1> HIDE DEF a, c
<1>6. CASE got' = [got EXCEPT ![s] = Append(got[s], a)]
  <2>1. Replies' = [Replies EXCEPT ![s] = Append(@, c)]
    <3>1. /\ got[s] \in Seq(Answers) /\ got'[s] = Append(got[s], a)
          /\ \A t \in Sessions : t # s => got'[t] = got[t]
      BY <1>1, <1>6
    <3>2. CommandsOfAnswers(got'[s]) = Append(CommandsOfAnswers(got[s]), c)
      BY <1>1, <1>2, <3>1, AnswersAppend
    <3>3. /\ Replies = [t \in Sessions |-> CommandsOfAnswers(got[t])]
          /\ Replies' = [t \in Sessions |-> CommandsOfAnswers(got'[t])]
      BY DEF Replies, CommandsOfAnswers
    <3> QED
      BY <1>1, <3>1, <3>2, <3>3
  <2>2. Handed' = Handed \cup {c}
    <3>1. /\ got[s] \in Seq(Answers) /\ got'[s] = Append(got[s], a)
          /\ \A t \in Sessions : t # s => got'[t] = got[t]
      BY <1>1, <1>6
    <3>2. \A d \in Commands : d[1] # s => (d \in Handed' <=> d \in Handed)
      BY <3>1, CommandParts DEF Handed
    <3>3. \A d : (\E i \in DOMAIN got'[s] : got'[s][i] = d)
                  <=> (d = a \/ \E i \in DOMAIN got[s] : got[s][i] = d)
      BY <3>1, AppendElements
    <3>4. ASSUME NEW d \in Commands, d[1] = s PROVE d \in Handed' <=> d = c \/ d \in Handed
      <4>1. d \in Handed => \E i \in DOMAIN got[s] : got[s][i].of = d
        BY <3>4 DEF Handed
      <4>2. (\E i \in DOMAIN got'[s] : got'[s][i].of = d)
                <=> (a.of = d \/ \E i \in DOMAIN got[s] : got[s][i].of = d)
        BY <3>3
      <4> QED
        BY <1>1, <3>4, <4>1, <4>2 DEF Handed
    <3> QED
      BY <1>1, <3>2, <3>4 DEF Handed
  <2>3. GivenUp' = GivenUp
    <3>1. ReadOnes' = ReadOnes
      BY <1>1 DEF ReadOnes
    <3> QED
      BY <1>3, <1>4, <2>2, <3>1, GivenUpIs, NextGivenUpIs
  <2>4. c = <<s, c[2]>> /\ c[2] \in Service!Open(s) /\ \A k \in Service!Open(s) : c[2] <= k
    BY <1>1, <1>3, OpenIs
  <2>5. Service!Reply(s)
    BY <1>1, <2>1, <2>3, <2>4 DEF Service!Reply
  <2> QED
    BY <1>1, <2>5 DEF Service!Next
<1> QED
  BY <1>1, <1>5, <1>6

LEMMA RestService ==
    ASSUME OrderInv, OrderInv',
           \/ \E s \in Sessions : Connect(s) \/ Drain(s) \/ Hangup(s) \/ AddConn(s) \/ CloseConn(s)
           \/ Execute \/ Broadcast \/ Release \/ Subscribe
           \/ PickConn \/ WriteNews \/ RangeEnd \/ DispatchEnd
           \/ UNCHANGED vars
    PROVE  UNCHANGED shown
<1>1. /\ UNCHANGED <<sent, got, read, cache, lost>>
      /\ \/ UNCHANGED <<dispatch, message>>
         \/ dispatch # "result" /\ dispatch' # "result"
  BY DEF Connect, Drain, Hangup, AddConn, CloseConn, Execute, Broadcast, Release, Subscribe,
         PickConn, WriteNews, RangeEnd, DispatchEnd, vars, clientVars, connVars, serverVars, dispVars
<1>2. UnderWay' = UnderWay
  BY <1>1 DEF UnderWay, Cached, Writing
<1> QED
  BY <1>1, <1>2, MovesOn

LEMMA ServiceStep ==
    ASSUME DistinctAddr, SmallIds, TypeOK, Routed, OrderInv, OrderInv', [Next]_vars
    PROVE  [Service!Next]_shown
BY SendService, ScanService, OfferService, AnswerService, DispatchService, WriteService,
   RestService
DEF Next

LEMMA ServiceInit == Init => Service!Init
<1> SUFFICES ASSUME Init PROVE Service!Init
  OBVIOUS
<1>1. sent = [s \in Sessions |-> 0]
  BY DEF Init
<1>2. Replies = [s \in Sessions |-> <<>>]
  BY DEF Init, Replies
<1>3. GivenUp = {}
  BY CommandParts DEF Init, GivenUp
<1> QED
  BY <1>1, <1>2, <1>3 DEF Service!Init

\* Where connections have addresses of their own and ids stay below the bits of the port, the
\* handler implements the service it promises its clients, whatever times out, hangs up, is
\* broadcast or is released meanwhile (handler_tcp.go:77-96, handler.go:78-148,
\* server.go:193-199, 221-297).
THEOREM ServiceRefined ==
    ASSUME DistinctAddr, SmallIds
    PROVE  Spec => ServiceImplemented
<1>1. TypeOK /\ Routed /\ [Next]_vars => Routed'
  BY RoutedStep
<1>2. TypeOK /\ Routed /\ OrderInv /\ OrderInv' /\ [Next]_vars => [Service!Next]_shown
  BY ServiceStep
<1>3. [Service!Next]_shown <=> [Service!Next]_(Service!vars)
  BY DEF shown, Service!vars
<1> QED
  BY TypeCorrect, InitRouted, OrderAlways, ServiceInit, <1>1, <1>2, <1>3, PTL
  DEF Spec, ServiceImplemented, Service!Spec
===============================================================================
