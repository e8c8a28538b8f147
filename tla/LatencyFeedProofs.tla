-------------------------- MODULE LatencyFeedProofs --------------------------
(* The latency client implements the feed of LatencyFeed, for every value   *)
(* of its constants.                                                        *)
EXTENDS LatencyClientProofs

USE AgentsAssumption DEF Here

\* Between two deliveries nothing counts as visited, what is visited need not be visited
\* again, and the reporter that is being called has been picked.
RangeInv ==
    /\ pc[Reporter] \in {"idle", "new", "recv"} => visited = {}
    /\ must \cap visited = {}
    /\ calling # None => calling \in visited

\* A step that no reporter can tell from none.
FeedQuiet ==
    /\ UNCHANGED <<reporters, notify, current, calling, visited, must, seen>>
    /\ pc'[Reporter] # pc[Reporter] => pc[Reporter] \in {"idle", "new"}

FeedActs ==
    \/ \E c \in Callers : AddReporter(c) \/ DelReporter(c)
    \/ Publish \/ Receive \/ PickReporter \/ Report \/ RangeEnd
    \/ DrainBegin \/ DrainReporter \/ DrainEnd

LEMMA QuietMoves ==
    ASSUME PcOK, NEW a \in Agents, NEW l, Goto(a, l),
           UNCHANGED <<reporters, notify, current, calling, visited, must, seen>>,
           a = Reporter => pc[a] \in {"idle", "new"}
    PROVE  FeedQuiet
BY GotoAgent DEF FeedQuiet, Agents

LEMMA QuietWakes ==
    ASSUME PcOK, NEW a \in Callers \cup {Querier}, NEW l, OpenGate(a, l)
    PROVE  FeedQuiet
<1>1. UNCHANGED <<reporters, notify, current, calling, visited, must, seen>>
  BY DEF OpenGate, rptVars
<1>2. a \in Agents
  BY DEF Agents
<1>3. CASE suspendWg = 1
  BY <1>1, <1>2, <1>3 DEF OpenGate, GotoAndWake, FeedQuiet, Agents, PcOK, ReporterLabels
<1>4. CASE suspendWg # 1
  BY <1>1, <1>2, <1>4, QuietMoves DEF OpenGate
<1> QED
  BY <1>3, <1>4

LEMMA ActsFrame == ASSUME TypeOK, Next PROVE FeedQuiet \/ FeedActs
<1> USE DEF TypeOK, Moves, Panic, stateVars, rptVars, Agents
<1>1. ASSUME NEW c \in Callers, CallBegin(c) PROVE FeedQuiet \/ FeedActs
  <2>1. CASE Start(c)
    BY <2>1 DEF Start, Started, Begins, FeedQuiet, PcOK
  <2>2. CASE AddReporter(c) \/ DelReporter(c)
    BY <2>2 DEF FeedActs
  <2> QED
    BY <1>1, <2>1, <2>2, QuietMoves
    DEF CallBegin, Begins, SuspendSwap, ResumeSwap, SwapSuspend, ChangeInterval, GetInterval,
        QueryLatency, SetConfigBegin, GetLastStateReport, BeginStop, BeginJoin, FeedQuiet
<1>2. ASSUME NEW c \in Callers, CallStep(c) PROVE FeedQuiet
  <2>1. CASE ResumeDone(c) \/ CancelDone(c)
    BY <2>1, QuietWakes DEF ResumeDone, CancelDone, GateUnderflow, FeedQuiet
  <2> QED
    BY <1>2, <2>1, QuietMoves
    DEF CallStep, SuspendAdd, SetConfigApply, SetConfigStore, Send, AddReporterCount,
        GetLastStateConfig, CancelRun, CancelResume, SwapSuspend, JoinReporters, JoinWoken,
        JoinWatch, FeedQuiet
<1>3. CASE QuerierStep
  <2>1. CASE CancelDone(Querier)
    BY <2>1, QuietWakes DEF CancelDone, GateUnderflow, FeedQuiet
  <2>2. CASE \E c \in Callers : Requeried(c)
    BY <2>2 DEF Requeried, FeedQuiet, PcOK
  <2>3. CASE Publish
    BY <2>3 DEF FeedActs
  <2> QED
    BY <1>3, <2>1, <2>2, <2>3, QuietMoves
    DEF QuerierStep, Top, GateWait, GateWoken, CheckCancelled, Query, MapRace, QueryAnswered,
        QueryEmpty, QueryFailed, Rearm, SelectDone, SelectTimer, CancelRun, CancelResume,
        SwapSuspend, CloseNotify, CloseWatch, FeedQuiet
<1>4. CASE ReporterStep
  <2>1. CASE ReporterBegin
    BY <2>1, QuietMoves DEF ReporterBegin, ReporterQuiet
  <2> QED
    BY <1>4, <2>1 DEF ReporterStep, FeedActs
<1>5. CASE Interrupt
  BY <1>5 DEF Interrupt, FeedQuiet
<1> QED
  BY <1>1, <1>2, <1>3, <1>4, <1>5 DEF Next

LEMMA RangeStep == ASSUME TypeOK, RangeInv, Next PROVE RangeInv'
<1> USE DEF RangeInv, TypeOK, Agents, Panic, rptVars
<1>1. CASE FeedQuiet
  BY <1>1 DEF FeedQuiet
<1>2. ASSUME NEW c \in Callers, AddReporter(c) \/ DelReporter(c) PROVE RangeInv'
  BY <1>2, GotoAgent DEF AddReporter, DelReporter
<1>3. CASE Publish
  BY <1>3, GotoAgent DEF Publish
<1>4. CASE Receive
  BY <1>4, GotoAgent DEF Receive
<1>5. CASE PickReporter
  BY <1>5, GotoAgent DEF PickReporter
<1>6. CASE Report
  BY <1>6, GotoAgent DEF Report
<1>7. CASE RangeEnd
  BY <1>7, GotoAgent DEF RangeEnd, LocalsOK
<1>8. CASE DrainBegin
  BY <1>8, GotoAgent DEF DrainBegin
<1>9. ASSUME NEW l \in {"drain", "gone"}, ReporterDone(l)
      PROVE  pc'[Reporter] = l /\ UNCHANGED <<reporters, calling>>
  BY <1>9, GotoAgent DEF ReporterDone, GotoAndWake
<1>10. CASE DrainReporter
  BY <1>9, <1>10 DEF DrainReporter, ReporterUnderflow, LocalsOK
<1>11. CASE DrainEnd
  BY <1>9, <1>11 DEF DrainEnd, ReporterUnderflow
<1> QED
  BY <1>1, <1>2, <1>3, <1>4, <1>5, <1>6, <1>7, <1>8, <1>10, <1>11, ActsFrame DEF FeedActs
------------------------------------------------------------------------------
(* The timestamps of a queue of States.                                     *)

StampsOf(q) == [i \in 1..Len(q) |-> q[i].ts]

LEMMA StampsTyped ==
    ASSUME NEW q \in Seq(States)
    PROVE  /\ StampsOf(q) \in Seq(Clock) /\ Len(StampsOf(q)) = Len(q) /\ Len(q) \in Nat
           /\ \A i \in 1..Len(q) : StampsOf(q)[i] = q[i].ts
<1>1. Len(q) \in Nat /\ \A i \in 1..Len(q) : q[i].ts \in Clock
  <2>1. \A i \in 1..Len(q) : q[i] \in States
    BY ElementOfSeq
  <2> QED
    BY <2>1, LenProperties DEF States
<1>2. StampsOf(q) \in Seq(Clock)
  <2>1. StampsOf(q) \in [1..Len(q) -> Clock]
    BY <1>1 DEF StampsOf
  <2> QED
    BY <1>1, <2>1, SeqDef
<1>3. DOMAIN StampsOf(q) = 1..Len(q)
  BY DEF StampsOf
<1>4. Len(StampsOf(q)) = Len(q)
  BY <1>1, <1>2, <1>3, LenProperties
<1> QED
  BY <1>1, <1>2, <1>4 DEF StampsOf

LEMMA StampsAppend ==
    ASSUME NEW q \in Seq(States), NEW s \in States
    PROVE  StampsOf(Append(q, s)) = Append(StampsOf(q), s.ts)
<1> DEFINE r == Append(q, s)
           u == Append(StampsOf(q), s.ts)
<1>1. s.ts \in Clock
  BY DEF States
<1>2. /\ r \in Seq(States) /\ Len(r) = Len(q) + 1 /\ r[Len(q) + 1] = s
      /\ \A i \in 1..Len(q) : r[i] = q[i]
  BY AppendProperties
<1>3. /\ u \in Seq(Clock) /\ Len(u) = Len(q) + 1 /\ u[Len(q) + 1] = s.ts
      /\ \A i \in 1..Len(q) : u[i] = q[i].ts
  BY <1>1, StampsTyped, AppendProperties
<1>4. /\ StampsOf(r) \in Seq(Clock) /\ Len(StampsOf(r)) = Len(q) + 1
      /\ \A i \in 1..Len(q) + 1 : StampsOf(r)[i] = r[i].ts
  BY <1>2, StampsTyped
<1>5. Len(q) \in Nat
  BY StampsTyped
<1>6. \A i \in 1..Len(q) + 1 : StampsOf(r)[i] = u[i]
  <2> HIDE DEF r, u
  <2> QED
    BY <1>2, <1>3, <1>4, <1>5
<1>7. StampsOf(r) = u
  <2> HIDE DEF r, u
  <2> QED
    BY <1>3, <1>4, <1>6, SeqEqual
<1> QED
  BY <1>7

LEMMA StampsTaken ==
    ASSUME NEW q \in Seq(States), q # <<>>
    PROVE  /\ StampsOf(q) # <<>>
           /\ Head(StampsOf(q)) = Head(q).ts /\ StampsOf(Tail(q)) = Tail(StampsOf(q))
<1> DEFINE u == StampsOf(q)
<1>1. /\ Len(q) \in Nat /\ u \in Seq(Clock) /\ Len(u) = Len(q)
      /\ \A i \in 1..Len(q) : u[i] = q[i].ts
  BY StampsTyped
<1>2. u # <<>> /\ Len(q) # 0
  <2>1. Len(q) # 0
    BY EmptySeq, LenProperties
  <2> HIDE DEF u
  <2> QED
    BY <1>1, <2>1
<1> HIDE DEF u
<1>3. /\ Tail(q) \in Seq(States) /\ Len(Tail(q)) = Len(q) - 1 /\ Head(q) = q[1]
      /\ \A i \in 1..Len(Tail(q)) : Tail(q)[i] = q[i + 1]
  BY <1>1, <1>2, HeadTailProperties
<1>4. /\ Tail(u) \in Seq(Clock) /\ Len(Tail(u)) = Len(q) - 1 /\ Head(u) = u[1]
      /\ \A i \in 1..Len(Tail(u)) : Tail(u)[i] = u[i + 1]
  BY <1>1, <1>2, HeadTailProperties
<1>5. /\ StampsOf(Tail(q)) \in Seq(Clock) /\ Len(StampsOf(Tail(q))) = Len(q) - 1
      /\ \A i \in 1..Len(q) - 1 : StampsOf(Tail(q))[i] = Tail(q)[i].ts
  BY <1>3, StampsTyped
<1>6. \A i \in 1..Len(q) - 1 : StampsOf(Tail(q))[i] = Tail(u)[i]
  BY <1>1, <1>2, <1>3, <1>4, <1>5
<1>7. StampsOf(Tail(q)) = Tail(u)
  BY <1>4, <1>5, <1>6, SeqEqual
<1>8. Head(u) = Head(q).ts
  BY <1>1, <1>2, <1>3, <1>4
<1> QED
  BY <1>2, <1>7, <1>8 DEF u
------------------------------------------------------------------------------
(* Every step of the client is a step of the feed, or none.                 *)

\* The state of the feed that the client shows.
shown == <<reporters, FeedQueue, FeedCurrent, FeedDue, FeedHanded, seen>>

LEMMA Delivers ==
    ASSUME TypeOK
    PROVE  /\ Delivering <=> pc[Reporter] \in {"range", "call"}
           /\ pc[Reporter] = "call" => calling \in Names /\ calling # None
           /\ pc[Reporter] # "call" => calling = None
           /\ Delivering => current.ts \in Clock /\ FeedCurrent = current.ts
                            /\ FeedCurrent # None
           /\ ~Delivering => FeedCurrent = None /\ FeedDue = {} /\ FeedHanded = {}
           /\ notify \in Seq(States) /\ FeedQueue = StampsOf(notify)
BY NoneAssumption, ReportersAssumption
DEF TypeOK, DataOK, LocalsOK, Delivering, FeedCurrent, FeedDue, FeedHanded, FeedQueue,
    StampsOf, States

LEMMA QuietStep == ASSUME FeedQuiet PROVE UNCHANGED shown
BY DEF FeedQuiet, shown, FeedQueue, FeedCurrent, FeedDue, FeedHanded, Delivering

LEMMA MemberStep ==
    ASSUME TypeOK, NEW c \in Callers, AddReporter(c) \/ DelReporter(c)
    PROVE  \E n \in Names : Feed!Register(n) \/ Feed!Leave(n)
<1> USE DEF rptVars, FeedQueue, FeedCurrent, FeedHanded, Delivering
<1>1. CASE AddReporter(c)
  BY <1>1 DEF AddReporter, Feed!Register, FeedDue
<1>2. CASE DelReporter(c)
  <2>1. PICK n \in reporters : reporters' = reporters \ {n} /\ must' = must \ {n}
    BY <1>2 DEF DelReporter
  <2>2. UNCHANGED <<FeedQueue, FeedCurrent, FeedHanded, seen, calling, current>>
    BY <1>2 DEF DelReporter
  <2>3. FeedDue' \in {FeedDue, FeedDue \ {n}}
    BY <2>1, <2>2 DEF FeedDue
  <2>4. n \in Names
    BY <2>1 DEF TypeOK, DataOK
  <2> QED
    BY <2>1, <2>2, <2>3, <2>4 DEF Feed!Leave
<1> QED
  BY <1>1, <1>2

LEMMA PublishStep ==
    ASSUME TypeOK, FeedInv, Publish
    PROVE  UNCHANGED shown \/ \E t \in Clock : Feed!Offer(t)
<1>1. UNCHANGED <<reporters, FeedCurrent, FeedDue, FeedHanded, seen>>
  BY DEF Publish, rptVars, FeedCurrent, FeedDue, FeedHanded, Delivering
<1>2. CASE NotifyFull
  BY <1>1, <1>2 DEF Publish, shown, FeedQueue
<1>3. CASE ~NotifyFull
  <2>1. outbox \in States /\ outbox # None /\ notify' = Append(notify, outbox)
    BY <1>3 DEF Publish, Enqueue, TypeOK, DataOK, LocalsOK
  <2>2. outbox.ts \in Clock
    BY <2>1 DEF States
  <2>3. FeedQueue' = Append(FeedQueue, outbox.ts) /\ FeedQueue = StampsOf(notify)
    BY <2>1, Delivers, StampsAppend DEF FeedQueue, StampsOf
  <2>4. /\ Len(FeedQueue) = Len(notify) /\ Len(notify) \in Nat
        /\ \A i \in 1..Len(notify) : FeedQueue[i] = notify[i].ts /\ notify[i] # None
    BY <2>3, Delivers, StampsTyped, FeedTypes
  <2>5. Len(FeedQueue) < NotifyCap
    BY <1>3, <2>4, BoundsAssumption DEF NotifyFull
  <2>6. /\ \A i \in 1..Len(FeedQueue) : FeedQueue[i] <= outbox.ts
        /\ FeedCurrent # None => FeedCurrent <= outbox.ts
        /\ \A n \in Names : seen[n] <= outbox.ts
    BY <2>1, <2>4, Delivers DEF FeedInv, Before, Sound, Delivering, FeedCurrent
  <2>7. Feed!Newest(outbox.ts)
    BY <2>6 DEF Feed!Newest
  <2> QED
    BY <1>1, <2>2, <2>3, <2>5, <2>7 DEF Feed!Offer
<1> QED
  BY <1>2, <1>3

LEMMA ReceiveStep == ASSUME TypeOK, RangeInv, Receive PROVE Feed!Take
<1>1. pc[Reporter] = "recv" /\ pc'[Reporter] = "range"
  BY GotoAgent DEF Receive, TypeOK, Agents
<1>2. visited = {} /\ ~Delivering /\ calling = None /\ calling' = None
  BY <1>1, Delivers DEF RangeInv, Receive
<1>3. notify # <<>> /\ current' = Head(notify) /\ notify' = Tail(notify)
      /\ must' = reporters /\ UNCHANGED <<reporters, visited, seen>>
  BY DEF Receive
<1>4. notify \in Seq(States) /\ Head(notify) # None
  <2>1. notify \in Seq(States)
    BY Delivers
  <2>2. Head(notify) \in States
    BY <1>3, <2>1, HeadTailProperties
  <2> QED
    BY <2>1, <2>2, NoneAssumption
<1>5. FeedCurrent = None /\ FeedDue = {} /\ FeedHanded = {}
  BY <1>2, Delivers
<1>6. FeedCurrent' = Head(notify).ts /\ FeedDue' = reporters /\ FeedHanded' = {}
  BY <1>2, <1>3, <1>4 DEF FeedCurrent, FeedDue, FeedHanded, Delivering
<1>7. FeedQueue # <<>> /\ Head(FeedQueue) = Head(notify).ts /\ FeedQueue' = Tail(FeedQueue)
  BY <1>3, <1>4, StampsTaken DEF FeedQueue, StampsOf
<1> QED
  BY <1>3, <1>5, <1>6, <1>7 DEF Feed!Take

LEMMA PickStep ==
    ASSUME TypeOK, RangeInv, PickReporter
    PROVE  \E n \in Names : Feed!Engage(n)
<1>1. pc[Reporter] = "range" /\ Delivering /\ calling = None /\ FeedCurrent # None
  BY Delivers DEF PickReporter
<1>2. PICK n \in reporters \ visited :
         calling' = n /\ visited' = visited \cup {n} /\ must' = must \ {n}
  BY DEF PickReporter
<1>3. UNCHANGED <<reporters, notify, current, seen>>
  BY DEF PickReporter
<1>4. n \in Names /\ n # None /\ None \notin visited /\ n \notin visited /\ n \in reporters
  BY <1>2, ReportersAssumption DEF TypeOK, DataOK
<1>5. FeedDue = must /\ FeedHanded = visited
  BY <1>1, <1>4 DEF FeedDue, FeedHanded
<1>6. FeedDue' = must \cup {n}
  BY <1>1, <1>2, <1>3, <1>4 DEF FeedDue, Delivering
<1>7. FeedHanded' = visited
  BY <1>1, <1>2, <1>3, <1>4 DEF FeedHanded, Delivering
<1>8. UNCHANGED <<FeedQueue, FeedCurrent>>
  BY <1>3 DEF FeedQueue, FeedCurrent, Delivering
<1> QED
  BY <1>1, <1>3, <1>4, <1>5, <1>6, <1>7, <1>8 DEF Feed!Engage

LEMMA ReportStep ==
    ASSUME TypeOK, RangeInv, Report
    PROVE  \E n \in Names : Feed!Hand(n)
<1>1. Delivering /\ calling \in Names /\ calling # None /\ FeedCurrent = current.ts
  BY Delivers DEF Report
<1>2. /\ seen' = [seen EXCEPT ![calling] = current.ts] /\ calling' = None
      /\ UNCHANGED <<reporters, notify, current, visited, must>>
  BY DEF Report
<1>3. calling \in visited /\ calling \notin must /\ None \notin visited
  BY <1>1, ReportersAssumption DEF RangeInv, TypeOK, DataOK
<1>4. FeedDue = must \cup {calling} /\ FeedHanded = visited \ {calling}
  BY <1>1 DEF FeedDue, FeedHanded
<1>5. FeedDue' = must /\ FeedHanded' = visited
  BY <1>1, <1>2, <1>3 DEF FeedDue, FeedHanded, Delivering
<1>6. UNCHANGED <<FeedQueue, FeedCurrent>>
  BY <1>2 DEF FeedQueue, FeedCurrent, Delivering
<1> QED
  BY <1>1, <1>2, <1>3, <1>4, <1>5, <1>6 DEF Feed!Hand

LEMMA RangeEndStep == ASSUME TypeOK, RangeEnd PROVE Feed!Done
<1>1. Delivering /\ calling = None /\ FeedCurrent # None
  BY Delivers DEF RangeEnd
<1>2. must = {} /\ current' = None /\ UNCHANGED <<reporters, notify, seen>>
  BY DEF RangeEnd
<1>3. FeedDue = {} /\ FeedDue' = {} /\ FeedCurrent' = None /\ FeedHanded' = {}
  BY <1>1, <1>2 DEF FeedDue, FeedCurrent, FeedHanded, Delivering
<1> QED
  BY <1>1, <1>2, <1>3 DEF Feed!Done, FeedQueue

LEMMA DrainStep ==
    ASSUME TypeOK, DrainBegin \/ DrainReporter \/ DrainEnd
    PROVE  UNCHANGED shown
<1>1. ~Delivering
  BY Delivers DEF DrainBegin, DrainReporter, DrainEnd
<1>2. UNCHANGED <<reporters, notify, current, seen>>
  BY DEF DrainBegin, DrainReporter, DrainEnd, ReporterDone, ReporterUnderflow, Panic, rptVars
<1> QED
  BY <1>1, <1>2 DEF shown, FeedQueue, FeedCurrent, FeedDue, FeedHanded, Delivering

LEMMA FeedNextStep ==
    ASSUME TypeOK, FeedInv, RangeInv, Next
    PROVE  Feed!Next \/ UNCHANGED shown
BY ActsFrame, QuietStep, MemberStep, PublishStep, ReceiveStep, PickStep, ReportStep,
   RangeEndStep, DrainStep
DEF FeedActs, Feed!Next

LEMMA FeedInit == Init => Feed!Init
BY ReportersAssumption
DEF Init, Feed!Init, FeedQueue, FeedCurrent, FeedDue, FeedHanded, Delivering

\* The client implements the feed it promises its reporters (client.go:432-449, 471-526).
THEOREM FeedRefined == Spec => FeedImplemented
<1>1. Init => RangeInv
  BY DEF Init, RangeInv
<1>2. TypeOK /\ RangeInv /\ [Next]_vars => RangeInv'
  <2>1. CASE UNCHANGED vars
    BY <2>1 DEF vars, stateVars, rptVars, RangeInv
  <2> QED
    BY <2>1, RangeStep
<1>3. TypeOK /\ FeedInv /\ RangeInv /\ [Next]_vars => [Feed!Next]_shown
  <2>1. CASE UNCHANGED vars
    BY <2>1 DEF vars, stateVars, rptVars, shown, FeedQueue, FeedCurrent, FeedDue, FeedHanded,
                Delivering
  <2> QED
    BY <2>1, FeedNextStep
<1>4. [Feed!Next]_shown <=> [Feed!Next]_(Feed!vars)
  BY DEF shown, Feed!vars
<1> QED
  BY <1>1, <1>2, <1>3, <1>4, FeedInit, FeedInvCorrect, PTL
  DEF Spec, FeedImplemented, Feed!Spec
==============================================================================
