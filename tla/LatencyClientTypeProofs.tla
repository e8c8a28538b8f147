----------------------- MODULE LatencyClientTypeProofs -----------------------
(* Type correctness of LatencyClient, for every value of its constants.     *)
EXTENDS LatencyClient, FiniteSetTheorems, TLAPS

USE AgentsAssumption DEF Here

LEMMA RegisteredCount ==
    /\ Cardinality(Registered) \in Nat
    /\ Registered # {} => Cardinality(Registered) >= 1
<1>1. IsFiniteSet(Registered)
  BY ReportersAssumption, FS_Subset
<1>2. Cardinality(Registered) \in Nat
  BY <1>1, FS_CardinalityType
<1>3. Cardinality(Registered) = 0 <=> Registered = {}
  BY <1>1, FS_EmptySet
<1> QED
  BY <1>2, <1>3

LEMMA InitTyped == Init => TypeOK
<1> SUFFICES ASSUME Init PROVE TypeOK
  OBVIOUS
<1> USE BoundsAssumption, ReportersAssumption DEF Init, Clock
<1>1. PcOK
  BY DEF PcOK, Agents, CallerLabels, QuerierLabels, ReporterLabels
<1>2. lastReport \in States \cup {None}
  BY DEF States, Configs
<1>3. DataOK
  <2>1. /\ periodic \in BOOLEAN /\ runDone \in BOOLEAN /\ suspend \in BOOLEAN
        /\ stopOnce \in {"free", "busy", "used"} /\ crash \in Panics \cup {"none"}
    OBVIOUS
  <2>2. /\ 0 \in Clock /\ seen \in [Names -> Clock]
        /\ work \in [ts : Clock, rest : Rests, range : Ranges]
    OBVIOUS
  <2>3. notify \in Seq(States) /\ Len(notify) <= NotifyCap
    OBVIOUS
  <2> QED
    BY <1>2, <2>1, <2>2, <2>3, RegisteredCount DEF DataOK
<1>4. LocalsOK
  BY DEF LocalsOK, Agents
<1> QED
  BY <1>1, <1>3, <1>4 DEF TypeOK

\* What the program counters are after one goroutine has gone on.
LEMMA GotoCaller ==
    ASSUME PcOK, NEW c \in Callers, NEW l \in CallerLabels, Goto(c, l)
    PROVE  /\ PcOK' /\ pc'[c] = l
           /\ pc'[Querier] = pc[Querier] /\ pc'[Reporter] = pc[Reporter]
           /\ \A d \in Callers \ {c} : pc'[d] = pc[d]
BY DEF PcOK, Goto, Agents

LEMMA GotoQuerier ==
    ASSUME PcOK, NEW l \in QuerierLabels \ {"idle"}, Goto(Querier, l),
           pc[Querier] # "idle"
    PROVE  /\ PcOK' /\ pc'[Querier] = l /\ pc'[Reporter] = pc[Reporter]
           /\ \A d \in Callers : pc'[d] = pc[d]
BY DEF PcOK, Goto, Agents

LEMMA GotoReporter ==
    ASSUME PcOK, NEW l \in ReporterLabels \ {"idle"}, Goto(Reporter, l),
           pc[Reporter] # "idle"
    PROVE  /\ PcOK' /\ pc'[Reporter] = l /\ pc'[Querier] = pc[Querier]
           /\ \A d \in Callers : pc'[d] = pc[d]
BY DEF PcOK, Goto, Agents

\* The steps that touch nothing but a program counter, or nothing but "crash".
LEMMA CallerMoves ==
    ASSUME TypeOK, NEW c \in Callers, NEW l \in CallerLabels, Moves(c, l),
           pc[c] # "store", l \notin {"store", "state"}
    PROVE  TypeOK'
<1>1. UNCHANGED stateVars /\ Goto(c, l)
  BY DEF Moves
<1>2. DataOK'
  BY <1>1 DEF TypeOK, DataOK, stateVars, runVars, gateVars, confVars, qryVars, rptVars
<1>3. PcOK' /\ LocalsOK'
  BY <1>1, GotoCaller DEF TypeOK, LocalsOK, stateVars, confVars, qryVars, rptVars
<1> QED
  BY <1>2, <1>3 DEF TypeOK

LEMMA QuerierMoves ==
    ASSUME TypeOK, NEW l \in QuerierLabels \ {"idle", "publish"}, Moves(Querier, l),
           pc[Querier] \notin {"idle", "publish"}
    PROVE  TypeOK'
<1>1. UNCHANGED stateVars /\ Goto(Querier, l)
  BY DEF Moves
<1>2. DataOK'
  BY <1>1 DEF TypeOK, DataOK, stateVars, runVars, gateVars, confVars, qryVars, rptVars
<1>3. PcOK' /\ LocalsOK'
  BY <1>1, GotoQuerier DEF TypeOK, LocalsOK, stateVars, confVars, qryVars, rptVars
<1> QED
  BY <1>2, <1>3 DEF TypeOK

LEMMA PanicTyped == ASSUME TypeOK, NEW why \in Panics, Panic(why) PROVE TypeOK'
<1>1. DataOK'
  BY DEF Panic, TypeOK, DataOK, runVars, gateVars, confVars, qryVars, rptVars
<1>2. PcOK' /\ LocalsOK'
  BY DEF Panic, TypeOK, PcOK, LocalsOK, confVars, qryVars, rptVars
<1> QED
  BY <1>1, <1>2 DEF TypeOK

LEMMA BeginTyped == ASSUME TypeOK, NEW c \in Callers, CallBegin(c) PROVE TypeOK'
<1> USE DEF Begins
<1>1. CASE Start(c)
  BY <1>1, NoneAssumption DEF Start, Started, PcOK, Agents, QuerierLabels, ReporterLabels,
     TypeOK, LocalsOK, DataOK, runVars, gateVars, confVars, qryVars, rptVars
<1>2. CASE SuspendSwap(c)
  BY <1>2, GotoCaller DEF SuspendSwap, SwapSuspend, CallerLabels, TypeOK, LocalsOK, DataOK,
     runVars, gateVars, confVars, qryVars, rptVars
<1>3. CASE ResumeSwap(c)
  BY <1>3, GotoCaller DEF ResumeSwap, SwapSuspend, CallerLabels, TypeOK, LocalsOK, DataOK,
     runVars, gateVars, confVars, qryVars, rptVars
<1>4. CASE ChangeInterval(c)
  BY <1>4, CallerMoves, PanicTyped DEF ChangeInterval, CallerLabels, Panics
<1>5. CASE GetInterval(c)
  BY <1>5, CallerMoves, PanicTyped DEF GetInterval, CallerLabels, Panics
<1>6. CASE QueryLatency(c)
  BY <1>6, CallerMoves, PanicTyped DEF QueryLatency, CallerLabels, Panics
<1>7. CASE SetConfigBegin(c)
  BY <1>7, CallerMoves, PanicTyped DEF SetConfigBegin, CallerLabels, Panics
<1>8. CASE AddReporter(c)
  BY <1>8, GotoCaller DEF AddReporter, CallerLabels, TypeOK, LocalsOK, DataOK, runVars,
     gateVars, confVars, qryVars, rptVars
<1>9. CASE DelReporter(c)
  BY <1>9, GotoCaller DEF DelReporter, PcOK, CallerLabels, TypeOK, LocalsOK, DataOK, runVars,
     gateVars, confVars, qryVars, rptVars
<1>10. CASE GetLastStateReport(c)
  BY <1>10, GotoCaller DEF GetLastStateReport, CallerLabels, TypeOK, LocalsOK, DataOK,
     runVars, gateVars, confVars, qryVars, rptVars
<1>11. CASE BeginStop(c)
  BY <1>11, CallerMoves, PanicTyped DEF BeginStop, CallerLabels, Panics
<1>12. CASE BeginJoin(c)
  BY <1>12, CallerMoves, PanicTyped DEF BeginJoin, CallerLabels, Panics
<1> QED
  BY <1>1, <1>2, <1>3, <1>4, <1>5, <1>6, <1>7, <1>8, <1>9, <1>10, <1>11, <1>12 DEF CallBegin

\* The release of the querier, by a caller or by the querier itself, and of the joiners.
LEMMA WakeQuerier ==
    ASSUME PcOK, NEW a \in Callers \cup {Querier}, NEW l,
           a \in Callers => l \in CallerLabels,
           a = Querier => l \in QuerierLabels \ {"idle"} /\ pc[a] # "idle",
           GotoAndWake(a, l, "parked", "woken")
    PROVE  /\ PcOK' /\ pc'[a] = l /\ pc'[Reporter] = pc[Reporter]
           /\ a # Querier => pc'[Querier] = IF pc[Querier] = "parked" THEN "woken"
                                            ELSE pc[Querier]
           /\ \A d \in Callers \ {a} : pc'[d] = pc[d]
BY DEF PcOK, GotoAndWake, Agents, CallerLabels, QuerierLabels, ReporterLabels

LEMMA WakeJoiners ==
    ASSUME PcOK, NEW l \in ReporterLabels \ {"idle"}, pc[Reporter] # "idle",
           GotoAndWake(Reporter, l, "joinParked", "joinWoken")
    PROVE  /\ PcOK' /\ pc'[Reporter] = l /\ pc'[Querier] = pc[Querier]
           /\ \A d \in Callers : pc'[d] = IF pc[d] = "joinParked" THEN "joinWoken" ELSE pc[d]
BY DEF PcOK, GotoAndWake, Agents, CallerLabels, QuerierLabels, ReporterLabels

LEMMA OpenGateTyped ==
    ASSUME TypeOK, NEW a \in Callers \cup {Querier}, NEW l,
           a \in Callers => l \in CallerLabels \ {"store", "state"} /\ pc[a] # "store",
           a = Querier => /\ l \in QuerierLabels \ {"idle", "publish"}
                          /\ pc[a] \notin {"idle", "publish"},
           OpenGate(a, l), stopOnce' \in {"free", "busy", "used"}
    PROVE  TypeOK'
<1>1. DataOK'
  BY DEF OpenGate, TypeOK, DataOK, confVars, qryVars, rptVars
<1>2. PcOK' /\ LocalsOK'
  <2>1. CASE suspendWg = 1
    BY <2>1, WakeQuerier DEF OpenGate, TypeOK, LocalsOK, confVars, qryVars, rptVars
  <2>2. CASE suspendWg # 1
    BY <2>2, GotoCaller, GotoQuerier DEF OpenGate, TypeOK, LocalsOK, confVars, qryVars, rptVars
  <2> QED
    BY <2>1, <2>2
<1> QED
  BY <1>1, <1>2 DEF TypeOK

\* cancelRun, by a caller or by the querier
LEMMA CancelTyped ==
    ASSUME TypeOK, NEW a \in Callers \cup {Querier},
           CancelRun(a) \/ CancelResume(a) \/ CancelDone(a)
    PROVE  TypeOK'
<1> DEFINE next == AfterCancel(a)
<1>1. /\ a \in Callers => next = "join"
      /\ a = Querier => next = "exit"
  BY DEF AfterCancel
<1>2. CASE CancelRun(a)
  <2>1. CASE stopOnce = "used" /\ Moves(a, next)
    BY <1>1, <1>2, <2>1, CallerMoves, QuerierMoves DEF CancelRun, CallerLabels, QuerierLabels
  <2>2. CASE Goto(a, "resume") /\ stopOnce' = "busy" /\ runDone' = TRUE
             /\ UNCHANGED <<periodic, gateVars, confVars, qryVars, notify, rptVars, crash>>
    <3>1. DataOK'
      BY <2>2 DEF TypeOK, DataOK, gateVars, confVars, qryVars, rptVars
    <3>2. PcOK' /\ LocalsOK'
      BY <1>2, <2>2, GotoCaller, GotoQuerier
      DEF CancelRun, CallerLabels, QuerierLabels, TypeOK, LocalsOK, confVars, qryVars, rptVars
    <3> QED
      BY <3>1, <3>2 DEF TypeOK
  <2> QED
    BY <1>2, <2>1, <2>2 DEF CancelRun
<1>3. CASE CancelResume(a)
  <2>1. DataOK'
    BY <1>3 DEF CancelResume, SwapSuspend, TypeOK, DataOK, runVars, gateVars, confVars, qryVars,
       rptVars
  <2>2. /\ UNCHANGED <<confVars, qryVars, rptVars>> /\ pc[a] = "resume"
        /\ Goto(a, "stopDone") \/ Goto(a, next)
    BY <1>3 DEF CancelResume, SwapSuspend
  <2>3. PcOK' /\ LocalsOK'
    BY <1>1, <2>2, GotoCaller, GotoQuerier
    DEF CallerLabels, QuerierLabels, TypeOK, LocalsOK, confVars, qryVars, rptVars
  <2> QED
    BY <2>1, <2>3 DEF TypeOK
<1>4. CASE CancelDone(a)
  BY <1>1, <1>4, OpenGateTyped, PanicTyped
  DEF CancelDone, GateUnderflow, CallerLabels, QuerierLabels, Panics
<1> QED
  BY <1>2, <1>3, <1>4

LEMMA ReporterDoneTyped ==
    ASSUME TypeOK, NEW l \in {"drain", "gone"}, pc[Reporter] = "drain", ReporterDone(l),
           visited' \subseteq Names, must' \subseteq Names
    PROVE  TypeOK'
<1>1. DataOK'
  BY DEF ReporterDone, ReporterQuiet, TypeOK, DataOK, runVars, gateVars, confVars, qryVars
<1>2. PcOK' /\ LocalsOK'
  <2>1. CASE reporterWg = 1
    BY <2>1, WakeJoiners DEF ReporterDone, ReporterQuiet, ReporterLabels, TypeOK, LocalsOK,
       confVars, qryVars
  <2>2. CASE reporterWg # 1
    BY <2>2, GotoReporter DEF ReporterDone, ReporterQuiet, ReporterLabels, TypeOK, LocalsOK,
       confVars, qryVars
  <2> QED
    BY <2>1, <2>2
<1> QED
  BY <1>1, <1>2 DEF TypeOK

LEMMA CallTyped == ASSUME TypeOK, NEW c \in Callers, CallStep(c) PROVE TypeOK'
<1> USE NoneAssumption
<1>1. CASE SuspendAdd(c)
  BY <1>1, GotoCaller DEF SuspendAdd, CallerLabels, TypeOK, LocalsOK, DataOK, runVars,
     gateVars, confVars, qryVars, rptVars
<1>2. CASE ResumeDone(c)
  BY <1>2, OpenGateTyped, PanicTyped DEF ResumeDone, GateUnderflow, CallerLabels, Panics,
     TypeOK, DataOK
<1>3. CASE SetConfigApply(c)
  BY <1>3, GotoCaller DEF SetConfigApply, CallerLabels, TypeOK, LocalsOK, DataOK, runVars,
     gateVars, confVars, qryVars, rptVars
<1>4. CASE SetConfigStore(c)
  BY <1>4, GotoCaller DEF SetConfigStore, CallerLabels, TypeOK, LocalsOK, DataOK, runVars,
     gateVars, confVars, qryVars, rptVars
<1>5. CASE Send(c)
  BY <1>5, CallerMoves, PanicTyped DEF Send, CallerLabels, Panics
<1>6. CASE AddReporterCount(c)
  BY <1>6, GotoCaller DEF AddReporterCount, CallerLabels, TypeOK, LocalsOK, DataOK, runVars,
     gateVars, confVars, qryVars, rptVars
<1>7. CASE GetLastStateConfig(c)
  <2>1. answer[c] \in States /\ LiveCfg \in Configs
    BY <1>7 DEF GetLastStateConfig, LiveCfg, TypeOK, DataOK, LocalsOK, Configs
  <2>2. [answer[c] EXCEPT !.cfg = LiveCfg] \in States
    BY <2>1 DEF States
  <2>3. answer' = [answer EXCEPT ![c] = [answer[c] EXCEPT !.cfg = LiveCfg]]
    BY <1>7 DEF GetLastStateConfig
  <2>4. answer' \in [Callers -> States \cup {None}] /\ answer'[c] # None
        /\ \A d \in Callers \ {c} : answer'[d] = answer[d]
    BY <2>2, <2>3 DEF TypeOK, DataOK
  <2> QED
    <3>1. PcOK' /\ LocalsOK'
      BY <1>7, <2>4, GotoCaller DEF GetLastStateConfig, CallerLabels, TypeOK, LocalsOK, DataOK,
         qryVars, rptVars
    <3>2. DataOK'
      BY <1>7, <2>4 DEF GetLastStateConfig, TypeOK, DataOK, runVars, gateVars, qryVars, rptVars
    <3> QED
      BY <3>1, <3>2 DEF TypeOK
<1>8. CASE CancelRun(c) \/ CancelResume(c) \/ CancelDone(c)
  BY <1>8, CancelTyped
<1>9. CASE JoinReporters(c)
  BY <1>9, CallerMoves, PanicTyped DEF JoinReporters, CallerLabels, Panics
<1>10. CASE JoinWoken(c)
  BY <1>10, CallerMoves, PanicTyped DEF JoinWoken, CallerLabels, Panics
<1>11. CASE JoinWatch(c)
  BY <1>11, CallerMoves, PanicTyped DEF JoinWatch, CallerLabels, Panics
<1> QED
  BY <1>1, <1>2, <1>3, <1>4, <1>5, <1>6, <1>7, <1>8, <1>9, <1>10, <1>11 DEF CallStep

LEMMA QuerierTyped == ASSUME TypeOK, QuerierStep PROVE TypeOK'
<1> USE NoneAssumption
<1>1. CASE Top
  BY <1>1, QuerierMoves, PanicTyped DEF Top, QuerierLabels, Panics
<1>2. CASE GateWait
  BY <1>2, QuerierMoves, PanicTyped DEF GateWait, QuerierLabels, Panics
<1>3. CASE GateWoken
  BY <1>3, QuerierMoves, PanicTyped DEF GateWoken, QuerierLabels, Panics
<1>4. CASE CheckCancelled
  BY <1>4, QuerierMoves, PanicTyped DEF CheckCancelled, QuerierLabels, Panics
<1>5. CASE Query
  <2>1. CASE MapRace
    BY <2>1, PanicTyped DEF MapRace, Panics
  <2>2. CASE ~MapRace
    <3>1. /\ clock' \in Clock /\ work' \in [ts : Clock, rest : Rests, range : Ranges]
          /\ overrun' \in Nat
      BY <1>5, <2>2, BoundsAssumption DEF Query, Now, Clock, TypeOK, DataOK
    <3>2. DataOK'
      BY <1>5, <2>2, <3>1 DEF Query, TypeOK, DataOK, runVars, confVars, rptVars
    <3>3. PcOK' /\ LocalsOK'
      BY <1>5, <2>2, GotoQuerier
      DEF Query, QuerierLabels, TypeOK, LocalsOK, confVars, rptVars
    <3> QED
      BY <3>2, <3>3 DEF TypeOK
  <2> QED
    BY <2>1, <2>2
<1>6. CASE QueryAnswered
  BY <1>6, GotoQuerier, PanicTyped DEF QueryAnswered, MapRace, CurrCfg, States, Configs,
     QuerierLabels, Panics, TypeOK, LocalsOK, DataOK, runVars, gateVars, confVars, qryVars,
     rptVars
<1>7. CASE QueryEmpty
  BY <1>7, GotoQuerier, PanicTyped DEF QueryEmpty, MapRace, CurrCfg, States, Configs,
     QuerierLabels, Panics, TypeOK, LocalsOK, DataOK, runVars, gateVars, confVars, qryVars,
     rptVars
<1>8. CASE QueryFailed
  BY <1>8, QuerierMoves, PanicTyped DEF QueryFailed, QuerierLabels, Panics
<1>9. CASE Publish
  <2>1. outbox \in States
    BY <1>9 DEF Publish, TypeOK, DataOK, LocalsOK
  <2>2. notify' \in Seq(States) /\ Len(notify') <= NotifyCap
    BY <1>9, <2>1, BoundsAssumption DEF Publish, NotifyFull, Enqueue, TypeOK, DataOK
  <2>3. DataOK'
    BY <1>9, <2>2 DEF Publish, TypeOK, DataOK, runVars, gateVars, confVars, rptVars
  <2>4. PcOK' /\ LocalsOK'
    BY <1>9, GotoQuerier DEF Publish, QuerierLabels, TypeOK, LocalsOK, confVars, rptVars
  <2> QED
    BY <2>3, <2>4 DEF TypeOK
<1>10. CASE Rearm
  BY <1>10, QuerierMoves, PanicTyped DEF Rearm, QuerierLabels, Panics
<1>11. CASE SelectDone
  BY <1>11, QuerierMoves, PanicTyped DEF SelectDone, QuerierLabels, Panics
<1>12. CASE SelectTimer
  BY <1>12, QuerierMoves, PanicTyped DEF SelectTimer, QuerierLabels, Panics
<1>13. CASE \E c \in Callers : Requeried(c)
  BY <1>13 DEF Requeried, stateVars, PcOK, Agents, CallerLabels, QuerierLabels, TypeOK,
     LocalsOK, DataOK, runVars, gateVars, confVars, qryVars, rptVars
<1>14. CASE CancelRun(Querier) \/ CancelResume(Querier) \/ CancelDone(Querier)
  BY <1>14, CancelTyped
<1>15. CASE CloseNotify
  BY <1>15, QuerierMoves, PanicTyped DEF CloseNotify, QuerierLabels, Panics
<1>16. CASE CloseWatch
  BY <1>16, QuerierMoves, PanicTyped DEF CloseWatch, QuerierLabels, Panics
<1> QED
  BY <1>1, <1>2, <1>3, <1>4, <1>5, <1>6, <1>7, <1>8, <1>9, <1>10, <1>11, <1>12, <1>13, <1>14,
     <1>15, <1>16 DEF QuerierStep

LEMMA ReporterTyped == ASSUME TypeOK, ReporterStep PROVE TypeOK'
<1> USE NoneAssumption, ReportersAssumption
<1>1. CASE ReporterBegin
  BY <1>1, GotoReporter DEF ReporterBegin, ReporterLabels, ReporterQuiet, TypeOK, LocalsOK,
     DataOK, runVars, gateVars, confVars, qryVars, rptVars
<1>2. CASE Receive
  <2>1. /\ current' \in States /\ notify' \in Seq(States)
        /\ Len(notify') <= NotifyCap
    BY <1>2, BoundsAssumption DEF Receive, TypeOK, DataOK
  <2>2. DataOK'
    BY <1>2, <2>1 DEF Receive, ReporterQuiet, TypeOK, DataOK, runVars, gateVars, confVars, qryVars
  <2>3. PcOK' /\ LocalsOK'
    BY <1>2, <2>1, GotoReporter
    DEF Receive, ReporterQuiet, ReporterLabels, TypeOK, LocalsOK, confVars, qryVars
  <2> QED
    BY <2>2, <2>3 DEF TypeOK
<1>3. CASE PickReporter
  BY <1>3, GotoReporter DEF PickReporter, ReporterLabels, ReporterQuiet, TypeOK, LocalsOK,
     DataOK, runVars, gateVars, confVars, qryVars, rptVars
<1>4. CASE Report
  BY <1>4, GotoReporter DEF Report, States, ReporterLabels, ReporterQuiet, TypeOK, LocalsOK,
     DataOK, runVars, gateVars, confVars, qryVars, rptVars
<1>5. CASE RangeEnd
  BY <1>5, GotoReporter DEF RangeEnd, ReporterLabels, ReporterQuiet, TypeOK, LocalsOK, DataOK,
     runVars, gateVars, confVars, qryVars, rptVars
<1>6. CASE DrainBegin
  BY <1>6, GotoReporter DEF DrainBegin, ReporterLabels, ReporterQuiet, TypeOK, LocalsOK,
     DataOK, runVars, gateVars, confVars, qryVars, rptVars
<1>7. CASE DrainReporter
  BY <1>7, ReporterDoneTyped, PanicTyped DEF DrainReporter, ReporterUnderflow, Panics, TypeOK,
     DataOK
<1>8. CASE DrainEnd
  BY <1>8, ReporterDoneTyped, PanicTyped DEF DrainEnd, ReporterUnderflow, Panics, TypeOK,
     DataOK
<1> QED
  BY <1>1, <1>2, <1>3, <1>4, <1>5, <1>6, <1>7, <1>8 DEF ReporterStep

LEMMA NextTyped == TypeOK /\ [Next]_vars => TypeOK'
<1> SUFFICES ASSUME TypeOK, [Next]_vars PROVE TypeOK'
  OBVIOUS
<1>1. CASE Interrupt
  BY <1>1 DEF Interrupt, TypeOK, PcOK, DataOK, LocalsOK, gateVars, confVars, qryVars, rptVars
<1>2. CASE \E c \in Callers : CallBegin(c) \/ CallStep(c)
  BY <1>2, BeginTyped, CallTyped
<1>3. CASE QuerierStep
  BY <1>3, QuerierTyped
<1>4. CASE ReporterStep
  BY <1>4, ReporterTyped
<1>5. CASE UNCHANGED vars
  BY <1>5 DEF TypeOK, PcOK, DataOK, LocalsOK, vars, stateVars, runVars, gateVars, confVars,
     qryVars, rptVars
<1> QED
  BY <1>1, <1>2, <1>3, <1>4, <1>5 DEF Next

\* Every variable keeps its type, and the locals of a goroutine have a value exactly
\* while they are in scope (client.go:405-426, 489-526, 572-586).
THEOREM TypeCorrect == Spec => []TypeOK
<1>1. Init => TypeOK
  BY InitTyped
<1>2. TypeOK /\ [Next]_vars => TypeOK'
  BY NextTyped
<1> QED
  BY <1>1, <1>2, PTL DEF Spec
==============================================================================
