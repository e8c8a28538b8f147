------------------------- MODULE LatencyClientProofs -------------------------
(* The safety of LatencyClient, for every value of its constants.           *)
EXTENDS LatencyClientTypeProofs, SequenceTheorems

USE AgentsAssumption DEF Here

------------------------------------------------------------------------------
(* The gate.                                                                *)

GateLabels == {"suspendAdd", "resumeDone", "stopDone"}

\* A step that does not take part in the protocol of the gate.
GateQuiet ==
    /\ UNCHANGED <<suspend, suspendWg>>
    /\ \A b \in Agents : pc'[b] # pc[b] => pc[b] \notin GateLabels /\ pc'[b] \notin GateLabels

GateActs ==
    \/ \E c \in Callers : SuspendSwap(c) \/ SuspendAdd(c) \/ ResumeSwap(c) \/ ResumeDone(c)
    \/ \E a \in Callers \cup {Querier} : CancelResume(a) \/ CancelDone(a)

LEMMA GotoAgent ==
    ASSUME PcOK, NEW a \in Agents, NEW l, Goto(a, l)
    PROVE  pc'[a] = l /\ \A b \in Agents \ {a} : pc'[b] = pc[b]
BY DEF PcOK, Goto

LEMMA GateMoves ==
    ASSUME PcOK, NEW a \in Agents, NEW l, Goto(a, l), UNCHANGED <<suspend, suspendWg>>,
           pc[a] \notin GateLabels, l \notin GateLabels
    PROVE  GateQuiet
BY GotoAgent DEF GateQuiet

LEMMA GateFrame == ASSUME TypeOK, Next PROVE GateQuiet \/ GateActs
<1> USE DEF TypeOK, Moves, Panic, stateVars, gateVars, Agents
<1>1. ASSUME NEW c \in Callers, CallBegin(c) PROVE GateQuiet \/ GateActs
  <2>1. CASE Start(c)
    BY <2>1 DEF Start, Started, Begins, GateQuiet, GateLabels, PcOK
  <2>2. CASE SuspendSwap(c) \/ ResumeSwap(c)
    BY <2>2 DEF GateActs
  <2> QED
    BY <1>1, <2>1, <2>2, GateMoves
    DEF CallBegin, Begins, ChangeInterval, GetInterval, QueryLatency, SetConfigBegin,
        AddReporter, DelReporter, GetLastStateReport, BeginStop, BeginJoin, GateQuiet,
        GateLabels
<1>2. ASSUME NEW c \in Callers, CallStep(c) PROVE GateQuiet \/ GateActs
  <2>1. CASE SuspendAdd(c) \/ ResumeDone(c) \/ CancelResume(c) \/ CancelDone(c)
    BY <2>1 DEF GateActs
  <2> QED
    BY <1>2, <2>1, GateMoves
    DEF CallStep, SetConfigApply, SetConfigStore, Send, AddReporterCount, GetLastStateConfig,
        CancelRun, AfterCancel, JoinReporters, JoinWoken, JoinWatch, GateQuiet, GateLabels
<1>3. CASE QuerierStep
  <2>1. CASE \E c \in Callers : Requeried(c)
    BY <2>1 DEF Requeried, GateQuiet, GateLabels, PcOK
  <2>2. CASE CancelResume(Querier) \/ CancelDone(Querier)
    BY <2>2 DEF GateActs
  <2> QED
    BY <1>3, <2>1, <2>2, GateMoves
    DEF QuerierStep, Top, GateWait, GateWoken, CheckCancelled, Query, MapRace, QueryAnswered,
        QueryEmpty, QueryFailed, Publish, Rearm, SelectDone, SelectTimer, CancelRun,
        AfterCancel, CloseNotify, CloseWatch, GateQuiet, GateLabels
<1>4. CASE ReporterStep
  <2>1. CASE DrainReporter \/ DrainEnd
    BY <2>1, GateMoves
    DEF DrainReporter, DrainEnd, ReporterDone, ReporterUnderflow, GotoAndWake, ReporterQuiet,
        GateQuiet, GateLabels
  <2> QED
    BY <1>4, <2>1, GateMoves
    DEF ReporterStep, ReporterBegin, Receive, PickReporter, Report, RangeEnd, DrainBegin,
        ReporterQuiet, GateQuiet, GateLabels
<1>5. CASE Interrupt
  BY <1>5 DEF Interrupt, GateQuiet
<1> QED
  BY <1>1, <1>2, <1>3, <1>4, <1>5 DEF Next

LEMMA AgentsFinite == IsFiniteSet(Agents)
<1>1. Agents = (Callers \cup {Querier}) \cup {Reporter}
  BY DEF Agents
<1>2. IsFiniteSet(Callers \cup {Querier})
  BY FS_AddElement
<1> QED
  BY <1>1, <1>2, FS_AddElement

LEMMA AtFinite == \A labels : IsFiniteSet(At(labels)) /\ Cardinality(At(labels)) \in Nat
<1> SUFFICES ASSUME NEW labels
             PROVE IsFiniteSet(At(labels)) /\ Cardinality(At(labels)) \in Nat
  OBVIOUS
<1>1. At(labels) \in SUBSET Agents
  BY DEF At
<1>2. IsFiniteSet(At(labels))
  BY <1>1, AgentsFinite, FS_Subset
<1> QED
  BY <1>2, FS_CardinalityType

\* One step of the gate protocol: a enters or leaves one of the half-way points, or
\* passes none.
GateMove(a) ==
    /\ \A b \in Agents \ {a} : pc'[b] = pc[b]
           \/ (pc[b] \notin GateLabels /\ pc'[b] \notin GateLabels)
    /\ \/ /\ pc[a] \notin GateLabels /\ pc'[a] = "suspendAdd"
          /\ ~suspend /\ suspend' /\ UNCHANGED suspendWg
       \/ /\ pc[a] = "suspendAdd" /\ pc'[a] \notin GateLabels
          /\ suspendWg' = suspendWg + 1 /\ UNCHANGED suspend
       \/ /\ pc[a] \notin GateLabels /\ pc'[a] \in {"resumeDone", "stopDone"}
          /\ suspend /\ ~suspend' /\ UNCHANGED suspendWg
       \/ /\ pc[a] \in {"resumeDone", "stopDone"} /\ pc'[a] \notin GateLabels
          /\ suspendWg' = suspendWg - 1 /\ UNCHANGED suspend
       \/ /\ pc'[a] = pc[a] \/ (pc[a] \notin GateLabels /\ pc'[a] \notin GateLabels)
          /\ UNCHANGED <<suspend, suspendWg>>

LEMMA GateActSteps == ASSUME TypeOK, GateActs PROVE \E a \in Agents : GateMove(a)
<1> USE DEF TypeOK, GateLabels, GateMove
<1>1. ASSUME NEW a \in Agents, NEW l, l \notin GateLabels, OpenGate(a, l)
      PROVE  /\ pc'[a] = l /\ suspendWg' = suspendWg - 1 /\ UNCHANGED suspend
             /\ \A b \in Agents \ {a} : pc'[b] = pc[b]
                    \/ (pc[b] \notin GateLabels /\ pc'[b] \notin GateLabels)
  BY <1>1, GotoAgent DEF OpenGate, GotoAndWake
<1>2. ASSUME NEW c \in Callers PROVE c \in Agents
  BY DEF Agents
<1>3. ASSUME NEW a \in Agents, NEW l, SwapSuspend(a, FALSE, l), l = "suspendAdd"
      PROVE  pc'[a] = "suspendAdd" /\ ~suspend /\ suspend' /\ UNCHANGED suspendWg
             /\ \A b \in Agents \ {a} : pc'[b] = pc[b]
  BY <1>3, GotoAgent DEF SwapSuspend
<1>4. ASSUME NEW a \in Agents, NEW l, SwapSuspend(a, TRUE, l), l # "suspendAdd"
      PROVE  pc'[a] = l /\ suspend /\ ~suspend' /\ UNCHANGED suspendWg
             /\ \A b \in Agents \ {a} : pc'[b] = pc[b]
  BY <1>4, GotoAgent DEF SwapSuspend
<1>5. ASSUME NEW c \in Callers, SuspendSwap(c) PROVE GateMove(c)
  BY <1>2, <1>3, <1>5 DEF SuspendSwap, Begins
<1>6. ASSUME NEW c \in Callers, SuspendAdd(c) PROVE GateMove(c)
  BY <1>2, <1>6, GotoAgent DEF SuspendAdd
<1>7. ASSUME NEW c \in Callers, ResumeSwap(c) PROVE GateMove(c)
  BY <1>2, <1>4, <1>7 DEF ResumeSwap, Begins
<1>8. ASSUME NEW c \in Callers, ResumeDone(c) PROVE GateMove(c)
  BY <1>1, <1>2, <1>8 DEF ResumeDone, GateUnderflow, Panic, gateVars
<1>9. ASSUME NEW a \in Agents, CancelResume(a) PROVE GateMove(a)
  <2>1. CASE SwapSuspend(a, TRUE, "stopDone")
    BY <1>4, <1>9, <2>1 DEF CancelResume
  <2>2. CASE Goto(a, AfterCancel(a)) /\ UNCHANGED gateVars
    BY <1>9, <2>2, GotoAgent DEF CancelResume, AfterCancel, gateVars
  <2> QED
    BY <1>9, <2>1, <2>2 DEF CancelResume
<1>10. ASSUME NEW a \in Agents, CancelDone(a) PROVE GateMove(a)
  BY <1>1, <1>10 DEF CancelDone, GateUnderflow, AfterCancel, Panic, gateVars
<1> QED
  BY <1>2, <1>5, <1>6, <1>7, <1>8, <1>9, <1>10 DEF GateActs, Agents

LEMMA GateStep == ASSUME TypeOK, GateBalanced, Next PROVE GateBalanced'
<1> DEFINE Adds == At({"suspendAdd"})
           Dones == At({"resumeDone", "stopDone"})
           adds == Cardinality(Adds)
           dones == Cardinality(Dones)
           Balanced(w, x, f, y) == w + x = (IF f THEN 1 ELSE 0) + y
<1> USE DEF GateLabels, GateMove
<1>1. /\ IsFiniteSet(Adds) /\ adds \in Nat
      /\ IsFiniteSet(Dones) /\ dones \in Nat
  BY AtFinite
<1>2. Balanced(suspendWg, adds, suspend, dones)
  BY DEF GateBalanced
<1>3. Balanced(suspendWg', adds', suspend', dones') => GateBalanced'
  BY DEF GateBalanced
<1>4. suspendWg \in Nat
  BY DEF TypeOK, DataOK
<1>5. CASE GateQuiet
  <2>1. Adds' = Adds /\ Dones' = Dones
    BY <1>5 DEF GateQuiet, At
  <2> QED
    BY <1>5, <2>1 DEF GateQuiet, GateBalanced
<1>6. CASE GateActs
  <2>1. PICK a \in Agents : GateMove(a)
    BY <1>6, GateActSteps
  <2>2. /\ a \notin Adds => Cardinality(Adds \cup {a}) = adds + 1
        /\ a \in Adds => Cardinality(Adds \ {a}) = adds - 1
        /\ a \notin Dones => Cardinality(Dones \cup {a}) = dones + 1
        /\ a \in Dones => Cardinality(Dones \ {a}) = dones - 1
    BY <1>1, FS_AddElement, FS_RemoveElement
  <2>3. CASE pc[a] \notin GateLabels /\ pc'[a] = "suspendAdd"
    <3>1. Adds' = Adds \cup {a} /\ a \notin Adds /\ Dones' = Dones
      BY <2>1, <2>3 DEF At
    <3>2. ~suspend /\ suspend' /\ suspendWg' = suspendWg
      BY <2>1, <2>3
    <3>3. adds' = adds + 1 /\ dones' = dones
      BY <2>2, <3>1
    <3> HIDE DEF adds, dones
    <3> QED
      BY <1>1, <1>2, <1>3, <1>4, <3>2, <3>3
  <2>4. CASE pc[a] = "suspendAdd" /\ pc'[a] \notin GateLabels
    <3>1. Adds' = Adds \ {a} /\ a \in Adds /\ Dones' = Dones
      BY <2>1, <2>4 DEF At
    <3>2. suspend' = suspend /\ suspendWg' = suspendWg + 1
      BY <2>1, <2>4
    <3>3. adds' = adds - 1 /\ dones' = dones
      BY <2>2, <3>1
    <3> HIDE DEF adds, dones
    <3> QED
      BY <1>1, <1>2, <1>3, <1>4, <3>2, <3>3
  <2>5. CASE pc[a] \notin GateLabels /\ pc'[a] \in {"resumeDone", "stopDone"}
    <3>1. Dones' = Dones \cup {a} /\ a \notin Dones /\ Adds' = Adds
      BY <2>1, <2>5 DEF At
    <3>2. suspend /\ ~suspend' /\ suspendWg' = suspendWg
      BY <2>1, <2>5
    <3>3. dones' = dones + 1 /\ adds' = adds
      BY <2>2, <3>1
    <3> HIDE DEF adds, dones
    <3> QED
      BY <1>1, <1>2, <1>3, <1>4, <3>2, <3>3
  <2>6. CASE pc[a] \in {"resumeDone", "stopDone"} /\ pc'[a] \notin GateLabels
    <3>1. Dones' = Dones \ {a} /\ a \in Dones /\ Adds' = Adds
      BY <2>1, <2>6 DEF At
    <3>2. suspend' = suspend /\ suspendWg' = suspendWg - 1
      BY <2>1, <2>6
    <3>3. dones' = dones - 1 /\ adds' = adds
      BY <2>2, <3>1
    <3> HIDE DEF adds, dones
    <3> QED
      BY <1>1, <1>2, <1>3, <1>4, <3>2, <3>3
  <2>7. CASE /\ pc'[a] = pc[a] \/ (pc[a] \notin GateLabels /\ pc'[a] \notin GateLabels)
             /\ UNCHANGED <<suspend, suspendWg>>
    <3>1. Adds' = Adds /\ Dones' = Dones
      BY <2>1, <2>7 DEF At
    <3> QED
      BY <2>7, <3>1 DEF GateBalanced
  <2> QED
    BY <2>1, <2>3, <2>4, <2>5, <2>6, <2>7
<1> QED
  BY <1>5, <1>6, GateFrame

\* The counter of the gate accounts for the flag and for every Suspend, Resume or
\* cancelRun that is between its two steps (client.go:349-365, 658-665).
THEOREM GateCorrect == Spec => []GateBalanced
<1>1. Init => GateBalanced
  <2> SUFFICES ASSUME Init PROVE GateBalanced
    OBVIOUS
  <2>1. At({"suspendAdd"}) = {} /\ At({"resumeDone", "stopDone"}) = {}
    BY DEF Init, At
  <2> QED
    BY <2>1, FS_EmptySet DEF Init, GateBalanced
<1>2. TypeOK /\ GateBalanced /\ [Next]_vars => GateBalanced'
  <2>1. CASE UNCHANGED vars
    BY <2>1 DEF vars, stateVars, gateVars, GateBalanced, At
  <2> QED
    BY <2>1, GateStep
<1> QED
  BY <1>1, <1>2, TypeCorrect, PTL DEF Spec
------------------------------------------------------------------------------
(* Who sleeps once cancelRun is over.                                       *)

InCancel == {"resume", "stopDone"}

\* Nobody sleeps at a gate whose counter is zero; one goroutine at a time is inside cancelRun,
\* while it holds the Once; and whoever suspends after it let the querier through is belated.
SleepInv ==
    /\ pc[Querier] = "parked" => suspendWg > 0
    /\ \A a \in Agents : pc[a] \in InCancel => stopOnce = "busy"
    /\ \A a, b \in Agents : pc[a] \in InCancel /\ pc[b] \in InCancel => a = b
    /\ suspend /\ (stopOnce = "used" \/ At({"stopDone"}) # {}) => belated

\* A step that leaves the gate and cancelRun alone and puts nobody to sleep.
SleepQuiet ==
    /\ UNCHANGED <<suspend, suspendWg, belated, stopOnce>>
    /\ \A b \in Agents : pc'[b] # pc[b] =>
           pc'[b] \notin {"parked"} \cup InCancel /\ pc[b] \notin InCancel

SleepActs ==
    \/ \E c \in Callers : SuspendSwap(c) \/ ResumeSwap(c) \/ SuspendAdd(c) \/ ResumeDone(c)
    \/ \E a \in Callers \cup {Querier} : CancelRun(a) \/ CancelResume(a) \/ CancelDone(a)
    \/ GateWait

LEMMA SleepMoves ==
    ASSUME PcOK, NEW a \in Agents, NEW l, Goto(a, l),
           UNCHANGED <<suspend, suspendWg, belated, stopOnce>>,
           l \notin {"parked"} \cup InCancel, pc[a] \notin InCancel
    PROVE  SleepQuiet
BY GotoAgent DEF SleepQuiet

LEMMA SleepFrame == ASSUME TypeOK, Next PROVE SleepQuiet \/ SleepActs
<1> USE DEF TypeOK, Moves, Panic, stateVars, gateVars, runVars, Agents
<1>1. ASSUME NEW c \in Callers, CallBegin(c) PROVE SleepQuiet \/ SleepActs
  <2>1. CASE Start(c)
    BY <2>1 DEF Start, Started, Begins, SleepQuiet, InCancel, PcOK
  <2>2. CASE SuspendSwap(c) \/ ResumeSwap(c)
    BY <2>2 DEF SleepActs
  <2> QED
    BY <1>1, <2>1, <2>2, SleepMoves
    DEF CallBegin, Begins, ChangeInterval, GetInterval, QueryLatency, SetConfigBegin,
        AddReporter, DelReporter, GetLastStateReport, BeginStop, BeginJoin, SleepQuiet, InCancel
<1>2. ASSUME NEW c \in Callers, CallStep(c) PROVE SleepQuiet \/ SleepActs
  <2>1. CASE SuspendAdd(c) \/ ResumeDone(c) \/ CancelRun(c) \/ CancelResume(c) \/ CancelDone(c)
    BY <2>1 DEF SleepActs
  <2> QED
    BY <1>2, <2>1, SleepMoves
    DEF CallStep, SetConfigApply, SetConfigStore, Send, AddReporterCount, GetLastStateConfig,
        JoinReporters, JoinWoken, JoinWatch, SleepQuiet, InCancel
<1>3. CASE QuerierStep
  <2>1. CASE \E c \in Callers : Requeried(c)
    BY <2>1 DEF Requeried, SleepQuiet, InCancel, PcOK
  <2>2. CASE CancelRun(Querier) \/ CancelResume(Querier) \/ CancelDone(Querier) \/ GateWait
    BY <2>2 DEF SleepActs
  <2> QED
    BY <1>3, <2>1, <2>2, SleepMoves
    DEF QuerierStep, Top, GateWoken, CheckCancelled, Query, MapRace, QueryAnswered,
        QueryEmpty, QueryFailed, Publish, Rearm, SelectDone, SelectTimer,
        CloseNotify, CloseWatch, SleepQuiet, InCancel
<1>4. CASE ReporterStep
  <2>1. CASE DrainReporter \/ DrainEnd
    BY <2>1, GotoAgent
    DEF DrainReporter, DrainEnd, ReporterDone, ReporterUnderflow, GotoAndWake, ReporterQuiet,
        SleepQuiet, InCancel
  <2> QED
    BY <1>4, <2>1, SleepMoves
    DEF ReporterStep, ReporterBegin, Receive, PickReporter, Report, RangeEnd, DrainBegin,
        ReporterQuiet, SleepQuiet, InCancel
<1>5. CASE Interrupt
  BY <1>5 DEF Interrupt, SleepQuiet
<1> QED
  BY <1>1, <1>2, <1>3, <1>4, <1>5 DEF Next

LEMMA SleepStep == ASSUME TypeOK, SleepInv, Next PROVE SleepInv'
<1> USE DEF TypeOK, DataOK, SleepInv, InCancel, At, Moves, Panic, stateVars, gateVars, runVars
<1>0. ASSUME NEW a \in Callers \cup {Querier} PROVE a \in Agents
  BY DEF Agents
<1>1. CASE SleepQuiet
  BY <1>1, <1>0 DEF SleepQuiet
<1>2. ASSUME NEW c \in Callers, SuspendSwap(c) \/ ResumeSwap(c) PROVE SleepInv'
  <2>1. PICK old \in BOOLEAN, l \in {"suspendAdd", "resumeDone"} :
            SwapSuspend(c, old, l) /\ pc[c] = "idle" /\ (l = "suspendAdd" <=> suspend')
    BY <1>2 DEF SuspendSwap, ResumeSwap, SwapSuspend, Begins
  <2>2. /\ pc'[c] = l /\ \A b \in Agents \ {c} : pc'[b] = pc[b]
        /\ UNCHANGED <<suspendWg, stopOnce>>
        /\ belated' = (l = "suspendAdd" /\ (stopOnce = "used" \/ At({"stopDone"}) # {}))
    BY <1>0, <2>1, GotoAgent DEF SwapSuspend
  <2>3. At({"stopDone"})' = At({"stopDone"})
    BY <1>0, <2>1, <2>2
  <2> QED
    BY <1>0, <2>1, <2>2, <2>3
<1>3. ASSUME NEW c \in Callers, SuspendAdd(c) PROVE SleepInv'
  BY <1>0, <1>3, GotoAgent DEF SuspendAdd
\* at zero the gate wakes who slept at it
<1>4. ASSUME NEW a \in Agents, NEW l, l \notin {"parked"} \cup InCancel, OpenGate(a, l)
      PROVE  /\ pc'[a] = l /\ UNCHANGED <<suspend, belated>>
             /\ pc'[Querier] = "parked" => suspendWg' > 0
             /\ \A b \in Agents \ {a} :
                    (pc'[b] \in InCancel \/ pc[b] \in InCancel) => pc'[b] = pc[b]
  <2>1. /\ pc'[a] = l /\ suspendWg' = suspendWg - 1 /\ suspendWg \in Nat /\ suspendWg > 0
        /\ \A b \in Agents \ {a} : pc'[b] = pc[b] \/ (pc[b] = "parked" /\ pc'[b] = "woken")
        /\ suspendWg = 1 => \A b \in Agents : pc'[b] # "parked"
        /\ UNCHANGED <<suspend, belated>>
    BY <1>4, GotoAgent DEF OpenGate, GotoAndWake
  <2>2. pc'[Querier] = "parked" => suspendWg' > 0
    BY <1>0, <2>1
  <2> QED
    BY <2>1, <2>2
<1>5. ASSUME NEW c \in Callers, ResumeDone(c) PROVE SleepInv'
  <2>1. CASE OpenGate(c, "idle") /\ UNCHANGED stopOnce
    <3>1. pc[c] = "resumeDone"
      BY <1>5 DEF ResumeDone
    <3>2. \A b \in Agents : (pc'[b] \in InCancel \/ pc[b] \in InCancel) => pc'[b] = pc[b]
      BY <1>0, <1>4, <2>1, <3>1
    <3>3. At({"stopDone"})' = At({"stopDone"})
      BY <3>2
    <3> QED
      BY <1>0, <1>4, <2>1, <3>2, <3>3
  <2> QED
    BY <1>5, <2>1 DEF ResumeDone, GateUnderflow
<1>6. ASSUME NEW a \in Callers \cup {Querier}, CancelRun(a) PROVE SleepInv'
  BY <1>0, <1>6, GotoAgent DEF CancelRun, AfterCancel
<1>7. ASSUME NEW a \in Callers \cup {Querier}, CancelResume(a) PROVE SleepInv'
  BY <1>0, <1>7, GotoAgent DEF CancelResume, SwapSuspend, AfterCancel
<1>8. ASSUME NEW a \in Callers \cup {Querier}, CancelDone(a) PROVE SleepInv'
  <2>1. CASE OpenGate(a, AfterCancel(a)) /\ stopOnce' = "used"
    <3>1. pc[a] = "stopDone" /\ AfterCancel(a) \notin {"parked"} \cup InCancel
      BY <1>8 DEF CancelDone, AfterCancel
    <3>2. \A b \in Agents : pc'[b] \notin InCancel
      BY <1>0, <1>4, <2>1, <3>1
    <3>3. suspend => belated
      BY <1>0, <3>1
    <3> QED
      BY <1>0, <1>4, <2>1, <3>1, <3>2, <3>3
  <2> QED
    BY <1>8, <2>1 DEF CancelDone, GateUnderflow
<1>9. CASE GateWait
  BY <1>0, <1>9, GotoAgent DEF GateWait
<1> QED
  BY <1>1, <1>2, <1>3, <1>5, <1>6, <1>7, <1>8, <1>9, SleepFrame DEF SleepActs

\* Once cancelRun is over only a Suspend that came after its Resume keeps the querier asleep,
\* or a Resume that is about to wake it, for any number of callers (client.go:350, 400, 658-665).
THEOREM ParkedAfterStopCorrect == Spec => []ParkedAfterStop
<1>1. Init => SleepInv
  BY DEF Init, SleepInv, Agents, InCancel
<1>2. TypeOK /\ SleepInv /\ [Next]_vars => SleepInv'
  <2>1. CASE UNCHANGED vars
    BY <2>1 DEF vars, stateVars, gateVars, runVars, SleepInv, At
  <2> QED
    BY <2>1, SleepStep
<1>3. TypeOK /\ GateBalanced /\ SleepInv => ParkedAfterStop
  <2> SUFFICES ASSUME TypeOK, GateBalanced, SleepInv, stopOnce = "used",
                      pc[Querier] = "parked", ~belated
               PROVE  At({"resumeDone"}) # {}
    BY DEF ParkedAfterStop
  <2>1. suspendWg \in Nat /\ suspendWg > 0 /\ ~suspend
    BY DEF SleepInv, TypeOK, DataOK
  <2>2. suspendWg + Cardinality(At({"suspendAdd"})) = Cardinality(At({"resumeDone", "stopDone"}))
    BY <2>1, AtFinite DEF GateBalanced
  <2>3. At({"resumeDone", "stopDone"}) # {}
    BY <2>1, <2>2, AtFinite, FS_EmptySet
  <2>4. At({"stopDone"}) = {}
    BY DEF SleepInv, At, InCancel
  <2> QED
    BY <2>3, <2>4 DEF At
<1> QED
  BY <1>1, <1>2, <1>3, TypeCorrect, GateCorrect, PTL DEF Spec

------------------------------------------------------------------------------
(* At most one query per closed gate.                                       *)

\* A step that neither moves the gate nor brings the querier past it.
BoundQuiet ==
    /\ UNCHANGED <<suspendWg, overrun>>
    /\ pc'[Querier] = "check" => pc[Querier] = "check"

BoundActs ==
    \/ \E c \in Callers : SuspendAdd(c) \/ ResumeDone(c)
    \/ \E a \in Callers \cup {Querier} : CancelDone(a)
    \/ GateWait \/ GateWoken \/ Query

LEMMA BoundMoves ==
    ASSUME PcOK, NEW a \in Agents, NEW l, Goto(a, l), UNCHANGED <<suspendWg, overrun>>,
           a # Querier \/ l # "check"
    PROVE  BoundQuiet
BY GotoAgent DEF BoundQuiet, Agents

LEMMA BoundFrame == ASSUME TypeOK, Next PROVE BoundQuiet \/ BoundActs
<1> USE DEF TypeOK, Moves, Panic, stateVars, gateVars, Agents
<1>1. ASSUME NEW c \in Callers, CallBegin(c) PROVE BoundQuiet
  <2>1. CASE Start(c)
    BY <2>1 DEF Start, BoundQuiet, PcOK
  <2> QED
    BY <1>1, <2>1, BoundMoves
    DEF CallBegin, Begins, SuspendSwap, ResumeSwap, SwapSuspend, ChangeInterval, GetInterval,
        QueryLatency, SetConfigBegin, AddReporter, DelReporter, GetLastStateReport, BeginStop,
        BeginJoin, BoundQuiet
<1>2. ASSUME NEW c \in Callers, CallStep(c) PROVE BoundQuiet \/ BoundActs
  <2>1. CASE SuspendAdd(c) \/ ResumeDone(c) \/ CancelDone(c)
    BY <2>1 DEF BoundActs
  <2> QED
    BY <1>2, <2>1, BoundMoves
    DEF CallStep, SetConfigApply, SetConfigStore, Send, AddReporterCount, GetLastStateConfig,
        CancelRun, CancelResume, SwapSuspend, JoinReporters, JoinWoken, JoinWatch, BoundQuiet
<1>3. CASE QuerierStep
  <2>1. CASE \E c \in Callers : Requeried(c)
    BY <2>1 DEF Requeried, BoundQuiet, PcOK
  <2>2. CASE CancelDone(Querier) \/ GateWait \/ GateWoken \/ Query
    BY <2>2 DEF BoundActs
  <2> QED
    BY <1>3, <2>1, <2>2, BoundMoves
    DEF QuerierStep, Top, CheckCancelled, MapRace, QueryAnswered, QueryEmpty, QueryFailed,
        Publish, Rearm, SelectDone, SelectTimer, CancelRun, CancelResume, SwapSuspend,
        AfterCancel, CloseNotify, CloseWatch, BoundQuiet
<1>4. CASE ReporterStep
  <2>1. CASE DrainReporter \/ DrainEnd
    BY <2>1, BoundMoves
    DEF DrainReporter, DrainEnd, ReporterDone, ReporterUnderflow, GotoAndWake, ReporterQuiet,
        BoundQuiet
  <2> QED
    BY <1>4, <2>1, BoundMoves
    DEF ReporterStep, ReporterBegin, Receive, PickReporter, Report, RangeEnd, DrainBegin,
        ReporterQuiet, BoundQuiet
<1>5. CASE Interrupt
  BY <1>5 DEF Interrupt, BoundQuiet
<1> QED
  BY <1>1, <1>2, <1>3, <1>4, <1>5 DEF Next

LEMMA BoundStep == ASSUME TypeOK, SuspendBound, Next PROVE SuspendBound'
<1> USE DEF TypeOK, DataOK, SuspendBound, Moves, Panic, stateVars, gateVars
<1>1. CASE BoundQuiet
  BY <1>1 DEF BoundQuiet
<1>2. ASSUME NEW c \in Callers, SuspendAdd(c) PROVE SuspendBound'
  BY <1>2 DEF SuspendAdd
<1>3. ASSUME NEW a \in Agents, NEW l, l # "check", OpenGate(a, l) PROVE SuspendBound'
  BY <1>3, GotoAgent DEF OpenGate, Agents
<1>4. ASSUME NEW c \in Callers, ResumeDone(c) PROVE SuspendBound'
  BY <1>3, <1>4 DEF ResumeDone, GateUnderflow, Agents
<1>5. ASSUME NEW a \in Callers \cup {Querier}, CancelDone(a) PROVE SuspendBound'
  BY <1>3, <1>5 DEF CancelDone, GateUnderflow, AfterCancel, Agents
<1>6. CASE GateWait \/ GateWoken
  BY <1>6, GotoAgent DEF GateWait, GateWoken, Agents
<1>7. CASE Query
  BY <1>7, GotoAgent DEF Query, MapRace, Agents
<1> QED
  BY <1>1, <1>2, <1>4, <1>5, <1>6, <1>7, BoundFrame DEF BoundActs

\* While the gate is closed at most the one query that had passed it is sent
\* (client.go:349-356, 400-407).
THEOREM SuspendBoundCorrect == Spec => []SuspendBound
<1>1. Init => SuspendBound
  BY DEF Init, SuspendBound
<1>2. TypeOK /\ SuspendBound /\ [Next]_vars => SuspendBound'
  BY BoundStep DEF vars, stateVars, gateVars, SuspendBound
<1> QED
  BY <1>1, <1>2, TypeCorrect, PTL DEF Spec

------------------------------------------------------------------------------
(* SetConfig returns to a querier that works under the new fields.          *)

Busy == {"await", "publish", "rearm", "select"}
Signalled == {"send", "blocked"}

FreshQuiet ==
    /\ UNCHANGED cfg /\ work'.rest = work.rest
    /\ pc'[Querier] \in Busy => pc[Querier] \in Busy
    /\ \A c \in Callers : pc[c] \in Signalled => pc'[c] \in Signalled

LEMMA FreshMoves ==
    ASSUME PcOK, NEW a \in Agents, NEW l, Goto(a, l), UNCHANGED <<cfg, work>>,
           a = Querier => pc[a] \in Busy \/ l \notin Busy,
           a \in Callers => pc[a] \notin Signalled \/ l \in Signalled
    PROVE  FreshQuiet
BY GotoAgent DEF FreshQuiet, Agents

LEMMA FreshOpen ==
    ASSUME PcOK, NEW a \in Callers \cup {Querier}, NEW l, l \notin Busy, OpenGate(a, l),
           pc[a] \notin Signalled
    PROVE  FreshQuiet
<1>1. UNCHANGED <<cfg, work>>
  BY DEF OpenGate, confVars, qryVars
<1>2. a \in Agents
  BY DEF Agents
<1>3. CASE suspendWg = 1
  BY <1>1, <1>2, <1>3 DEF OpenGate, GotoAndWake, FreshQuiet, Busy, Signalled, Agents, PcOK
<1>4. CASE suspendWg # 1
  BY <1>1, <1>2, <1>4, FreshMoves, AgentsAssumption DEF OpenGate
<1> QED
  BY <1>3, <1>4

LEMMA FreshFrame ==
    ASSUME TypeOK, Next
    PROVE  \/ FreshQuiet \/ Query
           \/ \E c \in Callers : SetConfigStore(c) \/ Requeried(c)
<1> USE DEF TypeOK, Moves, Panic, stateVars, confVars, qryVars, Agents, Busy, Signalled
<1>1. ASSUME NEW c \in Callers, CallBegin(c) PROVE FreshQuiet
  <2>1. CASE Start(c)
    BY <2>1 DEF Start, Begins, FreshQuiet, PcOK
  <2> QED
    BY <1>1, <2>1, FreshMoves
    DEF CallBegin, Begins, SuspendSwap, ResumeSwap, SwapSuspend, ChangeInterval, GetInterval,
        QueryLatency, SetConfigBegin, AddReporter, DelReporter, GetLastStateReport, BeginStop,
        BeginJoin, FreshQuiet
<1>2. ASSUME NEW c \in Callers, CallStep(c) PROVE FreshQuiet \/ SetConfigStore(c)
  <2>1. CASE ResumeDone(c) \/ CancelDone(c)
    BY <2>1, FreshOpen DEF ResumeDone, CancelDone, AfterCancel, GateUnderflow, FreshQuiet
  <2> QED
    BY <1>2, <2>1, FreshMoves
    DEF CallStep, SuspendAdd, SetConfigApply, Send, AddReporterCount, GetLastStateConfig,
        CancelRun, CancelResume, SwapSuspend, AfterCancel, JoinReporters, JoinWoken, JoinWatch,
        FreshQuiet
<1>3. CASE QuerierStep
  <2>1. CASE CancelDone(Querier)
    BY <2>1, FreshOpen DEF CancelDone, AfterCancel, GateUnderflow, FreshQuiet
  <2> QED
    BY <1>3, <2>1, FreshMoves
    DEF QuerierStep, Top, GateWait, GateWoken, CheckCancelled, MapRace, QueryAnswered,
        QueryEmpty, QueryFailed, Publish, Rearm, SelectDone, SelectTimer, CancelRun,
        CancelResume, SwapSuspend, AfterCancel, CloseNotify, CloseWatch, FreshQuiet
<1>4. CASE ReporterStep
  <2>1. CASE DrainReporter \/ DrainEnd
    BY <2>1, FreshMoves
    DEF DrainReporter, DrainEnd, ReporterDone, ReporterUnderflow, GotoAndWake, ReporterQuiet,
        FreshQuiet, PcOK
  <2> QED
    BY <1>4, <2>1, FreshMoves
    DEF ReporterStep, ReporterBegin, Receive, PickReporter, Report, RangeEnd, DrainBegin,
        ReporterQuiet, FreshQuiet
<1>5. CASE Interrupt
  BY <1>5 DEF Interrupt, FreshQuiet
<1> QED
  BY <1>1, <1>2, <1>3, <1>4, <1>5 DEF Next

LEMMA FreshStep == ASSUME TypeOK, FreshConfig, Next PROVE FreshConfig'
<1> USE DEF TypeOK, PcOK, FreshConfig, Agents
<1>1. CASE FreshQuiet
  BY <1>1 DEF FreshQuiet, Busy, Signalled
<1>2. CASE Query
  BY <1>2 DEF Query, MapRace, Panic, confVars, qryVars
<1>3. ASSUME NEW c \in Callers, SetConfigStore(c) PROVE FreshConfig'
  BY <1>3 DEF SetConfigStore, Goto
<1>4. ASSUME NEW c \in Callers, Requeried(c) PROVE FreshConfig'
  BY <1>4 DEF Requeried
<1> QED
  BY <1>1, <1>2, <1>3, <1>4, FreshFrame

\* Once SetConfig has returned, no query asked under older fields is awaited, sunk or
\* published (client.go:567-589, 405-466).
THEOREM FreshConfigCorrect == Spec => []FreshConfig
<1>1. Init => FreshConfig
  BY DEF Init, FreshConfig, Agents
<1>2. TypeOK /\ FreshConfig /\ [Next]_vars => FreshConfig'
  BY FreshStep DEF vars, stateVars, confVars, qryVars, FreshConfig
<1> QED
  BY <1>1, <1>2, TypeCorrect, PTL DEF Spec
------------------------------------------------------------------------------
(* Join returns after everything published was delivered.                   *)

Drained == {"drain", "gone"}
PastJoin == {"joinWoken", "joinWatch", "left"}

\* While a reporter is counted nobody gets past the wait of Join before the reporter
\* goroutine has drained a closed channel.
JoinInv ==
    /\ reporterWg = 0 => pc[Reporter] \in Drained
    /\ pc[Reporter] \in Drained => notify = <<>> /\ NotifyClosed
    /\ \A c \in Callers : pc[c] \in PastJoin => pc[Reporter] \in Drained

JoinQuiet ==
    /\ UNCHANGED <<reporterWg, notify>>
    /\ pc'[Reporter] \in Drained <=> pc[Reporter] \in Drained
    /\ NotifyClosed => NotifyClosed'
    /\ \A c \in Callers : pc'[c] \in PastJoin => pc[c] \in PastJoin

LEMMA JoinMoves ==
    ASSUME PcOK, NEW a \in Agents, NEW l, Goto(a, l), UNCHANGED <<reporterWg, notify>>,
           a # Reporter,
           a = Querier => ~NotifyClosed \/ l \in {"closing", "gone"},
           a \in Callers => pc[a] \in PastJoin \/ l \notin PastJoin
    PROVE  JoinQuiet
BY GotoAgent DEF JoinQuiet, NotifyClosed, Agents

LEMMA JoinOpen ==
    ASSUME PcOK, NEW a \in Callers \cup {Querier}, NEW l, l \notin PastJoin, OpenGate(a, l),
           ~NotifyClosed \/ a # Querier
    PROVE  JoinQuiet
<1>1. UNCHANGED <<reporterWg, notify>>
  BY DEF OpenGate, rptVars
<1>2. a \in Agents
  BY DEF Agents
<1>3. CASE suspendWg = 1
  BY <1>1, <1>2, <1>3
  DEF OpenGate, GotoAndWake, JoinQuiet, Drained, PastJoin, NotifyClosed, Agents, PcOK,
      ReporterLabels
<1>4. CASE suspendWg # 1
  BY <1>1, <1>2, <1>4, JoinMoves DEF OpenGate
<1> QED
  BY <1>3, <1>4

LEMMA JoinFrame ==
    ASSUME TypeOK, Next
    PROVE  \/ JoinQuiet \/ Publish \/ ReporterStep
           \/ \E c \in Callers : AddReporterCount(c) \/ JoinReporters(c)
<1> USE DEF TypeOK, Moves, Panic, stateVars, rptVars, Agents, PastJoin, Drained
<1>1. ASSUME NEW c \in Callers, CallBegin(c) PROVE JoinQuiet
  <2>1. CASE Start(c)
    BY <2>1 DEF Start, Started, Begins, JoinQuiet, NotifyClosed, PcOK
  <2> QED
    BY <1>1, <2>1, JoinMoves
    DEF CallBegin, Begins, SuspendSwap, ResumeSwap, SwapSuspend, ChangeInterval, GetInterval,
        QueryLatency, SetConfigBegin, AddReporter, DelReporter, GetLastStateReport, BeginStop,
        BeginJoin, JoinQuiet, NotifyClosed
<1>2. ASSUME NEW c \in Callers, CallStep(c)
      PROVE  JoinQuiet \/ AddReporterCount(c) \/ JoinReporters(c)
  <2>1. CASE ResumeDone(c) \/ CancelDone(c)
    BY <2>1, JoinOpen
    DEF ResumeDone, CancelDone, AfterCancel, GateUnderflow, JoinQuiet, NotifyClosed
  <2> QED
    BY <1>2, <2>1, JoinMoves
    DEF CallStep, SuspendAdd, SetConfigApply, SetConfigStore, Send, GetLastStateConfig,
        CancelRun, CancelResume, SwapSuspend, AfterCancel, JoinWoken, JoinWatch,
        JoinQuiet, NotifyClosed
<1>3. CASE QuerierStep
  <2>1. CASE CancelDone(Querier)
    BY <2>1, JoinOpen
    DEF CancelDone, AfterCancel, GateUnderflow, JoinQuiet, NotifyClosed
  <2>2. CASE \E c \in Callers : Requeried(c)
    BY <2>2 DEF Requeried, JoinQuiet, NotifyClosed, PcOK
  <2> QED
    BY <1>3, <2>1, <2>2, JoinMoves
    DEF QuerierStep, Top, GateWait, GateWoken, CheckCancelled, MapRace, Query, QueryAnswered,
        QueryEmpty, QueryFailed, Rearm, SelectDone, SelectTimer, CancelRun,
        CancelResume, SwapSuspend, AfterCancel, CloseNotify, CloseWatch, JoinQuiet, NotifyClosed
<1>4. CASE Interrupt
  BY <1>4 DEF Interrupt, JoinQuiet, NotifyClosed
<1> QED
  BY <1>1, <1>2, <1>3, <1>4 DEF Next

LEMMA JoinStep == ASSUME TypeOK, JoinInv, Next PROVE JoinInv'
<1> USE DEF TypeOK, PcOK, DataOK, JoinInv, NotifyClosed, Agents, PastJoin, Drained, Panic
<1>1. CASE JoinQuiet
  BY <1>1 DEF JoinQuiet
<1>2. CASE Publish
  BY <1>2, GotoAgent DEF Publish, rptVars
<1>3. ASSUME NEW c \in Callers, AddReporterCount(c) PROVE JoinInv'
  <2>1. reporterWg' # 0 /\ notify' = notify
    BY <1>3 DEF AddReporterCount
  <2>2. /\ pc'[c] = "idle" /\ pc'[Querier] = pc[Querier] /\ pc'[Reporter] = pc[Reporter]
        /\ \A b \in Callers \ {c} : pc'[b] = pc[b]
    BY <1>3, GotoAgent DEF AddReporterCount
  <2> QED
    BY <2>1, <2>2
<1>4. ASSUME NEW c \in Callers, JoinReporters(c) PROVE JoinInv'
  BY <1>4, GotoAgent DEF JoinReporters, Moves, stateVars, rptVars
<1>5. CASE ReporterBegin \/ PickReporter \/ Report \/ RangeEnd
  BY <1>5, GotoAgent DEF ReporterBegin, PickReporter, Report, RangeEnd
<1>6. CASE Receive
  BY <1>6, GotoAgent DEF Receive
<1>7. CASE DrainBegin
  BY <1>7, GotoAgent DEF DrainBegin
<1>8. ASSUME NEW l \in Drained, pc[Reporter] = "drain", ReporterDone(l) PROVE JoinInv'
  <2>1. CASE reporterWg = 1
    BY <1>8, <2>1 DEF ReporterDone, GotoAndWake, QuerierLabels
  <2>2. CASE reporterWg # 1
    BY <1>8, <2>2, GotoAgent DEF ReporterDone
  <2> QED
    BY <2>1, <2>2
<1>9. CASE DrainReporter \/ DrainEnd
  <2>1. CASE ReporterUnderflow
    BY <2>1 DEF ReporterUnderflow, rptVars
  <2> QED
    BY <1>8, <1>9, <2>1 DEF DrainReporter, DrainEnd
<1> QED
  BY <1>1, <1>2, <1>3, <1>4, <1>5, <1>6, <1>7, <1>9, JoinFrame DEF ReporterStep

\* With a reporter registered before Start, Join returns only when everything published
\* was handed to the reporters (client.go:474-487, 652-656).  Without one Join may return
\* before the reporter goroutine has counted itself (client.go:476).
THEOREM JoinCorrect == ASSUME Registered # {} PROVE Spec => []JoinDelivered
<1>1. Init => JoinInv
  BY RegisteredCount DEF Init, JoinInv, Agents, Drained, PastJoin
<1>2. TypeOK /\ JoinInv /\ [Next]_vars => JoinInv'
  BY JoinStep DEF vars, stateVars, rptVars, JoinInv, NotifyClosed
<1>3. JoinInv => JoinDelivered
  BY DEF JoinInv, JoinDelivered, Drained, PastJoin
<1> QED
  BY <1>1, <1>2, <1>3, TypeCorrect, PTL DEF Spec
------------------------------------------------------------------------------
(* The feed: what is in flight is in order, and no older than what was seen. *)

\* The newest State ever built: the last report, or the query under way before it.
Newest == IF lastReport = None THEN clock ELSE lastReport.ts

\* A State between the querier and the reporters: no newer than the newest, no older than
\* what any reporter saw, labelled with the fields it was measured under.
Sound(s) ==
    s # None =>
        /\ s.ts <= Newest /\ \A n \in Names : seen[n] <= s.ts
        /\ s.of # None => s.of.rest = s.cfg.rest

FeedInv ==
    /\ work.ts = clock
    /\ \A n \in Names : seen[n] <= Newest
    /\ lastReport # None =>
          /\ lastReport.ts <= clock
          /\ lastReport.of # None => lastReport.of.rest = lastReport.cfg.rest
    /\ Sound(current) /\ Sound(outbox) /\ Before(current, outbox)
    /\ \A i \in 1..Len(notify) :
          Sound(notify[i]) /\ Before(current, notify[i]) /\ Before(notify[i], outbox)
    /\ \A i, j \in 1..Len(notify) : i <= j => Before(notify[i], notify[j])

feedVars == <<current, outbox, notify, lastReport, clock, work, seen>>

LEMMA FeedFrame ==
    ASSUME Next
    PROVE  \/ UNCHANGED feedVars
           \/ Query \/ QueryAnswered \/ QueryEmpty \/ Publish \/ Receive \/ Report \/ RangeEnd
<1> USE DEF feedVars, Moves, Panic, stateVars, qryVars, rptVars, SwapSuspend, OpenGate,
            GateUnderflow
<1>1. ASSUME NEW c \in Callers, CallBegin(c) PROVE UNCHANGED feedVars
  BY <1>1
  DEF CallBegin, Start, SuspendSwap, ResumeSwap, ChangeInterval, GetInterval, QueryLatency,
      SetConfigBegin, AddReporter, DelReporter, GetLastStateReport, BeginStop, BeginJoin
<1>2. ASSUME NEW c \in Callers, CallStep(c) PROVE UNCHANGED feedVars
  BY <1>2
  DEF CallStep, SuspendAdd, ResumeDone, SetConfigApply, SetConfigStore, Send,
      AddReporterCount, GetLastStateConfig, CancelRun, CancelResume, CancelDone,
      JoinReporters, JoinWoken, JoinWatch
<1>3. CASE QuerierStep
  BY <1>3
  DEF QuerierStep, Top, GateWait, GateWoken, CheckCancelled, QueryFailed, Rearm, SelectDone,
      SelectTimer, Requeried, CancelRun, CancelResume, CancelDone, CloseNotify, CloseWatch
<1>4. CASE ReporterStep
  BY <1>4
  DEF ReporterStep, ReporterBegin, PickReporter, DrainBegin, DrainReporter, DrainEnd,
      ReporterDone, ReporterUnderflow, ReporterQuiet
<1>5. CASE Interrupt
  BY <1>5 DEF Interrupt
<1> QED
  BY <1>1, <1>2, <1>3, <1>4, <1>5 DEF Next

\* What the types say of the timestamps.
LEMMA FeedTypes ==
    ASSUME TypeOK
    PROVE  /\ Clock \subseteq Int /\ clock \in Clock /\ work.ts \in Clock
           /\ seen \in [Names -> Clock] /\ Newest \in Int
           /\ \A s \in InFlight : s # None => s.ts \in Clock
           /\ \A i \in 1..Len(notify) : notify[i] \in States /\ notify[i] # None
           /\ Len(notify) \in Nat
<1> USE DEF TypeOK, DataOK, Clock
<1>1. notify \in Seq(States) /\ Len(notify) \in Nat
      /\ \A i \in 1..Len(notify) : notify[i] \in States
  <2>1. notify \in Seq(States)
    BY DEF TypeOK, DataOK
  <2> QED
    BY <2>1, ElementOfSeq, LenProperties
<1>2. Clock \subseteq Int
  BY BoundsAssumption
<1>3. Newest \in Int
  BY <1>2 DEF Newest, States
<1>4. \A i \in 1..Len(notify) : notify[i] # None
  BY <1>1, NoneAssumption
<1>5. \A s \in InFlight : s # None => s.ts \in Clock
  BY <1>1 DEF InFlight, States
<1> QED
  BY <1>1, <1>2, <1>3, <1>4, <1>5

LEMMA FeedStep ==
    ASSUME TypeOK, FeedInv, Next
    PROVE  FeedInv' /\ \A n \in Names : seen'[n] >= seen[n]
<1> USE FeedTypes DEF FeedInv, Before, Clock
<1>1. CASE UNCHANGED feedVars
  BY <1>1 DEF feedVars, Sound, Newest
<1>2. CASE Query
  <2>1. CASE MapRace
    BY <2>1 DEF MapRace, Panic, qryVars, rptVars, Sound, Newest
  <2>2. CASE ~MapRace
    <3>1. /\ clock' \in Int /\ clock <= clock' /\ work'.ts = clock'
          /\ UNCHANGED <<lastReport, current, outbox, notify, seen>>
      BY <1>2, <2>2 DEF Query, Now, rptVars
    <3>2. Newest <= Newest' /\ Newest' \in Int /\ clock \in Int
      BY <3>1 DEF Newest
    <3>3. /\ Sound(current)' /\ Sound(outbox)'
          /\ \A i \in 1..Len(notify) : Sound(notify[i])'
      BY <3>1, <3>2 DEF Sound, InFlight
    <3>4. \A n \in Names : seen'[n] <= Newest' /\ seen'[n] >= seen[n]
      BY <3>1, <3>2
    <3>5. lastReport # None => lastReport.ts \in Int
      BY DEF TypeOK, DataOK, States
    <3> QED
      BY <3>1, <3>2, <3>3, <3>4, <3>5
  <2> QED
    BY <2>1, <2>2
<1>3. CASE QueryAnswered
  <2>1. CASE MapRace
    BY <2>1 DEF MapRace, Panic, qryVars, rptVars, Sound, Newest
  <2>2. CASE ~MapRace
    <3>1. /\ lastReport'.ts = clock /\ lastReport'.of.rest = lastReport'.cfg.rest
          /\ lastReport' # None /\ outbox' = lastReport'
          /\ UNCHANGED <<clock, work, current, notify, seen>>
      BY <1>3, <2>2, NoneAssumption DEF QueryAnswered, CurrCfg, rptVars, TypeOK, DataOK, States, Configs
    <3>2. Newest <= Newest' /\ Newest' = clock /\ clock \in Int
      BY <3>1 DEF Newest, TypeOK, DataOK, States
    <3>3. /\ Sound(current)' /\ \A i \in 1..Len(notify) : Sound(notify[i])'
      BY <3>1, <3>2 DEF Sound, InFlight
    <3>4. \A n \in Names : seen'[n] <= Newest' /\ seen'[n] >= seen[n]
      BY <3>1, <3>2
    <3>5. Sound(outbox)'
      BY <3>1, <3>2, <3>4 DEF Sound
    <3>6. /\ Before(current, outbox)'
          /\ \A i \in 1..Len(notify) : Before(notify[i], outbox)'
      BY <3>1, <3>2, <3>3 DEF Sound, InFlight
    <3> QED
      BY <3>1, <3>2, <3>3, <3>4, <3>5, <3>6
  <2> QED
    BY <2>1, <2>2
<1>4. CASE QueryEmpty
  BY <1>4 DEF QueryEmpty, MapRace, Panic, qryVars, rptVars, Sound, Newest
<1>5. CASE Publish
  <2>1. /\ outbox' = None
        /\ UNCHANGED <<current, lastReport, clock, work, seen>>
        /\ notify' = notify \/ notify' = Append(notify, outbox)
    BY <1>5 DEF Publish, Enqueue, rptVars
  <2>2. CASE notify' = notify
    BY <2>1, <2>2 DEF Sound, Newest
  <2>3. CASE notify' = Append(notify, outbox)
    <3>1. outbox \in States /\ notify \in Seq(States)
      BY <1>5 DEF Publish, TypeOK, DataOK, LocalsOK
    <3>2. /\ Len(notify') = Len(notify) + 1 /\ notify'[Len(notify) + 1] = outbox
          /\ \A i \in 1..Len(notify) : notify'[i] = notify[i]
      BY <2>3, <3>1, AppendProperties
    <3>3. \A i \in 1..Len(notify') : i \in 1..Len(notify) \/ i = Len(notify) + 1
      BY <3>2
    <3>4. \A s : Sound(s) => Sound(s)'
      BY <2>1 DEF Sound, Newest
    <3>5. \A i \in 1..Len(notify') : Sound(notify'[i]) /\ Before(current, notify'[i])
      BY <3>2, <3>3
    <3>6. \A i, j \in 1..Len(notify') : i <= j => Before(notify'[i], notify'[j])
      <4> SUFFICES ASSUME NEW i \in 1..Len(notify'), NEW j \in 1..Len(notify'), i <= j
                   PROVE  Before(notify'[i], notify'[j])
        OBVIOUS
      <4>1. CASE j \in 1..Len(notify)
        BY <3>2, <3>3, <4>1
      <4>2. CASE j = Len(notify) + 1 /\ i \in 1..Len(notify)
        BY <3>2, <4>2
      <4>3. CASE j = Len(notify) + 1 /\ i = j
        <5>1. outbox # None => outbox.ts \in Int
          BY <3>1 DEF States
        <5> QED
          BY <3>2, <4>3, <5>1
      <4> QED
        BY <3>3, <4>1, <4>2, <4>3
    <3>7. Newest' = Newest
      BY <2>1 DEF Newest
    <3>8. Sound(outbox)' /\ Before(current, outbox)'
          /\ \A i \in 1..Len(notify') : Before(notify'[i], outbox')
      BY <2>1 DEF Sound
    <3> QED
      BY <2>1, <3>4, <3>5, <3>6, <3>7, <3>8
  <2> QED
    BY <2>1, <2>2, <2>3
<1>6. CASE Receive
  BY <1>6 DEF Receive, ReporterQuiet, qryVars, Sound, Newest
<1>7. CASE Report
  <2>1. /\ current # None /\ calling \in Names
        /\ seen' = [seen EXCEPT ![calling] = current.ts]
        /\ UNCHANGED <<current, outbox, notify, lastReport, clock, work>>
    BY <1>7, ReportersAssumption DEF Report, ReporterQuiet, qryVars, TypeOK, DataOK, LocalsOK
  <2>2. \A n \in Names : seen'[n] = seen[n] \/ seen'[n] = current.ts
    BY <2>1
  <2>3. current.ts \in Int /\ current.ts <= Newest /\ Newest' = Newest
    BY <2>1 DEF Sound, InFlight, Newest
  <2>4. \A n \in Names : seen'[n] >= seen[n] /\ seen'[n] <= Newest'
    BY <2>1, <2>2, <2>3 DEF Sound
  <2>5. \A s \in InFlight : Before(current, s) /\ Sound(s) => Sound(s)'
    BY <2>1, <2>2, <2>3 DEF Sound, InFlight
  <2>6. /\ Sound(current)' /\ Sound(outbox)'
        /\ \A i \in 1..Len(notify) : Sound(notify[i])'
    BY <2>1, <2>3, <2>5 DEF InFlight
  <2> QED
    BY <2>1, <2>4, <2>6
<1>8. CASE RangeEnd
  BY <1>8 DEF RangeEnd, ReporterQuiet, qryVars, Sound, Newest
<1> QED
  BY <1>1, <1>2, <1>3, <1>4, <1>5, <1>6, <1>7, <1>8, FeedFrame

LEMMA FeedInvCorrect == Spec => [](TypeOK /\ FeedInv)
<1>1. Init => FeedInv
  BY NoneAssumption DEF Init, FeedInv, Sound, Before, Newest, Configs
<1>2. TypeOK /\ FeedInv /\ [Next]_vars => FeedInv'
  <2>1. CASE UNCHANGED vars
    BY <2>1 DEF vars, stateVars, confVars, qryVars, rptVars, FeedInv, Sound, Before, Newest
  <2> QED
    BY <2>1, FeedStep
<1> QED
  BY <1>1, <1>2, TypeCorrect, PTL DEF Spec

\* The feed never goes back in time on its way to the reporters (client.go:308-347,
\* 424-442, 490-529).
THEOREM FeedCorrect == Spec => []FeedInOrder
<1>1. TypeOK /\ FeedInv => FeedInOrder
  BY FeedTypes DEF FeedInv, FeedInOrder, Sound, Before, InFlight, Clock
<1> QED
  BY <1>1, FeedInvCorrect, PTL

\* A latency list in flight is labelled with the by-value fields it was measured under
\* (client.go:308-333, 424-433).
THEOREM LabelsCorrect == Spec => []LabelledFields
<1>1. TypeOK /\ FeedInv => LabelledFields
  BY DEF FeedInv, LabelledFields, Sound, InFlight
<1> QED
  BY <1>1, FeedInvCorrect, PTL

\* No reporter is handed a State older than the last it got (client.go:490-529).
THEOREM ReporterForwardCorrect == Spec => ReporterForward
<1>1. TypeOK /\ FeedInv /\ [Next]_vars => [\A n \in Names : seen'[n] >= seen[n]]_vars
  BY FeedStep
<1> QED
  BY <1>1, FeedInvCorrect, PTL DEF Spec, ReporterForward

------------------------------------------------------------------------------
(* What "state" answers never goes back.                                    *)

\* An answer shows a report that the client has had, so none newer than the last.
AnswersKnown ==
    \A c \in Callers : answer[c] # None => lastReport # None /\ answer[c].ts <= lastReport.ts

LEMMA AnswerFrame ==
    ASSUME Next
    PROVE  \/ UNCHANGED <<answer, lastReport>>
           \/ answer' = answer /\ QueryAnswered
           \/ lastReport' = lastReport
              /\ \E c \in Callers : GetLastStateReport(c) \/ GetLastStateConfig(c)
<1> USE DEF Moves, Panic, stateVars, confVars, qryVars, SwapSuspend, OpenGate, GateUnderflow
<1>1. ASSUME NEW c \in Callers, CallBegin(c), ~GetLastStateReport(c)
      PROVE  UNCHANGED <<answer, lastReport>>
  BY <1>1
  DEF CallBegin, Start, SuspendSwap, ResumeSwap, ChangeInterval, GetInterval, QueryLatency,
      SetConfigBegin, AddReporter, DelReporter, BeginStop, BeginJoin
<1>2. ASSUME NEW c \in Callers, CallStep(c), ~GetLastStateConfig(c)
      PROVE  UNCHANGED <<answer, lastReport>>
  BY <1>2
  DEF CallStep, SuspendAdd, ResumeDone, SetConfigApply, SetConfigStore, Send,
      AddReporterCount, CancelRun, CancelResume, CancelDone,
      JoinReporters, JoinWoken, JoinWatch
<1>3. ASSUME NEW c \in Callers, GetLastStateReport(c) \/ GetLastStateConfig(c)
      PROVE  lastReport' = lastReport
  BY <1>3 DEF GetLastStateReport, GetLastStateConfig
<1>4. ASSUME QuerierStep, ~QueryAnswered PROVE UNCHANGED <<answer, lastReport>>
  BY <1>4
  DEF QuerierStep, Top, GateWait, GateWoken, CheckCancelled, Query, QueryEmpty, QueryFailed,
      MapRace, Publish, Rearm, SelectDone, SelectTimer, Requeried, CancelRun, CancelResume,
      CancelDone, CloseNotify, CloseWatch
<1>5. QueryAnswered => answer' = answer
  BY DEF QueryAnswered, MapRace
<1>6. CASE ReporterStep
  BY <1>6
  DEF ReporterStep, ReporterBegin, Receive, PickReporter, Report, RangeEnd, DrainBegin,
      DrainReporter, DrainEnd, ReporterDone, ReporterUnderflow, ReporterQuiet
<1>7. CASE Interrupt
  BY <1>7 DEF Interrupt
<1> QED
  BY <1>1, <1>2, <1>3, <1>4, <1>5, <1>6, <1>7 DEF Next

LEMMA AnswerStep ==
    ASSUME TypeOK, FeedInv, AnswersKnown, Next
    PROVE  /\ AnswersKnown'
           /\ \A c \in Callers : answer[c] # None => answer'[c].ts >= answer[c].ts
<1> USE DEF AnswersKnown
<1>1. /\ lastReport # None => lastReport.ts \in Int /\ lastReport.ts <= clock
      /\ \A c \in Callers : answer[c] # None => answer[c].ts \in Int
      /\ answer \in [Callers -> States \cup {None}] /\ clock \in Int /\ work.ts = clock
  BY FeedTypes, BoundsAssumption DEF FeedInv, TypeOK, DataOK, States, Clock
<1>2. CASE UNCHANGED <<answer, lastReport>>
  BY <1>1, <1>2
<1>3. CASE answer' = answer /\ QueryAnswered
  <2>1. CASE MapRace
    BY <1>1, <1>3, <2>1 DEF MapRace, Panic, qryVars
  <2>2. CASE ~MapRace
    <3>1. lastReport' # None /\ lastReport'.ts = clock
      BY <1>1, <1>3, <2>2, NoneAssumption
      DEF QueryAnswered, CurrCfg, TypeOK, DataOK, States, Configs
    <3> QED
      BY <1>1, <1>3, <3>1
  <2> QED
    BY <2>1, <2>2
<1>4. ASSUME lastReport' = lastReport, NEW c \in Callers, GetLastStateReport(c)
      PROVE  /\ AnswersKnown'
             /\ \A d \in Callers : answer[d] # None => answer'[d].ts >= answer[d].ts
  BY <1>1, <1>4 DEF GetLastStateReport
<1>5. ASSUME lastReport' = lastReport, NEW c \in Callers, GetLastStateConfig(c)
      PROVE  /\ AnswersKnown'
             /\ \A d \in Callers : answer[d] # None => answer'[d].ts >= answer[d].ts
  <2>1. answer[c] # None /\ answer[c] \in States
    BY <1>1, <1>5 DEF GetLastStateConfig, Here, TypeOK, LocalsOK
  <2>2. answer'[c].ts = answer[c].ts /\ \A d \in Callers \ {c} : answer'[d] = answer[d]
    BY <1>1, <1>5, <2>1 DEF GetLastStateConfig, States
  <2> QED
    BY <1>1, <1>5, <2>1, <2>2
<1> QED
  BY <1>2, <1>3, <1>4, <1>5, AnswerFrame

\* "state" never answers with an older report than it did before, however its two loads meet
\* the querier's stores (client.go:296-306, 308-333).
THEOREM LastStateForwardCorrect == Spec => LastStateForward
<1>1. Init => AnswersKnown
  BY DEF Init, AnswersKnown
<1>2. TypeOK /\ FeedInv /\ AnswersKnown /\ [Next]_vars => AnswersKnown'
  BY AnswerStep DEF vars, stateVars, confVars, qryVars, AnswersKnown
<1>3. TypeOK /\ FeedInv /\ AnswersKnown /\ [Next]_vars
        => [\A c \in Callers : answer[c] # None => answer'[c].ts >= answer[c].ts]_vars
  BY AnswerStep
<1> QED
  BY <1>1, <1>2, <1>3, FeedInvCorrect, PTL DEF Spec, LastStateForward

------------------------------------------------------------------------------
(* Which race a counter below zero comes from.                              *)

LEMMA NextAlive == Next => Alive
BY DEF Next, Interrupt, CallBegin, Start, Begins, SuspendSwap, ResumeSwap, ChangeInterval,
       GetInterval, QueryLatency, SetConfigBegin, AddReporter, DelReporter, GetLastStateReport,
       BeginStop, BeginJoin, CallStep, SuspendAdd, ResumeDone, SetConfigApply, SetConfigStore,
       Send, AddReporterCount, GetLastStateConfig, CancelRun, CancelResume, CancelDone,
       JoinReporters, JoinWoken, JoinWatch, QuerierStep, Top, GateWait, GateWoken,
       CheckCancelled, Query, QueryAnswered, QueryEmpty, QueryFailed, Publish, Rearm, SelectDone,
       SelectTimer, Requeried, CloseNotify, CloseWatch, ReporterStep, ReporterBegin, Receive,
       PickReporter, Report, RangeEnd, DrainBegin, DrainReporter, DrainEnd

\* Which steps bring the counters below zero.
LEMMA PanicSteps ==
    ASSUME Next
    PROVE  /\ crash' = "negativeGate" =>
                  /\ UNCHANGED pc /\ suspendWg = 0
                  /\ \E a \in Agents : pc[a] \in {"resumeDone", "stopDone"}
           /\ crash' = "negativeReporters" => DrainReporter \/ DrainEnd
<1> USE DEF Moves, Panic, stateVars, SwapSuspend, OpenGate, GateUnderflow, Alive, Agents
<1>1. crash = "none"
  BY NextAlive
<1>2. ASSUME NEW c \in Callers, CallBegin(c)
      PROVE  crash' \notin {"negativeGate", "negativeReporters"}
  BY <1>1, <1>2
  DEF CallBegin, Start, SuspendSwap, ResumeSwap, ChangeInterval, GetInterval, QueryLatency,
      SetConfigBegin, AddReporter, DelReporter, GetLastStateReport, BeginStop, BeginJoin
<1>3. ASSUME NEW a \in Agents, ResumeDone(a) \/ CancelDone(a)
      PROVE  /\ crash' # "negativeReporters"
             /\ crash' = "negativeGate" =>
                    /\ UNCHANGED pc /\ suspendWg = 0
                    /\ pc[a] \in {"resumeDone", "stopDone"}
  BY <1>1, <1>3 DEF ResumeDone, CancelDone
<1>4. ASSUME NEW c \in Callers, CallStep(c), ~ResumeDone(c), ~CancelDone(c)
      PROVE  crash' \notin {"negativeGate", "negativeReporters"}
  BY <1>1, <1>4
  DEF CallStep, SuspendAdd, SetConfigApply, SetConfigStore, Send, AddReporterCount,
      GetLastStateConfig, CancelRun, CancelResume, JoinReporters, JoinWoken, JoinWatch
<1>5. ASSUME QuerierStep, ~CancelDone(Querier)
      PROVE  crash' \notin {"negativeGate", "negativeReporters"}
  BY <1>1, <1>5
  DEF QuerierStep, Top, GateWait, GateWoken, CheckCancelled, Query, QueryAnswered, QueryEmpty,
      QueryFailed, MapRace, Publish, Rearm, SelectDone, SelectTimer, Requeried, CancelRun,
      CancelResume, CloseNotify, CloseWatch
<1>6. ASSUME ReporterStep, ~DrainReporter, ~DrainEnd
      PROVE  crash' \notin {"negativeGate", "negativeReporters"}
  BY <1>1, <1>6
  DEF ReporterStep, ReporterBegin, Receive, PickReporter, Report, RangeEnd, DrainBegin,
      ReporterQuiet
<1>7. DrainReporter \/ DrainEnd => crash' # "negativeGate"
  BY <1>1 DEF DrainReporter, DrainEnd, ReporterDone, ReporterUnderflow, ReporterQuiet
<1>8. CASE Interrupt
  BY <1>1, <1>8 DEF Interrupt
<1> QED
  BY <1>2, <1>3, <1>4, <1>5, <1>6, <1>7, <1>8 DEF Next

\* The counter of the gate falls below zero only when a Resume or a cancelRun overtakes the
\* Add of the Suspend it undoes (client.go:350, 359, 662).
THEOREM GatePanicCorrect == Spec => []GatePanicIsRace
<1>1. Init => GatePanicIsRace
  BY DEF Init, GatePanicIsRace
<1>2. TypeOK /\ GateBalanced /\ GatePanicIsRace /\ [Next]_vars => GatePanicIsRace'
  <2> SUFFICES ASSUME TypeOK, GateBalanced, Next, crash' = "negativeGate"
               PROVE  At({"suspendAdd"})' # {}
    BY DEF GatePanicIsRace, At, vars, stateVars
  <2> DEFINE Adds == At({"suspendAdd"})
             Dones == At({"resumeDone", "stopDone"})
  <2>1. UNCHANGED pc /\ suspendWg = 0 /\ Dones # {}
    BY PanicSteps DEF At
  <2>2. Cardinality(Dones) # 0 /\ Cardinality(Dones) \in Nat /\ Cardinality(Adds) \in Nat
    BY <2>1, AtFinite, FS_EmptySet
  <2>3. Cardinality(Adds) = (IF suspend THEN 1 ELSE 0) + Cardinality(Dones)
    BY <2>1, <2>2 DEF GateBalanced
  <2>4. Cardinality(Adds) # 0
    <3> HIDE DEF Adds, Dones
    <3> QED
      BY <2>2, <2>3
  <2>5. Adds # {}
    BY <2>4, FS_EmptySet
  <2> QED
    BY <2>1, <2>5 DEF At
<1> QED
  BY <1>1, <1>2, GateCorrect, TypeCorrect, PTL DEF Spec

\* While runReporter has not returned, it and every reporter that it has still to count out
\* were counted in, or are being counted in by an AddReporter.
Live == IF pc[Reporter] \in {"recv", "range", "call", "drain"} THEN 1 ELSE 0
CountedOut == IF pc[Reporter] \in Drained THEN visited ELSE {}
CountInv ==
    /\ pc[Reporter] \in {"idle", "new", "recv"} => visited = {}
    /\ Cardinality(reporters \ CountedOut) + Live <= reporterWg + Cardinality(At({"addWg"}))
    /\ ReporterPanicIsRace

CountQuiet ==
    /\ UNCHANGED <<reporters, reporterWg, visited>> /\ crash' # "negativeReporters"
    /\ pc'[Reporter] = pc[Reporter] \/ (pc[Reporter] = "idle" /\ pc'[Reporter] = "new")
    /\ UNCHANGED At({"addWg"})

LEMMA CountMoves ==
    ASSUME PcOK, NEW a \in Callers \cup {Querier}, NEW l, Goto(a, l),
           UNCHANGED <<reporters, reporterWg, visited>>, crash' # "negativeReporters",
           pc[a] # "addWg", l # "addWg"
    PROVE  CountQuiet
BY GotoAgent DEF CountQuiet, At, Agents

LEMMA CountOpen ==
    ASSUME PcOK, NEW a \in Callers \cup {Querier}, NEW l, OpenGate(a, l),
           crash' # "negativeReporters", pc[a] # "addWg", l # "addWg"
    PROVE  CountQuiet
<1>1. UNCHANGED <<reporters, reporterWg, visited>> /\ a \in Agents
  BY DEF OpenGate, rptVars, Agents
<1>2. CASE suspendWg = 1
  BY <1>1, <1>2 DEF OpenGate, GotoAndWake, CountQuiet, At, Agents, PcOK, ReporterLabels
<1>3. CASE suspendWg # 1
  BY <1>1, <1>3, CountMoves DEF OpenGate
<1> QED
  BY <1>2, <1>3

LEMMA CountFrame ==
    ASSUME TypeOK, Next
    PROVE  \/ CountQuiet \/ ReporterStep
           \/ \E c \in Callers : AddReporter(c) \/ AddReporterCount(c) \/ DelReporter(c)
<1> USE DEF TypeOK, Moves, Panic, stateVars, rptVars, Agents
<1>1. crash = "none"
  BY NextAlive DEF Alive
<1>2. ASSUME NEW c \in Callers, CallBegin(c)
      PROVE  CountQuiet \/ AddReporter(c) \/ DelReporter(c)
  <2>1. CASE Start(c)
    BY <1>1, <2>1 DEF Start, Started, Begins, CountQuiet, At, PcOK
  <2> QED
    BY <1>1, <1>2, <2>1, CountMoves
    DEF CallBegin, Begins, SuspendSwap, ResumeSwap, SwapSuspend, ChangeInterval, GetInterval,
        QueryLatency, SetConfigBegin, GetLastStateReport, BeginStop, BeginJoin, CountQuiet, At
<1>3. ASSUME NEW c \in Callers, CallStep(c)
      PROVE  CountQuiet \/ AddReporterCount(c)
  <2>1. CASE ResumeDone(c) \/ CancelDone(c)
    BY <1>1, <2>1, CountOpen
    DEF ResumeDone, CancelDone, AfterCancel, GateUnderflow, CountQuiet, At, OpenGate
  <2> QED
    BY <1>1, <1>3, <2>1, CountMoves
    DEF CallStep, SuspendAdd, SetConfigApply, SetConfigStore, Send, GetLastStateConfig,
        CancelRun, CancelResume, SwapSuspend, AfterCancel, JoinReporters, JoinWoken, JoinWatch,
        CountQuiet, At
<1>4. CASE QuerierStep
  <2>1. CASE CancelDone(Querier)
    BY <1>1, <2>1, CountOpen
    DEF CancelDone, AfterCancel, GateUnderflow, CountQuiet, At, OpenGate
  <2>2. CASE \E c \in Callers : Requeried(c)
    BY <1>1, <2>2 DEF Requeried, CountQuiet, At, PcOK
  <2> QED
    BY <1>1, <1>4, <2>1, <2>2, CountMoves
    DEF QuerierStep, Top, GateWait, GateWoken, CheckCancelled, MapRace, Query, QueryAnswered,
        QueryEmpty, QueryFailed, Publish, Rearm, SelectDone, SelectTimer, CancelRun,
        CancelResume, SwapSuspend, AfterCancel, CloseNotify, CloseWatch, CountQuiet, At
<1>5. CASE Interrupt
  BY <1>1, <1>5 DEF Interrupt, CountQuiet, At
<1> QED
  BY <1>2, <1>3, <1>4, <1>5 DEF Next

\* What a step does to the sets that are counted.
LEMMA CountSets ==
    ASSUME NEW S \in SUBSET Names
    PROVE  /\ IsFiniteSet(S) /\ Cardinality(S) \in Nat
           /\ \A n \in Names :
                  /\ Cardinality(S \cup {n}) <= Cardinality(S) + 1
                  /\ Cardinality(S \ {n}) <= Cardinality(S)
                  /\ n \in S => Cardinality(S \ {n}) = Cardinality(S) - 1
<1>1. IsFiniteSet(S) /\ Cardinality(S) \in Nat
  BY ReportersAssumption, FS_Subset, FS_CardinalityType
<1>2. ASSUME NEW n \in Names
      PROVE  /\ Cardinality(S \cup {n}) <= Cardinality(S) + 1
             /\ Cardinality(S \ {n}) <= Cardinality(S)
             /\ n \in S => Cardinality(S \ {n}) = Cardinality(S) - 1
  <2> DEFINE size == Cardinality(S)
             more == Cardinality(S \cup {n})
             less == Cardinality(S \ {n})
  <2>1. size \in Nat /\ size <= size + 1 /\ size - 1 <= size
    BY <1>1
  <2>2. CASE n \in S
    <3>1. S \cup {n} = S
      BY <2>2
    <3>2. more = size
      BY <3>1
    <3>3. less = size - 1
      BY <1>1, <2>2, FS_RemoveElement
    <3> HIDE DEF size, more, less
    <3>4. more <= size + 1 /\ less <= size
      BY <2>1, <3>2, <3>3
    <3> QED
      BY <3>3, <3>4 DEF size, more, less
  <2>3. CASE n \notin S
    <3>1. S \ {n} = S
      BY <2>3
    <3>2. less = size
      BY <3>1
    <3>3. more = size + 1
      BY <1>1, <2>3, FS_AddElement
    <3> HIDE DEF size, more, less
    <3>4. more <= size + 1 /\ less <= size
      BY <2>1, <3>2, <3>3
    <3> QED
      BY <2>3, <3>4 DEF size, more, less
  <2> QED
    BY <2>2, <2>3
<1> QED
  BY <1>1, <1>2

\* The inequality of CountInv, over the numbers it compares.
Covers(have, live, wg, adds) == have + live <= wg + adds

LEMMA CoversFewer ==
    ASSUME NEW have \in Nat, NEW fewer \in Nat, fewer <= have,
           NEW live \in {0, 1}, NEW wg \in Nat, NEW adds \in Nat, Covers(have, live, wg, adds)
    PROVE  Covers(fewer, live, wg, adds)
BY DEF Covers

LEMMA CountStep == ASSUME TypeOK, CountInv, Next PROVE CountInv'
<1> DEFINE left == Cardinality(reporters \ CountedOut)
           adds == Cardinality(At({"addWg"}))
<1>1. /\ reporters \ CountedOut \in SUBSET Names /\ left \in Nat /\ adds \in Nat
      /\ reporterWg \in Nat /\ Live \in {0, 1} /\ IsFiniteSet(At({"addWg"}))
      /\ reporters \in SUBSET Names /\ visited \in SUBSET Names
  BY CountSets, AtFinite DEF TypeOK, DataOK, Live
<1>2. Covers(left, Live, reporterWg, adds)
  BY DEF CountInv, Covers
<1>3. crash = "none"
  BY NextAlive DEF Alive
<1>4. /\ pc'[Reporter] \in {"idle", "new", "recv"} => visited' = {}
      /\ Covers(left', Live', reporterWg', adds')
      /\ ReporterPanicIsRace'
      => CountInv'
  BY DEF CountInv, Covers
<1>5. crash' # "negativeReporters" => ReporterPanicIsRace'
  BY DEF ReporterPanicIsRace
<1>6. pc[Reporter] \in {"idle", "new", "recv"} => visited = {} /\ CountedOut = {}
  BY DEF CountInv, CountedOut, Drained
<1>7. CASE CountQuiet
  <2>1. CountedOut' = CountedOut /\ Live' = Live /\ adds' = adds /\ left' = left
    BY <1>6, <1>7 DEF CountQuiet, CountedOut, Live, Drained
  <2> QED
    BY <1>2, <1>4, <1>5, <1>6, <1>7, <2>1 DEF CountQuiet
<1>8. ASSUME NEW c \in Callers, AddReporter(c) PROVE CountInv'
  <2>1. PICK n \in Names \ reporters : reporters' = reporters \cup {n}
    BY <1>8 DEF AddReporter
  <2>2. /\ pc'[Reporter] = pc[Reporter] /\ UNCHANGED <<visited, reporterWg, crash>>
        /\ At({"addWg"})' = At({"addWg"}) \cup {c} /\ c \notin At({"addWg"})
    BY <1>8, GotoAgent DEF AddReporter, Begins, At, Agents, TypeOK
  <2>3. CountedOut' = CountedOut /\ Live' = Live
    BY <2>2 DEF CountedOut, Live
  <2>4. adds' = adds + 1
    BY <1>1, <2>2, FS_AddElement
  <2>5. left' <= left + 1 /\ left' \in Nat
    <3>1. (reporters \cup {n}) \ CountedOut \in {(reporters \ CountedOut) \cup {n}, reporters \ CountedOut}
      BY <2>1
    <3> DEFINE old == reporters \ CountedOut
    <3>2. old \in SUBSET Names /\ n \in Names
      BY <1>1, <2>1
    <3>3. Cardinality(old \cup {n}) <= Cardinality(old) + 1 /\ Cardinality(old \cup {n}) \in Nat
      <4>1. old \cup {n} \in SUBSET Names
        BY <3>2
      <4> HIDE DEF old
      <4> QED
        BY <3>2, <4>1, CountSets
    <3>4. left' \in {Cardinality(old \cup {n}), Cardinality(old)}
      BY <2>1, <2>3, <3>1
    <3>5. Cardinality(old) = left /\ left <= left + 1
      BY <1>1
    <3> HIDE DEF left, old
    <3> QED
      BY <1>1, <3>3, <3>4, <3>5
  <2>6. Covers(left', Live', reporterWg', adds')
    <3> HIDE DEF left, adds
    <3> QED
      BY <1>1, <1>2, <2>2, <2>3, <2>4, <2>5 DEF Covers
  <2> QED
    BY <1>3, <1>4, <1>5, <1>6, <2>2, <2>6
<1>9. ASSUME NEW c \in Callers, AddReporterCount(c) PROVE CountInv'
  <2>1. /\ pc'[Reporter] = pc[Reporter] /\ UNCHANGED <<visited, reporters, crash>>
        /\ reporterWg' = reporterWg + 1
        /\ At({"addWg"})' = At({"addWg"}) \ {c} /\ c \in At({"addWg"})
    BY <1>9, GotoAgent DEF AddReporterCount, At, Agents, TypeOK
  <2>2. CountedOut' = CountedOut /\ Live' = Live /\ left' = left
    BY <2>1 DEF CountedOut, Live
  <2>3. adds' = adds - 1
    BY <1>1, <2>1, FS_RemoveElement
  <2>4. Covers(left', Live', reporterWg', adds')
    <3> HIDE DEF left, adds
    <3> QED
      BY <1>1, <1>2, <2>1, <2>2, <2>3 DEF Covers
  <2> QED
    BY <1>3, <1>4, <1>5, <1>6, <2>1, <2>4
<1>10. ASSUME NEW c \in Callers, DelReporter(c) PROVE CountInv'
  <2>1. PICK n \in reporters : reporters' = reporters \ {n}
    BY <1>10 DEF DelReporter
  <2>2. UNCHANGED <<pc, visited, reporterWg, crash>>
    BY <1>10 DEF DelReporter
  <2>3. CountedOut' = CountedOut /\ Live' = Live /\ adds' = adds
    BY <2>2 DEF CountedOut, Live, At
  <2>4. left' <= left /\ left' \in Nat
    <3> DEFINE old == reporters \ CountedOut
    <3>1. reporters' \ CountedOut = old \ {n}
      BY <2>1
    <3>2. old \in SUBSET Names /\ old \ {n} \in SUBSET Names /\ n \in Names
      BY <1>1, <2>1
    <3>3. Cardinality(old \ {n}) <= Cardinality(old) /\ Cardinality(old \ {n}) \in Nat
      <4> HIDE DEF old
      <4> QED
        BY <3>2, CountSets
    <3> QED
      BY <2>3, <3>1, <3>3
  <2>5. Covers(left', Live', reporterWg', adds')
    <3>1. Covers(left', Live, reporterWg, adds)
      <4> HIDE DEF left, adds
      <4> QED
        BY <1>1, <1>2, <2>4, CoversFewer
    <3> QED
      BY <2>2, <2>3, <3>1
  <2> QED
    BY <1>3, <1>4, <1>5, <1>6, <2>2, <2>5
<1>11. CASE ReporterBegin
  <2>1. /\ pc[Reporter] = "new" /\ pc'[Reporter] = "recv" /\ reporterWg' = reporterWg + 1
        /\ UNCHANGED <<reporters, visited, crash>> /\ At({"addWg"})' = At({"addWg"})
    BY <1>11, GotoAgent DEF ReporterBegin, At, Agents, TypeOK, ReporterQuiet
  <2>2. CountedOut' = CountedOut /\ Live = 0 /\ Live' = 1 /\ adds' = adds /\ left' = left
    BY <2>1 DEF CountedOut, Live, Drained
  <2>3. Covers(left', Live', reporterWg', adds')
    <3> HIDE DEF left, adds
    <3> QED
      BY <1>1, <1>2, <2>1, <2>2 DEF Covers
  <2> QED
    BY <1>3, <1>4, <1>5, <1>6, <2>1, <2>3
<1>12. CASE Receive \/ PickReporter \/ Report \/ RangeEnd \/ DrainBegin
  <2>1. /\ UNCHANGED <<reporters, reporterWg, crash>> /\ At({"addWg"})' = At({"addWg"})
        /\ pc[Reporter] \in {"recv", "range", "call"}
        /\ pc'[Reporter] \in {"recv", "range", "call", "drain"}
        /\ pc'[Reporter] = "recv" => visited' = {}
        /\ pc'[Reporter] = "drain" => pc[Reporter] = "recv" /\ visited' = visited
    BY <1>12, GotoAgent
    DEF Receive, PickReporter, Report, RangeEnd, DrainBegin, At, Agents, TypeOK, ReporterQuiet
  <2>2. CountedOut' = {} /\ CountedOut = {} /\ Live = 1 /\ Live' = 1
    BY <1>6, <2>1 DEF CountedOut, Live, Drained
  <2>3. left' = left /\ adds' = adds
    BY <2>1, <2>2
  <2> QED
    BY <1>2, <1>3, <1>4, <1>5, <2>1, <2>2, <2>3
<1>13. ASSUME NEW l \in {"drain", "gone"}, pc[Reporter] = "drain", ReporterDone(l)
       PROVE  /\ reporterWg' = reporterWg - 1 /\ UNCHANGED <<reporters, crash>>
              /\ At({"addWg"})' = At({"addWg"}) /\ pc'[Reporter] = l
  <2>1. CASE reporterWg = 1
    BY <1>13, <2>1
    DEF ReporterDone, GotoAndWake, ReporterQuiet, At, Agents, TypeOK, PcOK
  <2>2. CASE reporterWg # 1
    BY <1>13, <2>2, GotoAgent DEF ReporterDone, ReporterQuiet, At, Agents, TypeOK
  <2> QED
    BY <2>1, <2>2
<1>14. CASE (DrainReporter \/ DrainEnd) /\ ReporterUnderflow
  <2>1. /\ pc[Reporter] = "drain" /\ reporterWg = 0
        /\ UNCHANGED <<pc, reporters, reporterWg, visited>>
    BY <1>14 DEF DrainReporter, DrainEnd, ReporterUnderflow, Panic, rptVars
  <2>2. Live = 1 /\ CountedOut' = CountedOut /\ Live' = Live /\ adds' = adds /\ left' = left
        /\ At({"addWg"})' = At({"addWg"})
    BY <2>1 DEF Live, CountedOut, At
  <2>3. adds # 0
    <3> HIDE DEF left, adds
    <3> QED
      BY <1>1, <1>2, <2>1, <2>2 DEF Covers
  <2>4. ReporterPanicIsRace'
    BY <2>2, <2>3, FS_EmptySet DEF ReporterPanicIsRace
  <2> QED
    BY <1>2, <1>4, <2>1, <2>2, <2>4
<1>15. CASE DrainReporter /\ ~ReporterUnderflow
  <2>1. PICK n \in reporters \ visited : visited' = visited \cup {n}
    BY <1>15 DEF DrainReporter
  <2>2. pc[Reporter] = "drain" /\ ReporterDone("drain")
    BY <1>15 DEF DrainReporter
  <2>3. /\ CountedOut = visited /\ CountedOut' = visited' /\ Live = 1 /\ Live' = 1
        /\ adds' = adds
    BY <1>13, <2>2 DEF CountedOut, Live, Drained
  <2>4. left' = left - 1
    <3>1. reporters' \ visited' = (reporters \ visited) \ {n}
      BY <1>13, <2>1, <2>2
    <3> QED
      BY <1>1, <2>1, <2>3, <3>1, CountSets
  <2>5. Covers(left', Live', reporterWg', adds')
    <3>1. reporterWg' = reporterWg - 1
      BY <1>13, <2>2
    <3> HIDE DEF left, adds
    <3> QED
      BY <1>1, <1>2, <2>3, <2>4, <3>1 DEF Covers
  <2> QED
    BY <1>3, <1>4, <1>5, <1>13, <2>2, <2>5
<1>16. CASE DrainEnd /\ ~ReporterUnderflow
  <2>1. pc[Reporter] = "drain" /\ ReporterDone("gone") /\ visited' = visited
    BY <1>16 DEF DrainEnd
  <2>2. /\ CountedOut' = CountedOut /\ Live = 1 /\ Live' = 0 /\ adds' = adds /\ left' = left
    BY <1>13, <2>1 DEF CountedOut, Live, Drained
  <2>3. Covers(left', Live', reporterWg', adds')
    <3>1. reporterWg' = reporterWg - 1
      BY <1>13, <2>1
    <3> HIDE DEF left, adds
    <3> QED
      BY <1>1, <1>2, <2>2, <3>1 DEF Covers
  <2> QED
    BY <1>3, <1>4, <1>5, <1>13, <2>1, <2>3
<1> QED
  BY <1>7, <1>8, <1>9, <1>10, <1>11, <1>12, <1>14, <1>15, <1>16, CountFrame DEF ReporterStep

\* The count that Join waits for falls below zero only in the window of an AddReporter that
\* has stored its reporter and not yet counted it (client.go:478-487, 536-546).
THEOREM ReporterPanicCorrect == Spec => []ReporterPanicIsRace
<1>1. Init => CountInv
  <2> SUFFICES ASSUME Init PROVE CountInv
    OBVIOUS
  <2>1. pc[Reporter] = "idle" /\ visited = {} /\ reporters = Registered /\ crash = "none"
        /\ reporterWg = Cardinality(Registered) /\ At({"addWg"}) = {}
    BY DEF Init, At, Agents
  <2>2. reporters \ CountedOut = Registered /\ Live = 0
    BY <2>1 DEF CountedOut, Live, Drained
  <2> DEFINE left == Cardinality(reporters \ CountedOut)
             adds == Cardinality(At({"addWg"}))
  <2>3. left = reporterWg /\ left \in Nat
    BY <2>1, <2>2, ReportersAssumption, FS_Subset, FS_CardinalityType
  <2>4. adds = 0
    BY <2>1, FS_EmptySet
  <2>5. left + Live <= reporterWg + adds
    <3> HIDE DEF left, adds
    <3> QED
      BY <2>2, <2>3, <2>4
  <2> QED
    BY <2>1, <2>5 DEF CountInv, ReporterPanicIsRace
<1>2. TypeOK /\ CountInv /\ [Next]_vars => CountInv'
  BY CountStep
  DEF vars, stateVars, rptVars, CountInv, CountedOut, Live, At, ReporterPanicIsRace
<1> QED
  BY <1>1, <1>2, TypeCorrect, PTL DEF Spec, CountInv
==============================================================================
