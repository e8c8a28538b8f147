---------------------------- MODULE CtlClientProofs ----------------------------
(* What the screen of a control client shows, for any number of commands      *)
(* typed and states measured, over either transport.                          *)
EXTENDS CtlClient, TLAPS

------------------------------------------------------------------------------
(* Types.  The server's configuration changes once for a command typed, so    *)
(* the commands under way count; main's own first command changes nothing.    *)

HasInfo == \E i \in DOMAIN sent : sent[i] = "info"
Pending == IF ui \in Remote THEN 1 ELSE 0
Counted ==
    /\ cfg + Len(sent) + Pending <= typed + 1
    /\ ~HasInfo \/ main = "init" => cfg + Len(sent) + Pending <= typed

LabelTypes ==
    /\ transport \in Transports
    /\ conn \in {"dialing", "open", "lost", "closed"}
    /\ main \in {"init", "loop", "join", "exited"} /\ recv \in {"off", "read", "gone"}
    /\ opened \in 0..1
    /\ msgs \in {"none", "subscribe", "store", "wait", "gone"}
    /\ main \in {"init", "loop"} => msgs = "none"
    /\ ui \in {"idle", "topDraw", "stopped"} \cup Remote
Flags ==
    /\ shut \in BOOLEAN /\ stored \in BOOLEAN /\ missed \in BOOLEAN
    /\ newest \in BOOLEAN /\ crash \in BOOLEAN
CountTypes ==
    /\ sent \in Seq(Remote) /\ cfg \in 0..MaxKeys /\ typed \in 0..MaxKeys /\ Counted
StateTypes ==
    /\ measured \in Seq(0..MaxKeys) /\ Len(measured) <= MaxStates /\ told \in 0..Len(measured)
WireTypes == rsp \in Messages \cup {None} /\ wire \in Seq(Messages)
Published == {m \in Messages : m.type # "status"}
HeardTypes == heard \in Seq(Published) /\ (~Subscribed => heard = <<>>)
ViewTypes ==
    /\ lastState \in States \cup {None}
    /\ todo \in Seq(Views)
    /\ (\E v \in {"top", "config"} : \E k \in 1..Len(todo) : todo[k] = v) => lastState # None
    /\ view \in [top : 0..MaxStates, cfg : 0..MaxKeys \cup {None}]

Types == LabelTypes /\ Flags /\ CountTypes /\ StateTypes /\ WireTypes /\ HeardTypes /\ ViewTypes

LEMMA TypesTyped == Types => TypeOK
<1>1. heard \in Seq(Published) => heard \in Seq(Messages)
  BY DEF Published
<1> QED
  BY <1>1 DEF Types, LabelTypes, Flags, CountTypes, StateTypes, WireTypes, HeardTypes, ViewTypes, TypeOK

LEMMA InitTypes == Init => Types
<1> SUFFICES ASSUME Init PROVE Types
  OBVIOUS
<1> USE BoundsAssumption DEF Init
<1>1. LabelTypes
  BY DEF LabelTypes
<1>5. Flags
  BY DEF Flags
<1>2. CountTypes
  BY DEF CountTypes, Counted, Pending, Remote
<1>3. StateTypes /\ WireTypes /\ HeardTypes
  BY DEF StateTypes, WireTypes, HeardTypes
<1>4. ViewTypes
  BY DEF ViewTypes
<1> QED
  BY <1>1, <1>2, <1>3, <1>4, <1>5 DEF Types

\* The steps, and what they are made of.
LEMMA Steps ==
    Next => \/ Measure \/ Broadcast \/ Execute \/ WriteResult \/ Lose \/ Connect
            \/ StartRecv \/ StartInfo \/ StartLoop \/ MainJoin \/ Recv \/ RecvEnds
            \/ Subscribe \/ Store \/ Handle \/ DrawView \/ PostRun \/ TypeConnected
            \/ \E k \in Keys : Type(k)
BY DEF Next, Server, Main, Reader, MessageLoop

LEMMA LabelsKept == ASSUME LabelTypes, Next PROVE LabelTypes'
<1> USE DEF LabelTypes, serverVars, loopVars, viewVars
<1>1. CASE Measure \/ Broadcast \/ Execute \/ WriteResult \/ Lose \/ Connect
  BY <1>1 DEF Measure, Broadcast, Execute, WriteResult, Lose, Connect
<1>2. CASE StartRecv \/ StartInfo \/ StartLoop \/ MainJoin \/ Recv \/ RecvEnds
  BY <1>2 DEF StartRecv, StartInfo, StartLoop, MainJoin, Recv, RecvEnds
<1>3. CASE Subscribe \/ Store \/ Handle \/ DrawView \/ PostRun \/ TypeConnected
  BY <1>3 DEF Subscribe, Store, Handle, DrawView, PostRun, ExitFn, TypeConnected
<1>4. ASSUME NEW k \in Keys, Type(k) PROVE LabelTypes'
  <2>1. /\ ui' \in {"idle", "topDraw", "stopped"} \cup Remote
        /\ conn' \in {"dialing", "open", "lost", "closed"}
    BY <1>4, KeysAssumption DEF Type, ExitFn, Remote
  <2> QED
    BY <1>4, <2>1 DEF Type
<1> QED
  BY <1>1, <1>2, <1>3, <1>4, Steps

LEMMA CommandFlags ==
    ASSUME Flags, UNCHANGED <<newest, crash>>,
           CloseLoop \/ UNCHANGED <<shut, stored, missed>> \/ \E c \in Remote : Command(c)
    PROVE  Flags'
<1>1. CloseLoop \/ UNCHANGED <<shut, stored, missed>>
  BY DEF Command
<1>2. CASE CloseLoop
  <2>1. shut' \in BOOLEAN /\ stored' \in BOOLEAN /\ missed' \in BOOLEAN
    BY <1>2 DEF CloseLoop
  <2> QED
    BY <2>1 DEF Flags
<1> QED
  BY <1>1, <1>2 DEF Flags

LEMMA FlagsKept == ASSUME Flags, Next PROVE Flags'
<1> USE DEF serverVars, loopVars, viewVars
<1>1. CASE Measure \/ Broadcast \/ Execute \/ WriteResult \/ Lose \/ Connect
  BY <1>1 DEF Measure, Broadcast, Execute, WriteResult, Lose, Connect, Flags
<1>2. CASE StartRecv \/ StartLoop \/ MainJoin
  BY <1>2 DEF StartRecv, StartLoop, MainJoin, Flags
<1>3. CASE StartInfo \/ RecvEnds \/ TypeConnected
  BY <1>3, CommandFlags DEF StartInfo, RecvEnds, TypeConnected, Remote
<1>4. CASE Recv
  <2>1. crash' \in BOOLEAN /\ UNCHANGED <<shut, stored, missed, newest>>
    BY <1>4 DEF Recv
  <2> QED
    BY <2>1 DEF Flags
<1>5. CASE Subscribe
  <2>1. shut' \in BOOLEAN /\ UNCHANGED <<stored, missed, newest, crash>>
    BY <1>5 DEF Subscribe
  <2> QED
    BY <2>1 DEF Flags
<1>6. CASE Store \/ DrawView
  BY <1>6 DEF Store, DrawView, Flags
<1>7. CASE Handle
  <2>1. newest' \in BOOLEAN /\ UNCHANGED <<shut, stored, missed, crash>>
    BY <1>7 DEF Handle
  <2> QED
    BY <2>1 DEF Flags
<1>8. CASE PostRun
  BY <1>8 DEF PostRun, ExitFn, Flags
<1>9. ASSUME NEW k \in Keys, Type(k) PROVE Flags'
  <2>1. UNCHANGED <<newest, crash>>
    BY <1>9 DEF Type
  <2>2. CASE k = "exit"
    BY <1>9, <2>1, <2>2 DEF Type, ExitFn, Flags
  <2>3. CASE k = "top"
    BY <1>9, <2>1, <2>3 DEF Type, Flags
  <2>4. CASE k \notin {"exit", "top"}
    <3>1. k \in Remote
      BY <2>4, KeysAssumption
    <3>2. UNCHANGED <<shut, stored, missed>> \/ Command(k)
      BY <1>9, <2>4 DEF Type
    <3> QED
      BY <2>1, <3>1, <3>2, CommandFlags
  <2> QED
    BY <2>2, <2>3, <2>4
<1> QED
  BY <1>1, <1>2, <1>3, <1>4, <1>5, <1>6, <1>7, <1>8, <1>9, Steps

\* A command joins what was sent.
LEMMA SentAppend ==
    ASSUME sent \in Seq(Remote), NEW c \in Remote, sent' = Append(sent, c)
    PROVE  /\ sent' \in Seq(Remote) /\ Len(sent) \in Nat /\ Len(sent') = Len(sent) + 1
           /\ HasInfo => HasInfo'
           /\ c = "info" => HasInfo'
<1>1. /\ sent' \in Seq(Remote) /\ Len(sent) \in Nat /\ DOMAIN sent = 1..Len(sent)
      /\ Len(sent') = Len(sent) + 1 /\ DOMAIN sent' = 1..(Len(sent) + 1)
      /\ sent'[Len(sent) + 1] = c /\ \A i \in DOMAIN sent : sent'[i] = sent[i]
  OBVIOUS
<1> QED
  BY <1>1 DEF HasInfo

\* One leaves it.
LEMMA SentTail ==
    ASSUME sent \in Seq(Remote), sent # <<>>, sent' = Tail(sent)
    PROVE  /\ Head(sent) \in Remote /\ sent' \in Seq(Remote) /\ Len(sent) \in Nat
           /\ Len(sent) >= 1 /\ Len(sent') = Len(sent) - 1
           /\ HasInfo <=> Head(sent) = "info" \/ HasInfo'
           /\ HasInfo' => Len(sent') >= 1
<1>1. /\ Len(sent) \in Nat /\ Len(sent) >= 1 /\ DOMAIN sent = 1..Len(sent)
      /\ sent' \in Seq(Remote) /\ Len(sent') = Len(sent) - 1 /\ DOMAIN sent' = 1..(Len(sent) - 1)
      /\ Head(sent) = sent[1] /\ Head(sent) \in Remote
      /\ \A i \in 1..(Len(sent) - 1) : sent'[i] = sent[i + 1]
  OBVIOUS
<1>2. \A j \in DOMAIN sent : j = 1 \/ (j - 1 \in DOMAIN sent' /\ sent'[j - 1] = sent[j])
  BY <1>1
<1>3. \A i \in DOMAIN sent' : i + 1 \in DOMAIN sent /\ sent'[i] = sent[i + 1]
  BY <1>1
<1>4. 1 \in DOMAIN sent
  BY <1>1
<1>5. HasInfo <=> Head(sent) = "info" \/ HasInfo'
  BY <1>1, <1>2, <1>3, <1>4 DEF HasInfo
<1>6. HasInfo' => Len(sent') >= 1
  BY <1>1 DEF HasInfo
<1> QED
  BY <1>1, <1>5, <1>6

LEMMA InfoSent == ASSUME sent \in Seq(Remote), HasInfo PROVE Len(sent) >= 1
BY DEF HasInfo

LEMMA Empty == ASSUME sent' = <<>> PROVE ~HasInfo' /\ Len(sent') = 0 /\ sent' \in Seq(Remote)
BY DEF HasInfo

\* A configuration changes only for a command that was typed.
LEMMA ExecuteCount ==
    ASSUME CountTypes, Execute
    PROVE  CountTypes'
<1> DEFINE c == Head(sent)
<1>1. /\ sent \in Seq(Remote) /\ sent # <<>> /\ sent' = Tail(sent) /\ ui' = ui /\ typed' = typed
      /\ cfg' = (IF c = "config" THEN cfg + 1 ELSE cfg) /\ main' = main
      /\ cfg \in Nat /\ typed \in Nat /\ typed <= MaxKeys /\ Pending' = Pending /\ Pending \in 0..1
      /\ MaxKeys \in Nat
  BY BoundsAssumption DEF Execute, CountTypes, Pending
<1>2. /\ sent' \in Seq(Remote) /\ Len(sent) \in Nat
      /\ Len(sent) >= 1 /\ Len(sent') = Len(sent) - 1
      /\ HasInfo <=> c = "info" \/ HasInfo'
      /\ HasInfo' => Len(sent') >= 1
  BY <1>1, SentTail
<1> HIDE DEF c
<1>3. Counted'
  BY <1>1, <1>2 DEF CountTypes, Counted
<1>4. cfg' \in 0..MaxKeys
  <2>1. cfg' + Len(sent') + Pending' <= typed + 1
        /\ (~HasInfo' => cfg' + Len(sent') + Pending' <= typed)
    BY <1>1, <1>3 DEF Counted
  <2>2. cfg' \in Nat /\ cfg' <= typed
    BY <1>1, <1>2, <2>1
  <2> QED
    BY <1>1, <2>2
<1> QED
  BY <1>1, <1>2, <1>3, <1>4 DEF CountTypes

LEMMA CountKept == ASSUME CountTypes, LabelTypes, Next PROVE CountTypes'
<1> USE DEF serverVars, loopVars, viewVars
<1>a. /\ sent \in Seq(Remote) /\ Len(sent) \in Nat /\ cfg \in Nat /\ cfg <= MaxKeys /\ typed \in Nat
      /\ typed <= MaxKeys /\ MaxKeys \in Nat /\ Pending \in 0..1
  BY BoundsAssumption DEF CountTypes, Pending
<1>b. cfg + Pending <= typed
  <2>1. CASE HasInfo
    <3>1. Len(sent) >= 1
      BY <1>a, <2>1, InfoSent
    <3> QED
      BY <1>a, <3>1 DEF CountTypes, Counted
  <2>2. CASE ~HasInfo
    BY <1>a, <2>2 DEF CountTypes, Counted
  <2> QED
    BY <2>1, <2>2
<1>1. CASE Measure \/ Broadcast \/ WriteResult \/ Connect \/ StartRecv \/ Recv \/ RecvEnds
           \/ Subscribe \/ Store \/ Handle \/ DrawView
  <2>1. UNCHANGED <<sent, cfg, typed, ui, main>>
    BY <1>1 DEF Measure, Broadcast, WriteResult, Connect, StartRecv, Recv, RecvEnds,
       Subscribe, Store, Handle, DrawView
  <2> QED
    BY <2>1 DEF CountTypes, Counted, Pending, HasInfo
<1>2. CASE StartLoop \/ MainJoin
  BY <1>2 DEF StartLoop, MainJoin, CountTypes, Counted, Pending, HasInfo
<1>3. CASE Lose \/ PostRun
  <2>1. UNCHANGED <<cfg, typed, main>> /\ (Pending' = Pending \/ Pending' = 0)
    BY <1>3 DEF Lose, PostRun, ExitFn, Pending, Remote
  <2>2. Len(sent') = 0 /\ sent' \in Seq(Remote)
    BY <1>3, Empty DEF Lose, PostRun, ExitFn
  <2>3. CASE Pending' = Pending
    BY <1>a, <1>b, <2>1, <2>2, <2>3 DEF CountTypes, Counted
  <2>4. CASE Pending' = 0
    BY <1>a, <1>b, <2>1, <2>2, <2>4 DEF CountTypes, Counted
  <2> QED
    BY <2>1, <2>3, <2>4
<1>4. CASE StartInfo
  <2>1. UNCHANGED <<cfg, typed, ui>> /\ Pending' = Pending /\ main = "init"
    BY <1>4 DEF StartInfo, Pending
  <2>2. cfg + Len(sent) + Pending <= typed
    BY <2>1 DEF CountTypes, Counted
  <2>3. CASE sent' = sent
    BY <1>a, <2>1, <2>2, <2>3 DEF CountTypes, Counted, HasInfo
  <2>4. CASE sent' = Append(sent, "info")
    <3>1. sent' \in Seq(Remote) /\ Len(sent') = Len(sent) + 1 /\ HasInfo' /\ main' = "loop"
      BY <1>4, <1>a, <2>4, SentAppend DEF Remote, StartInfo
    <3> QED
      BY <1>a, <2>1, <2>2, <3>1 DEF CountTypes, Counted
  <2> QED
    BY <1>4, <2>3, <2>4 DEF StartInfo, Command
<1>5. CASE TypeConnected
  <2>1. /\ UNCHANGED <<cfg, typed, main>> /\ Pending = 1 /\ Pending' = 0
        /\ sent' = sent \/ (sent' = Append(sent, ui) /\ ui \in Remote)
    BY <1>5 DEF TypeConnected, Pending, Command, Remote
  <2>2. /\ sent' \in Seq(Remote) /\ Len(sent') \in Nat /\ Len(sent') <= Len(sent) + 1
        /\ HasInfo => HasInfo'
    BY <1>a, <2>1, SentAppend DEF HasInfo
  <2> QED
    BY <1>a, <2>1, <2>2 DEF CountTypes, Counted
<1>6. ASSUME NEW k \in Keys, Type(k) PROVE CountTypes'
  <2>1. typed' = typed + 1 /\ typed < MaxKeys /\ UNCHANGED <<cfg, main>> /\ Pending = 0
    BY <1>6 DEF Type, Pending, Remote
  <2>2. Pending' = 0 \/ Pending' = 1
    BY DEF Pending
  <2>3. CASE sent' = <<>>
    <3>1. Len(sent') = 0 /\ sent' \in Seq(Remote)
      BY <2>3, Empty
    <3>2. CASE Pending' = 0
      BY <1>a, <1>b, <2>1, <3>1, <3>2 DEF CountTypes, Counted
    <3>3. CASE Pending' = 1
      BY <1>a, <1>b, <2>1, <3>1, <3>3 DEF CountTypes, Counted
    <3> QED
      BY <2>2, <3>2, <3>3
  <2>4. CASE sent' = sent
    <3>1. HasInfo' = HasInfo
      BY <2>4 DEF HasInfo
    <3>2. CASE Pending' = 0
      BY <1>a, <2>1, <2>4, <3>1, <3>2 DEF CountTypes, Counted
    <3>3. CASE Pending' = 1
      BY <1>a, <2>1, <2>4, <3>1, <3>3 DEF CountTypes, Counted
    <3> QED
      BY <2>2, <3>2, <3>3
  <2>5. CASE sent' = Append(sent, k) /\ k \in Remote /\ ui' = ui
    <3>1. sent' \in Seq(Remote) /\ Len(sent') = Len(sent) + 1 /\ (HasInfo => HasInfo')
      BY <1>a, <2>5, SentAppend
    <3>2. Pending' = 0
      BY <2>1, <2>5 DEF Pending
    <3> QED
      BY <1>a, <2>1, <3>1, <3>2 DEF CountTypes, Counted
  <2> QED
    BY <1>6, <2>3, <2>4, <2>5, KeysAssumption DEF Type, ExitFn, Command
<1> QED
  BY <1>1, <1>2, <1>3, <1>4, <1>5, <1>6, ExecuteCount, Steps

LEMMA StateTypesKept == ASSUME StateTypes, CountTypes, Next PROVE StateTypes'
<1> USE DEF serverVars, loopVars, viewVars
<1>1. CASE Measure
  <2>1. /\ measured' = Append(measured, cfg) /\ told' = told /\ cfg \in 0..MaxKeys
        /\ Len(measured) < MaxStates /\ measured \in Seq(0..MaxKeys) /\ told \in 0..Len(measured)
        /\ MaxStates \in Nat
    BY <1>1, BoundsAssumption DEF Measure, StateTypes, CountTypes
  <2>2. /\ measured' \in Seq(0..MaxKeys) /\ Len(measured') = Len(measured) + 1
        /\ Len(measured) \in Nat
    BY <2>1
  <2> QED
    BY <2>1, <2>2 DEF StateTypes
<1>2. CASE Broadcast
  BY <1>2 DEF Broadcast, StateTypes
<1>3. CASE ~(Measure \/ Broadcast)
  <2>1. UNCHANGED <<measured, told>>
    BY <1>3, Steps DEF Execute, WriteResult, Lose, Connect, StartRecv, StartInfo, StartLoop,
       MainJoin, Recv, RecvEnds, Subscribe, Store, Handle, DrawView, PostRun, TypeConnected, Type
  <2> QED
    BY <2>1 DEF StateTypes
<1> QED
  BY <1>1, <1>2, <1>3

LEMMA ElementOf == ASSUME NEW S, NEW q \in Seq(S), NEW n \in 1..Len(q) PROVE q[n] \in S
OBVIOUS

LEMMA StateOf ==
    ASSUME StateTypes, NEW n \in 1..Len(measured)
    PROVE  State(n) \in States
<1>1. Len(measured) \in Nat /\ n \in 1..MaxStates
  BY BoundsAssumption DEF StateTypes
<1>2. measured[n] \in 0..MaxKeys
  BY ElementOf DEF StateTypes
<1> QED
  BY <1>1, <1>2 DEF State, States

Told == [type |-> "state", state |-> State(told)]

LEMMA ToldMessage ==
    ASSUME StateTypes, told > 0
    PROVE  Told \in Messages
<1>1. told \in 1..Len(measured)
  BY DEF StateTypes
<1>2. State(told) \in States
  BY <1>1, StateOf
<1> DEFINE x == State(told)
<1> HIDE DEF x
<1>3. [type |-> "state", state |-> x] \in Messages
  BY <1>2 DEF Messages, x
<1> QED
  BY <1>3 DEF Told, x

LEMMA ToldNext ==
    ASSUME StateTypes, Broadcast
    PROVE  /\ told' > 0 /\ told' = told + 1 /\ measured' = measured
           /\ Told' = [type |-> "state", state |-> State(told + 1)] /\ Told' \in Messages
<1> USE DEF serverVars
<1>1. told' = told + 1 /\ measured' = measured /\ told \in Nat /\ told < Len(measured)
  BY DEF Broadcast, StateTypes
<1>2. Told' = [type |-> "state", state |-> State(told + 1)]
  BY <1>1 DEF Told, State
<1>3. told + 1 \in 1..Len(measured)
  BY <1>1 DEF StateTypes
<1>4. State(told + 1) \in States
  BY <1>3, StateOf
<1> DEFINE x == State(told + 1)
<1> HIDE DEF x
<1>5. [type |-> "state", state |-> x] \in Messages
  BY <1>4 DEF Messages, x
<1> QED
  BY <1>1, <1>2, <1>5 DEF x

LEMMA ExecuteWire ==
    ASSUME WireTypes, StateTypes, CountTypes, Execute
    PROVE  WireTypes'
<1> DEFINE c == Head(sent)
           n == Len(measured)
           v == IF c \in {"info", "state"} /\ n > 0 THEN [stamp |-> n, cfg |-> cfg] ELSE None
           x == cfg'
<1>1. /\ sent \in Seq(Remote) /\ sent # <<>> /\ wire' = wire /\ cfg \in 0..MaxKeys
      /\ rsp' = [type |-> "result", cmd |-> c, cfg |-> cfg', state |-> v]
  BY DEF Execute, CountTypes, serverVars
<1>2. c \in Remote
  BY <1>1
<1>3. x \in 0..MaxKeys
  BY ExecuteCount DEF CountTypes
<1>4. v \in States \cup {None}
  <2>1. n \in Nat /\ n <= MaxStates
    BY DEF StateTypes
  <2>2. n > 0 => [stamp |-> n, cfg |-> cfg] \in States
    BY <1>1, <2>1, BoundsAssumption DEF States
  <2> QED
    BY <2>2
<1> HIDE DEF c, v, x
<1>5. [type |-> "result", cmd |-> c, cfg |-> x, state |-> v] \in Messages
  BY <1>2, <1>3, <1>4 DEF Messages
<1> QED
  BY <1>1, <1>5 DEF WireTypes, x

LEMMA WireEnds ==
    ASSUME WireTypes, rsp' = rsp \/ rsp' = None, wire' = wire \/ wire' = <<>>
    PROVE  WireTypes'
<1>1. <<>> \in Seq(Messages)
  OBVIOUS
<1>2. CASE wire' = wire
  BY <1>2 DEF WireTypes
<1>3. CASE wire' = <<>>
  BY <1>1, <1>3 DEF WireTypes
<1> QED
  BY <1>2, <1>3

LEMMA WireTypesKept == ASSUME WireTypes, StateTypes, CountTypes, Next PROVE WireTypes'
<1> USE DEF serverVars, loopVars, viewVars
<1>1. CASE Broadcast
  <2>1. wire' = wire \/ wire' = Append(wire, Told')
    BY <1>1, ToldNext DEF Broadcast
  <2>2. Told' \in Messages /\ wire \in Seq(Messages) /\ rsp' = rsp
    BY <1>1, ToldNext DEF Broadcast, WireTypes
  <2>3. wire' \in Seq(Messages)
    BY <2>1, <2>2
  <2> QED
    BY <2>2, <2>3 DEF WireTypes
<1>2. CASE WriteResult
  BY <1>2 DEF WriteResult, WireTypes
<1>3. CASE Connect
  <2>1. [type |-> "status"] \in Messages
    BY DEF Messages
  <2> QED
    BY <1>3, <2>1 DEF Connect, WireTypes
<1>4. CASE Recv
  BY <1>4 DEF Recv, WireTypes
<1>5. CASE Lose \/ PostRun
  <2>1. rsp' = None /\ (wire' = wire \/ wire' = <<>>)
    BY <1>5 DEF Lose, PostRun, ExitFn
  <2> QED
    BY <2>1, WireEnds
<1>6. CASE Measure \/ StartRecv \/ StartInfo \/ StartLoop \/ MainJoin \/ RecvEnds \/ Subscribe
           \/ Store \/ Handle \/ DrawView \/ TypeConnected
  BY <1>6 DEF Measure, StartRecv, StartInfo, StartLoop, MainJoin, RecvEnds, Subscribe, Store, Handle,
     DrawView, TypeConnected, WireTypes
<1>7. ASSUME NEW k \in Keys, Type(k) PROVE WireTypes'
  <2>1. (rsp' = rsp \/ rsp' = None) /\ (wire' = wire \/ wire' = <<>>)
    BY <1>7 DEF Type, ExitFn
  <2> QED
    BY <2>1, WireEnds
<1> QED
  BY <1>1, <1>2, <1>3, <1>4, <1>5, <1>6, <1>7, ExecuteWire, Steps

LEMMA HeardTypesKept == ASSUME HeardTypes, WireTypes, LabelTypes, Next PROVE HeardTypes'
<1> USE DEF serverVars, loopVars, viewVars
<1>1. CASE Recv
  <2>1. Head(wire) \in Messages /\ msgs' = msgs
    BY <1>1 DEF Recv, WireTypes
  <2>2. \/ heard' = heard
        \/ heard' = Append(heard, Head(wire)) /\ Head(wire) \in Published /\ Subscribed
    BY <1>1, <2>1 DEF Recv, Published
  <2> QED
    BY <2>1, <2>2 DEF HeardTypes, Subscribed
<1>2. CASE Handle
  <2>1. heard' = Tail(heard) /\ heard # <<>> /\ msgs' = msgs /\ Subscribed
    BY <1>2 DEF Handle, Subscribed
  <2> QED
    BY <2>1 DEF HeardTypes, Subscribed
<1>3. CASE ~(Recv \/ Handle)
  <2>1. heard' = heard
    BY <1>3, Steps DEF Measure, Broadcast, Execute, WriteResult, Lose, Connect, StartRecv, StartInfo,
       StartLoop, MainJoin, RecvEnds, Subscribe, Store, DrawView, PostRun, TypeConnected, Type
  <2>2. ~Subscribed' => heard = <<>>
    <3>1. CASE StartLoop \/ Subscribe
      BY <1>3, <3>1 DEF StartLoop, Subscribe, HeardTypes, LabelTypes, Subscribed
    <3>2. CASE Store \/ PostRun
      BY <3>2 DEF Store, PostRun, Subscribed
    <3>3. CASE ~(StartLoop \/ Subscribe \/ Store \/ PostRun)
      <4>1. msgs' = msgs
        BY <1>3, <3>3, Steps DEF Measure, Broadcast, Execute, WriteResult, Lose, Connect, StartRecv,
           StartInfo, MainJoin, RecvEnds, DrawView, TypeConnected, Type
      <4> QED
        BY <4>1 DEF HeardTypes, Subscribed
    <3> QED
      BY <3>1, <3>2, <3>3
  <2> QED
    BY <2>1, <2>2 DEF HeardTypes
<1> QED
  BY <1>1, <1>2, <1>3

\* What the message loop handles, and what it leaves to be drawn.
LEMMA MessageParts ==
    ASSUME NEW m \in Messages
    PROVE  /\ m.type = "state" => m.state \in States /\ m = [type |-> "state", state |-> m.state]
           /\ m.type = "result" =>
                m.cmd \in Remote /\ m.state \in States \cup {None} /\ m.cfg \in 0..MaxKeys
           /\ m.type \in {"state", "result", "status"}
<1>1. CASE m \in [type : {"state"}, state : States]
  BY <1>1
<1>2. CASE m \in [type : {"result"}, cmd : Remote, state : States \cup {None}, cfg : 0..MaxKeys]
  BY <1>2
<1>3. CASE m \in [type : {"status"}]
  BY <1>3
<1> QED
  BY <1>1, <1>2, <1>3 DEF Messages

DrawnLists == {<<>>, <<"info">>, <<"config">>, <<"top", "config">>, <<"top", "config", "info">>}

LEMMA DrawnListsTyped ==
    ASSUME NEW q \in DrawnLists
    PROVE  /\ q \in Seq(Views)
           /\ q \in {<<>>, <<"info">>} => \A k \in 1..Len(q) : q[k] = "info"
<1>1. CASE q = <<>>
  BY <1>1
<1>2. CASE q = <<"info">>
  BY <1>2 DEF Views
<1>3. CASE q = <<"config">>
  BY <1>3 DEF Views
<1>4. CASE q = <<"top", "config">>
  BY <1>4 DEF Views
<1>5. CASE q = <<"top", "config", "info">>
  BY <1>5 DEF Views
<1> QED
  BY <1>1, <1>2, <1>3, <1>4, <1>5 DEF DrawnLists

LEMMA HandleResultTyped ==
    ASSUME ViewTypes, NEW m \in Messages, m.type = "result", HandleResult(m)
    PROVE  /\ lastState' \in States \cup {None} /\ todo' \in DrawnLists
           /\ todo' \notin {<<>>, <<"info">>} => lastState' # None
<1>0. /\ m.cmd \in Remote /\ m.state \in States \cup {None} /\ m.cfg \in 0..MaxKeys
      /\ lastState \in States \cup {None} /\ None \notin States
  BY MessageParts, NoneAssumption DEF ViewTypes
<1>1. CASE m.state # None
  <2>1. lastState' = m.state /\ todo' \in {<<"top", "config">>, <<"top", "config", "info">>}
    BY <1>1 DEF HandleResult
  <2> QED
    BY <1>0, <1>1, <2>1 DEF DrawnLists
<1>2. CASE m.state = None
  <2>1. lastState' \in States \cup {None} /\ (lastState # None => lastState' # None)
    <3>1. CASE m.cmd = "config" /\ lastState # None
      <4> DEFINE x == lastState
      <4>1. x \in States /\ lastState' = [x EXCEPT !.cfg = m.cfg]
        BY <1>0, <1>2, <3>1 DEF HandleResult
      <4> HIDE DEF x
      <4>2. [x EXCEPT !.cfg = m.cfg] \in States
        BY <1>0, <4>1 DEF States
      <4> QED
        BY <1>0, <4>1, <4>2
    <3>2. CASE ~(m.cmd = "config" /\ lastState # None)
      <4>1. lastState' = lastState
        BY <1>2, <3>2, Zenon DEF HandleResult
      <4> QED
        BY <1>0, <4>1
    <3> QED
      BY <3>1, <3>2
  <2>2. todo' \in {<<>>, <<"info">>} \/ (todo' = <<"config">> /\ lastState # None)
    <3>1. CASE m.cmd \in {"info", "period"}
      BY <1>2, <3>1 DEF HandleResult
    <3>2. CASE m.cmd = "config"
      BY <1>2, <3>2 DEF HandleResult, ConfigViews
    <3>3. CASE m.cmd \notin {"info", "period", "config"}
      BY <1>2, <3>3 DEF HandleResult
    <3> QED
      BY <3>1, <3>2, <3>3
  <2> QED
    BY <2>1, <2>2 DEF DrawnLists
<1> QED
  BY <1>1, <1>2

LEMMA HandleViews ==
    ASSUME ViewTypes, HeardTypes, Handle
    PROVE  ViewTypes'
<1> DEFINE m == Head(heard)
<1>1. m \in Messages /\ m.type # "status" /\ view' = view
  <2>1. m \in Published
    BY DEF Handle, HeardTypes
  <2> QED
    BY <2>1 DEF Handle, Published
<1>2. /\ lastState' \in States \cup {None} /\ todo' \in DrawnLists
      /\ todo' \notin {<<>>, <<"info">>} => lastState' # None
  <2>1. CASE m.type = "state"
    <3>1. lastState' = m.state /\ todo' = <<"top", "config">>
      BY <2>1 DEF Handle, HandleState
    <3> QED
      BY <1>1, <2>1, <3>1, MessageParts, NoneAssumption DEF DrawnLists
  <2>2. CASE m.type # "state"
    <3>1. HandleResult(m) /\ m.type = "result"
      BY <1>1, <2>2, MessageParts DEF Handle
    <3> QED
      BY <1>1, <3>1, HandleResultTyped
  <2> QED
    BY <2>1, <2>2
<1>3. todo' \in Seq(Views)
  BY <1>2, DrawnListsTyped
<1>4. (\E v \in {"top", "config"} : \E k \in 1..Len(todo') : todo'[k] = v) => lastState' # None
  BY <1>2, DrawnListsTyped
<1> QED
  BY <1>1, <1>2, <1>3, <1>4 DEF ViewTypes

LEMMA DrawTyped ==
    ASSUME ViewTypes, DrawView
    PROVE  ViewTypes'
<1> DEFINE v == Head(todo)
<1>1. /\ todo \in Seq(Views) /\ todo # <<>> /\ todo' = Tail(todo) /\ lastState' = lastState
      /\ view \in [top : 0..MaxStates, cfg : 0..MaxKeys \cup {None}]
      /\ view' = CASE v = "top" -> [view EXCEPT !.top = lastState.stamp]
                   [] v = "config" -> [view EXCEPT !.cfg = lastState.cfg]
                   [] OTHER -> view
  BY DEF DrawView, ViewTypes
<1>2. /\ todo' \in Seq(Views) /\ Len(todo) \in Nat /\ Len(todo) >= 1 /\ v = todo[1]
      /\ Len(todo') = Len(todo) - 1 /\ \A k \in 1..Len(todo') : todo'[k] = todo[k + 1]
  BY <1>1
<1>3. \A k \in 1..Len(todo') : k + 1 \in 1..Len(todo)
  BY <1>2
<1>4. v \in {"top", "config"} => lastState \in States
  BY <1>2 DEF ViewTypes
<1>5. (\E x \in {"top", "config"} : \E k \in 1..Len(todo') : todo'[k] = x) => lastState' # None
  BY <1>1, <1>2, <1>3 DEF ViewTypes
<1> HIDE DEF v
<1>6. view' \in [top : 0..MaxStates, cfg : 0..MaxKeys \cup {None}]
  <2>1. CASE v = "top"
    <3>1. lastState.stamp \in 0..MaxStates
      BY <1>4, <2>1, BoundsAssumption DEF States
    <3> QED
      BY <1>1, <2>1, <3>1
  <2>2. CASE v = "config"
    <3>1. lastState.cfg \in 0..MaxKeys
      BY <1>4, <2>2 DEF States
    <3>2. view' = [view EXCEPT !.cfg = lastState.cfg]
      BY <1>1, <2>2
    <3> QED
      BY <1>1, <3>1, <3>2
  <2>3. CASE v \notin {"top", "config"}
    BY <1>1, <2>3
  <2> QED
    BY <2>1, <2>2, <2>3
<1> QED
  BY <1>1, <1>2, <1>5, <1>6 DEF ViewTypes

LEMMA ViewKept ==
    ASSUME Next, ~Handle, ~DrawView
    PROVE  UNCHANGED viewVars
BY Steps DEF viewVars, loopVars, serverVars, Measure, Broadcast, Execute, WriteResult, Lose, Connect,
   StartRecv, StartInfo, StartLoop, MainJoin, Recv, RecvEnds, Subscribe, Store, PostRun,
   TypeConnected, Type

LEMMA TypesKept == ASSUME Types, [Next]_vars PROVE Types'
<1>1. CASE UNCHANGED vars
  BY <1>1 DEF vars, serverVars, loopVars, viewVars, Types, LabelTypes, Flags, CountTypes, Counted,
     Pending, HasInfo, StateTypes, WireTypes, HeardTypes, Subscribed, ViewTypes
<1>2. CASE Next
  <2>1. ViewTypes'
    <3>1. CASE ~Handle /\ ~DrawView
      BY <1>2, <3>1, ViewKept DEF Types, ViewTypes, viewVars
    <3> QED
      BY <3>1, HandleViews, DrawTyped DEF Types
  <2> QED
    BY <1>2, <2>1, LabelsKept, FlagsKept, CountKept, StateTypesKept, WireTypesKept, HeardTypesKept
       DEF Types
<1> QED
  BY <1>1, <1>2

LEMMA TypesAlways == Spec => []Types
BY InitTypes, TypesKept, PTL DEF Spec

\* Every reachable state of a control client is well typed: the server never executes more
\* changes of its configuration than were typed, nothing is heard before the subscription,
\* and nothing is drawn that needs a state before there is one (run.go:31-148).
THEOREM TypeCorrect == Spec => []TypeOK
BY TypesAlways, TypesTyped, PTL

------------------------------------------------------------------------------
(* What was broadcast last is on its way, or on the screen.                   *)

Quiet(q) == \A i \in DOMAIN q : q[i].type # "state"
Ends(q, m) == \E i \in DOMAIN q : q[i] = m /\ \A j \in DOMAIN q : i < j => q[j].type # "state"

\* nothing comes over the connection any more
Ended == conn = "closed" \/ (transport = "tcp" /\ conn = "lost")

\* the last broadcast in the connection, else in the channel, else the last handled, is the
\* newest state
Delivery ==
    /\ Quiet(wire) \/ (told > 0 /\ Ends(wire, Told))
    /\ Quiet(wire) => Quiet(heard) \/ (told > 0 /\ Ends(heard, Told))
    /\ Quiet(wire) /\ Quiet(heard) /\ newest => told > 0 /\ lastState = State(told)

\* before there is a connection, and before the subscription, nothing is heard
Unreached ==
    /\ conn = "dialing" => wire = <<>> /\ heard = <<>> /\ ~newest
    /\ ~Subscribed => ~newest
Closing == shut => Ended
Answering == rsp # None => rsp.type = "result"

\* what of a broadcast is still to be drawn, and what has been drawn
Drawn ==
    newest =>
        /\ lastState # None /\ todo \in {<<"top", "config">>, <<"config">>, <<>>}
        /\ todo # <<"top", "config">> => view.top = lastState.stamp
        /\ todo = <<>> => view.cfg = lastState.cfg

ScreenInv == (~Ended => Delivery) /\ Unreached /\ Closing /\ Answering /\ Drawn

LEMMA OnAppend ==
    ASSUME NEW S, NEW q \in Seq(S), NEW m
    PROVE  /\ Quiet(Append(q, m)) <=> Quiet(q) /\ m.type # "state"
           /\ m.type = "state" => Ends(Append(q, m), m)
           /\ m.type # "state" => \A x : Ends(q, x) => Ends(Append(q, m), x)
<1> DEFINE t == Append(q, m)
<1>1. /\ Len(q) \in Nat /\ DOMAIN q = 1..Len(q) /\ DOMAIN t = 1..(Len(q) + 1)
      /\ t[Len(q) + 1] = m /\ \A i \in DOMAIN q : t[i] = q[i]
  OBVIOUS
<1> HIDE DEF t
<1>2. Len(q) + 1 \in DOMAIN t /\ \A i \in DOMAIN t : i \in DOMAIN q \/ i = Len(q) + 1
  BY <1>1
<1>3. DOMAIN q \subseteq DOMAIN t /\ \A i \in DOMAIN t : ~(Len(q) + 1 < i)
  BY <1>1
<1>4. Quiet(t) <=> Quiet(q) /\ m.type # "state"
  BY <1>1, <1>2, <1>3 DEF Quiet
<1>5. m.type = "state" => Ends(t, m)
  BY <1>1, <1>2, <1>3 DEF Ends
<1>6. ASSUME m.type # "state", NEW x, Ends(q, x)
      PROVE  Ends(t, x)
  <2>1. PICK i \in DOMAIN q : q[i] = x /\ \A j \in DOMAIN q : i < j => q[j].type # "state"
    BY <1>6 DEF Ends
  <2>2. i \in DOMAIN t /\ t[i] = x
    BY <1>1, <1>3, <2>1
  <2>3. \A j \in DOMAIN t : i < j => t[j].type # "state"
    BY <1>1, <1>2, <1>6, <2>1
  <2> QED
    BY <2>2, <2>3 DEF Ends
<1> QED
  BY <1>4, <1>5, <1>6 DEF t

LEMMA OnTail ==
    ASSUME NEW S, NEW q \in Seq(S), q # <<>>
    PROVE  /\ Quiet(q) <=> Quiet(Tail(q)) /\ Head(q).type # "state"
           /\ \A x : Ends(q, x) => Ends(Tail(q), x) \/ (Quiet(Tail(q)) /\ Head(q) = x)
<1> DEFINE t == Tail(q)
<1>1. /\ Len(q) \in Nat /\ Len(q) >= 1 /\ DOMAIN q = 1..Len(q) /\ DOMAIN t = 1..(Len(q) - 1)
      /\ Head(q) = q[1] /\ \A i \in 1..(Len(q) - 1) : t[i] = q[i + 1]
  OBVIOUS
<1> HIDE DEF t
<1>2. \A j \in DOMAIN q : j = 1 \/ (j - 1 \in DOMAIN t /\ t[j - 1] = q[j])
  BY <1>1
<1>3. \A i \in DOMAIN t : i + 1 \in DOMAIN q /\ t[i] = q[i + 1]
  BY <1>1
<1>4. 1 \in DOMAIN q
  BY <1>1
<1>5. Quiet(q) <=> Quiet(t) /\ q[1].type # "state"
  BY <1>2, <1>3, <1>4 DEF Quiet
<1>6. ASSUME NEW x, Ends(q, x)
      PROVE  Ends(t, x) \/ (Quiet(t) /\ q[1] = x)
  <2>1. PICK i \in DOMAIN q : q[i] = x /\ \A j \in DOMAIN q : i < j => q[j].type # "state"
    BY <1>6 DEF Ends
  <2>2. CASE i = 1
    <3>1. \A j \in DOMAIN t : t[j].type # "state"
      <4>1. \A j \in DOMAIN t : 1 < j + 1
        BY <1>1
      <4> QED
        BY <1>3, <2>1, <2>2, <4>1
    <3> QED
      BY <2>1, <2>2, <3>1 DEF Quiet
  <2>3. CASE i # 1
    <3>1. i - 1 \in DOMAIN t /\ t[i - 1] = x
      BY <1>2, <2>1, <2>3
    <3>2. \A j \in DOMAIN t : i - 1 < j => i < j + 1
      BY <1>1
    <3>3. \A j \in DOMAIN t : i - 1 < j => t[j].type # "state"
      BY <1>3, <2>1, <3>2
    <3> QED
      BY <3>1, <3>3 DEF Ends
  <2> QED
    BY <2>2, <2>3
<1> QED
  BY <1>1, <1>5, <1>6 DEF t

LEMMA EndsLoud ==
    ASSUME NEW q, NEW x, Ends(q, x), x.type = "state"
    PROVE  ~Quiet(q)
BY DEF Ends, Quiet

LEMMA QuietEmpty == Quiet(<<>>)
BY DEF Quiet

\* Steps that touch neither messages nor states, or that end the connection.
LEMMA DeliveryKept ==
    ASSUME ~Ended => Delivery, UNCHANGED <<wire, heard, newest, lastState, told, measured>>,
           ~Ended' => ~Ended
    PROVE  (~Ended => Delivery)'
BY DEF Delivery, Told, State

LEMMA MeasureDelivery ==
    ASSUME StateTypes, ~Ended => Delivery, Measure
    PROVE  (~Ended => Delivery)'
<1> USE DEF loopVars, viewVars
<1>1. /\ UNCHANGED <<wire, heard, newest, lastState, told, conn, transport>>
      /\ measured' = Append(measured, cfg)
      /\ measured \in Seq(0..MaxKeys) /\ told \in 0..Len(measured)
  BY DEF Measure, StateTypes
<1>2. told > 0 => measured'[told] = measured[told]
  BY <1>1
<1>3. told > 0 => State(told)' = State(told) /\ Told' = Told
  BY <1>1, <1>2 DEF State, Told
<1>4. Ended' = Ended
  BY <1>1 DEF Ended
<1> QED
  BY <1>1, <1>3, <1>4 DEF Delivery, State

LEMMA BroadcastDelivery ==
    ASSUME Types, ~Ended => Delivery, Unreached, Broadcast
    PROVE  (~Ended => Delivery)'
<1> USE DEF loopVars, viewVars
<1>1. /\ UNCHANGED <<heard, newest, lastState, conn, transport, measured>>
      /\ told' > 0 /\ Told' = [type |-> "state", state |-> State(told + 1)]
      /\ wire \in Seq(Messages)
  BY ToldNext DEF Broadcast, Types, WireTypes
<1>2. CASE conn = "open"
  <2>1. wire' = Append(wire, Told')
    BY <1>1, <1>2 DEF Broadcast
  <2>2. Told'.type = "state"
    BY <1>1
  <2>3. Ends(wire', Told') /\ ~Quiet(wire')
    BY <1>1, <2>1, <2>2, OnAppend
  <2> QED
    BY <1>1, <2>3 DEF Delivery
<1>3. CASE conn # "open"
  <2>1. wire' = <<>> /\ heard' = <<>> /\ ~newest'
    BY <1>1, <1>3 DEF Broadcast, Unreached
  <2>2. Quiet(wire') /\ Quiet(heard')
    BY <2>1, QuietEmpty
  <2> QED
    BY <2>1, <2>2 DEF Delivery
<1> QED
  BY <1>2, <1>3

\* An answer or a status comes behind what was broadcast.
LEMMA QuietMessage ==
    ASSUME Types, ~Ended => Delivery, NEW m, m.type # "state", wire' = Append(wire, m),
           UNCHANGED <<heard, newest, lastState, told, measured>>, ~Ended
    PROVE  Delivery'
<1>1. wire \in Seq(Messages)
  BY DEF Types, WireTypes
<1>2. /\ Quiet(wire') <=> Quiet(wire)
      /\ \A x : Ends(wire, x) => Ends(wire', x)
  BY <1>1, OnAppend
<1>3. Told' = Told /\ (State(told))' = State(told)
  BY DEF Told, State
<1> QED
  BY <1>2, <1>3 DEF Delivery

LEMMA RecvDelivery ==
    ASSUME Types, ~Ended => Delivery, Unreached, Closing, Recv
    PROVE  (~Ended => Delivery)'
<1> USE DEF serverVars
<1> DEFINE m == Head(wire)
<1>1. /\ wire \in Seq(Messages) /\ wire # <<>> /\ wire' = Tail(wire) /\ heard \in Seq(Published)
      /\ UNCHANGED <<newest, lastState, told, measured, conn, transport, shut, msgs>>
      /\ heard' = IF m.type # "status" /\ Subscribed /\ ~shut THEN Append(heard, m) ELSE heard
      /\ Told' = Told /\ (State(told))' = State(told)
  BY DEF Recv, Types, WireTypes, HeardTypes, viewVars, Told, State
<1>2. /\ Quiet(wire) <=> Quiet(wire') /\ m.type # "state"
      /\ \A x : Ends(wire, x) => Ends(wire', x) \/ (Quiet(wire') /\ m = x)
  BY <1>1, OnTail
<1>3. /\ Quiet(Append(heard, m)) <=> Quiet(heard) /\ m.type # "state"
      /\ m.type = "state" => Ends(Append(heard, m), m)
      /\ m.type # "state" => \A x : Ends(heard, x) => Ends(Append(heard, m), x)
  BY <1>1, OnAppend
<1> HIDE DEF m
<1>4. Told.type = "state"
  BY DEF Told
<1> SUFFICES ASSUME ~Ended' PROVE Delivery'
  OBVIOUS
<1>5. ~Ended /\ Delivery /\ ~shut
  BY <1>1 DEF Ended, Closing
<1>6. CASE m.type = "state"
  <2>1. told > 0 /\ Ends(wire, Told)
    BY <1>2, <1>5, <1>6 DEF Delivery
  <2>2. Ends(wire', Told) \/ (Quiet(wire') /\ m = Told)
    BY <1>2, <2>1
  <2>3. CASE Ends(wire', Told)
    <3>1. ~Quiet(wire')
      BY <1>4, <2>3, EndsLoud
    <3> QED
      BY <1>1, <2>1, <2>3, <3>1 DEF Delivery
  <2>4. CASE Quiet(wire') /\ m = Told
    <3>1. CASE Subscribed
      <4>1. heard' = Append(heard, m)
        BY <1>1, <1>5, <1>6, <3>1
      <4>2. Ends(heard', Told) /\ ~Quiet(heard')
        BY <1>3, <1>6, <2>4, <4>1
      <4> QED
        BY <1>1, <2>1, <2>4, <4>2 DEF Delivery
    <3>2. CASE ~Subscribed
      <4>1. heard' = <<>> /\ ~newest'
        BY <1>1, <3>2 DEF Types, HeardTypes, Unreached
      <4> QED
        BY <2>4, <4>1, QuietEmpty DEF Delivery
    <3> QED
      BY <3>1, <3>2
  <2> QED
    BY <2>2, <2>3, <2>4
<1>7. CASE m.type # "state"
  <2>1. /\ Quiet(wire') <=> Quiet(wire)
        /\ Ends(wire, Told) => Ends(wire', Told)
    <3>1. m # Told
      BY <1>4, <1>7
    <3> QED
      BY <1>2, <1>7, <3>1
  <2>2. /\ Quiet(heard') <=> Quiet(heard)
        /\ Ends(heard, Told) => Ends(heard', Told)
    BY <1>1, <1>3, <1>7
  <2> QED
    BY <1>1, <1>5, <2>1, <2>2 DEF Delivery
<1> QED
  BY <1>6, <1>7

LEMMA HandleDelivery ==
    ASSUME Types, ~Ended => Delivery, Handle
    PROVE  (~Ended => Delivery)'
<1> USE DEF serverVars
<1> DEFINE m == Head(heard)
<1>1. /\ heard \in Seq(Published) /\ heard # <<>> /\ heard' = Tail(heard)
      /\ UNCHANGED <<wire, told, measured, conn, transport>>
      /\ newest' = (m.type = "state")
      /\ m.type = "state" => lastState' = m.state
      /\ Told' = Told /\ (State(told))' = State(told)
  BY DEF Handle, HandleState, Types, HeardTypes, Told, State
<1>2. /\ Quiet(heard) <=> Quiet(heard') /\ m.type # "state"
      /\ \A x : Ends(heard, x) => Ends(heard', x) \/ (Quiet(heard') /\ m = x)
  BY <1>1, OnTail
<1> HIDE DEF m
<1> SUFFICES ASSUME ~Ended' PROVE Delivery'
  OBVIOUS
<1>3. Delivery
  BY <1>1 DEF Ended
<1>4. Quiet(wire) => Quiet(heard') \/ (told > 0 /\ Ends(heard', Told))
  BY <1>2, <1>3 DEF Delivery
<1>5. ASSUME Quiet(wire), Quiet(heard'), m.type = "state"
      PROVE  told > 0 /\ lastState' = State(told)
  <2>1. told > 0 /\ Ends(heard, Told)
    BY <1>2, <1>3, <1>5 DEF Delivery
  <2>2. Told.type = "state" /\ Told.state = State(told)
    BY DEF Told
  <2>3. ~Ends(heard', Told)
    BY <1>5, <2>2, EndsLoud
  <2>4. m = Told
    BY <1>2, <2>1, <2>3
  <2> QED
    BY <1>1, <1>5, <2>1, <2>2, <2>4
<1> QED
  BY <1>1, <1>3, <1>4, <1>5 DEF Delivery

\* A connection that has ended stays so.
LEMMA EndedStays == ASSUME LabelTypes, Next, Ended PROVE Ended'
<1> USE DEF serverVars, loopVars, viewVars, Ended
<1>1. CASE Connect
  BY <1>1 DEF Connect
<1>2. CASE Lose \/ PostRun
  BY <1>2 DEF Lose, PostRun, ExitFn
<1>3. ASSUME NEW k \in Keys, Type(k) PROVE Ended'
  BY <1>3 DEF Type, ExitFn
<1>4. CASE Measure \/ Broadcast \/ Execute \/ WriteResult \/ StartRecv \/ StartInfo \/ StartLoop
           \/ MainJoin \/ Recv \/ RecvEnds \/ Subscribe \/ Store \/ Handle \/ DrawView \/ TypeConnected
  BY <1>4 DEF Measure, Broadcast, Execute, WriteResult, StartRecv, StartInfo, StartLoop, MainJoin,
     Recv, RecvEnds, Subscribe, Store, Handle, DrawView, TypeConnected
<1> QED
  BY <1>1, <1>2, <1>3, <1>4, Steps

LEMMA DeliveryStep == ASSUME Types, ScreenInv, Next PROVE (~Ended => Delivery)'
<1> USE DEF serverVars, loopVars, viewVars
<1>1. ~Ended' => ~Ended
  BY EndedStays DEF Types
<1>2. CASE WriteResult
  <2>1. /\ wire' = Append(wire, rsp) /\ rsp.type # "state"
        /\ UNCHANGED <<heard, newest, lastState, told, measured>>
    BY <1>2 DEF WriteResult, ScreenInv, Answering
  <2> QED
    BY <1>1, <2>1, QuietMessage DEF ScreenInv
<1>3. CASE Connect
  <2>1. /\ wire' = Append(wire, [type |-> "status"]) /\ [type |-> "status"].type # "state"
        /\ UNCHANGED <<heard, newest, lastState, told, measured>>
    BY <1>3 DEF Connect
  <2>2. ~Ended
    BY <1>3 DEF Connect, Ended
  <2> QED
    BY <2>1, <2>2, QuietMessage DEF ScreenInv
<1>4. CASE Execute \/ Lose \/ StartRecv \/ StartInfo \/ StartLoop \/ MainJoin \/ RecvEnds
           \/ Subscribe \/ Store \/ DrawView \/ TypeConnected
  <2>1. UNCHANGED <<wire, heard, newest, lastState, told, measured>>
    BY <1>4 DEF Execute, Lose, StartRecv, StartInfo, StartLoop, MainJoin, RecvEnds, Subscribe, Store,
       DrawView, TypeConnected
  <2> QED
    BY <1>1, <2>1, DeliveryKept DEF ScreenInv
<1>5. CASE PostRun
  BY <1>5 DEF PostRun, ExitFn, Ended
<1>6. ASSUME NEW k \in Keys, Type(k) PROVE (~Ended => Delivery)'
  <2>1. CASE k = "exit"
    BY <1>6, <2>1 DEF Type, ExitFn, Ended
  <2>2. CASE k # "exit"
    <3>1. UNCHANGED <<wire, heard, newest, lastState, told, measured>>
      BY <1>6, <2>2 DEF Type
    <3> QED
      BY <1>1, <3>1, DeliveryKept DEF ScreenInv
  <2> QED
    BY <2>1, <2>2
<1> QED
  BY <1>2, <1>3, <1>4, <1>5, <1>6, MeasureDelivery, BroadcastDelivery, RecvDelivery, HandleDelivery,
     Steps DEF ScreenInv, Types

LEMMA UnreachedStep == ASSUME Types, Unreached, Next PROVE Unreached'
<1> USE DEF serverVars, loopVars, viewVars
<1>1. CASE Measure \/ Execute \/ WriteResult \/ StartRecv \/ StartInfo \/ MainJoin \/ RecvEnds
           \/ DrawView \/ TypeConnected
  <2>1. UNCHANGED <<conn, heard, newest, msgs>> /\ (wire' = wire \/ conn = "open")
    BY <1>1 DEF Measure, Execute, WriteResult, StartRecv, StartInfo, MainJoin, RecvEnds, DrawView,
       TypeConnected
  <2> QED
    BY <2>1 DEF Unreached, Subscribed
<1>2. CASE Broadcast
  BY <1>2 DEF Broadcast, Unreached, Subscribed
<1>3. CASE Lose \/ Connect
  <2>1. conn' # "dialing" /\ UNCHANGED <<newest, msgs>>
    BY <1>3 DEF Lose, Connect
  <2> QED
    BY <2>1 DEF Unreached, Subscribed
<1>4. CASE StartLoop
  <2>1. ~Subscribed
    BY <1>4 DEF StartLoop, Types, LabelTypes, Subscribed
  <2> QED
    BY <1>4, <2>1 DEF StartLoop, Unreached
<1>5. CASE Recv
  <2>1. conn # "dialing" /\ UNCHANGED <<conn, newest, msgs>>
    BY <1>5 DEF Recv, Unreached
  <2> QED
    BY <2>1 DEF Unreached, Subscribed
<1>6. CASE Handle
  <2>1. conn # "dialing" /\ conn' = conn /\ Subscribed'
    BY <1>6 DEF Handle, Unreached, Subscribed
  <2> QED
    BY <2>1 DEF Unreached
<1>7. CASE Subscribe \/ Store
  <2>1. UNCHANGED <<conn, wire, heard, newest>> /\ Subscribed'
    BY <1>7 DEF Subscribe, Store, Subscribed
  <2> QED
    BY <2>1 DEF Unreached
<1>8. CASE PostRun
  <2>1. conn' # "dialing" /\ Subscribed'
    BY <1>8 DEF PostRun, ExitFn, Subscribed
  <2> QED
    BY <2>1 DEF Unreached
<1>9. ASSUME NEW k \in Keys, Type(k) PROVE Unreached'
  <2>1. (conn' = "closed" \/ UNCHANGED <<conn, wire>>) /\ UNCHANGED <<heard, newest, msgs>>
    BY <1>9 DEF Type, ExitFn
  <2> QED
    BY <2>1 DEF Unreached, Subscribed
<1> QED
  BY <1>1, <1>2, <1>3, <1>4, <1>5, <1>6, <1>7, <1>8, <1>9, Steps

LEMMA ClosingStep == ASSUME Types, Closing, Next PROVE Closing'
<1> USE DEF serverVars, loopVars, viewVars
<1>1. Ended => Ended'
  BY EndedStays DEF Types
<1>2. CASE shut' => shut
  BY <1>1, <1>2 DEF Closing
<1>3. CASE StartInfo \/ RecvEnds \/ TypeConnected
  <2>1. UNCHANGED <<conn, transport>> /\ (shut' = shut \/ (transport = "tcp" /\ conn \in {"lost", "closed"}))
    BY <1>3 DEF StartInfo, RecvEnds, TypeConnected, Command
  <2> QED
    BY <1>1, <2>1 DEF Closing, Ended
<1>4. CASE Subscribe
  BY <1>4 DEF Subscribe, Closing, Ended
<1>5. CASE PostRun
  BY <1>5 DEF PostRun, ExitFn, Closing, Ended
<1>6. ASSUME NEW k \in Keys, Type(k) PROVE Closing'
  <2>1. \/ shut' = shut \/ conn' = "closed"
        \/ UNCHANGED <<conn, transport>> /\ transport = "tcp" /\ conn \in {"lost", "closed"}
    BY <1>6 DEF Type, ExitFn, Command
  <2> QED
    BY <1>1, <2>1 DEF Closing, Ended
<1>7. CASE Measure \/ Broadcast \/ Execute \/ WriteResult \/ Lose \/ Connect \/ StartRecv
           \/ StartLoop \/ MainJoin \/ Recv \/ Store \/ Handle \/ DrawView
  <2>1. shut' = shut
    BY <1>7 DEF Measure, Broadcast, Execute, WriteResult, Lose, Connect, StartRecv, StartLoop, MainJoin,
       Recv, Store, Handle, DrawView
  <2> QED
    BY <1>1, <2>1 DEF Closing
<1> QED
  BY <1>3, <1>4, <1>5, <1>6, <1>7, Steps

LEMMA AnsweringStep == ASSUME Answering, Next PROVE Answering'
<1>1. CASE Execute
  <2>1. rsp'.type = "result"
    BY <1>1 DEF Execute
  <2> QED
    BY <2>1 DEF Answering
<1>2. CASE ~Execute
  <2>1. rsp' = rsp \/ rsp' = None
    BY <1>2, Steps DEF serverVars, loopVars, viewVars, Measure, Broadcast, WriteResult, Lose, Connect,
       StartRecv, StartInfo, StartLoop, MainJoin, Recv, RecvEnds, Subscribe, Store, Handle, DrawView,
       PostRun, TypeConnected, Type, ExitFn
  <2> QED
    BY <2>1 DEF Answering
<1> QED
  BY <1>1, <1>2

LEMMA DrawnStep == ASSUME Types, Drawn, Next PROVE Drawn'
<1>1. CASE ~Handle /\ ~DrawView
  BY <1>1, ViewKept DEF Drawn, viewVars
<1>2. CASE Handle
  <2> DEFINE m == Head(heard)
  <2>1. m \in Messages /\ newest' = (m.type = "state")
    <3>1. m \in Published
      BY <1>2 DEF Handle, Types, HeardTypes
    <3> QED
      BY <1>2, <3>1 DEF Handle, Published
  <2>2. CASE m.type = "state"
    <3>1. lastState' = m.state /\ todo' = <<"top", "config">> /\ m.state \in States
      BY <1>2, <2>1, <2>2, MessageParts DEF Handle, HandleState
    <3>2. <<"top", "config">> # <<>>
      OBVIOUS
    <3> QED
      BY <3>1, <3>2, NoneAssumption DEF Drawn
  <2>3. CASE m.type # "state"
    BY <2>1, <2>3 DEF Drawn
  <2> QED
    BY <2>2, <2>3
<1>3. CASE DrawView
  <2>1. /\ newest' = newest /\ lastState' = lastState /\ todo # <<>> /\ todo' = Tail(todo)
        /\ view \in [top : 0..MaxStates, cfg : 0..MaxKeys \cup {None}]
        /\ Head(todo) = "top" => view' = [view EXCEPT !.top = lastState.stamp]
        /\ Head(todo) = "config" => view' = [view EXCEPT !.cfg = lastState.cfg]
    BY <1>3 DEF DrawView, Types, ViewTypes
  <2>2. CASE newest /\ todo = <<"top", "config">>
    <3>1. Head(todo) = "top" /\ todo' = <<"config">> /\ <<"config">> # <<>>
      BY <2>1, <2>2
    <3>2. view'.top = lastState.stamp
      BY <2>1, <3>1
    <3> QED
      BY <2>1, <2>2, <3>1, <3>2 DEF Drawn
  <2>3. CASE newest /\ todo = <<"config">>
    <3>1. Head(todo) = "config" /\ todo' = <<>> /\ todo # <<"top", "config">>
      BY <2>1, <2>3
    <3>2. view'.cfg = lastState.cfg /\ view'.top = view.top
      BY <2>1, <3>1
    <3> QED
      BY <2>1, <2>3, <3>1, <3>2 DEF Drawn
  <2>4. CASE ~newest
    BY <2>1, <2>4 DEF Drawn
  <2> QED
    BY <2>1, <2>2, <2>3, <2>4 DEF Drawn
<1> QED
  BY <1>1, <1>2, <1>3

LEMMA ScreenInit == Init => ScreenInv
<1> SUFFICES ASSUME Init PROVE ScreenInv
  OBVIOUS
<1>1. wire = <<>> /\ heard = <<>> /\ ~newest /\ ~shut /\ rsp = None
  BY DEF Init
<1>2. Quiet(wire) /\ Quiet(heard)
  BY <1>1, QuietEmpty
<1> QED
  BY <1>1, <1>2 DEF ScreenInv, Delivery, Unreached, Closing, Answering, Drawn

LEMMA ScreenStep == ASSUME Types, ScreenInv, [Next]_vars PROVE ScreenInv'
<1>1. CASE UNCHANGED vars
  BY <1>1 DEF vars, serverVars, loopVars, viewVars, ScreenInv, Ended, Delivery, Told, State, Unreached,
     Subscribed, Closing, Answering, Drawn
<1>2. CASE Next
  BY <1>2, DeliveryStep, UnreachedStep, ClosingStep, AnsweringStep, DrawnStep DEF ScreenInv
<1> QED
  BY <1>1, <1>2

LEMMA ScreenSettled == ASSUME Types, ScreenInv PROVE SettledView
<1> SUFFICES ASSUME Settled, newest
             PROVE  view = [top |-> Len(measured), cfg |-> measured[Len(measured)]]
  BY DEF SettledView
<1>1. /\ conn = "open" /\ told = Len(measured) /\ wire = <<>> /\ heard = <<>> /\ todo = <<>>
      /\ <<>> # <<"top", "config">>
  BY DEF Settled
<1>2. Quiet(wire) /\ Quiet(heard)
  BY <1>1, QuietEmpty
<1>3. ~Ended
  BY <1>1 DEF Ended
<1>4. lastState = State(told)
  BY <1>2, <1>3 DEF ScreenInv, Delivery
<1>5. lastState.stamp = told /\ lastState.cfg = measured[told]
  BY <1>4 DEF State
<1>6. view.top = told /\ view.cfg = measured[told]
  BY <1>1, <1>5 DEF ScreenInv, Drawn
<1> QED
  BY <1>1, <1>6 DEF Types, ViewTypes

\* For any number of commands typed and states measured, over TCP and IPC: when everything has
\* been delivered and a broadcast came last, the screen shows the newest state with the
\* configuration it was measured with (tui/run.go:31-148, ctl/client.go:61-117).
THEOREM SettledViewCorrect == Spec => []SettledView
<1>1. Types /\ ScreenInv /\ [Next]_vars => ScreenInv'
  BY ScreenStep
<1>2. Types /\ ScreenInv => SettledView
  BY ScreenSettled
<1> QED
  BY ScreenInit, TypesAlways, <1>1, <1>2, PTL DEF Spec

------------------------------------------------------------------------------
(* A lost connection.  Who gives it up takes the subscription that is stored  *)
(* or leaves a mark that there was none.                                      *)

\* The message loop waits on a subscription that is stored, or was ended.
Held == msgs = "wait" => stored \/ shut
\* A reader that has ended gave the connection up.
GivenUp == transport = "tcp" /\ recv = "gone" /\ conn # "closed" /\ ~missed => shut /\ msgs = "wait"
\* The loop and the event loop end with the connection, and over TCP no callback waits.
Stopped ==
    /\ msgs = "gone" \/ ui = "stopped" => conn = "closed"
    /\ ui \in Remote => transport = "ipc"
    /\ recv = "off" => main = "init"

LossInv == Held /\ GivenUp /\ Stopped

LEMMA CommandHolds ==
    ASSUME Flags, Held, msgs' = msgs,
           CloseLoop \/ UNCHANGED <<shut, stored, missed>> \/ \E c \in Remote : Command(c)
    PROVE  Held' /\ (shut => shut') /\ (missed => missed')
<1>1. CloseLoop \/ UNCHANGED <<shut, stored, missed>>
  BY DEF Command
<1>2. CASE CloseLoop
  <2>1. (stored \/ shut) => shut'
    BY <1>2 DEF CloseLoop
  <2>2. missed => missed'
    BY <1>2 DEF CloseLoop
  <2> QED
    BY <2>1, <2>2 DEF Held
<1>3. CASE UNCHANGED <<shut, stored, missed>>
  BY <1>3 DEF Held
<1> QED
  BY <1>1, <1>2, <1>3

LEMMA LossStep == ASSUME Types, LossInv, Next PROVE LossInv'
<1> USE DEF LossInv, Types, LabelTypes, serverVars, loopVars, viewVars
<1>1. CASE Measure \/ Broadcast \/ Execute \/ WriteResult \/ Lose \/ Connect
  BY <1>1 DEF Measure, Broadcast, Execute, WriteResult, Lose, Connect, Held, GivenUp, Stopped
<1>2. CASE StartInfo \/ TypeConnected
  <2>1. \E c \in Remote : Command(c)
    BY <1>2 DEF StartInfo, TypeConnected, Remote
  <2>2. /\ UNCHANGED <<transport, conn, recv, msgs>> /\ (ui' = ui \/ ui' = "idle")
        /\ main' = main \/ recv # "off"
    BY <1>2 DEF StartInfo, TypeConnected
  <2>3. Held' /\ (shut => shut') /\ (missed => missed')
    BY <2>1, <2>2, CommandHolds
  <2> QED
    BY <2>2, <2>3 DEF GivenUp, Stopped, Remote
<1>3. CASE StartRecv \/ StartLoop \/ MainJoin \/ Recv
  BY <1>3 DEF StartRecv, StartLoop, MainJoin, Recv, Held, GivenUp, Stopped
<1>4. CASE RecvEnds
  <2>1. Held'
    BY <1>4, CommandHolds DEF RecvEnds
  <2>2. GivenUp'
    BY <1>4 DEF RecvEnds, CloseLoop, Held, GivenUp, Stopped
  <2> QED
    BY <1>4, <2>1, <2>2 DEF RecvEnds, Stopped
<1>5. CASE Subscribe \/ Store
  BY <1>5 DEF Subscribe, Store, Held, GivenUp, Stopped
<1>6. CASE Handle \/ DrawView \/ PostRun
  BY <1>6 DEF Handle, DrawView, PostRun, ExitFn, Held, GivenUp, Stopped, Remote
<1>7. ASSUME NEW k \in Keys, Type(k) PROVE LossInv'
  <2>1. UNCHANGED <<transport, main, recv, msgs>>
    BY <1>7 DEF Type
  <2>2. CASE k = "exit"
    BY <1>7, <2>1, <2>2 DEF Type, ExitFn, Held, GivenUp, Stopped, Remote
  <2>3. CASE k = "top"
    BY <1>7, <2>1, <2>3 DEF Type, Held, GivenUp, Stopped, Remote
  <2>4. CASE k \notin {"exit", "top"}
    <3>1. k \in Remote
      BY <2>4, KeysAssumption
    <3>2. /\ UNCHANGED <<shut, stored, missed>> \/ Command(k)
          /\ conn' = conn /\ (ui' = ui \/ (ui' \in Remote /\ transport = "ipc"))
      BY <1>7, <2>4, <3>1 DEF Type
    <3>3. Held' /\ (shut => shut') /\ (missed => missed')
      BY <2>1, <3>1, <3>2, CommandHolds
    <3> QED
      BY <2>1, <3>2, <3>3 DEF GivenUp, Stopped, Remote
  <2> QED
    BY <2>2, <2>3, <2>4
<1> QED
  BY <1>1, <1>2, <1>3, <1>4, <1>5, <1>6, <1>7, Steps

\* For any number of commands typed and states measured: a lost TCP connection is never given
\* up by everybody at once, the reader has yet to find it or the message loop has been told to
\* end, but for the two named cases (client_tcp.go:17-43, :57-72, ctl/client.go:61-76,
\* :101-117).
THEOREM LossGoesOnCorrect == Spec => []LossGoesOn
<1>1. Init => LossInv
  BY DEF Init, LossInv, Held, GivenUp, Stopped, Remote
<1>2. Types /\ LossInv /\ [Next]_vars => LossInv'
  <2>1. CASE UNCHANGED vars
    BY <2>1 DEF vars, serverVars, loopVars, viewVars, LossInv, Held, GivenUp, Stopped
  <2> QED
    BY <2>1, LossStep
<1>3. Types /\ LossInv => LossGoesOn
  BY DEF Types, LabelTypes, LossInv, Held, GivenUp, Stopped, LossGoesOn
<1> QED
  BY <1>1, <1>2, <1>3, TypesAlways, PTL DEF Spec

===============================================================================
