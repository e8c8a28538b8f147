------------------------- MODULE CtlHandlerOrderProofs -------------------------
(* The order of answers and the contents of the command cache, for any       *)
(* number of connections and commands.  A command moves along a line of six  *)
(* places; no command overtakes another of its session, and one that is      *)
(* given up leaves the line for good.                                        *)
EXTENDS CtlHandlerProofs

------------------------------------------------------------------------------
(* The line, from its end to its beginning: Handed, Writing and then          *)

Resulted == {c \in Commands : \E i \in DOMAIN results : results[i] = c}
Executed == {c \in Commands : executing = c}
Queued   == {c \in Commands : \E i \in DOMAIN commands : commands[i] = c}
Offered  == {c \in Commands : conn[c[1]] = "send" /\ read[c[1]] = c[2]}

Places == 1..6
InPlaces(A, B, C, D, E, F) ==
    [k \in Places |-> CASE k = 1 -> A [] k = 2 -> B [] k = 3 -> C
                        [] k = 4 -> D [] k = 5 -> E [] k = 6 -> F]
Line == InPlaces(Handed, Writing, Resulted, Executed, Queued, Offered)

Lines == [Places -> SUBSET Commands]

Precedes(A, B) == \A c \in A, d \in B : c[1] = d[1] => c[2] < d[2]
InLine(L) == \A m, n \in Places : m < n => Precedes(L[m], L[n])
Ascending(q) ==
    \A i, j \in DOMAIN q :
        i < j /\ q[i] # News /\ q[j] # News /\ q[i][1] = q[j][1] => q[i][2] < q[j][2]

\* what was read and what was given up
Behind(L) == \A k \in Places : \A c \in L[k] : c[2] <= read[c[1]]
LostRead == \A c \in lost : c[2] <= read[c[1]]
LostApart(L) == \A k \in Places : L[k] \cap lost = {}

OrderInv ==
    /\ InLine(Line) /\ Behind(Line) /\ LostRead /\ LostApart(Line)
    /\ Ascending(commands) /\ Ascending(results) /\ AnswersInOrder /\ CacheExact

LEMMA SixPlaces ==
    ASSUME NEW A \in SUBSET Commands, NEW B \in SUBSET Commands, NEW C \in SUBSET Commands,
           NEW D \in SUBSET Commands, NEW E \in SUBSET Commands, NEW F \in SUBSET Commands
    PROVE  LET L == InPlaces(A, B, C, D, E, F) IN
           L \in Lines /\ L[1] = A /\ L[2] = B /\ L[3] = C /\ L[4] = D /\ L[5] = E /\ L[6] = F
<1> DEFINE at(k) == CASE k = 1 -> A [] k = 2 -> B [] k = 3 -> C
                      [] k = 4 -> D [] k = 5 -> E [] k = 6 -> F
<1>1. InPlaces(A, B, C, D, E, F) = [k \in Places |-> at(k)]
  BY Zenon DEF InPlaces
<1>2. at(1) = A /\ at(2) = B /\ at(3) = C /\ at(4) = D /\ at(5) = E /\ at(6) = F
  OBVIOUS
<1>3. \A k \in Places : k = 1 \/ k = 2 \/ k = 3 \/ k = 4 \/ k = 5 \/ k = 6
  BY DEF Places
<1> HIDE DEF at
<1>4. \A k \in Places : at(k) \in SUBSET Commands
  BY <1>2, <1>3
<1> QED
  BY <1>1, <1>2, <1>4 DEF Lines, Places

LEMMA LineIs ==
    /\ Line \in Lines
    /\ Line[1] = Handed /\ Line[2] = Writing /\ Line[3] = Resulted
    /\ Line[4] = Executed /\ Line[5] = Queued /\ Line[6] = Offered
<1>1. /\ Handed \subseteq Commands /\ Writing \subseteq Commands /\ Resulted \subseteq Commands
      /\ Executed \subseteq Commands /\ Queued \subseteq Commands /\ Offered \subseteq Commands
  BY DEF Handed, Writing, Resulted, Executed, Queued, Offered
<1> QED
  BY <1>1, SixPlaces DEF Line

LEMMA NextLineIs ==
    /\ Line' \in Lines
    /\ Line'[1] = Handed' /\ Line'[2] = Writing' /\ Line'[3] = Resulted'
    /\ Line'[4] = Executed' /\ Line'[5] = Queued' /\ Line'[6] = Offered'
<1>1. /\ (Handed \subseteq Commands)' /\ (Writing \subseteq Commands)'
      /\ (Resulted \subseteq Commands)' /\ (Executed \subseteq Commands)'
      /\ (Queued \subseteq Commands)' /\ (Offered \subseteq Commands)'
  BY DEF Handed, Writing, Resulted, Executed, Queued, Offered
<1> QED
  BY <1>1, SixPlaces DEF Line

LEMMA InFlightIs ==
    /\ InFlight = Resulted \cup Executed \cup Queued \cup Offered
    /\ InFlight' = Resulted' \cup Executed' \cup Queued' \cup Offered'
BY DEF InFlight, Resulted, Executed, Queued, Offered

------------------------------------------------------------------------------
(* Moves along a line.                                                       *)

LEMMA Irreflexive ==
    ASSUME NEW L \in Lines, InLine(L), NEW m \in Places, NEW n \in Places, m # n,
           NEW c \in L[m]
    PROVE  c \notin L[n]
<1>1. c \in Commands /\ c[2] \in Nat
  BY CommandParts DEF Lines
<1>2. m < n \/ n < m
  BY DEF Places
<1> QED
  BY <1>1, <1>2 DEF InLine, Precedes

\* Commands leave the line.
LEMMA Shrink ==
    ASSUME NEW L \in Lines, NEW M \in Lines, InLine(L), \A k \in Places : M[k] \subseteq L[k]
    PROVE  InLine(M)
BY DEF InLine, Precedes

\* A command goes on by one place and leaves those of its session that come later behind.
LEMMA Advance ==
    ASSUME NEW L \in Lines, NEW M \in Lines, InLine(L), NEW k \in Places, NEW k1 \in Places,
           k1 = k + 1, NEW c \in L[k1], M[k] \subseteq L[k] \cup {c},
           \A d \in M[k1] : d \in L[k1] /\ (c[1] = d[1] => c[2] < d[2]),
           \A j \in Places : j # k /\ j # k1 => M[j] \subseteq L[j]
    PROVE  InLine(M)
<1> SUFFICES ASSUME NEW m \in Places, NEW n \in Places, m < n, NEW a \in M[m], NEW b \in M[n],
                    a[1] = b[1]
             PROVE  a[2] < b[2]
  BY DEF InLine, Precedes
<1>1. \A i, j \in Places : i < j => \A x \in L[i], y \in L[j] : x[1] = y[1] => x[2] < y[2]
  BY DEF InLine, Precedes
<1>2. CASE a \in L[m] /\ b \in L[n]
  BY <1>1, <1>2
<1>3. CASE a \notin L[m]
  <2>1. m = k /\ a = c
    BY <1>3
  <2>2. CASE n = k1
    BY <2>1, <2>2
  <2>3. CASE n # k1
    <3>1. n > k1 /\ b \in L[n]
      BY <2>1, <2>3 DEF Places
    <3> QED
      BY <1>1, <2>1, <3>1
  <2> QED
    BY <2>2, <2>3
<1>4. CASE b \notin L[n]
  <2>1. n = k /\ b = c
    BY <1>4
  <2>2. m # k /\ m # k1 /\ m < k1
    BY <2>1 DEF Places
  <2>3. a \in L[m]
    BY <2>2
  <2> QED
    BY <1>1, <2>1, <2>2, <2>3
<1> QED
  BY <1>2, <1>3, <1>4

\* A command comes that is later than all of its session.
LEMMA Arrive ==
    ASSUME NEW L \in Lines, NEW M \in Lines, InLine(L), NEW c \in Commands,
           M[6] \subseteq L[6] \cup {c}, \A j \in Places : j # 6 => M[j] \subseteq L[j],
           \A j \in Places : \A d \in L[j] : d[1] = c[1] => d[2] < c[2]
    PROVE  InLine(M)
<1> SUFFICES ASSUME NEW m \in Places, NEW n \in Places, m < n, NEW a \in M[m], NEW b \in M[n],
                    a[1] = b[1]
             PROVE  a[2] < b[2]
  BY DEF InLine, Precedes
<1>1. a \in L[m]
  BY DEF Places
<1>2. b \in L[n] \/ b = c
  OBVIOUS
<1> QED
  BY <1>1, <1>2 DEF InLine, Precedes

\* Sequences that commands join at the end and leave at the head.
LEMMA AscendingTail ==
    ASSUME NEW q \in Seq(Commands \cup {News}), q # <<>>, Ascending(q)
    PROVE  /\ Ascending(Tail(q))
           /\ \A i \in DOMAIN Tail(q) :
                Head(q) # News /\ Tail(q)[i] # News /\ Head(q)[1] = Tail(q)[i][1] =>
                    Head(q)[2] < Tail(q)[i][2]
<1>1. /\ Len(q) \in Nat /\ Len(q) >= 1 /\ Len(Tail(q)) = Len(q) - 1 /\ DOMAIN q = 1..Len(q)
      /\ DOMAIN Tail(q) = 1..(Len(q) - 1) /\ Head(q) = q[1]
      /\ \A i \in DOMAIN Tail(q) : Tail(q)[i] = q[i + 1] /\ i + 1 \in DOMAIN q /\ 1 < i + 1
  OBVIOUS
<1> DEFINE t == Tail(q)
<1> HIDE DEF t
<1>2. \A i \in DOMAIN t : t[i] = q[i + 1] /\ i + 1 \in DOMAIN q /\ 1 < i + 1 /\ i \in Int
  BY <1>1 DEF t
<1>3. Ascending(t)
  BY <1>2 DEF Ascending
<1>4. 1 \in DOMAIN q
  BY <1>1
<1>5. \A i \in DOMAIN t :
        q[1] # News /\ t[i] # News /\ q[1][1] = t[i][1] => q[1][2] < t[i][2]
  BY <1>2, <1>4 DEF Ascending
<1> QED
  BY <1>1, <1>3, <1>5 DEF t

LEMMA AscendingAppend ==
    ASSUME NEW q \in Seq(Commands \cup {News}), NEW c \in Commands \cup {News}, Ascending(q),
           \A i \in DOMAIN q : c # News /\ q[i] # News /\ q[i][1] = c[1] => q[i][2] < c[2]
    PROVE  Ascending(Append(q, c))
<1> DEFINE t == Append(q, c)
<1>1. /\ Len(q) \in Nat /\ DOMAIN q = 1..Len(q) /\ DOMAIN t = 1..(Len(q) + 1)
      /\ t[Len(q) + 1] = c /\ \A i \in DOMAIN q : t[i] = q[i]
  OBVIOUS
<1> HIDE DEF t
<1> SUFFICES ASSUME NEW i \in DOMAIN t, NEW j \in DOMAIN t, i < j, t[i] # News, t[j] # News,
                    t[i][1] = t[j][1]
             PROVE  t[i][2] < t[j][2]
  BY DEF Ascending, t
<1>2. i \in DOMAIN q /\ t[i] = q[i]
  BY <1>1
<1>3. CASE j \in DOMAIN q
  BY <1>1, <1>2, <1>3 DEF Ascending
<1>4. CASE j = Len(q) + 1
  BY <1>1, <1>2, <1>4
<1> QED
  BY <1>1, <1>3, <1>4

------------------------------------------------------------------------------
(* What a step does to the line of the state.                                *)

Ordered == InLine(Line) /\ Behind(Line) /\ LostRead /\ LostApart(Line)

LEMMA LineShrinks ==
    ASSUME Ordered, read' = read, lost' = lost, \A k \in Places : Line'[k] \subseteq Line[k]
    PROVE  Ordered'
<1>1. InLine(Line')
  BY LineIs, NextLineIs, Shrink DEF Ordered
<1> QED
  BY <1>1 DEF Ordered, Behind, LostRead, LostApart

LEMMA LineAdvances ==
    ASSUME Ordered, read' = read, lost' = lost, NEW k \in Places, NEW k1 \in Places,
           k1 = k + 1, NEW c \in Line[k1], Line'[k] \subseteq Line[k] \cup {c},
           \A d \in Line'[k1] : d \in Line[k1] /\ (c[1] = d[1] => c[2] < d[2]),
           \A j \in Places : j # k /\ j # k1 => Line'[j] \subseteq Line[j]
    PROVE  Ordered'
<1>1. InLine(Line')
  <2> DEFINE L == Line
             M == Line'
  <2>1. L \in Lines /\ M \in Lines /\ InLine(L)
    BY LineIs, NextLineIs DEF Ordered
  <2>2. /\ c \in L[k1] /\ M[k] \subseteq L[k] \cup {c}
        /\ \A d \in M[k1] : d \in L[k1] /\ (c[1] = d[1] => c[2] < d[2])
        /\ \A j \in Places : j # k /\ j # k1 => M[j] \subseteq L[j]
    OBVIOUS
  <2> HIDE DEF L, M
  <2>3. InLine(M)
    BY <2>1, <2>2, Advance
  <2> QED
    BY <2>3 DEF M
<1>2. \A j \in Places : \A d \in Line'[j] : d \in Line[j] \/ d \in Line[k1]
  OBVIOUS
<1> QED
  BY <1>1, <1>2 DEF Ordered, Behind, LostRead, LostApart

LEMMA LineLoses ==
    ASSUME Ordered, read' = read, NEW k \in Places, NEW c \in Line[k], lost' = lost \cup {c},
           \A j \in Places : Line'[j] \subseteq Line[j], c \notin Line'[k]
    PROVE  Ordered'
<1>1. InLine(Line')
  BY LineIs, NextLineIs, Shrink DEF Ordered
<1>2. \A j \in Places : c \notin Line'[j]
  BY LineIs, Irreflexive DEF Ordered
<1> QED
  BY <1>1, <1>2 DEF Ordered, Behind, LostRead, LostApart

LEMMA CacheKept ==
    ASSUME CacheExact, cache' = cache, (InFlight \cup lost)' = InFlight \cup lost
    PROVE  CacheExact'
BY DEF CacheExact

\* Steps that leave the line and the cache alone.
LEMMA LineKept ==
    ASSUME OrderInv, UNCHANGED <<read, cache, commands, executing, results, lost, got>>,
           Offered' = Offered, Writing' = Writing
    PROVE  OrderInv'
<1>1. Handed' = Handed /\ Resulted' = Resulted /\ Executed' = Executed /\ Queued' = Queued
  BY DEF Handed, Resulted, Executed, Queued
<1>2. \A k \in Places : Line'[k] = Line[k]
  BY <1>1, LineIs, NextLineIs DEF Places
<1>3. Ordered'
  BY <1>2, LineShrinks DEF OrderInv, Ordered
<1>4. InFlight' = InFlight
  BY <1>1, InFlightIs
<1>5. CacheExact'
  BY <1>4, CacheKept DEF OrderInv
<1> QED
  BY <1>3, <1>5 DEF OrderInv, Ordered, Ascending, AnswersInOrder

------------------------------------------------------------------------------
(* The steps along the line.                                                 *)

LEMMA ReadCommand ==
    ASSUME TypeOK, NEW s \in Sessions
    PROVE  /\ conn[s] = "send" => <<s, read[s]>> \in Offered
           /\ read[s] < sent[s] => <<s, read[s] + 1>> \in Commands
<1>1. /\ read[s] \in Nat /\ sent[s] \in Nat /\ MaxCmds[s] \in Nat
      /\ read[s] <= sent[s] /\ sent[s] <= MaxCmds[s]
  BY SizesAssumption DEF TypeOK, ConnsOK
<1>2. ASSUME read[s] < sent[s]
      PROVE  <<s, read[s] + 1>> \in Commands
  <2>1. read[s] + 1 \in Nat /\ 1 <= read[s] + 1 /\ read[s] + 1 <= MaxCmds[s]
    BY <1>1, <1>2
  <2> QED
    BY <2>1, CommandsOf
<1>3. ASSUME conn[s] = "send"
      PROVE  <<s, read[s]>> \in Offered
  <2>1. 1 <= read[s] /\ read[s] <= MaxCmds[s]
    BY <1>1, <1>3 DEF TypeOK, ConnsOK
  <2>2. <<s, read[s]>> \in Commands
    BY <1>1, <2>1, CommandsOf
  <2> DEFINE c == <<s, read[s]>>
  <2>3. c \in Commands /\ c[1] = s /\ c[2] = read[s]
    BY <2>2
  <2> HIDE DEF c
  <2>4. c \in Offered
    BY <1>3, <2>3 DEF Offered
  <2> QED
    BY <2>4 DEF c
<1> QED
  BY <1>2, <1>3

LEMMA OfferedOne ==
    \A c, d \in Offered : c[1] = d[1] => c = d
BY CommandParts DEF Offered

LEMMA ScanOrder ==
    ASSUME DistinctAddr, SmallIds, TypeOK, OrderInv, NEW s \in Sessions, Scan(s)
    PROVE  OrderInv'
<1> DEFINE c == <<s, read[s] + 1>>
<1>1. c \in Commands /\ c[1] = s /\ c[2] = read[s] + 1 /\ cache' = [cache EXCEPT ![Key(c[1], c[2])] = s]
  BY ReadCommand DEF Scan
<1> HIDE DEF c
<1>2. /\ read' = [read EXCEPT ![s] = read[s] + 1] /\ conn' = [conn EXCEPT ![s] = "send"]
      /\ conn[s] = "scan" /\ UNCHANGED <<commands, executing, results, dispatch, message, got, lost>>
  BY DEF Scan, clientVars, serverVars, dispVars
<1>3. /\ Handed' = Handed /\ Writing' = Writing /\ Resulted' = Resulted /\ Executed' = Executed
      /\ Queued' = Queued
  BY <1>2 DEF Handed, Writing, Resulted, Executed, Queued
<1>4. /\ read \in [Sessions -> Nat] /\ conn \in [Sessions -> {"none", "add", "scan", "send", "gone"}]
      /\ s # None
  BY SessionsAssumption DEF TypeOK, ConnsOK
<1>5. Offered' = Offered \cup {c}
  <2>1. \A d \in Commands : d[1] # s =>
            conn'[d[1]] = conn[d[1]] /\ read'[d[1]] = read[d[1]]
    BY <1>2, <1>4, CommandParts
  <2>2. \A d \in Commands : d[1] = s => (d \in Offered' <=> d = c) /\ d \notin Offered
    BY <1>1, <1>2, <1>4, CommandParts DEF Offered
  <2>3. \A d \in Commands : d[1] # s => (d \in Offered' <=> d \in Offered)
    BY <2>1 DEF Offered
  <2> QED
    BY <1>1, <2>2, <2>3 DEF Offered
<1>6. \A t \in Sessions : read[t] <= read'[t] /\ read[t] \in Nat /\ read'[t] \in Nat
  BY <1>2, <1>4
<1>7. Line'[6] = Line[6] \cup {c} /\ \A j \in Places : j # 6 => Line'[j] = Line[j]
  BY <1>3, <1>5, LineIs, NextLineIs DEF Places
<1>8. \A j \in Places : \A d \in Line[j] : d[2] <= read[d[1]] /\ d \in Commands
  BY LineIs DEF OrderInv, Behind, Lines
<1>9. \A j \in Places : \A d \in Line[j] : d[1] = c[1] => d[2] < c[2]
  BY <1>1, <1>4, <1>8, CommandParts
<1>10. InLine(Line')
  BY <1>1, <1>7, <1>9, LineIs, NextLineIs, Arrive DEF OrderInv
<1>11. c[2] <= read'[c[1]]
  BY <1>1, <1>2, <1>4
<1>12. Behind(Line)'
  <2> SUFFICES ASSUME NEW j \in Places, NEW d \in Line'[j] PROVE d[2] <= read'[d[1]]
    BY DEF Behind
  <2>1. CASE d = c
    BY <1>11, <2>1
  <2>2. CASE d # c
    <3>1. d \in Line[j]
      BY <1>7, <2>2
    <3> QED
      BY <1>6, <1>8, <3>1, CommandParts
  <2> QED
    BY <2>1, <2>2
<1>13. lost \subseteq Commands
  BY DEF TypeOK, QueuesOK
<1>14. LostRead'
  BY <1>2, <1>6, <1>13, CommandParts DEF OrderInv, LostRead
<1>15. c \notin lost
  BY <1>1, <1>4, <1>13 DEF OrderInv, LostRead
<1>16. LostApart(Line)'
  BY <1>2, <1>7, <1>15 DEF OrderInv, LostApart
<1>17. (InFlight \cup lost)' = (InFlight \cup lost) \cup {c}
  BY <1>2, <1>3, <1>5, InFlightIs
<1>18. CacheExact'
  <2> SUFFICES ASSUME NEW d \in Commands
               PROVE  cache'[Key(d[1], d[2])] # None <=> d \in (InFlight \cup lost) \cup {c}
    BY <1>17 DEF CacheExact
  <2>1. cache \in [Keys -> Sessions \cup {None}] /\ Key(d[1], d[2]) \in Keys
        /\ Key(c[1], c[2]) \in Keys
    BY <1>1, KeyTyped DEF TypeOK, TablesOK
  <2>2. CASE d = c
    BY <1>1, <1>4, <2>1, <2>2
  <2>3. CASE d # c
    <3>1. Key(d[1], d[2]) # Key(c[1], c[2])
      BY <1>1, <2>3, KeyOfOne
    <3>2. cache'[Key(d[1], d[2])] = cache[Key(d[1], d[2])]
      BY <1>1, <2>1, <3>1
    <3> QED
      BY <2>3, <3>2 DEF OrderInv, CacheExact
  <2> QED
    BY <2>2, <2>3
<1> QED
  BY <1>2, <1>10, <1>12, <1>14, <1>16, <1>18 DEF OrderInv, Ascending, AnswersInOrder

LEMMA AppendElements ==
    ASSUME NEW S, NEW q \in Seq(S), NEW c
    PROVE  \A d : (\E i \in DOMAIN Append(q, c) : Append(q, c)[i] = d)
                    <=> (d = c \/ \E i \in DOMAIN q : q[i] = d)
<1> DEFINE t == Append(q, c)
<1>1. /\ Len(q) \in Nat /\ DOMAIN q = 1..Len(q) /\ DOMAIN t = 1..(Len(q) + 1)
      /\ t[Len(q) + 1] = c /\ \A i \in DOMAIN q : t[i] = q[i]
  OBVIOUS
<1> HIDE DEF t
<1>2. Len(q) + 1 \in DOMAIN t /\ DOMAIN t = DOMAIN q \cup {Len(q) + 1}
  BY <1>1
<1>3. \A d : (\E i \in DOMAIN t : t[i] = d) <=> (d = c \/ \E i \in DOMAIN q : q[i] = d)
  BY <1>1, <1>2
<1> QED
  BY <1>3 DEF t

LEMMA TailElements ==
    ASSUME NEW S, NEW q \in Seq(S), q # <<>>
    PROVE  \A d : (\E i \in DOMAIN q : q[i] = d)
                    <=> (d = Head(q) \/ \E i \in DOMAIN Tail(q) : Tail(q)[i] = d)
<1> DEFINE t == Tail(q)
<1>1. /\ Len(q) \in Nat /\ Len(q) >= 1 /\ DOMAIN q = 1..Len(q) /\ DOMAIN t = 1..(Len(q) - 1)
      /\ Head(q) = q[1] /\ \A i \in 1..(Len(q) - 1) : t[i] = q[i + 1]
  OBVIOUS
<1> HIDE DEF t
<1>2. \A j \in DOMAIN q : j = 1 \/ (j - 1 \in DOMAIN t /\ t[j - 1] = q[j])
  BY <1>1
<1>3. \A i \in DOMAIN t : i + 1 \in DOMAIN q /\ t[i] = q[i + 1]
  BY <1>1
<1>4. 1 \in DOMAIN q
  BY <1>1
<1>5. \A d : (\E i \in DOMAIN q : q[i] = d) <=> (d = q[1] \/ \E i \in DOMAIN t : t[i] = d)
  BY <1>2, <1>3, <1>4
<1> QED
  BY <1>1, <1>5 DEF t

LEMMA OfferOrder ==
    ASSUME TypeOK, OrderInv, NEW s \in Sessions, Offer(s)
    PROVE  OrderInv'
<1> DEFINE c == <<s, read[s]>>
<1>1. c \in Offered /\ c[1] = s /\ c \in Commands
  BY ReadCommand DEF Offer, Offered
<1>2. CASE released
  BY <1>2, LineKept DEF Offer, clientVars, serverVars, dispVars, Offered, Writing
<1>3. CASE ~released
  <2>1. /\ conn' = [conn EXCEPT ![s] = "scan"]
        /\ UNCHANGED <<read, cache, executing, results, dispatch, message, got>>
        /\ \/ commands' = Append(commands, c) /\ lost' = lost
           \/ lost' = lost \cup {c} /\ commands' = commands
    BY <1>3 DEF Offer, clientVars, serverVars, dispVars
  <2> HIDE DEF c
  <2>2. Handed' = Handed /\ Writing' = Writing /\ Resulted' = Resulted /\ Executed' = Executed
    BY <2>1 DEF Handed, Writing, Resulted, Executed
  <2>3. Offered' = Offered \ {c}
    <3>1. conn \in [Sessions -> {"none", "add", "scan", "send", "gone"}]
      BY DEF TypeOK, ConnsOK
    <3>2. \A d \in Commands : d[1] # s => (d \in Offered' <=> d \in Offered)
      BY <2>1, <3>1, CommandParts DEF Offered
    <3>3. \A d \in Commands : d[1] = s => d \notin Offered'
      BY <2>1, <3>1 DEF Offered
    <3> QED
      BY <1>1, <3>2, <3>3, OfferedOne DEF Offered
  <2>4. \A d \in Offered' : d \in Offered /\ d[1] # c[1]
    BY <1>1, <2>3, OfferedOne
  <2>5. CASE commands' = Append(commands, c) /\ lost' = lost
    <3>1. commands \in Seq(Commands)
      BY DEF TypeOK, QueuesOK
    <3>2. Queued' = Queued \cup {c}
      BY <1>1, <2>5, <3>1, AppendElements DEF Queued
    <3>3. Ordered'
      <4>1. /\ c \in Line[6] /\ Line'[5] \subseteq Line[5] \cup {c}
            /\ \A d \in Line'[6] : d \in Line[6] /\ (c[1] = d[1] => c[2] < d[2])
            /\ \A j \in Places : j # 5 /\ j # 6 => Line'[j] \subseteq Line[j]
        BY <1>1, <2>2, <2>4, <3>2, LineIs, NextLineIs DEF Places
      <4>2. 5 \in Places /\ 6 \in Places /\ 6 = 5 + 1
        BY DEF Places
      <4> QED
        BY <2>1, <2>5, <4>1, <4>2, LineAdvances DEF OrderInv, Ordered
    <3>4. Ascending(commands')
      <4>1. \A i \in DOMAIN commands : commands[i] \in Queued /\ commands[i] \in Commands
        BY <3>1 DEF Queued
      <4>2. Precedes(Queued, Offered)
        <5>1. 5 \in Places /\ 6 \in Places /\ 5 < 6
          BY DEF Places
        <5> QED
          BY <5>1, LineIs DEF OrderInv, InLine
      <4>3. \A i \in DOMAIN commands : commands[i][1] = c[1] => commands[i][2] < c[2]
        BY <1>1, <4>1, <4>2 DEF Precedes
      <4>4. commands \in Seq(Commands \cup {News}) /\ c \in Commands \cup {News}
        BY <1>1, <3>1
      <4> QED
        BY <2>5, <4>3, <4>4, AscendingAppend DEF OrderInv
    <3>5. (InFlight \cup lost)' = InFlight \cup lost
      BY <1>1, <2>2, <2>3, <2>5, <3>2, InFlightIs
    <3> QED
      BY <2>1, <3>3, <3>4, <3>5, CacheKept DEF OrderInv, Ordered, AnswersInOrder, Ascending
  <2>6. CASE lost' = lost \cup {c} /\ commands' = commands
    <3>1. Queued' = Queued
      BY <2>6 DEF Queued
    <3>2. Ordered'
      <4>1. /\ 6 \in Places /\ c \in Line[6] /\ c \notin Line'[6]
            /\ \A j \in Places : Line'[j] \subseteq Line[j]
        BY <1>1, <2>2, <2>3, <3>1, LineIs, NextLineIs DEF Places
      <4> QED
        BY <2>1, <2>6, <4>1, LineLoses DEF OrderInv, Ordered
    <3>3. (InFlight \cup lost)' = InFlight \cup lost
      BY <1>1, <2>2, <2>3, <2>6, <3>1, InFlightIs
    <3> QED
      BY <2>1, <2>6, <3>2, <3>3, CacheKept DEF OrderInv, Ordered, AnswersInOrder, Ascending
  <2> QED
    BY <2>1, <2>5, <2>6
<1> QED
  BY <1>2, <1>3

LEMMA ExecuteOrder ==
    ASSUME TypeOK, OrderInv, Execute
    PROVE  OrderInv'
<1> DEFINE c == Head(commands)
<1>1. /\ commands \in Seq(Commands) /\ commands # <<>> /\ commands' = Tail(commands)
      /\ executing = None /\ executing' = c
      /\ UNCHANGED <<read, cache, results, dispatch, message, got, lost, conn>>
  BY DEF Execute, clientVars, serverVars, dispVars, TypeOK, QueuesOK
<1>2. /\ \A d : (\E i \in DOMAIN commands : commands[i] = d)
                    <=> (d = c \/ \E i \in DOMAIN commands' : commands'[i] = d)
      /\ c \in Commands
  <2>1. c \in Commands
    BY <1>1
  <2>2. \A d : (\E i \in DOMAIN commands : commands[i] = d)
                    <=> (d = c \/ \E i \in DOMAIN Tail(commands) : Tail(commands)[i] = d)
    BY <1>1, TailElements
  <2> QED
    BY <1>1, <2>1, <2>2
<1>3. /\ Ascending(commands')
      /\ \A i \in DOMAIN commands' : c[1] = commands'[i][1] => c[2] < commands'[i][2]
  <2>1. commands \in Seq(Commands \cup {News}) /\ News \notin Commands
    BY <1>1, CommandParts DEF News
  <2>2. \A i \in DOMAIN commands' : commands'[i] \in Commands
    BY <1>1
  <2> QED
    BY <1>1, <1>2, <2>1, <2>2, AscendingTail DEF OrderInv
<1> HIDE DEF c
<1>4. /\ Handed' = Handed /\ Writing' = Writing /\ Resulted' = Resulted /\ Offered' = Offered
  BY <1>1 DEF Handed, Writing, Resulted, Offered
<1>5. /\ c \in Queued /\ Executed = {} /\ Executed' = {c} /\ Queued = Queued' \cup {c}
  BY <1>1, <1>2, SessionsAssumption DEF Queued, Executed
<1>6. \A d \in Queued' : d \in Queued /\ (c[1] = d[1] => c[2] < d[2])
  BY <1>3, <1>5 DEF Queued
<1>7. Ordered'
  <2>1. /\ c \in Line[5] /\ Line'[4] \subseteq Line[4] \cup {c}
        /\ \A d \in Line'[5] : d \in Line[5] /\ (c[1] = d[1] => c[2] < d[2])
        /\ \A j \in Places : j # 4 /\ j # 5 => Line'[j] \subseteq Line[j]
    BY <1>4, <1>5, <1>6, LineIs, NextLineIs DEF Places
  <2>2. 4 \in Places /\ 5 \in Places /\ 5 = 4 + 1
    BY DEF Places
  <2> QED
    BY <1>1, <2>1, <2>2, LineAdvances DEF OrderInv, Ordered
<1>8. (InFlight \cup lost)' = InFlight \cup lost
  BY <1>1, <1>4, <1>5, InFlightIs
<1> QED
  BY <1>1, <1>3, <1>7, <1>8, CacheKept DEF OrderInv, Ordered, AnswersInOrder, Ascending

LEMMA AnswerOrder ==
    ASSUME TypeOK, OrderInv, Answer
    PROVE  OrderInv'
<1> DEFINE c == executing
<1>1. /\ c \in Commands /\ c # None /\ executing' = None
      /\ results \in Seq(Commands \cup {News})
      /\ UNCHANGED <<read, cache, commands, dispatch, message, got, conn>>
      /\ \/ results' = Append(results, c) /\ lost' = lost
         \/ lost' = lost \cup {c} /\ results' = results
  BY DEF Answer, clientVars, connVars, dispVars, TypeOK, QueuesOK
<1>2. Executed = {c} /\ Executed' = {}
  BY <1>1, SessionsAssumption DEF Executed
<1> HIDE DEF c
<1>3. Handed' = Handed /\ Writing' = Writing /\ Queued' = Queued /\ Offered' = Offered
  BY <1>1 DEF Handed, Writing, Queued, Offered
<1>4. CASE results' = Append(results, c) /\ lost' = lost
  <2>1. Resulted' = Resulted \cup {c}
    BY <1>1, <1>4, AppendElements DEF Resulted
  <2>2. Ordered'
    <3>1. /\ c \in Line[4] /\ Line'[3] \subseteq Line[3] \cup {c} /\ Line'[4] = {}
          /\ \A j \in Places : j # 3 /\ j # 4 => Line'[j] \subseteq Line[j]
      BY <1>2, <1>3, <2>1, LineIs, NextLineIs DEF Places
    <3>2. 3 \in Places /\ 4 \in Places /\ 4 = 3 + 1
      BY DEF Places
    <3> QED
      BY <1>1, <1>4, <3>1, <3>2, LineAdvances DEF OrderInv, Ordered
  <2>3. Ascending(results')
    <3>1. \A i \in DOMAIN results : results[i] # News => results[i] \in Resulted
      BY <1>1 DEF Resulted
    <3>2. Precedes(Resulted, Executed)
      <4>1. 3 \in Places /\ 4 \in Places /\ 3 < 4
        BY DEF Places
      <4> QED
        BY <4>1, LineIs DEF OrderInv, InLine
    <3>3. \A i \in DOMAIN results : results[i] # News /\ results[i][1] = c[1] => results[i][2] < c[2]
      BY <1>2, <3>1, <3>2 DEF Precedes
    <3> QED
      BY <1>1, <1>4, <3>3, AscendingAppend DEF OrderInv
  <2>4. (InFlight \cup lost)' = InFlight \cup lost
    BY <1>2, <1>3, <1>4, <2>1, InFlightIs
  <2> QED
    BY <1>1, <2>2, <2>3, <2>4, CacheKept DEF OrderInv, Ordered, AnswersInOrder, Ascending
<1>5. CASE lost' = lost \cup {c} /\ results' = results
  <2>1. Resulted' = Resulted
    BY <1>5 DEF Resulted
  <2>2. Ordered'
    <3>1. /\ 4 \in Places /\ c \in Line[4] /\ c \notin Line'[4]
          /\ \A j \in Places : Line'[j] \subseteq Line[j]
      BY <1>2, <1>3, <2>1, LineIs, NextLineIs DEF Places
    <3> QED
      BY <1>1, <1>5, <3>1, LineLoses DEF OrderInv, Ordered
  <2>3. (InFlight \cup lost)' = InFlight \cup lost
    BY <1>2, <1>3, <1>5, <2>1, InFlightIs
  <2> QED
    BY <1>1, <1>5, <2>2, <2>3, CacheKept DEF OrderInv, Ordered, AnswersInOrder, Ascending
<1> QED
  BY <1>1, <1>4, <1>5

LEMMA BroadcastOrder ==
    ASSUME TypeOK, OrderInv, Broadcast
    PROVE  OrderInv'
<1>1. /\ results \in Seq(Commands \cup {News}) /\ results' = Append(results, News)
      /\ UNCHANGED <<read, cache, commands, executing, dispatch, message, got, conn, lost>>
  BY DEF Broadcast, clientVars, connVars, dispVars, TypeOK, QueuesOK
<1>2. News \notin Commands
  BY CommandParts DEF News
<1>3. Resulted' = Resulted
  BY <1>1, <1>2, AppendElements DEF Resulted
<1>4. /\ Handed' = Handed /\ Writing' = Writing /\ Executed' = Executed /\ Queued' = Queued
      /\ Offered' = Offered
  BY <1>1 DEF Handed, Writing, Executed, Queued, Offered
<1>5. Ordered'
  <2>1. \A k \in Places : Line'[k] = Line[k]
    BY <1>3, <1>4, LineIs, NextLineIs DEF Places
  <2> QED
    BY <1>1, <2>1, LineShrinks DEF OrderInv, Ordered
<1>6. Ascending(results')
  BY <1>1, AscendingAppend DEF OrderInv
<1>7. (InFlight \cup lost)' = InFlight \cup lost
  BY <1>1, <1>3, <1>4, InFlightIs
<1> QED
  BY <1>1, <1>5, <1>6, <1>7, CacheKept DEF OrderInv, Ordered, AnswersInOrder, Ascending

LEMMA DispatchOrder ==
    ASSUME DistinctAddr, SmallIds, TypeOK, OrderInv, Dispatch
    PROVE  OrderInv'
<1> DEFINE m == Head(results)
           w == cache[Key(m[1], m[2])]
<1>1. /\ results \in Seq(Commands \cup {News}) /\ results # <<>> /\ results' = Tail(results)
      /\ dispatch = "recv" /\ m \in Commands \cup {News} /\ News \notin Commands
      /\ UNCHANGED <<read, commands, executing, got, conn>>
  BY CommandParts DEF Dispatch, clientVars, serverVars, TypeOK, QueuesOK, News
<1>2. \A d : (\E i \in DOMAIN results : results[i] = d)
                <=> (d = m \/ \E i \in DOMAIN results' : results'[i] = d)
  <2>1. \A d : (\E i \in DOMAIN results : results[i] = d)
                  <=> (d = m \/ \E i \in DOMAIN Tail(results) : Tail(results)[i] = d)
    BY <1>1, TailElements
  <2> QED
    BY <1>1, <2>1
<1>3. /\ Ascending(results')
      /\ \A i \in DOMAIN results' :
            m # News /\ results'[i] # News /\ m[1] = results'[i][1] => m[2] < results'[i][2]
  BY <1>1, AscendingTail DEF OrderInv
<1>4. Writing = {} /\ Resulted' \subseteq Resulted /\ Resulted \subseteq Resulted' \cup {m}
  BY <1>1, <1>2 DEF Writing, Resulted
<1>5. /\ Handed' = Handed /\ Executed' = Executed /\ Queued' = Queued /\ Offered' = Offered
  BY <1>1 DEF Handed, Executed, Queued, Offered
<1>6. CASE m = News
  <2>1. dispatch' = "range" /\ cache' = cache /\ lost' = lost
    BY <1>6 DEF Dispatch, Command
  <2>2. Writing' = {} /\ Resulted' = Resulted
    BY <1>1, <1>4, <1>6, <2>1 DEF Writing, Resulted
  <2> HIDE DEF m, w
  <2>3. Ordered'
    <3>1. \A k \in Places : Line'[k] = Line[k]
      BY <1>4, <1>5, <2>2, LineIs, NextLineIs DEF Places
    <3> QED
      BY <1>1, <2>1, <3>1, LineShrinks DEF OrderInv, Ordered
  <2>4. (InFlight \cup lost)' = InFlight \cup lost
    BY <1>5, <2>1, <2>2, InFlightIs
  <2> QED
    BY <1>1, <1>3, <2>1, <2>3, <2>4, CacheKept DEF OrderInv, Ordered, AnswersInOrder, Ascending
<1>7. CASE m \in Commands
  <2>1. m \in Resulted
    BY <1>2, <1>7 DEF Resulted
  <2>2. w # None
    BY <1>7, <2>1, InFlightIs DEF OrderInv, CacheExact
  <2>3. /\ message' = m /\ dispatch' = "result" /\ lost' = lost
        /\ cache' = [cache EXCEPT ![Key(m[1], m[2])] = None]
    BY <1>1, <1>7, <2>2 DEF Dispatch, Command, Taken
  <2>4. Writing' = {m}
    BY <1>7, <2>3 DEF Writing
  <2>5. \A d \in Resulted' : d \in Resulted /\ (m[1] = d[1] => m[2] < d[2])
    BY <1>1, <1>3, <1>4, <1>7 DEF Resulted
  <2> HIDE DEF m, w
  <2>6. Ordered'
    <3>1. /\ m \in Line[3] /\ Line'[2] \subseteq Line[2] \cup {m}
          /\ \A d \in Line'[3] : d \in Line[3] /\ (m[1] = d[1] => m[2] < d[2])
          /\ \A j \in Places : j # 2 /\ j # 3 => Line'[j] \subseteq Line[j]
      BY <1>5, <2>1, <2>4, <2>5, LineIs, NextLineIs DEF Places
    <3>2. 2 \in Places /\ 3 \in Places /\ 3 = 2 + 1
      BY DEF Places
    <3> QED
      BY <1>1, <2>3, <3>1, <3>2, LineAdvances DEF OrderInv, Ordered
  <2>7. CacheExact'
    <3>1. m \notin Resulted' /\ m[2] \in Nat
      BY <1>7, <2>5, CommandParts
    <3>2. m \notin Executed /\ m \notin Queued /\ m \notin Offered
      <4>1. 3 \in Places /\ 4 \in Places /\ 5 \in Places /\ 6 \in Places
        BY DEF Places
      <4>2. m \notin Line[4] /\ m \notin Line[5] /\ m \notin Line[6]
        BY <2>1, <4>1, LineIs, Irreflexive DEF OrderInv
      <4> QED
        BY <4>2, LineIs
    <3>3. m \notin lost
      <4>1. 3 \in Places
        BY DEF Places
      <4> QED
        BY <2>1, <4>1, LineIs DEF OrderInv, LostApart
    <3>4. m \notin (InFlight \cup lost)'
      BY <1>5, <2>3, <3>1, <3>2, <3>3, InFlightIs
    <3>5. \A d \in Commands : d # m => (d \in (InFlight \cup lost)' <=> d \in InFlight \cup lost)
      BY <1>4, <1>5, <2>3, InFlightIs
    <3> SUFFICES ASSUME NEW d \in Commands
                 PROVE  cache'[Key(d[1], d[2])] # None <=> d \in (InFlight \cup lost)'
      BY DEF CacheExact
    <3>6. cache \in [Keys -> Sessions \cup {None}] /\ Key(d[1], d[2]) \in Keys
          /\ Key(m[1], m[2]) \in Keys
      BY <1>7, KeyTyped, CommandParts DEF TypeOK, TablesOK
    <3>7. CASE d = m
      BY <2>3, <3>4, <3>6, <3>7
    <3>8. CASE d # m
      <4>1. Key(d[1], d[2]) # Key(m[1], m[2])
        BY <1>7, <3>8, KeyOfOne
      <4>2. cache'[Key(d[1], d[2])] = cache[Key(d[1], d[2])]
        BY <2>3, <3>6, <4>1
      <4> QED
        BY <3>5, <3>8, <4>2 DEF OrderInv, CacheExact
    <3> QED
      BY <3>7, <3>8
  <2> QED
    BY <1>1, <1>3, <2>6, <2>7 DEF OrderInv, Ordered, AnswersInOrder, Ascending
<1> QED
  BY <1>1, <1>6, <1>7

LEMMA WriteOrder ==
    ASSUME TypeOK, Routed, OrderInv, WriteResult
    PROVE  OrderInv'
<1> DEFINE c == message
           a == [id |-> Unmasked(target, Key(message[1], message[2])), of |-> message]
<1>1. /\ dispatch = "result" /\ dispatch' = "recv" /\ c \in Commands /\ target = c[1]
      /\ target \in Sessions /\ a.of = c
      /\ got \in [Sessions -> Seq(Answers)]
      /\ got' = got \/ got' = [got EXCEPT ![target] = Append(got[target], a)]
      /\ UNCHANGED <<read, cache, commands, executing, results, conn, lost>>
  BY DEF WriteResult, serverVars, TypeOK, TablesOK, DispatchOK, Routed, TargetOwned
<1>2. Writing = {c} /\ Writing' = {}
  BY <1>1 DEF Writing
<1> HIDE DEF a, c
<1>3. /\ Resulted' = Resulted /\ Executed' = Executed /\ Queued' = Queued /\ Offered' = Offered
  BY <1>1 DEF Resulted, Executed, Queued, Offered
<1>4. CacheExact'
  BY <1>1, <1>3, InFlightIs, CacheKept DEF OrderInv
<1>5. CASE got' = got
  <2>1. Handed' = Handed
    BY <1>5 DEF Handed
  <2>2. Ordered'
    <3>1. \A k \in Places : Line'[k] \subseteq Line[k]
      BY <1>2, <1>3, <2>1, LineIs, NextLineIs DEF Places
    <3> QED
      BY <1>1, <3>1, LineShrinks DEF OrderInv, Ordered
  <2> QED
    BY <1>1, <1>4, <1>5, <2>2 DEF OrderInv, Ordered, AnswersInOrder, Ascending
<1>6. CASE got' = [got EXCEPT ![target] = Append(got[target], a)]
  <2>1. /\ got[target] \in Seq(Answers) /\ got'[target] = Append(got[target], a)
        /\ \A s \in Sessions : s # target => got'[s] = got[s]
    BY <1>1, <1>6
  <2> DEFINE n == Len(got[target]) + 1
  <2>2. /\ n \in Nat /\ n - 1 \in Nat /\ DOMAIN got[target] = 1..(n - 1) /\ DOMAIN got'[target] = 1..n
        /\ got'[target][n] = a /\ \A i \in DOMAIN got[target] : got'[target][i] = got[target][i]
    BY <2>1
  <2> HIDE DEF n
  <2>3. Handed' \subseteq Handed \cup {c}
    <3> SUFFICES ASSUME NEW d \in Commands, NEW i \in DOMAIN got'[d[1]], got'[d[1]][i].of = d, d # c
                 PROVE  d \in Handed
      BY DEF Handed
    <3>1. CASE d[1] # target
      BY <2>1, <3>1, CommandParts DEF Handed
    <3>2. CASE d[1] = target
      <4>1. i # n
        BY <1>1, <2>2, <3>2
      <4>2. i \in DOMAIN got[target]
        BY <2>2, <3>2, <4>1
      <4> QED
        BY <2>2, <3>2, <4>2 DEF Handed
    <3> QED
      BY <3>1, <3>2
  <2>4. Ordered'
    <3>1. /\ c \in Line[2] /\ Line'[1] \subseteq Line[1] \cup {c} /\ Line'[2] = {}
          /\ \A j \in Places : j # 1 /\ j # 2 => Line'[j] \subseteq Line[j]
      BY <1>2, <1>3, <2>3, LineIs, NextLineIs DEF Places
    <3>2. 1 \in Places /\ 2 \in Places /\ 2 = 1 + 1
      BY DEF Places
    <3> QED
      BY <1>1, <3>1, <3>2, LineAdvances DEF OrderInv, Ordered
  <2>5. \A i \in DOMAIN got[target] : got[target][i].of[2] < c[2]
    <3> TAKE i \in DOMAIN got[target]
    <3> DEFINE d == got[target][i].of
    <3>1. d \in Commands /\ d[1] = target
      <4>1. got[target][i] \in Answers
        BY <2>1
      <4>2. got[target][i].of \in Commands
        BY <4>1 DEF Answers
      <4> QED
        BY <1>1, <4>2 DEF Routed, OwnAnswers
    <3> HIDE DEF d
    <3>2. d \in Handed
      BY <3>1 DEF Handed, d
    <3>3. Precedes(Handed, Writing)
      <4>1. 1 \in Places /\ 2 \in Places /\ 1 < 2
        BY DEF Places
      <4> QED
        BY <4>1, LineIs DEF OrderInv, InLine
    <3>4. d[2] < c[2]
      BY <1>1, <1>2, <3>1, <3>2, <3>3 DEF Precedes
    <3> QED
      BY <3>4 DEF d
  <2>6. AnswersInOrder'
    <3> SUFFICES ASSUME NEW s \in Sessions, NEW i \in DOMAIN got'[s], NEW j \in DOMAIN got'[s],
                        i < j
                 PROVE  got'[s][i].of[2] < got'[s][j].of[2]
      BY DEF AnswersInOrder
    <3>1. CASE s # target
      BY <2>1, <3>1 DEF OrderInv, AnswersInOrder
    <3>2. CASE s = target
      <4>1. i \in DOMAIN got[target]
        BY <2>2, <3>2
      <4>2. CASE j \in DOMAIN got[target]
        BY <1>1, <2>2, <3>2, <4>1, <4>2 DEF OrderInv, AnswersInOrder
      <4>3. CASE j = n
        BY <1>1, <2>2, <2>5, <3>2, <4>1, <4>3
      <4> QED
        BY <2>2, <3>2, <4>2, <4>3
    <3> QED
      BY <3>1, <3>2
  <2> QED
    BY <1>1, <1>4, <2>4, <2>6 DEF OrderInv, Ordered, Ascending
<1> QED
  BY <1>1, <1>5, <1>6

------------------------------------------------------------------------------
(* The theorems.                                                             *)

LEMMA InitOrder == Init => OrderInv
<1> SUFFICES ASSUME Init PROVE OrderInv
  OBVIOUS
<1>1. /\ Handed = {} /\ Writing = {} /\ Resulted = {} /\ Executed = {} /\ Queued = {}
      /\ Offered = {}
  BY SessionsAssumption, CommandParts
     DEF Init, Handed, Writing, Resulted, Executed, Queued, Offered
<1>2. \A k \in Places : Line[k] = {}
  BY <1>1, LineIs DEF Places
<1>3. InFlight \cup lost = {}
  BY <1>1, InFlightIs DEF Init
<1>4. CacheExact
  BY <1>3, KeyTyped, CommandParts DEF Init, CacheExact
<1>5. InLine(Line) /\ Behind(Line) /\ LostRead /\ LostApart(Line)
  BY <1>2 DEF Init, InLine, Precedes, Behind, LostRead, LostApart
<1> QED
  BY <1>4, <1>5 DEF Init, OrderInv, Ascending, AnswersInOrder

LEMMA OrderStep ==
    ASSUME DistinctAddr, SmallIds, TypeOK, Routed, OrderInv, [Next]_vars
    PROVE  OrderInv'
<1> USE DEF clientVars, connVars, serverVars, dispVars
<1>1. CASE UNCHANGED vars
  BY <1>1, LineKept DEF vars, Offered, Writing
<1>2. ASSUME NEW s \in Sessions, Send(s) \/ Drain(s) \/ Hangup(s)
      PROVE  OrderInv'
  BY <1>2, LineKept DEF Send, Drain, Hangup, Offered, Writing
<1>3. ASSUME NEW s \in Sessions, Connect(s) \/ AddConn(s) \/ CloseConn(s)
      PROVE  OrderInv'
  <2>1. /\ UNCHANGED <<read, cache, commands, executing, results, lost, got, dispatch, message>>
        /\ \E p \in {"add", "scan", "gone"} : conn' = [conn EXCEPT ![s] = p]
        /\ conn[s] # "send"
    BY <1>3 DEF Connect, AddConn, CloseConn, TypeOK, ConnsOK
  <2>2. \A t \in Sessions : conn'[t] = "send" <=> conn[t] = "send"
    BY <2>1 DEF TypeOK, ConnsOK
  <2>3. Offered' = Offered /\ Writing' = Writing
    BY <2>1, <2>2, CommandParts DEF Offered, Writing
  <2> QED
    BY <2>1, <2>3, LineKept
<1>4. CASE Release
  BY <1>4, LineKept DEF Release, Offered, Writing
<1>5. CASE Subscribe \/ PickConn \/ WriteNews \/ RangeEnd \/ DispatchEnd
  <2>1. /\ UNCHANGED <<read, cache, commands, executing, results, lost, got, conn>>
        /\ dispatch # "result" /\ dispatch' # "result"
    BY <1>5 DEF Subscribe, PickConn, WriteNews, RangeEnd, DispatchEnd
  <2>2. Offered' = Offered /\ Writing' = Writing
    BY <2>1 DEF Offered, Writing
  <2> QED
    BY <2>1, <2>2, LineKept
<1> QED
  BY <1>1, <1>2, <1>3, <1>4, <1>5, ScanOrder, OfferOrder, ExecuteOrder, AnswerOrder,
     BroadcastOrder, DispatchOrder, WriteOrder
     DEF Next

LEMMA OrderAlways ==
    ASSUME DistinctAddr, SmallIds
    PROVE  Spec => []OrderInv
<1>1. TypeOK /\ Routed /\ [Next]_vars => Routed'
  BY RoutedStep
<1>2. TypeOK /\ Routed /\ OrderInv /\ [Next]_vars => OrderInv'
  BY OrderStep
<1> QED
  BY TypeCorrect, InitRouted, InitOrder, <1>1, <1>2, PTL DEF Spec

\* For any number of connections and commands, where addresses are distinct and ids stay below
\* the bits of the port: a client gets its answers in the order of its commands, none twice,
\* whatever times out, is broadcast or hangs up meanwhile (handler_tcp.go handleConn and
\* dispatchResults, server.go runForever).
THEOREM AnswersInOrderCorrect ==
    ASSUME DistinctAddr, SmallIds
    PROVE  Spec => []AnswersInOrder
<1>1. OrderInv => AnswersInOrder
  BY DEF OrderInv
<1> QED
  BY OrderAlways, <1>1, PTL

\* Under the same assumptions hdlCommandCache holds the commands under way and those given up,
\* no others: a result finds the writer of its command, so none is lost in the dispatcher.
THEOREM CacheExactCorrect ==
    ASSUME DistinctAddr, SmallIds
    PROVE  Spec => []CacheExact
<1>1. OrderInv => CacheExact
  BY DEF OrderInv
<1> QED
  BY OrderAlways, <1>1, PTL

===============================================================================
