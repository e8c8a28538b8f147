---------------------------- MODULE CommandService ----------------------------
(****************************************************************************)
(* What the control handler of src/ctl promises each of its clients: the     *)
(* commands of a client are answered to that client, one after the other in  *)
(* the order it gave them, each at most once.  A command may be given up; a  *)
(* command that was given up is never answered, and it holds up no other.    *)
(****************************************************************************)
EXTENDS Integers, Sequences

CONSTANTS Clients

VARIABLES
    asked,    \* asked[c]: number of commands client c has given
    replies,  \* replies[c]: the commands whose answers c has got, <<client, number>>
    dropped   \* the commands that were given up

vars == <<asked, replies, dropped>>

Settled(m) == m \in dropped \/ \E i \in DOMAIN replies[m[1]] : replies[m[1]][i] = m
Open(c) == {n \in 1..asked[c] : ~Settled(<<c, n>>)}

Init ==
    /\ asked = [c \in Clients |-> 0] /\ replies = [c \in Clients |-> <<>>]
    /\ dropped = {}

Ask(c) ==
    /\ asked' = [asked EXCEPT ![c] = @ + 1]
    /\ UNCHANGED <<replies, dropped>>

\* the oldest command of c that is open gets its answer
Reply(c) ==
    /\ \E n \in Open(c) :
        /\ \A k \in Open(c) : n <= k
        /\ replies' = [replies EXCEPT ![c] = Append(@, <<c, n>>)]
    /\ UNCHANGED <<asked, dropped>>

GiveUp(c) ==
    /\ \E n \in Open(c) : dropped' = dropped \cup {<<c, n>>}
    /\ UNCHANGED <<asked, replies>>

Next == \E c \in Clients : Ask(c) \/ Reply(c) \/ GiveUp(c)

Spec == Init /\ [][Next]_vars
===============================================================================
