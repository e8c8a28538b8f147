----------------------------- MODULE LatencyFeed -----------------------------
(****************************************************************************)
(* What the latency client of src/client.go promises its reporters: a feed   *)
(* of States over a bounded buffer.  A State that finds the buffer full is   *)
(* dropped, one that is in the buffer is delivered, in order, to every       *)
(* subscriber that is there from the moment it is taken out until it is      *)
(* done, each of them once.  A subscriber that comes or goes in between may  *)
(* or may not get it.                                                        *)
(****************************************************************************)
EXTENDS Integers, Sequences

CONSTANTS
    Subscribers,  \* those that may register
    Stamps,       \* a State is known by the moment it was measured
    Cap,          \* room of the buffer
    None

VARIABLES
    members,  \* the subscribers that are registered
    queue,    \* the buffer
    current,  \* the State under delivery
    due,      \* those that it must still be handed to
    handed,   \* those that have it
    got       \* got[n]: the newest State n was ever handed

vars == <<members, queue, current, due, handed, got>>

Init ==
    /\ members \subseteq Subscribers /\ queue = <<>>
    /\ current = None /\ due = {} /\ handed = {}
    /\ got = [n \in Subscribers |-> 0]

Register(n) ==
    /\ n \notin members /\ members' = members \cup {n}
    /\ UNCHANGED <<queue, current, due, handed, got>>

Leave(n) ==
    /\ n \in members /\ members' = members \ {n}
    /\ due' \in {due, due \ {n}}
    /\ UNCHANGED <<queue, current, handed, got>>

\* t is as new as everything that was offered before it
Newest(t) ==
    /\ \A i \in 1..Len(queue) : queue[i] <= t
    /\ current # None => current <= t
    /\ \A n \in Subscribers : got[n] <= t

Offer(t) ==
    /\ Len(queue) < Cap /\ Newest(t)
    /\ queue' = Append(queue, t)
    /\ UNCHANGED <<members, current, due, handed, got>>

Take ==
    /\ current = None /\ queue # <<>>
    /\ current' = Head(queue) /\ queue' = Tail(queue)
    /\ due' = members
    /\ UNCHANGED <<members, handed, got>>

\* a subscriber that came after the State was taken gets it as well
Engage(n) ==
    /\ current # None /\ n \in members \ handed
    /\ due' = due \cup {n}
    /\ UNCHANGED <<members, queue, current, handed, got>>

Hand(n) ==
    /\ n \in due
    /\ got' = [got EXCEPT ![n] = current]
    /\ handed' = handed \cup {n} /\ due' = due \ {n}
    /\ UNCHANGED <<members, queue, current>>

Done ==
    /\ current # None /\ due = {}
    /\ current' = None /\ handed' = {}
    /\ UNCHANGED <<members, queue, due, got>>

Next ==
    \/ \E n \in Subscribers : Register(n) \/ Leave(n) \/ Engage(n) \/ Hand(n)
    \/ \E t \in Stamps : Offer(t)
    \/ Take \/ Done

Spec == Init /\ [][Next]_vars
==============================================================================
