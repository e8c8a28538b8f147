--------------------------- MODULE ClientSuccession ---------------------------
(****************************************************************************)
(* What the report command promises about its latency clients: they serve    *)
(* one after the other, a client begins when the one before has ended, with  *)
(* what is kept at its place if it has one, and tries to save every report   *)
(* there before it measures the next or ends.                                *)
(****************************************************************************)
EXTENDS Integers

CONSTANTS
    Places, \* where reports can be kept
    None

VARIABLES
    generation, \* number of clients that have begun
    serving,    \* the last of them has not ended
    place,      \* where it keeps its reports, None if it does not
    held,       \* its last report, 0 if there is none
    pending,    \* that report is still to be saved
    kept        \* kept[p]: the report kept at p, 0 if there is none that can be read

vars == <<generation, serving, place, held, pending, kept>>

Init ==
    /\ generation = 1 /\ serving = TRUE
    /\ place \in Places \cup {None}
    /\ held = 0 /\ pending = FALSE /\ kept = [p \in Places |-> 0]

Begin ==
    /\ ~serving
    /\ generation' = generation + 1 /\ serving' = TRUE
    /\ place' \in Places \cup {None}
    /\ held' = IF place' = None THEN 0 ELSE kept[place']
    /\ UNCHANGED <<pending, kept>>

\* no report is measured before the last one has been written
Measure ==
    /\ serving /\ ~pending
    /\ held' = held + 1
    /\ pending' = (place # None)
    /\ UNCHANGED <<generation, serving, place, kept>>

\* a write that fails leaves what was kept, or nothing that can be read
Save ==
    /\ serving /\ pending
    /\ \E r \in {held, kept[place], 0} : kept' = [kept EXCEPT ![place] = r]
    /\ pending' = FALSE
    /\ UNCHANGED <<generation, serving, place, held>>

\* a client does not end with a report still to be written
End ==
    /\ serving /\ ~pending
    /\ serving' = FALSE
    /\ UNCHANGED <<generation, place, held, pending, kept>>

Next == Begin \/ Measure \/ Save \/ End

Spec == Init /\ [][Next]_vars
===============================================================================
