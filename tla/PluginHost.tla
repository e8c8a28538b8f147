------------------------------ MODULE PluginHost ------------------------------
(****************************************************************************)
(* The plugin registry (src/libs/libs.go, cplugin.go) and the libraries      *)
(* behind it (src/libs/yd4go, rem4go): the steps of loading, initialising    *)
(* and stopping a plugin, for the command line that loads its plugins at the *)
(* start and stops all of them at the end, and for the server that executes  *)
(* "plugin" and "unplugin".                                                  *)
(*                                                                          *)
(* A plugin is given with or without the prefix "C."; the registry knows it  *)
(* without, Base.  A container is made for each load, but a library is       *)
(* loaded once for the life of the process and keeps its globals.            *)
(****************************************************************************)
EXTENDS Naturals

CONSTANTS
    Given,  \* names of plugins as commands give them
    Base,   \* Base[g]: the name the registry knows g by
    Drops   \* libraries whose destory drops the api (yd4go); that of the others
            \* keeps it for their join, which drops it (rem4go)

Libs == {Base[g] : g \in Given}

ASSUME BaseAssumption == Libs \subseteq Given /\ \A n \in Libs : Base[n] = n
ASSUME DropsAssumption == Drops \subseteq Libs

VARIABLES
    registry, \* registeredPlugins: the container of a name, if there is one
    lib       \* the globals of the library: initOnce, api and apiCancel

hostVars == <<registry, lib>>

\* "broken": stored, its functions not found (yet); "loaded": found; "ready": Init returned
Containers == {"none", "broken", "loaded", "ready"}
\* "failed" and "half": the one Init of the library returned an error, before and after it
\* had an api and a cancel; "released": destory was called and has kept the api; "down":
\* there is no api any more
Globals == {"fresh", "up", "failed", "half", "released", "down"}

HostOK == registry \in [Libs -> Containers] /\ lib \in [Libs -> Globals]

HostInit ==
    /\ registry = [n \in Libs |-> "none"]
    /\ lib = [n \in Libs |-> "fresh"]

Registered(n) == registry[n] # "none"
\* what is called on the api of the library is called on nil
NoApi(n) == lib[n] \in {"fresh", "failed", "down"}
NoCancel(n) == lib[n] \in {"fresh", "failed"}

\* LoadOrStore comes before the library is opened
StorePlugin(n) ==
    /\ ~Registered(n)
    /\ registry' = [registry EXCEPT ![n] = "broken"]
    /\ UNCHANGED lib

OpenPlugin(n) ==
    /\ registry' = [registry EXCEPT ![n] = IF @ = "broken" THEN "loaded" ELSE @]
    /\ UNCHANGED lib

\* the initOnce of the library lets its second container pass without an api
InitPlugin(n) ==
    /\ lib' = [lib EXCEPT ![n] = IF @ = "fresh" THEN "up" ELSE @]
    /\ registry' = [registry EXCEPT ![n] = IF @ = "loaded" THEN "ready" ELSE @]

\* yd4go has an api and a cancel before anything fails
Failures(n) == IF n \in Drops THEN {"half"} ELSE {"failed", "half"}

\* fault: the container of a failed Init is taken out of the registry
InitForgotten(n) ==
    /\ lib[n] = "fresh"
    /\ \E f \in Failures(n) : lib' = [lib EXCEPT ![n] = f]
    /\ registry' = [registry EXCEPT ![n] = "none"]

InitFails(n) ==
    /\ lib[n] = "fresh"
    /\ \E f \in Failures(n) : lib' = [lib EXCEPT ![n] = f]
    /\ UNCHANGED registry

\* a name with a prefix is no key of the registry
UnregisterPlugin(g) ==
    /\ g \in Libs /\ Registered(g)
    /\ registry' = [registry EXCEPT ![g] = "none"]
    /\ UNCHANGED lib

\* destory: Release of the api, then the cancel
StopPlugin(n) ==
    /\ ~NoCancel(n)
    /\ lib' = [lib EXCEPT ![n] = IF @ = "down" \/ n \in Drops THEN "down" ELSE "released"]
    /\ UNCHANGED registry

\* join: after it no library has an api
JoinPlugin(n) ==
    /\ lib' = [lib EXCEPT ![n] = "down"]
    /\ UNCHANGED registry
==============================================================================
