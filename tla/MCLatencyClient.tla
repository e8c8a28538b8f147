--------------------------- MODULE MCLatencyClient ---------------------------
(* Small instances of LatencyClient: "main" is the goroutine of the command *)
(* line, "ctl" the control server, which executes one command at a time.    *)
(* A menu says which calls each of them issues.                             *)
EXTENDS LatencyClient

CONSTANTS main, ctl

MCCallers == {main, ctl}
Menus(m, k) == [c \in MCCallers |-> IF c = main THEN m ELSE k]

\* no control server
MenuAlone == Menus({"Start", "Join"}, {})
\* suspend, resume and stop, with main waiting in Join or stopping the client itself
MenuStop == Menus({"Start", "Join", "Shutdown"}, {"Suspend", "Resume", "StopCmd"})
\* everything that reads or writes the configuration
MenuConfig == Menus({"Start"}, {"SetConfig", "ChangeInterval", "GetInterval",
                                "QueryLatency", "GetLastState"})
MenuPausedConfig == Menus({"Start"}, {"Suspend", "Resume", "SetConfig"})
\* reporters come and go while main stops and joins
MenuReporters == Menus({"Start", "Shutdown"}, {"AddReporter", "DelReporter"})
MenuUnplug == Menus({"Start"}, {"DelReporter", "StopCmd"})
==============================================================================
