----------------------------- MODULE MCCtlClient -----------------------------
(* A small instance of CtlClient. *)
EXTENDS CtlClient

MCTransports == {"tcp", "ipc"}
MCKeys == {"config", "top", "exit"}
==============================================================================
