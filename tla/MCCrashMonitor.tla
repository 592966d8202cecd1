---------------------------- MODULE MCCrashMonitor ----------------------------
(* Small instances of CrashMonitor for TLC. *)
EXTENDS CrashMonitor

CONSTANTS s1, s2

\* Every server has its own name, or all share one.
OwnNames == [s \in Server |-> s]
OneName == [s \in Server |-> s1]

=============================================================================
