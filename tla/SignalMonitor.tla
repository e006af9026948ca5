---------------------------- MODULE SignalMonitor ----------------------------
(***************************************************************************)
(* Deferred signals (cvise/utils/sigmonitor.py): the first SIGINT or SIGTERM *)
(* is only noted and resolves a future, for the main loop to find at its     *)
(* next checkpoint; any later one raises an exception wherever the main      *)
(* thread happens to be.                                                     *)
(***************************************************************************)
EXTENDS Naturals

Signals == {"int", "term"}
NoSignal == "none"

VARIABLES
    observed,   \* the signals with sigint_observed or sigterm_observed set
    future      \* the signal the future was resolved with, or NoSignal

signalVars == <<observed, future>>

SignalInit == observed = {} /\ future = NoSignal

\* _on_signal, without the exception that it raises at the end: the future
\* keeps its first result.
OnSignal(s) ==
    /\ observed' = observed \cup {s}
    /\ future' = IF future = NoSignal THEN s ELSE future

\* _on_signal raises an exception if a signal was observed before.
Repeated == observed # {}

\* maybe_raise_exc: the exception of a checkpoint, if any. A faulty variant
\* knows the Ctrl-C key only.
PendingInt == IF "int" \in observed THEN "int" ELSE NoSignal
Pending ==
    IF "term" \in observed THEN "term"
    ELSE IF "int" \in observed THEN "int" ELSE NoSignal
=============================================================================
