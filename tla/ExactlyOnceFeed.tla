---------------------------- MODULE ExactlyOnceFeed ----------------------------
(***************************************************************************)
(* What entity-change-processor.py promises of a feed of changes: a change *)
(* is processed at most once, and a change that has been processed is not  *)
(* put into the dead letter queue.  A change that was put there may still  *)
(* be processed when it is delivered again.                                *)
(***************************************************************************)
EXTENDS Sequences

CONSTANTS Changes, Failures

VARIABLES log,    \* the changes processed, in order
          failed  \* the dead letters, in order

LogRange == {log[i] : i \in DOMAIN log}

Init == log = <<>> /\ failed = <<>>

Process(c) ==
    /\ c \notin LogRange
    /\ log' = Append(log, c)
    /\ UNCHANGED failed

Bury(c) ==
    /\ c \notin LogRange
    /\ \E result \in Failures : failed' = Append(failed, [id |-> c, result |-> result])
    /\ UNCHANGED log

Next == \E c \in Changes : Process(c) \/ Bury(c)

Spec == Init /\ [][Next]_<<log, failed>>
===============================================================================
