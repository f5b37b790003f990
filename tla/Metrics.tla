-------------------------------- MODULE Metrics --------------------------------
(***************************************************************************)
(* What metrics.py counts in the table of operations for one certificate   *)
(* set.  The samples are written after a command and on demand, by a       *)
(* reader that takes no lock.                                              *)
(***************************************************************************)
EXTENDS PublicationService

\* _FAILURE_STATES
FailureStates == TerminalStates \ {"COMPLETED"}

\* operation_counts, summed over the rows of some types and states.
Count(types, states) ==
    Cardinality({i \in DOMAIN ops : ops[i].type \in types /\ ops[i].state \in states})

\* The counters, by the event they count.
Counters ==
    [renewal     |-> Count({"RENEW"}, FailureStates),
     publication |-> Count({"BOOTSTRAP", "PUBLISH", "RECONCILE"}, FailureStates),
     audit       |-> Count({"AUDIT"}, FailureStates),
     preflight   |-> Count(OperationType, {"HTTP01_PREFLIGHT_FAILED"}),
     rollbacks   |-> Count({"ROLLBACK"}, {"COMPLETED"})]

-----------------------------------------------------------------------------
\* The samples named _total are counters to the monitoring that scrapes them:
\* they are recomputed from rows that later runs rewrite and close, and yet
\* none of them ever goes back, whichever commands are killed and retried.
CountersNeverDecrease ==
    [][\A event \in DOMAIN Counters : Counters[event] <= Counters'[event]]_vars
=============================================================================
