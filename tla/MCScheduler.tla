---------------------------- MODULE MCScheduler ----------------------------
\* The task "job" is run by two timers; "once" follows it for one result,
\* "slow" to its end, with a delay; "chain" follows the task of "slow".
EXTENDS Scheduler

MCScheds == <<"early", "paced", "once", "slow", "chain">>
MCTaskOf == [early |-> "job", paced |-> "job", once |-> "log", slow |-> "next", chain |-> "last"]
MCSource == [early |-> "timer", paced |-> "timer", once |-> "after_all",
             slow |-> "after", chain |-> "after_all"]
MCTarget == [once |-> "job", slow |-> "job", chain |-> "next"]
MCTake == [early |-> 1, paced |-> 1, once |-> 1, slow |-> 0, chain |-> 0]
=============================================================================
