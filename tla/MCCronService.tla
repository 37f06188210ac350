----------------------------- MODULE MCCronService ------------------------------
EXTENDS CronService

CONSTANTS j1, j2

Reminder == [kind |-> "at", at |-> 3]
Later == [kind |-> "at", at |-> 5]
Regular == [kind |-> "every", every |-> 2, anchor |-> NoAnchor]
Anchored == [kind |-> "every", every |-> 3, anchor |-> 0]
Daily == [kind |-> "cron", every |-> 3]
Epoch == [kind |-> "at", at |-> 0]

MCSchedules == {Reminder, Later, Regular, Anchored, Daily, Epoch, InvalidCron}
MCIntervals == EverySchedules(1..3, {NoAnchor} \cup 0..4)
\* In the second store there is a job with an expression that was refused.
MCStored ==
    {[k \in {j1} |-> Job(Reminder, FALSE)],
     [k \in {j1, j2} |-> Job(IF k = j1 THEN Reminder ELSE InvalidCron, FALSE)]}

Add(k, s, once) == [op |-> "add", job |-> k, sched |-> s, once |-> once]
Edit(k, s, enabled) == [op |-> "update", job |-> k, sched |-> s, enabled |-> enabled]
Run(k, forced) == [op |-> "run", job |-> k, forced |-> forced]

MCRequests ==
    {Add(j2, Daily, FALSE), Add(j2, Epoch, TRUE),
     Add(j2, InvalidCron, FALSE),
     Edit(j1, Keep, FALSE), Edit(j1, Later, TRUE), Edit(j1, InvalidCron, Keep),
     [op |-> "remove", job |-> j2],
     Run(j1, TRUE), Run(j1, FALSE), [op |-> "status"]}
MCNone == {}
================================================================================
