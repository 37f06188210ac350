------------------------------ MODULE CronSchedule ------------------------------
(***************************************************************************)
(* When a cron job runs next (cron/schedule.ts, cron/service/jobs.ts).     *)
(* Times are numbers of ticks.                                             *)
(***************************************************************************)
EXTENDS Integers

Unset == -1         \* undefined
Times == Nat \cup {Unset}
NoAnchor == -1      \* anchorMs is not given

AtSchedules(times) == [kind : {"at"}, at : times]
EverySchedules(periods, anchors) == [kind : {"every"}, every : periods, anchor : anchors]
CronSchedules(periods) == [kind : {"cron"}, every : periods]
InvalidCron == [kind |-> "invalid"]     \* an expression that croner refuses

Larger(a, b) == IF a >= b THEN a ELSE b

\* The first run of an interval schedule, counted from its anchor: from the
\* present when it has none (NoAnchor).
\* Fault: the fraction of a period is cut off, the last slot is past.
NextEvery_RoundsDown(s, now) ==
    LET anchor == IF s.anchor = NoAnchor THEN now ELSE s.anchor IN
    IF now < anchor THEN anchor
    ELSE anchor + Larger(1, (now - anchor) \div s.every) * s.every
NextEvery(s, now) ==
    LET anchor == IF s.anchor = NoAnchor THEN now ELSE s.anchor
        steps == Larger(1, (now - anchor + s.every - 1) \div s.every)
    IN  IF now < anchor THEN anchor ELSE anchor + steps * s.every

\* A cron expression: croner answers the first match after the present.
NextCron(s, now) == (now \div s.every + 1) * s.every

\* croner throws (catch: false).
Throws(s) == s = InvalidCron

\* computeNextRunAtMs, of a schedule for which it does not throw
ComputeNextRunAtMs(s, now) ==
    CASE s.kind = "at" -> IF s.at > now THEN s.at ELSE Unset
      [] s.kind = "every" -> NextEvery(s, now)
      [] s.kind = "cron" -> NextCron(s, now)

--------------------------------------------------------------------------------
(* Reference: the slots of a schedule *)

\* t is a slot of s as seen from now: an anchored interval has its slots at the
\* anchor and every period after; without an anchor they are counted from now.
IsSlot(s, now, t) ==
    LET anchor == IF s.anchor = NoAnchor THEN now ELSE s.anchor IN
    \E n \in 0..t : t = anchor + n * s.every
================================================================================
