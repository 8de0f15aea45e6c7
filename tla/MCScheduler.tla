----------------------------- MODULE MCScheduler -----------------------------
(* Scheduler for TLC: schedules of the two kinds.                          *)
EXTENDS Scheduler

EveryTick == [kind |-> "interval", every |-> 1]
EverySecond == [kind |-> "calendar", every |-> 2]

TwoSchedules == {EveryTick, EverySecond}

=============================================================================
