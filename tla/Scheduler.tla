------------------------------ MODULE Scheduler ------------------------------
(***************************************************************************)
(* The scheduled tasks of one project: the table scheduled_tasks, the      *)
(* timers and the runs of src/main/ipc/scheduler.handler.ts, through edits,*)
(* runs by hand, the deletion of the project and restarts of the app.      *)
(*                                                                         *)
(* Rows survive the app; timers and runs do not.  Every handler is         *)
(* synchronous, so it is one step; a run takes any time it likes.  The     *)
(* clock is in ticks and is bounded by Horizon.                            *)
(***************************************************************************)
EXTENDS Integers, Sequences

CONSTANTS
    Tasks,      \* ids of tasks, each created at most once
    Schedules,  \* schedules a task may have: an interval, or a calendar
                \* time (daily, weekly, cron) that comes every so many ticks
    Horizon,    \* bound: the clock stops here
    MaxDelay,   \* the longest delay setTimeout can hold (2^31 - 1 ms)
    EmptyLists, \* whether a task may have an empty list of requests
    NoTimer

Never == -1     \* next_run_at is NULL

ScheduleType == [kind : {"interval", "calendar"}, every : Nat \ {0}]
TaskType == [sched : ScheduleType, empty : BOOLEAN]
TimerType == [due : Nat, task : TaskType]

ASSUME SchedulerConstants ==
    /\ Schedules \subseteq ScheduleType /\ Schedules # {}
    /\ Horizon \in Nat /\ MaxDelay \in Nat
    /\ EmptyLists \in BOOLEAN
    /\ NoTimer \notin TimerType

VARIABLES
    now,        \* Date.now()
    open,       \* the app is running
    openedAt,   \* when it was last started
    project,    \* the project exists
    rows,       \* scheduled_tasks: what each task is
    timers,     \* activeTimers: the timer armed for a task, and the row it
                \* was armed with
    running,    \* runningTasks
    flights     \* the runs in flight, by task: the row each started from

clock == <<now, open, openedAt>>
vars == <<clock, project, rows, timers, running, flights>>

-----------------------------------------------------------------------------

(* computeNextRunFor: an interval counts from now, a calendar time is the  *)
(* next one after now.                                                     *)
NextFire(s, t) ==
    IF s.kind = "interval" THEN t + s.every ELSE t - (t % s.every) + s.every

Live(r) == r.state = "live"
(* Mutant: only the switch is asked.                                       *)
On_Enabled(r) == r.enabled
On(r) == Live(r) /\ r.enabled

(* setTimeout: a delay it cannot hold fires at once.                       *)
FiresAt(next) ==
    LET delay == IF next > now THEN next - now ELSE 0
    IN  IF delay > MaxDelay THEN now ELSE now + delay

(* scheduleNextFire, given the freshest row: an old timer is cleared, and  *)
(* a new one armed if the task exists and is enabled.                      *)
Armed(r) ==
    IF On(r)
    THEN [due  |-> FiresAt(IF r.next = Never THEN NextFire(r.task.sched, now)
                                             ELSE r.next),
          task |-> r.task]
    ELSE NoTimer

Rearm(t) == timers' = [timers EXCEPT ![t] = Armed(rows'[t])]

Init ==
    /\ now = 0 /\ open = TRUE /\ openedAt = 0
    /\ project = TRUE
    /\ rows = [t \in Tasks |-> [state |-> "unborn", enabled |-> FALSE,
                                next |-> Never,
                                task |-> [sched |-> CHOOSE s \in Schedules : TRUE,
                                          empty |-> FALSE]]]
    /\ timers = [t \in Tasks |-> NoTimer]
    /\ running = {}
    /\ flights = [t \in Tasks |-> <<>>]

(* startScheduledRun: refused while the task runs.  A task with nothing to *)
(* run ends before anything else can happen: only its timer is re-armed.   *)
EndsAtOnce(t, task) == t \notin running /\ task.empty

(* Mutant: nobody asks whether the task runs.                              *)
StartRun_Unguarded(t, task) ==
    /\ IF task.empty
       THEN UNCHANGED <<running, flights>>
       ELSE /\ running' = running \cup {t}
            /\ flights' = [flights EXCEPT ![t] = Append(@, task)]
    /\ UNCHANGED rows

StartRun(t, task) ==
    /\ IF t \in running \/ task.empty
       THEN UNCHANGED <<running, flights>>
       ELSE /\ running' = running \cup {t}
            /\ flights' = [flights EXCEPT ![t] = Append(@, task)]
    /\ UNCHANGED rows

-----------------------------------------------------------------------------
(* The handlers.                                                           *)

Create(t, s, e) ==
    /\ open /\ project /\ rows[t].state = "unborn"
    /\ rows' = [rows EXCEPT ![t] =
                  [state |-> "live", enabled |-> TRUE,
                   next |-> NextFire(s, now),
                   task |-> [sched |-> s, empty |-> e]]]
    /\ Rearm(t)
    /\ UNCHANGED <<clock, project, running, flights>>

(* An edit leaves "enabled" alone and sets next_run_at even when it is off.*)
Update(t, s, e) ==
    /\ open /\ Live(rows[t])
    /\ rows' = [rows EXCEPT ![t].next = NextFire(s, now),
                            ![t].task = [sched |-> s, empty |-> e]]
    /\ Rearm(t)
    /\ UNCHANGED <<clock, project, running, flights>>

Toggle(t) ==
    /\ open /\ Live(rows[t])
    /\ \/ /\ ~rows[t].enabled
          /\ rows' = [rows EXCEPT ![t] =
                        [@ EXCEPT !.enabled = TRUE,
                                  !.next = NextFire(rows[t].task.sched, now)]]
       \/ /\ rows[t].enabled
          /\ rows' = [rows EXCEPT ![t] =
                        [@ EXCEPT !.enabled = FALSE, !.next = Never]]
    /\ Rearm(t)
    /\ UNCHANGED <<clock, project, running, flights>>

(* Mutant: the timer of a deleted task is left armed.                      *)
Delete_KeepsTimer(t) ==
    /\ open /\ Live(rows[t])
    /\ rows' = [rows EXCEPT ![t].state = "gone"]
    /\ UNCHANGED <<clock, project, timers, running, flights>>

Delete(t) ==
    /\ open /\ Live(rows[t])
    /\ rows' = [rows EXCEPT ![t].state = "gone"]
    /\ timers' = [timers EXCEPT ![t] = NoTimer]
    /\ UNCHANGED <<clock, project, running, flights>>

RunNow(t) ==
    /\ open /\ Live(rows[t])
    /\ StartRun(t, rows[t].task)
    /\ IF EndsAtOnce(t, rows[t].task) THEN Rearm(t) ELSE UNCHANGED timers
    /\ UNCHANGED <<clock, project>>

(* The rows of a deleted project go with it (ON DELETE CASCADE); nobody    *)
(* tells the scheduler.                                                    *)
DeleteProject ==
    /\ open /\ project
    /\ project' = FALSE
    /\ rows' = [t \in Tasks |-> IF Live(rows[t])
                                THEN [rows[t] EXCEPT !.state = "gone"]
                                ELSE rows[t]]
    /\ UNCHANGED <<clock, timers, running, flights>>

-----------------------------------------------------------------------------
(* What happens by itself.                                                 *)

(* The timer runs the task as it was when the timer was armed.             *)
TimerFires(t) ==
    /\ open /\ timers[t] # NoTimer /\ timers[t].due <= now
    /\ StartRun(t, timers[t].task)
    /\ IF EndsAtOnce(t, timers[t].task)
       THEN Rearm(t)
       ELSE timers' = [timers EXCEPT ![t] = NoTimer]
    /\ UNCHANGED <<clock, project>>

(* Mutant: the timer is not armed again.                                   *)
RunEnds_ArmsNothing(t, k) ==
    /\ open /\ k \in DOMAIN flights[t]
    /\ rows' = IF Live(rows[t])
               THEN [rows EXCEPT ![t].next = NextFire(flights[t][k].sched, now)]
               ELSE rows
    /\ running' = running \ {t}
    /\ flights' = [flights EXCEPT ![t] = SubSeq(@, 1, k - 1)
                                           \o SubSeq(@, k + 1, Len(@))]
    /\ UNCHANGED <<clock, project, timers>>

(* A run ends, well or not: the schedule it STARTED with gives the next    *)
(* time, and the timer is armed again.                                     *)
RunEnds(t, k) ==
    /\ open /\ k \in DOMAIN flights[t]
    /\ rows' = IF Live(rows[t])
               THEN [rows EXCEPT ![t].next = NextFire(flights[t][k].sched, now)]
               ELSE rows
    /\ running' = running \ {t}
    /\ flights' = [flights EXCEPT ![t] = SubSeq(@, 1, k - 1)
                                           \o SubSeq(@, k + 1, Len(@))]
    /\ Rearm(t)
    /\ UNCHANGED <<clock, project>>

Tick ==
    /\ now < Horizon
    /\ now' = now + 1
    /\ UNCHANGED <<open, openedAt, project, rows, timers, running, flights>>

(* The app quits or crashes: what is in memory is lost.                    *)
Quit ==
    /\ open
    /\ open' = FALSE
    /\ timers' = [t \in Tasks |-> NoTimer]
    /\ running' = {}
    /\ flights' = [t \in Tasks |-> <<>>]
    /\ UNCHANGED <<now, openedAt, project, rows>>

(* Mutant: a time that passed while the app was closed stands.             *)
Startup_CatchesUp ==
    /\ ~open
    /\ open' = TRUE /\ openedAt' = now
    /\ timers' = [t \in Tasks |-> Armed(rows[t])]
    /\ UNCHANGED <<now, project, rows, running, flights>>

(* startAllSchedulers: a time that passed while the app was closed is      *)
(* replaced by the next one.                                               *)
Startup ==
    /\ ~open
    /\ open' = TRUE /\ openedAt' = now
    /\ rows' = [t \in Tasks |->
                  IF On(rows[t]) /\ rows[t].next < now
                  THEN [rows[t] EXCEPT !.next = NextFire(rows[t].task.sched, now)]
                  ELSE rows[t]]
    /\ timers' = [t \in Tasks |-> Armed(rows'[t])]
    /\ UNCHANGED <<now, project, running, flights>>

-----------------------------------------------------------------------------

Lists == IF EmptyLists THEN BOOLEAN ELSE {FALSE}

Handler(t) ==
    \/ \E s \in Schedules, e \in Lists : Create(t, s, e) \/ Update(t, s, e)
    \/ Toggle(t) \/ Delete(t) \/ RunNow(t)

RunEndsSomehow(t) == \E k \in 1..Len(flights[t]) : RunEnds(t, k)

Next ==
    \/ \E t \in Tasks : Handler(t) \/ TimerFires(t) \/ RunEndsSomehow(t)
    \/ DeleteProject \/ Tick \/ Quit \/ Startup

(* A due timer fires and a run comes to its end; nothing makes the user    *)
(* act, the app quit or start, or the clock go on.                         *)
Spec ==
    /\ Init /\ [][Next]_vars
    /\ \A t \in Tasks : WF_vars(TimerFires(t)) /\ WF_vars(RunEndsSomehow(t))

-----------------------------------------------------------------------------
(* Properties.                                                             *)

RowType == [state : {"unborn", "live", "gone"}, enabled : BOOLEAN,
            next : Nat \cup {Never}, task : TaskType]

(* Every variable of the scheduler has its type.                           *)
TypeOK ==
    /\ now \in Nat /\ openedAt \in Nat
    /\ open \in BOOLEAN /\ project \in BOOLEAN
    /\ rows \in [Tasks -> RowType]
    /\ timers \in [Tasks -> TimerType \cup {NoTimer}]
    /\ running \subseteq Tasks
    /\ flights \in [Tasks -> Seq(TaskType)]

(* "A task never overlaps itself": however timers, runs by hand, edits and *)
(* restarts follow each other, a task has a run in flight exactly while it *)
(* is marked as running, and never two.                                    *)
NeverOverlaps ==
    \A t \in Tasks : Len(flights[t]) = (IF t \in running THEN 1 ELSE 0)

(* A task that is on and not running has a timer, so its schedule goes on  *)
(* after every run, edit and restart; and a timer is only ever armed for a *)
(* task that exists and is on, with the row as it stands now, so that an   *)
(* edit reaches a run that has not begun.  (Deleting the project is the    *)
(* exception: see GoneProjectArmsNothing.)                                 *)
TimersFollowRows ==
    (open /\ project) => \A t \in Tasks :
        /\ On(rows[t]) /\ t \notin running => timers[t] # NoTimer
        /\ timers[t] # NoTimer => /\ On(rows[t])
                                  /\ timers[t].task = rows[t].task

(* A timer is set for the time its row shows, never for an earlier one,    *)
(* and for a later one only if that time is past already; and there is no  *)
(* catching up: that time never passed while the app was closed.           *)
TimersAreOnTime ==
    (open /\ project) => \A t \in Tasks : timers[t] # NoTimer =>
        /\ timers[t].due >= rows[t].next
        /\ timers[t].due > rows[t].next => timers[t].due <= now
        /\ rows[t].next >= openedAt

(* Once a project is deleted, no timer of its tasks is armed again: each   *)
(* of them fires at most once more.                                        *)
GoneProjectArmsNothing ==
    [][~project => \A t \in Tasks : timers'[t] \in {timers[t], NoTimer}]_vars

(* A task with requests whose time has come runs, or its schedule moves on,*)
(* unless it is switched off or the app quits: no order of runs by hand,   *)
(* late endings and edits makes a task miss its timer for good.            *)
Due(t) == open /\ On(rows[t]) /\ rows[t].next <= now
DueFor(t, emptyList) == Due(t) /\ rows[t].task.empty = emptyList
DueTasksMoveOn == \A t \in Tasks : DueFor(t, FALSE) ~> ~DueFor(t, FALSE)

-----------------------------------------------------------------------------
(* The inductive invariant behind the safety theorems of SchedulerProofs.  *)

(* NeverOverlaps and TimersFollowRows, task by task, are inductive with    *)
(* what a closed app and a deleted project look like, and with the next    *)
(* time of a task that is on: set, and not before the app was started.     *)
TaskInv(t) ==
    /\ Len(flights[t]) = (IF t \in running THEN 1 ELSE 0)
    /\ ~open => t \notin running /\ timers[t] = NoTimer
    /\ ~project => ~Live(rows[t])
    /\ On(rows[t]) => /\ rows[t].next \in Nat
                      /\ open => rows[t].next >= openedAt
    /\ (open /\ project /\ On(rows[t]) /\ t \notin running)
         => timers[t] # NoTimer
    /\ (open /\ project /\ timers[t] # NoTimer)
         => On(rows[t]) /\ timers[t].task = rows[t].task

SchedulerInv == openedAt <= now /\ \A t \in Tasks : TaskInv(t)

=============================================================================
