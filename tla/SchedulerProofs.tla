--------------------------- MODULE SchedulerProofs ---------------------------
(* What holds of the scheduler for every set of tasks and schedules and    *)
(* every bound of the clock.                                               *)
EXTENDS Scheduler, SequenceTheorems, TLAPS

(* computeNextRunFor never answers with a time that has come.              *)
LEMMA NextFireIsLater ==
    ASSUME NEW s \in ScheduleType, NEW t \in Nat
    PROVE  NextFire(s, t) \in Nat /\ NextFire(s, t) > t
<1>1. s.kind \in {"interval", "calendar"} /\ s.every \in Nat /\ s.every > 0
  BY DEF ScheduleType
<1>2. t % s.every \in Nat /\ t % s.every < s.every
  BY <1>1
<1>. QED
  BY <1>1, <1>2 DEF NextFire

(* A run that is dropped from the list of runs leaves a list of runs, one  *)
(* shorter.                                                                *)
LEMMA FlightDropped ==
    ASSUME NEW S, NEW q \in Seq(S), NEW k \in DOMAIN q
    PROVE  LET rest == SubSeq(q, 1, k - 1) \o SubSeq(q, k + 1, Len(q))
           IN  rest \in Seq(S) /\ Len(rest) = Len(q) - 1
<1>1. k \in 1..Len(q) /\ Len(q) \in Nat
  OBVIOUS
<1>. DEFINE front == SubSeq(q, 1, k - 1)
            back  == SubSeq(q, k + 1, Len(q))
<1>2. front \in Seq(S) /\ Len(front) = k - 1
  BY <1>1
<1>3. back \in Seq(S) /\ Len(back) = Len(q) - k
  BY <1>1
<1>. HIDE DEF front, back
<1>4. front \o back \in Seq(S) /\ Len(front \o back) = Len(front) + Len(back)
  BY <1>2, <1>3, ConcatProperties
<1>5. Len(front \o back) = Len(q) - 1
  BY <1>1, <1>2, <1>3, <1>4
<1>. QED
  BY <1>4, <1>5 DEF front, back

(* A timer is armed with the row it is given.                              *)
LEMMA ArmedIsTyped ==
    ASSUME SchedulerConstants, now \in Nat, NEW r \in RowType
    PROVE  /\ Armed(r) \in TimerType \cup {NoTimer}
           /\ Armed(r) = NoTimer <=> ~On(r)
           /\ Armed(r) # NoTimer => Armed(r).task = r.task
<1>1. r.task \in TaskType /\ r.task.sched \in ScheduleType
      /\ r.next \in Nat \cup {Never} /\ now \in Nat
  BY DEF RowType, TaskType
<1>2. NextFire(r.task.sched, now) \in Nat
  BY <1>1, NextFireIsLater
<1>3. \A n \in Nat : FiresAt(n) \in Nat
  BY <1>1 DEF FiresAt, SchedulerConstants
<1>. DEFINE n == IF r.next = Never THEN NextFire(r.task.sched, now) ELSE r.next
            d == [due |-> FiresAt(n), task |-> r.task]
<1>4. n \in Nat
  BY <1>1, <1>2 DEF Never
<1>5. d \in TimerType
  BY <1>1, <1>3, <1>4 DEF TimerType
<1>. QED
  BY <1>5 DEF Armed, SchedulerConstants

-----------------------------------------------------------------------------
(* Types.                                                                  *)

(* Every variable has its type at the start.                               *)
LEMMA InitIsTyped == ASSUME SchedulerConstants, Init PROVE TypeOK
<1>. DEFINE s0 == CHOOSE s \in Schedules : TRUE
<1>1. s0 \in ScheduleType
  BY DEF SchedulerConstants
<1>2. [sched |-> s0, empty |-> FALSE] \in TaskType
  BY <1>1 DEF TaskType
<1>. HIDE DEF s0
<1>3. [state |-> "unborn", enabled |-> FALSE, next |-> Never,
       task |-> [sched |-> s0, empty |-> FALSE]] \in RowType
  BY <1>2 DEF RowType
<1>4. rows \in [Tasks -> RowType]
  BY <1>3 DEF Init, s0
<1>5. flights \in [Tasks -> Seq(TaskType)]
  BY DEF Init
<1>. QED
  BY <1>4, <1>5 DEF Init, TypeOK

(* Arming a timer from a well-typed table keeps the timers well typed.     *)
LEMMA RearmIsTyped ==
    ASSUME SchedulerConstants, TypeOK, NEW t \in Tasks, Rearm(t),
           rows' \in [Tasks -> RowType]
    PROVE  /\ timers' \in [Tasks -> TimerType \cup {NoTimer}]
           /\ timers'[t] = Armed(rows'[t])
           /\ \A u \in Tasks \ {t} : timers'[u] = timers[u]
<1>1. Armed(rows'[t]) \in TimerType \cup {NoTimer}
  BY ArmedIsTyped DEF TypeOK
<1>. QED
  BY <1>1 DEF Rearm, TypeOK

(* A row that is switched on or off is a row.                              *)
LEMMA RowSwitchedIsTyped ==
    ASSUME NEW r \in RowType, NEW on \in BOOLEAN, NEW n \in Nat \cup {Never}
    PROVE  [r EXCEPT !.enabled = on, !.next = n] \in RowType
BY DEF RowType

(* Starting a run keeps the types.                                         *)
LEMMA StartRunIsTyped ==
    ASSUME TypeOK, NEW t \in Tasks, NEW task \in TaskType, StartRun(t, task)
    PROVE  /\ running' \subseteq Tasks
           /\ flights' \in [Tasks -> Seq(TaskType)]
           /\ rows' = rows
<1>1. Append(flights[t], task) \in Seq(TaskType)
  BY DEF TypeOK
<1>. QED
  BY <1>1 DEF StartRun, TypeOK

(* Every step keeps the types.                                             *)
LEMMA NextKeepsTypes ==
    ASSUME SchedulerConstants, TypeOK, [Next]_vars
    PROVE  TypeOK'
<1>. USE DEF TypeOK
<1>0. \A r \in RowType : r.task \in TaskType /\ r.task.sched \in ScheduleType
  BY DEF RowType, TaskType
<1>1. ASSUME NEW t \in Tasks, NEW s \in Schedules, NEW e \in BOOLEAN, Create(t, s, e)
      PROVE  TypeOK'
  <2>1. NextFire(s, now) \in Nat /\ [sched |-> s, empty |-> e] \in TaskType
    BY NextFireIsLater DEF SchedulerConstants, TaskType
  <2>2. rows' \in [Tasks -> RowType]
    BY <1>1, <2>1 DEF Create, RowType
  <2>. QED
    BY <1>1, <2>2, RearmIsTyped DEF Create, clock
<1>2. ASSUME NEW t \in Tasks, NEW s \in Schedules, NEW e \in BOOLEAN, Update(t, s, e)
      PROVE  TypeOK'
  <2>1. NextFire(s, now) \in Nat /\ [sched |-> s, empty |-> e] \in TaskType
    BY NextFireIsLater DEF SchedulerConstants, TaskType
  <2>2. rows' \in [Tasks -> RowType]
    BY <1>2, <2>1 DEF Update, RowType
  <2>. QED
    BY <1>2, <2>2, RearmIsTyped DEF Update, clock
<1>3. ASSUME NEW t \in Tasks, Toggle(t) PROVE TypeOK'
  <2>1. NextFire(rows[t].task.sched, now) \in Nat
    BY <1>0, NextFireIsLater
  <2>2. \E r \in RowType : rows' = [rows EXCEPT ![t] = r]
    <3>1. [rows[t] EXCEPT !.enabled = TRUE,
                          !.next = NextFire(rows[t].task.sched, now)] \in RowType
      BY <2>1, RowSwitchedIsTyped
    <3>2. [rows[t] EXCEPT !.enabled = FALSE, !.next = Never] \in RowType
      BY RowSwitchedIsTyped
    <3>. QED
      BY <1>3, <3>1, <3>2, Zenon DEF Toggle
  <2>3. rows' \in [Tasks -> RowType]
    BY <2>2
  <2>. QED
    BY <1>3, <2>3, RearmIsTyped DEF Toggle, clock
<1>4. ASSUME NEW t \in Tasks, Delete(t) PROVE TypeOK'
  BY <1>4 DEF Delete, clock, RowType
<1>5. ASSUME NEW t \in Tasks, RunNow(t) PROVE TypeOK'
  <2>1. rows[t].task \in TaskType
    BY <1>0
  <2>2. /\ running' \subseteq Tasks /\ rows' = rows
        /\ flights' \in [Tasks -> Seq(TaskType)]
    BY <1>5, <2>1, StartRunIsTyped DEF RunNow
  <2>3. timers' \in [Tasks -> TimerType \cup {NoTimer}]
    BY <1>5, <2>2, RearmIsTyped DEF RunNow
  <2>. QED
    BY <1>5, <2>2, <2>3 DEF RunNow, clock
<1>6. CASE DeleteProject
  <2>1. rows' \in [Tasks -> RowType]
    BY <1>6 DEF DeleteProject, RowType
  <2>. QED
    BY <1>6, <2>1 DEF DeleteProject, clock
<1>7. ASSUME NEW t \in Tasks, TimerFires(t) PROVE TypeOK'
  <2>1. timers[t].task \in TaskType
    BY <1>7 DEF TimerFires, TimerType
  <2>2. /\ running' \subseteq Tasks /\ rows' = rows
        /\ flights' \in [Tasks -> Seq(TaskType)]
    BY <1>7, <2>1, StartRunIsTyped DEF TimerFires
  <2>3. timers' \in [Tasks -> TimerType \cup {NoTimer}]
    BY <1>7, <2>2, RearmIsTyped DEF TimerFires
  <2>. QED
    BY <1>7, <2>2, <2>3 DEF TimerFires, clock
<1>8. ASSUME NEW t \in Tasks, NEW k \in 1..Len(flights[t]), RunEnds(t, k)
      PROVE  TypeOK'
  <2>1. flights[t][k] \in TaskType
    BY <1>8 DEF RunEnds
  <2>2. NextFire(flights[t][k].sched, now) \in Nat
    BY <2>1, NextFireIsLater DEF TaskType
  <2>3. rows' \in [Tasks -> RowType]
    BY <1>8, <2>2 DEF RunEnds, RowType
  <2>4. SubSeq(flights[t], 1, k - 1) \o SubSeq(flights[t], k + 1, Len(flights[t]))
          \in Seq(TaskType)
    BY <1>8, FlightDropped DEF RunEnds
  <2>5. flights' \in [Tasks -> Seq(TaskType)]
    BY <1>8, <2>4 DEF RunEnds
  <2>. QED
    BY <1>8, <2>3, <2>5, RearmIsTyped DEF RunEnds, clock
<1>9. CASE Tick
  BY <1>9 DEF Tick
<1>10. CASE Quit
  <2>1. flights' \in [Tasks -> Seq(TaskType)]
    BY <1>10 DEF Quit
  <2>. QED
    BY <1>10, <2>1 DEF Quit
<1>11. CASE Startup
  <2>1. \A t \in Tasks : NextFire(rows[t].task.sched, now) \in Nat
    BY <1>0, NextFireIsLater
  <2>2. rows' \in [Tasks -> RowType]
    BY <1>11, <2>1 DEF Startup, RowType
  <2>3. \A t \in Tasks : Armed(rows'[t]) \in TimerType \cup {NoTimer}
    BY <2>2, ArmedIsTyped
  <2>4. timers' \in [Tasks -> TimerType \cup {NoTimer}]
    BY <1>11, <2>3 DEF Startup
  <2>. QED
    BY <1>11, <2>2, <2>4 DEF Startup
<1>12. CASE UNCHANGED vars
  BY <1>12 DEF vars, clock
<1>13. Lists \subseteq BOOLEAN
  BY DEF Lists
<1>. QED
  BY <1>1, <1>2, <1>3, <1>4, <1>5, <1>6, <1>7, <1>8, <1>9, <1>10, <1>11,
     <1>12, <1>13 DEF Next, Handler, RunEndsSomehow

(* Every variable of the scheduler keeps its type, for any set of tasks.   *)
THEOREM SchedulerTypeCorrect == Spec => []TypeOK
<1>1. Init => TypeOK
  BY InitIsTyped, SchedulerConstants
<1>2. TypeOK /\ [Next]_vars => TypeOK'
  BY NextKeepsTypes, SchedulerConstants
<1>. QED
  BY <1>1, <1>2, PTL DEF Spec

-----------------------------------------------------------------------------
(* The invariant of a task.                                                *)

(* A step that leaves a task alone keeps its invariant.                    *)
LEMMA UntouchedTask ==
    ASSUME NEW u, TaskInv(u), UNCHANGED <<open, openedAt, project>>,
           rows'[u] = rows[u], timers'[u] = timers[u],
           flights'[u] = flights[u], u \in running' <=> u \in running
    PROVE  TaskInv(u)'
BY DEF TaskInv, On, Live

(* A step that arms the timer of a task from its new row keeps the         *)
(* invariant, whatever else it does to the row.                            *)
LEMMA RearmedTask ==
    ASSUME SchedulerConstants, TypeOK, NEW t \in Tasks, Rearm(t),
           rows' \in [Tasks -> RowType], open, open', openedAt' = openedAt,
           On(rows'[t]) => rows'[t].next \in Nat /\ rows'[t].next >= openedAt,
           ~project' => ~Live(rows'[t]),
           Len(flights'[t]) = (IF t \in running' THEN 1 ELSE 0)
    PROVE  TaskInv(t)'
<1>1. /\ timers'[t] = NoTimer <=> ~On(rows'[t])
      /\ timers'[t] # NoTimer => timers'[t].task = rows'[t].task
  BY RearmIsTyped, ArmedIsTyped DEF TypeOK
<1>. QED
  BY <1>1 DEF TaskInv, On, Live

(* Starting a run, or being refused one, keeps a task from overlapping     *)
(* itself and leaves the other tasks alone.                                *)
LEMMA StartRunKeepsRuns ==
    ASSUME TypeOK, NEW t \in Tasks, NEW task \in TaskType, TaskInv(t),
           StartRun(t, task)
    PROVE  /\ Len(flights'[t]) = (IF t \in running' THEN 1 ELSE 0)
           /\ EndsAtOnce(t, task) <=> t \notin running'
           /\ \A u \in Tasks \ {t} : /\ flights'[u] = flights[u]
                                     /\ u \in running' <=> u \in running
<1>1. flights[t] \in Seq(TaskType)
  BY DEF TypeOK
<1>2. Len(Append(flights[t], task)) = Len(flights[t]) + 1
  BY <1>1
<1>. QED
  BY <1>1, <1>2 DEF StartRun, EndsAtOnce, TaskInv, TypeOK

(* Every step keeps the invariant.                                         *)
LEMMA NextKeepsInv ==
    ASSUME SchedulerConstants, TypeOK, TypeOK', SchedulerInv, [Next]_vars
    PROVE  SchedulerInv'
<1>. USE DEF SchedulerInv
<1>0. \A u \in Tasks : /\ rows[u] \in RowType /\ TaskInv(u)
                       /\ rows[u].task \in TaskType
                       /\ rows[u].task.sched \in ScheduleType
  BY DEF TypeOK, RowType, TaskType
<1>a. now \in Nat /\ openedAt \in Nat /\ rows' \in [Tasks -> RowType]
  BY DEF TypeOK
<1>1. ASSUME NEW t \in Tasks, NEW s \in Schedules, NEW e \in BOOLEAN,
             Create(t, s, e) \/ Update(t, s, e)
      PROVE  SchedulerInv'
  <2>1. NextFire(s, now) \in Nat /\ NextFire(s, now) > now
    BY <1>a, NextFireIsLater DEF SchedulerConstants
  <2>2. /\ rows'[t].next = NextFire(s, now)
        /\ \A u \in Tasks \ {t} : rows'[u] = rows[u]
    <3>1. CASE Create(t, s, e)
      BY <3>1 DEF Create, TypeOK
    <3>2. CASE Update(t, s, e)
      BY <3>2 DEF Update, TypeOK, RowType
    <3>. QED
      BY <1>1, <3>1, <3>2
  <2>3. /\ open /\ open' /\ Rearm(t) /\ UNCHANGED <<clock, project, running, flights>>
        /\ project' \/ Live(rows[t])
    BY <1>1 DEF Create, Update, clock
  <2>4. TaskInv(t)'
    <3>1. ~project' => ~Live(rows'[t])
      BY <1>0, <2>3 DEF TaskInv
    <3>2. Len(flights'[t]) = (IF t \in running' THEN 1 ELSE 0)
      BY <1>0, <2>3 DEF TaskInv
    <3>. QED
      BY <1>a, <2>1, <2>2, <2>3, <3>1, <3>2, RearmedTask DEF clock
  <2>5. ASSUME NEW u \in Tasks \ {t} PROVE TaskInv(u)'
    BY <1>0, <2>2, <2>3, RearmIsTyped, <1>a, UntouchedTask DEF clock
  <2>. QED
    BY <2>3, <2>4, <2>5 DEF clock
<1>2. ASSUME NEW t \in Tasks, Toggle(t) PROVE SchedulerInv'
  <2>1. /\ NextFire(rows[t].task.sched, now) \in Nat
        /\ NextFire(rows[t].task.sched, now) > now
    BY <1>0, <1>a, NextFireIsLater
  <2>2. /\ On(rows'[t]) => rows'[t].next = NextFire(rows[t].task.sched, now)
        /\ \A u \in Tasks \ {t} : rows'[u] = rows[u]
    <3>. DEFINE on == [rows[t] EXCEPT !.enabled = TRUE,
                                     !.next = NextFire(rows[t].task.sched, now)]
                off == [rows[t] EXCEPT !.enabled = FALSE, !.next = Never]
    <3>1. /\ on.next = NextFire(rows[t].task.sched, now)
          /\ ~off.enabled
      BY <1>0 DEF RowType
    <3>2. rows' = [rows EXCEPT ![t] = on] \/ rows' = [rows EXCEPT ![t] = off]
      BY <1>2, Zenon DEF Toggle
    <3>. HIDE DEF on, off
    <3>3. /\ rows'[t] = on \/ rows'[t] = off
          /\ \A u \in Tasks \ {t} : rows'[u] = rows[u]
      BY <3>2 DEF TypeOK
    <3>. QED
      BY <3>1, <3>3 DEF On
  <2>3. /\ open /\ open' /\ Rearm(t) /\ UNCHANGED <<clock, project, running, flights>>
        /\ Live(rows[t])
    BY <1>2 DEF Toggle, clock
  <2>4. TaskInv(t)'
    <3>1. project'
      BY <1>0, <2>3 DEF TaskInv
    <3>2. Len(flights'[t]) = (IF t \in running' THEN 1 ELSE 0)
      BY <1>0, <2>3 DEF TaskInv
    <3>. QED
      BY <1>a, <2>1, <2>2, <2>3, <3>1, <3>2, RearmedTask DEF clock
  <2>5. ASSUME NEW u \in Tasks \ {t} PROVE TaskInv(u)'
    BY <1>0, <2>2, <2>3, RearmIsTyped, <1>a, UntouchedTask DEF clock
  <2>. QED
    BY <2>3, <2>4, <2>5 DEF clock
<1>3. ASSUME NEW t \in Tasks, Delete(t) PROVE SchedulerInv'
  <2>1. TaskInv(t)'
    BY <1>0, <1>3 DEF Delete, TaskInv, On, Live, clock, TypeOK
  <2>2. ASSUME NEW u \in Tasks \ {t} PROVE TaskInv(u)'
    <3>1. rows'[u] = rows[u] /\ timers'[u] = timers[u]
      BY <1>3 DEF Delete, TypeOK
    <3>. QED
      BY <1>0, <1>3, <3>1, UntouchedTask DEF Delete, clock
  <2>. QED
    BY <1>3, <2>1, <2>2 DEF Delete, clock
<1>4. ASSUME NEW t \in Tasks, RunNow(t) PROVE SchedulerInv'
  <2>1. StartRun(t, rows[t].task) /\ UNCHANGED <<clock, project>> /\ open
    BY <1>4 DEF RunNow
  <2>2. /\ Len(flights'[t]) = (IF t \in running' THEN 1 ELSE 0)
        /\ EndsAtOnce(t, rows[t].task) <=> t \notin running'
        /\ \A u \in Tasks \ {t} : /\ flights'[u] = flights[u]
                                  /\ u \in running' <=> u \in running
        /\ rows' = rows
    BY <1>0, <2>1, StartRunKeepsRuns DEF StartRun
  <2>3. TaskInv(t)'
    <3>1. CASE EndsAtOnce(t, rows[t].task)
      <4>1. Rearm(t)
        BY <1>4, <3>1 DEF RunNow
      <4>. QED
        BY <1>0, <1>a, <2>1, <2>2, <4>1, RearmedTask DEF clock, TaskInv
    <3>2. CASE ~EndsAtOnce(t, rows[t].task)
      <4>1. timers' = timers
        BY <1>4, <3>2 DEF RunNow
      <4>. QED
        BY <1>0, <2>1, <2>2, <3>2, <4>1 DEF clock, TaskInv, On, Live
    <3>. QED
      BY <3>1, <3>2
  <2>4. ASSUME NEW u \in Tasks \ {t} PROVE TaskInv(u)'
    <3>1. timers'[u] = timers[u]
      BY <1>4, <1>a, RearmIsTyped DEF RunNow
    <3>2. /\ flights'[u] = flights[u] /\ rows'[u] = rows[u]
          /\ u \in running' <=> u \in running
      BY <2>2
    <3>3. TaskInv(u)
      BY <1>0
    <3>. QED
      BY <2>1, <3>1, <3>2, <3>3, UntouchedTask DEF clock
  <2>. QED
    BY <2>1, <2>3, <2>4 DEF clock
<1>5. CASE DeleteProject
  <2>1. ASSUME NEW u \in Tasks PROVE TaskInv(u)'
    BY <1>0, <1>5 DEF DeleteProject, TaskInv, On, Live, clock, RowType
  <2>. QED
    BY <1>5, <2>1 DEF DeleteProject, clock
<1>6. ASSUME NEW t \in Tasks, TimerFires(t) PROVE SchedulerInv'
  <2>1. /\ StartRun(t, timers[t].task) /\ UNCHANGED <<clock, project>>
        /\ open /\ timers[t].task \in TaskType
    BY <1>6 DEF TimerFires, TypeOK, TimerType
  <2>2. /\ Len(flights'[t]) = (IF t \in running' THEN 1 ELSE 0)
        /\ EndsAtOnce(t, timers[t].task) <=> t \notin running'
        /\ \A u \in Tasks \ {t} : /\ flights'[u] = flights[u]
                                  /\ u \in running' <=> u \in running
        /\ rows' = rows
    BY <1>0, <2>1, StartRunKeepsRuns DEF StartRun
  <2>3. TaskInv(t)'
    <3>1. CASE EndsAtOnce(t, timers[t].task)
      <4>1. Rearm(t)
        BY <1>6, <3>1 DEF TimerFires
      <4>. QED
        BY <1>0, <1>a, <2>1, <2>2, <4>1, RearmedTask DEF clock, TaskInv
    <3>2. CASE ~EndsAtOnce(t, timers[t].task)
      <4>1. timers'[t] = NoTimer
        BY <1>6, <3>2 DEF TimerFires, TypeOK
      <4>. QED
        BY <1>0, <2>1, <2>2, <3>2, <4>1 DEF clock, TaskInv, On, Live
    <3>. QED
      BY <3>1, <3>2
  <2>4. ASSUME NEW u \in Tasks \ {t} PROVE TaskInv(u)'
    <3>1. timers'[u] = timers[u]
      BY <1>6, <1>a, RearmIsTyped DEF TimerFires, TypeOK
    <3>2. /\ flights'[u] = flights[u] /\ rows'[u] = rows[u]
          /\ u \in running' <=> u \in running
      BY <2>2
    <3>3. TaskInv(u)
      BY <1>0
    <3>. QED
      BY <2>1, <3>1, <3>2, <3>3, UntouchedTask DEF clock
  <2>. QED
    BY <2>1, <2>3, <2>4 DEF clock
<1>7. ASSUME NEW t \in Tasks, NEW k \in 1..Len(flights[t]), RunEnds(t, k)
      PROVE  SchedulerInv'
  <2>1. /\ k \in DOMAIN flights[t] /\ flights[t] \in Seq(TaskType)
        /\ flights[t][k] \in TaskType
    BY <1>7 DEF RunEnds, TypeOK
  <2>2. /\ NextFire(flights[t][k].sched, now) \in Nat
        /\ NextFire(flights[t][k].sched, now) > now
    BY <1>a, <2>1, NextFireIsLater DEF TaskType
  <2>3. /\ open /\ open' /\ Rearm(t) /\ UNCHANGED <<clock, project>>
        /\ running' = running \ {t}
    BY <1>7 DEF RunEnds, clock
  <2>4. /\ Len(flights'[t]) = Len(flights[t]) - 1
        /\ \A u \in Tasks \ {t} : flights'[u] = flights[u]
    BY <1>7, <2>1, FlightDropped DEF RunEnds, TypeOK
  <2>5. Len(flights'[t]) = 0
    <3>1. Len(flights[t]) \in {0, 1}
      BY <1>0 DEF TaskInv
    <3>. QED
      BY <1>7, <2>4, <3>1
  <2>6. /\ Live(rows'[t]) => /\ Live(rows[t])
                             /\ rows'[t].next = NextFire(flights[t][k].sched, now)
        /\ \A u \in Tasks \ {t} : rows'[u] = rows[u]
    BY <1>7 DEF RunEnds, Live, TypeOK, RowType
  <2>7. TaskInv(t)'
    <3>1. ~project' => ~Live(rows'[t])
      BY <1>0, <2>3, <2>6 DEF TaskInv
    <3>. QED
      BY <1>a, <2>2, <2>3, <2>5, <2>6, <3>1, RearmedTask DEF clock, On
  <2>8. ASSUME NEW u \in Tasks \ {t} PROVE TaskInv(u)'
    BY <1>0, <1>a, <2>3, <2>4, <2>6, RearmIsTyped, UntouchedTask DEF clock
  <2>. QED
    BY <2>3, <2>7, <2>8 DEF clock
<1>8. CASE Tick
  <2>1. ASSUME NEW u \in Tasks PROVE TaskInv(u)'
    BY <1>0, <1>8, UntouchedTask DEF Tick
  <2>. QED
    BY <1>8, <1>a, <2>1 DEF Tick
<1>9. CASE Quit
  <2>1. ASSUME NEW u \in Tasks PROVE TaskInv(u)'
    BY <1>0, <1>9 DEF Quit, TaskInv, On, Live
  <2>. QED
    BY <1>9, <2>1 DEF Quit
<1>10. CASE Startup
  <2>1. ASSUME NEW u \in Tasks PROVE TaskInv(u)'
    <3>1. /\ NextFire(rows[u].task.sched, now) \in Nat
          /\ NextFire(rows[u].task.sched, now) > now
      BY <1>0, <1>a, NextFireIsLater
    <3>2. /\ On(rows'[u]) => rows'[u].next \in Nat /\ rows'[u].next >= now
          /\ Live(rows'[u]) => Live(rows[u])
      BY <1>0, <1>10, <1>a, <3>1 DEF Startup, On, Live, RowType, Never, TaskInv
    <3>3. /\ timers'[u] = NoTimer <=> ~On(rows'[u])
          /\ timers'[u] # NoTimer => timers'[u].task = rows'[u].task
      BY <1>10, <1>a, ArmedIsTyped DEF Startup
    <3>. QED
      BY <1>0, <1>10, <3>2, <3>3 DEF Startup, TaskInv, On
  <2>. QED
    BY <1>10, <1>a, <2>1 DEF Startup
<1>11. CASE UNCHANGED vars
  <2>1. ASSUME NEW u \in Tasks PROVE TaskInv(u)'
    BY <1>0, <1>11, UntouchedTask DEF vars, clock
  <2>. QED
    BY <1>11, <2>1 DEF vars, clock
<1>12. Lists \subseteq BOOLEAN
  BY DEF Lists
<1>. QED
  BY <1>1, <1>2, <1>3, <1>4, <1>5, <1>6, <1>7, <1>8, <1>9, <1>10, <1>11,
     <1>12 DEF Next, Handler, RunEndsSomehow

(* The types and the invariant hold in every state.                        *)
LEMMA SchedulerInvariant == Spec => [](TypeOK /\ SchedulerInv)
<1>1. Init => SchedulerInv
  BY DEF Init, SchedulerInv, TaskInv, On, Live
<1>2. Init => TypeOK
  BY InitIsTyped, SchedulerConstants
<1>3. TypeOK /\ SchedulerInv /\ [Next]_vars => (TypeOK /\ SchedulerInv)'
  BY NextKeepsTypes, NextKeepsInv, SchedulerConstants
<1>. QED
  BY <1>1, <1>2, <1>3, PTL DEF Spec

(* A task never overlaps itself, whatever starts its runs.                 *)
THEOREM TaskNeverOverlaps == Spec => []NeverOverlaps
<1>1. SchedulerInv => NeverOverlaps
  BY DEF SchedulerInv, TaskInv, NeverOverlaps
<1>. QED
  BY <1>1, SchedulerInvariant, PTL

(* A task that is on never loses its timer, and no timer outlives the task *)
(* it is for or carries an older version of it.                            *)
THEOREM TimersAreCurrent == Spec => []TimersFollowRows
<1>1. SchedulerInv => TimersFollowRows
  BY DEF SchedulerInv, TaskInv, TimersFollowRows
<1>. QED
  BY <1>1, SchedulerInvariant, PTL

-----------------------------------------------------------------------------
(* The times of the timers.                                                *)

(* What setTimeout asks of the schedules: none waits longer than it holds. *)
DelaysFit == \A s \in Schedules : s.every <= MaxDelay

(* TimersAreOnTime, task by task, is inductive with the schedules of the   *)
(* rows, timers and runs, and with next times no longer ahead than         *)
(* setTimeout can wait.                                                    *)
TimeInv(t) ==
    /\ rows[t].task.sched \in Schedules
    /\ \A k \in DOMAIN flights[t] : flights[t][k].sched \in Schedules
    /\ timers[t] # NoTimer => timers[t].task.sched \in Schedules
    /\ On(rows[t]) => rows[t].next <= now + MaxDelay
    /\ (open /\ project /\ timers[t] # NoTimer)
         => /\ timers[t].due >= rows[t].next
            /\ timers[t].due > rows[t].next => timers[t].due <= now

(* The next time of a schedule that fits is one setTimeout can wait for.   *)
LEMMA NextFireFits ==
    ASSUME SchedulerConstants, DelaysFit, NEW s \in Schedules, NEW t \in Nat
    PROVE  NextFire(s, t) \in Nat /\ NextFire(s, t) <= t + MaxDelay
<1>1. s \in ScheduleType /\ s.every \in Nat /\ s.every > 0 /\ s.every <= MaxDelay
  BY DEF SchedulerConstants, DelaysFit, ScheduleType
<1>2. t % s.every \in Nat /\ MaxDelay \in Nat
  BY <1>1 DEF SchedulerConstants
<1>3. NextFire(s, t) <= t + MaxDelay
  BY <1>1, <1>2 DEF NextFire
<1>. QED
  BY <1>1, <1>3, NextFireIsLater

(* A timer armed for such a time is set for it, or for now if it is past.  *)
LEMMA ArmedOnTime ==
    ASSUME SchedulerConstants, now \in Nat, NEW r \in RowType, On(r),
           r.next \in Nat, r.next <= now + MaxDelay
    PROVE  /\ Armed(r).due >= r.next
           /\ Armed(r).due > r.next => Armed(r).due <= now
<1>1. Armed(r).due = FiresAt(r.next)
  BY DEF Armed, Never
<1>2. MaxDelay \in Nat /\ now \in Nat /\ r.next \in Nat
  BY DEF SchedulerConstants
<1>3. FiresAt(r.next) = IF r.next > now THEN r.next ELSE now
  BY <1>2 DEF FiresAt
<1>. QED
  BY <1>1, <1>2, <1>3

(* A step that arms the timer of a task from its new row keeps the times   *)
(* of the task.                                                            *)
LEMMA RearmedInTime ==
    ASSUME SchedulerConstants, TypeOK, NEW t \in Tasks, Rearm(t),
           rows' \in [Tasks -> RowType], now' = now,
           rows'[t].task.sched \in Schedules,
           \A k \in DOMAIN flights'[t] : flights'[t][k].sched \in Schedules,
           On(rows'[t]) => /\ rows'[t].next \in Nat
                           /\ rows'[t].next <= now + MaxDelay
    PROVE  TimeInv(t)'
<1>1. timers'[t] = Armed(rows'[t]) /\ rows'[t] \in RowType /\ now \in Nat
  BY RearmIsTyped DEF TypeOK
<1>2. /\ timers'[t] # NoTimer => On(rows'[t])
      /\ timers'[t] # NoTimer => timers'[t].task = rows'[t].task
  BY <1>1, ArmedIsTyped
<1>3. On(rows'[t]) => /\ timers'[t].due >= rows'[t].next
                      /\ timers'[t].due > rows'[t].next => timers'[t].due <= now
  BY <1>1, ArmedOnTime
<1>. QED
  BY <1>2, <1>3 DEF TimeInv, On, Live

(* A step that leaves the row of a task alone keeps its times, whether its *)
(* timer is kept or lost, and however late it is.                          *)
LEMMA TimeGoesOn ==
    ASSUME SchedulerConstants, TypeOK, NEW t \in Tasks, TimeInv(t),
           now' \in Nat, now' >= now, open' => open, project' => project,
           rows'[t] = rows[t], timers'[t] \in {timers[t], NoTimer},
           \A k \in DOMAIN flights'[t] : flights'[t][k].sched \in Schedules
    PROVE  TimeInv(t)'
<1>1. /\ now \in Nat /\ MaxDelay \in Nat /\ rows[t].next \in Nat \cup {-1}
      /\ timers[t] # NoTimer => timers[t].due \in Nat
  BY DEF TypeOK, RowType, TimerType, SchedulerConstants, Never
<1>. QED
  BY <1>1 DEF TimeInv, On, Live

(* Every step keeps the times of every task.                               *)
LEMMA NextKeepsTimes ==
    ASSUME SchedulerConstants, DelaysFit, TypeOK, TypeOK', SchedulerInv,
           \A t \in Tasks : TimeInv(t), [Next]_vars, NEW u \in Tasks
    PROVE  TimeInv(u)'
<1>0. /\ now \in Nat /\ rows' \in [Tasks -> RowType] /\ rows[u] \in RowType
      /\ On(rows[u]) => rows[u].next \in Nat
      /\ rows[u].task.sched \in Schedules /\ TimeInv(u)
      /\ \A k \in DOMAIN flights[u] : flights[u][k].sched \in Schedules
  BY DEF TypeOK, SchedulerInv, TaskInv, TimeInv
<1>a. \A s \in Schedules : NextFire(s, now) \in Nat
                           /\ NextFire(s, now) <= now + MaxDelay
  BY <1>0, NextFireFits
<1>1. ASSUME NEW t \in Tasks, NEW s \in Schedules, NEW e \in BOOLEAN,
             Create(t, s, e) \/ Update(t, s, e)
      PROVE  TimeInv(u)'
  <2>1. /\ rows'[t].next = NextFire(s, now) /\ rows'[t].task.sched = s
        /\ \A v \in Tasks \ {t} : rows'[v] = rows[v]
    <3>1. CASE Create(t, s, e)
      BY <3>1 DEF Create, TypeOK
    <3>2. CASE Update(t, s, e)
      BY <3>2 DEF Update, TypeOK, RowType
    <3>. QED
      BY <1>1, <3>1, <3>2
  <2>2. Rearm(t) /\ UNCHANGED <<clock, project, flights>>
    BY <1>1 DEF Create, Update
  <2>3. CASE u = t
    BY <1>0, <1>a, <2>1, <2>2, <2>3, RearmedInTime DEF clock
  <2>4. CASE u # t
    BY <1>0, <2>1, <2>2, <2>4, RearmIsTyped, TimeGoesOn DEF clock
  <2>. QED
    BY <2>3, <2>4
<1>2. ASSUME NEW t \in Tasks, Toggle(t) PROVE TimeInv(u)'
  <2>1. /\ On(rows'[t]) => rows'[t].next = NextFire(rows[t].task.sched, now)
        /\ rows'[t].task = rows[t].task
        /\ \A v \in Tasks \ {t} : rows'[v] = rows[v]
    <3>. DEFINE on == [rows[t] EXCEPT !.enabled = TRUE,
                                     !.next = NextFire(rows[t].task.sched, now)]
                off == [rows[t] EXCEPT !.enabled = FALSE, !.next = Never]
    <3>1. /\ on.next = NextFire(rows[t].task.sched, now)
          /\ ~off.enabled /\ on.task = rows[t].task /\ off.task = rows[t].task
      BY DEF RowType, TypeOK
    <3>2. rows' = [rows EXCEPT ![t] = on] \/ rows' = [rows EXCEPT ![t] = off]
      BY <1>2, Zenon DEF Toggle
    <3>. HIDE DEF on, off
    <3>3. /\ rows'[t] = on \/ rows'[t] = off
          /\ \A v \in Tasks \ {t} : rows'[v] = rows[v]
      BY <3>2 DEF TypeOK
    <3>. QED
      BY <3>1, <3>3 DEF On
  <2>2. Rearm(t) /\ UNCHANGED <<clock, project, flights>>
    BY <1>2 DEF Toggle
  <2>3. CASE u = t
    BY <1>0, <1>a, <2>1, <2>2, <2>3, RearmedInTime DEF clock
  <2>4. CASE u # t
    BY <1>0, <2>1, <2>2, <2>4, RearmIsTyped, TimeGoesOn DEF clock
  <2>. QED
    BY <2>3, <2>4
<1>3. ASSUME NEW t \in Tasks, Delete(t) PROVE TimeInv(u)'
  <2>1. /\ timers'[u] \in {timers[u], NoTimer} /\ UNCHANGED <<clock, project, flights>>
        /\ u = t => timers'[u] = NoTimer /\ ~On(rows'[u])
                    /\ rows'[u].task = rows[u].task
        /\ u # t => rows'[u] = rows[u]
    BY <1>3 DEF Delete, TypeOK, RowType, On, Live
  <2>2. CASE u = t
    BY <1>0, <2>1, <2>2 DEF TimeInv, On, Live
  <2>3. CASE u # t
    BY <1>0, <2>1, <2>3, TimeGoesOn DEF clock
  <2>. QED
    BY <2>2, <2>3
<1>4. ASSUME NEW t \in Tasks, RunNow(t) \/ TimerFires(t) PROVE TimeInv(u)'
  <2>. DEFINE task == IF RunNow(t) THEN rows[t].task ELSE timers[t].task
  <2>1. StartRun(t, task) /\ UNCHANGED <<clock, project>> /\ rows' = rows
    BY <1>4 DEF RunNow, TimerFires, StartRun
  <2>2. task.sched \in Schedules
    BY <1>4 DEF TimerFires, TimeInv
  <2>3. timers'[u] \in {timers[u], NoTimer} \/ (u = t /\ Rearm(t))
    BY <1>0, <1>4, RearmIsTyped DEF RunNow, TimerFires, TypeOK
  <2>. HIDE DEF task
  <2>4. \A k \in DOMAIN flights'[u] : flights'[u][k].sched \in Schedules
    <3>1. \/ flights'[u] = flights[u]
          \/ u = t /\ flights'[u] = Append(flights[u], task)
      BY <2>1 DEF StartRun, TypeOK
    <3>2. flights[u] \in Seq(TaskType)
      BY DEF TypeOK
    <3>3. \A k \in DOMAIN Append(flights[u], task) :
             Append(flights[u], task)[k].sched \in Schedules
      BY <1>0, <2>2, <3>2
    <3>. QED
      BY <1>0, <3>1, <3>3
  <2>5. CASE timers'[u] \in {timers[u], NoTimer}
    BY <1>0, <2>1, <2>4, <2>5, TimeGoesOn DEF clock
  <2>6. CASE u = t /\ Rearm(t)
    BY <1>0, <2>1, <2>4, <2>6, RearmedInTime DEF clock, TimeInv
  <2>. QED
    BY <2>3, <2>5, <2>6
<1>5. CASE DeleteProject
  <2>1. /\ ~project' /\ UNCHANGED <<clock, timers, flights>>
        /\ rows'[u].task = rows[u].task /\ ~On(rows'[u])
    BY <1>5 DEF DeleteProject, RowType, TypeOK, On, Live
  <2>. QED
    BY <1>0, <2>1 DEF TimeInv, On, Live
<1>6. ASSUME NEW t \in Tasks, NEW k \in 1..Len(flights[t]), RunEnds(t, k)
      PROVE  TimeInv(u)'
  <2>1. /\ k \in DOMAIN flights[t] /\ flights[t][k].sched \in Schedules
        /\ flights[t] \in Seq(TaskType)
    BY <1>6 DEF RunEnds, TimeInv, TypeOK
  <2>2. Rearm(t) /\ UNCHANGED <<clock, project>>
    BY <1>6 DEF RunEnds
  <2>3. /\ Live(rows'[t]) => rows'[t].next = NextFire(flights[t][k].sched, now)
        /\ rows'[t].task = rows[t].task
        /\ \A v \in Tasks \ {t} : rows'[v] = rows[v] /\ flights'[v] = flights[v]
    BY <1>6 DEF RunEnds, Live, TypeOK, RowType
  <2>4. CASE u = t
    <3>1. Len(flights'[t]) = 0
      <4>1. Len(flights[t]) \in {0, 1}
        BY DEF SchedulerInv, TaskInv
      <4>2. Len(flights'[t]) = Len(flights[t]) - 1
        BY <1>6, <2>1, FlightDropped DEF RunEnds, TypeOK
      <4>. QED
        BY <1>6, <4>1, <4>2
    <3>2. DOMAIN flights'[t] = {}
      BY <3>1 DEF TypeOK
    <3>. QED
      BY <1>0, <1>a, <2>1, <2>2, <2>3, <2>4, <3>2, RearmedInTime DEF clock, On
  <2>5. CASE u # t
    BY <1>0, <2>2, <2>3, <2>5, RearmIsTyped, TimeGoesOn DEF clock
  <2>. QED
    BY <2>4, <2>5
<1>7. CASE Tick
  BY <1>0, <1>7, TimeGoesOn DEF Tick
<1>8. CASE Quit
  <2>1. /\ ~open' /\ UNCHANGED <<now, project, rows>> /\ timers'[u] = NoTimer
        /\ DOMAIN flights'[u] = {}
    BY <1>8 DEF Quit
  <2>. QED
    BY <1>0, <2>1, TimeGoesOn
<1>9. CASE Startup
  <2>1. /\ rows'[u].task = rows[u].task /\ UNCHANGED <<now, flights>>
        /\ timers'[u] = Armed(rows'[u]) /\ rows'[u] \in RowType
        /\ On(rows'[u]) => On(rows[u])
        /\ rows'[u] = rows[u]
             \/ (On(rows[u]) /\ rows'[u].next = NextFire(rows[u].task.sched, now))
    BY <1>0, <1>9 DEF Startup, RowType, On, Live
  <2>2. On(rows'[u]) => rows'[u].next \in Nat /\ rows'[u].next <= now + MaxDelay
    BY <1>0, <1>a, <2>1 DEF TimeInv
  <2>3. /\ timers'[u] # NoTimer => On(rows'[u])
        /\ timers'[u] # NoTimer => timers'[u].task = rows'[u].task
    BY <1>0, <2>1, ArmedIsTyped
  <2>4. On(rows'[u]) => /\ timers'[u].due >= rows'[u].next
                        /\ timers'[u].due > rows'[u].next => timers'[u].due <= now
    BY <1>0, <2>1, <2>2, ArmedOnTime
  <2>. QED
    BY <1>0, <2>1, <2>2, <2>3, <2>4 DEF TimeInv, On, Live
<1>10. CASE UNCHANGED vars
  BY <1>0, <1>10, TimeGoesOn DEF vars, clock
<1>11. Lists \subseteq BOOLEAN
  BY DEF Lists
<1>. QED
  BY <1>1, <1>2, <1>3, <1>4, <1>5, <1>6, <1>7, <1>8, <1>9, <1>10,
     <1>11 DEF Next, Handler, RunEndsSomehow

(* Where every schedule fits setTimeout, a timer is set for the time its   *)
(* row shows, and what was missed while the app was closed is never caught *)
(* up.                                                                     *)
THEOREM TimersFireOnTime ==
    ASSUME DelaysFit PROVE Spec => []TimersAreOnTime
<1>. DEFINE Times == \A t \in Tasks : TimeInv(t)
<1>1. TypeOK /\ SchedulerInv /\ Times => TimersAreOnTime
  BY DEF SchedulerInv, TaskInv, TimeInv, TimersAreOnTime
<1>2. Init => Times
  <2>. SUFFICES ASSUME Init, NEW t \in Tasks PROVE TimeInv(t)
    OBVIOUS
  <2>1. (CHOOSE s \in Schedules : TRUE) \in Schedules
    BY SchedulerConstants DEF SchedulerConstants
  <2>2. rows[t].task.sched = CHOOSE s \in Schedules : TRUE
    BY DEF Init
  <2>3. ~On(rows[t]) /\ timers[t] = NoTimer /\ DOMAIN flights[t] = {}
    BY DEF Init, On, Live
  <2>. QED
    BY <2>1, <2>2, <2>3 DEF TimeInv
<1>3. /\ TypeOK /\ TypeOK' /\ SchedulerInv /\ Times /\ [Next]_vars
      => Times'
  BY NextKeepsTimes, SchedulerConstants
<1>. HIDE DEF Times
<1>. QED
  BY <1>1, <1>2, <1>3, SchedulerInvariant, PTL DEF Spec

-----------------------------------------------------------------------------
(* The deletion of the project.                                            *)

(* Nothing is armed for a project that is gone.                            *)
LEMMA NothingIsArmed ==
    ASSUME SchedulerConstants, TypeOK, SchedulerInv, [Next]_vars, ~project,
           NEW u \in Tasks
    PROVE  timers'[u] \in {timers[u], NoTimer}
<1>1. \A t \in Tasks : ~Live(rows[t])
  BY DEF SchedulerInv, TaskInv
<1>2. \A t \in Tasks : Rearm(t) /\ rows'[t] = rows[t]
                         => timers'[u] \in {timers[u], NoTimer}
  BY <1>1 DEF Rearm, Armed, On, TypeOK
<1>3. ASSUME NEW t \in Tasks, Handler(t)
      PROVE  timers'[u] \in {timers[u], NoTimer}
  BY <1>1, <1>3 DEF Handler, Create, Update, Toggle, Delete, RunNow
<1>4. ASSUME NEW t \in Tasks, TimerFires(t)
      PROVE  timers'[u] \in {timers[u], NoTimer}
  <2>1. rows' = rows
    BY <1>4 DEF TimerFires, StartRun
  <2>2. Rearm(t) \/ timers' = [timers EXCEPT ![t] = NoTimer]
    BY <1>4 DEF TimerFires
  <2>. QED
    BY <1>2, <2>1, <2>2 DEF TypeOK
<1>5. ASSUME NEW t \in Tasks, RunEndsSomehow(t)
      PROVE  timers'[u] \in {timers[u], NoTimer}
  BY <1>1, <1>2, <1>5 DEF RunEndsSomehow, RunEnds
<1>6. CASE DeleteProject \/ Tick \/ UNCHANGED vars
  BY <1>6 DEF DeleteProject, Tick, vars
<1>7. CASE Quit
  BY <1>7 DEF Quit
<1>8. CASE Startup
  <2>1. rows'[u] = rows[u]
    BY <1>1, <1>8 DEF Startup, On
  <2>. QED
    BY <1>1, <1>8, <2>1 DEF Startup, Armed, On
<1>. QED
  BY <1>3, <1>4, <1>5, <1>6, <1>7, <1>8 DEF Next

(* Deleting a project ends its schedules: no timer is armed for its tasks  *)
(* any more.                                                               *)
THEOREM GoneProjectIsSilent == Spec => GoneProjectArmsNothing
<1>1. TypeOK /\ SchedulerInv /\ [Next]_vars
        => [~project => \A t \in Tasks : timers'[t] \in {timers[t], NoTimer}]_vars
  BY NothingIsArmed, SchedulerConstants
<1>. QED
  BY <1>1, SchedulerInvariant, PTL DEF Spec, GoneProjectArmsNothing

=============================================================================
