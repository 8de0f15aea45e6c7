---------------------------- MODULE RunnerProofs ----------------------------
(***************************************************************************)
(* Theorems about Runner, for every number of requests, iterations, jumps  *)
(* and outcomes.                                                           *)
(***************************************************************************)
EXTENDS Runner, TLAPS, SequenceTheorems, FiniteSetTheorems

(* A row built from a step is a row.                                       *)
LEMMA RowIsTyped ==
    ASSUME NEW p \in {"setup", "main", "teardown"}, NEW i \in Int,
           NEW it \in Int, NEW text \in RowTexts, NEW ok \in BOOLEAN
    PROVE  Row(p, i, it, text, ok) \in RowType
BY DEF Row, RowType, RowTexts

(* A NOT_RUN row is a row.                                                 *)
LEMMA NotRunRowIsTyped ==
    ASSUME NEW p \in {"setup", "main", "teardown"}, NEW i \in Int,
           NEW it \in Int
    PROVE  NotRunRow(p, i, it) \in RowType
BY RowIsTyped DEF NotRunRow, RowTexts

(* A function over 1..m is a sequence, the empty one if m is negative.     *)
LEMMA RowsUpTo ==
    ASSUME NEW m \in Int, NEW f \in [1..m -> RowType]
    PROVE  f \in Seq(RowType)
<1>1. CASE m >= 0
  BY <1>1
<1>2. CASE m < 0
  <2>1. 1..m = 1..0
    BY <1>2
  <2>2. f \in [1..0 -> RowType]
    BY <2>1, Zenon
  <2> QED
    BY <2>2
<1> QED
  BY <1>1, <1>2

(* The NOT_RUN rows of the rest of one pass are rows.                      *)
LEMMA NotRunFromIsTyped ==
    ASSUME NEW p \in {"setup", "main", "teardown"}, NEW i \in Int,
           NEW n \in Int
    PROVE  NotRunFrom(p, i, n) \in Seq(RowType)
<1> DEFINE m == n - i + 1
           row(k) == NotRunRow(p, i + k - 1, 0)
<1>1. m \in Int
  OBVIOUS
<1>2. \A k \in Int : row(k) \in RowType
  BY NotRunRowIsTyped
<1>4. NotRunFrom(p, i, n) = [k \in 1..m |-> row(k)]
  BY DEF NotRunFrom
<1> HIDE DEF m, row
<1>3. [k \in 1..m |-> row(k)] \in [1..m -> RowType]
  BY <1>1, <1>2
<1> QED
  BY <1>1, <1>3, <1>4, RowsUpTo

(* A position of the flow, counted over iterations, is a number.           *)
LEMMA FlowPositionIsTyped ==
    \A it, i \in Int : FlowPosition(it, i) \in Int
<1> TAKE it, i \in Int
<1>1. it - 1 \in Int /\ NMain \in Int
  BY RunnerConstants
<1>2. (it - 1) * NMain \in Int
  BY <1>1
<1> QED
  BY <1>2 DEF FlowPosition

(* The NOT_RUN rows of everything after a position are rows.               *)
LEMMA NotRunAfterIsTyped ==
    ASSUME NEW from \in Int
    PROVE  NotRunAfter(from) \in Seq(RowType)
<1> DEFINE n == Iterations * NMain - from
           row(k) == NotRunRow("main", ((from + k - 1) % NMain) + 1,
                                       ((from + k - 1) \div NMain) + 1)
<1>1. n \in Int
  BY RunnerConstants
<1>2. \A k \in Int : row(k) \in RowType
  <2> SUFFICES ASSUME NEW k \in Int PROVE row(k) \in RowType
    OBVIOUS
  <2>1. from + k - 1 \in Int /\ NMain \in Nat /\ NMain > 0
    BY RunnerConstants
  <2>2. (from + k - 1) % NMain \in Int /\ (from + k - 1) \div NMain \in Int
    BY <2>1
  <2> QED
    BY <2>2, NotRunRowIsTyped
<1>4. NotRunAfter(from) = [k \in 1..n |-> row(k)]
  BY DEF NotRunAfter
<1> HIDE DEF n, row
<1>3. [k \in 1..n |-> row(k)] \in [1..n -> RowType]
  BY <1>1, <1>2
<1> QED
  BY <1>1, <1>3, <1>4, RowsUpTo

-----------------------------------------------------------------------------
(* Type correctness.                                                       *)

(* recordStep keeps the list and the counters typed.                       *)
LEMMA RecordStepKeepsTypes ==
    ASSUME TypeOK, NEW r \in RowType, NEW rows \in Seq(RowType),
           RecordStep(r, rows)
    PROVE  /\ results' \in Seq(RowType)
           /\ totals' \in [Counters -> Nat]
           /\ emitted' \in Nat
<1>1. Append(results, r) \in Seq(RowType)
  BY DEF TypeOK
<1>2. Append(results, r) \o rows \in Seq(RowType)
  BY <1>1, ConcatProperties
<1>3. Counter(r) \in Counters
  BY DEF Counter, Counters
<1>4. Tallied(r) \in [Counters -> Nat]
  BY <1>3 DEF Tallied, TypeOK
<1> QED
  BY <1>2, <1>4 DEF TypeOK, RecordStep

(* The end of a step keeps every type.                                     *)
LEMMA FinishStepKeepsTypes ==
    ASSUME TypeOK, NEW text \in RowTexts, NEW ok \in BOOLEAN,
           NEW next \in Int, NEW configError \in BOOLEAN,
           FinishStep(text, ok, next, configError),
           cancelInFlight' \in BOOLEAN, cancelledOnWire' \in BOOLEAN
    PROVE  TypeOK'
<1> DEFINE r == Row(phase, j, IF phase = "main" THEN iter ELSE 0, text, ok)
<1>1. r \in RowType
  BY RowIsTyped DEF FinishStep, TypeOK
<1>2. NMain \in Nat /\ Landed(next) \in Nat
  BY RunnerConstants DEF Landed, TypeOK
<1>3. UNCHANGED <<orchestrationError, registered, teardownSkipped, stopFlags>>
  BY DEF FinishStep
<1>4. <<>> \in Seq(RowType)
  OBVIOUS
<1>5. Gap \in Points
  BY DEF Gap, Points
<1> HIDE DEF r
<1>6. CASE phase = "setup" /\ AfterSetupStep(r)
  <2>1. /\ results' \in Seq(RowType) /\ totals' \in [Counters -> Nat]
        /\ emitted' \in Nat
    BY <1>1, <1>4, <1>6, RecordStepKeepsTypes DEF AfterSetupStep
  <2>2. abortPrimary' \in BOOLEAN
    BY <1>6 DEF AfterSetupStep
  <2>3. stopReason' \in StopReasons
    BY <1>6 DEF AfterSetupStep, StopReasons, TypeOK
  <2>4. at' \in Points /\ j' \in Nat
    BY <1>5, <1>6 DEF AfterSetupStep, TypeOK
  <2> QED
    BY <1>3, <1>6, <2>1, <2>2, <2>3, <2>4
    DEF TypeOK, AfterSetupStep, stopFlags
<1>7. CASE phase = "teardown" /\ AfterTeardownStep(r)
  <2>1. /\ results' \in Seq(RowType) /\ totals' \in [Counters -> Nat]
        /\ emitted' \in Nat
    BY <1>1, <1>4, <1>7, RecordStepKeepsTypes DEF AfterTeardownStep
  <2>2. at' \in Points /\ j' \in Nat
    BY <1>5, <1>7 DEF AfterTeardownStep, TypeOK
  <2> QED
    BY <1>3, <1>7, <2>1, <2>2 DEF TypeOK, AfterTeardownStep, stopFlags
<1>8. CASE phase = "main" /\ AfterMainStep(r, next, configError)
  <2> DEFINE rest(i) == NotRunAfter(FlowPosition(iter, i))
  <2>1. rest(j) \in Seq(RowType) /\ rest(Landed(next)) \in Seq(RowType)
    <3>1. iter \in Int /\ j \in Int /\ Landed(next) \in Int
      BY <1>2 DEF TypeOK
    <3>2. /\ FlowPosition(iter, j) \in Int
          /\ FlowPosition(iter, Landed(next)) \in Int
      BY <3>1, FlowPositionIsTyped
    <3> QED
      BY <3>2, NotRunAfterIsTyped
  <2>2. \/ RecordStep(r, rest(j))
        \/ RecordStep(r, rest(Landed(next)))
        \/ RecordStep(r, <<>>)
    BY <1>8 DEF AfterMainStep
  <2> HIDE DEF rest
  <2>3. /\ results' \in Seq(RowType) /\ totals' \in [Counters -> Nat]
        /\ emitted' \in Nat
    BY <1>1, <1>4, <2>1, <2>2, RecordStepKeepsTypes
  <2>4. /\ phase' \in Phases /\ at' \in Points
        /\ j' \in Nat /\ iter' \in Nat /\ visits' \in Nat
    BY <1>2, <1>5, <1>8
    DEF AfterMainStep, EndFlow, TypeOK, Phases, Points
  <2>5. stopReason' \in StopReasons
    BY <1>8 DEF AfterMainStep, StopReasons, TypeOK
  <2>6. abortPrimary' \in BOOLEAN /\ teardownStarted' \in BOOLEAN
    BY <1>8 DEF AfterMainStep, EndFlow, TypeOK
  <2> QED
    BY <1>3, <2>3, <2>4, <2>5, <2>6 DEF TypeOK, stopFlags
<1> QED
  BY <1>6, <1>7, <1>8 DEF FinishStep, r

(* Every step of the run, of the server and of the stop button keeps the   *)
(* types.                                                                  *)
LEMMA NextKeepsTypes == TypeOK /\ [Next]_vars => TypeOK'
<1> SUFFICES ASSUME TypeOK, [Next]_vars PROVE TypeOK'
  OBVIOUS
<1> USE DEF stopFlags, wire, cursor, report, control
<1>1. CASE Begin
  BY <1>1 DEF Begin, TypeOK, Phases, Points
<1>2. CASE BeginThrows
  BY <1>2 DEF BeginThrows, TypeOK, Phases, Points
<1>3. ASSUME NEW ok \in BOOLEAN, SetupHookEnds(ok) PROVE TypeOK'
  <2>1. Row("setup", RunScript, 0, "RAN", ok) \in RowType
    BY RowIsTyped DEF RunScript, RowTexts
  <2>2. /\ results' \in Seq(RowType) /\ totals' \in [Counters -> Nat]
        /\ emitted' \in Nat
    BY <1>3, <2>1, RecordStepKeepsTypes, EmptySeq DEF SetupHookEnds
  <2> QED
    BY <1>3, <2>2 DEF SetupHookEnds, TypeOK, Phases, Points, StopReasons
<1>4. ASSUME NEW ok \in BOOLEAN, TeardownHookEnds(ok) PROVE TypeOK'
  <2>1. Row("teardown", RunScript, 0, "RAN", ok) \in RowType
    BY RowIsTyped DEF RunScript, RowTexts
  <2>2. /\ results' \in Seq(RowType) /\ totals' \in [Counters -> Nat]
        /\ emitted' \in Nat
    BY <1>4, <2>1, RecordStepKeepsTypes, EmptySeq DEF TeardownHookEnds
  <2> QED
    BY <1>4, <2>2 DEF TeardownHookEnds, TypeOK, Phases, Points
<1>5. ASSUME NEW ok \in BOOLEAN, FailHookEnds(ok) PROVE TypeOK'
  <2>1. Row("teardown", FailScript, 0, "RAN", ok) \in RowType
    BY RowIsTyped DEF FailScript, RowTexts
  <2>2. /\ results' \in Seq(RowType) /\ totals' \in [Counters -> Nat]
        /\ emitted' \in Nat
    BY <1>5, <2>1, RecordStepKeepsTypes, EmptySeq DEF FailHookEnds
  <2> QED
    BY <1>5, <2>2 DEF FailHookEnds, TypeOK, Phases, Points, StopReasons
<1>6. CASE LeaveSetup
  <2>1. results' \in Seq(RowType)
    <3>1. NotRunFrom("setup", j, NSetup) \in Seq(RowType)
      BY NotRunFromIsTyped, RunnerConstants DEF TypeOK
    <3>2. NotRunAfter(0) \in Seq(RowType)
      BY NotRunAfterIsTyped
    <3> QED
      BY <1>6, <3>1, <3>2, ConcatProperties DEF LeaveSetup, TypeOK
  <2> QED
    BY <1>6, <2>1 DEF LeaveSetup, EndFlow, TypeOK, Phases, Points, StopReasons
<1>7. CASE SetupDone
  BY <1>7 DEF SetupDone, TypeOK, Phases
<1>8. CASE FlowCancelled
  <2>1. FlowPosition(iter, j - 1) \in Int
    BY FlowPositionIsTyped DEF TypeOK
  <2>2. NotRunAfter(FlowPosition(iter, j - 1)) \in Seq(RowType)
    BY <2>1, NotRunAfterIsTyped
  <2>3. results' \in Seq(RowType)
    BY <1>8, <2>2, ConcatProperties DEF FlowCancelled, TypeOK
  <2> QED
    BY <1>8, <2>3
    DEF FlowCancelled, EndFlow, TypeOK, Phases, Points, StopReasons
<1>9. CASE BudgetExhausted
  BY <1>9, RunnerConstants DEF BudgetExhausted, TypeOK
<1>10. CASE IterationEnds
  <2>1. CASE at' = "iterationDelay"
             /\ UNCHANGED <<phase, cursor, report, control, stopFlags, wire>>
    BY <2>1 DEF TypeOK, Points
  <2>2. CASE NextIteration
    BY <2>2 DEF NextIteration, TypeOK, Points
  <2>3. CASE EndFlow /\ UNCHANGED <<report, abortPrimary, stopReason,
                 orchestrationError, registered, teardownSkipped, stopFlags,
                 wire>>
    BY <2>3 DEF EndFlow, TypeOK, Phases, Points
  <2> QED
    BY <1>10, <2>1, <2>2, <2>3 DEF IterationEnds
<1>11. CASE DelayEnds
  BY <1>11 DEF DelayEnds, NextIteration, TypeOK, Points
<1>12. CASE FlowThrows
  BY <1>12 DEF FlowThrows, EndFlow, TypeOK, Phases, Points
<1>13. CASE BeginStep
  BY <1>13 DEF BeginStep, TypeOK, Points
<1>14. CASE StepMisconfigured \/ StepUnsupported \/ StepEndsUnsent
            \/ StepHeldBack
  <2>1. /\ "RAN" \in RowTexts /\ "UNSUPPORTED" \in RowTexts
        /\ "SKIPPED" \in RowTexts /\ "NOT_RUN" \in RowTexts
        /\ Linear \in Int
    BY DEF RowTexts, Linear
  <2>2. UNCHANGED wire
    BY <1>14
    DEF StepMisconfigured, StepUnsupported, StepEndsUnsent, StepHeldBack
  <2>3. \E text \in RowTexts, configError \in BOOLEAN :
           FinishStep(text, FALSE, Linear, configError)
    BY <1>14, <2>1
    DEF StepMisconfigured, StepUnsupported, StepEndsUnsent, StepHeldBack
  <2> QED
    BY <2>1, <2>2, <2>3, FinishStepKeepsTypes DEF TypeOK
<1>15. CASE StepStarts
  BY <1>15 DEF StepStarts, TypeOK, Points
<1>16. CASE Send
  BY <1>16 DEF Send, TypeOK, Points
<1>17. CASE StepCancelled
  <2>1. "CANCELLED" \in RowTexts /\ Linear \in Int
    BY DEF RowTexts, Linear
  <2>2. cancelInFlight' \in BOOLEAN /\ cancelledOnWire' \in BOOLEAN
    BY <1>17 DEF StepCancelled, TypeOK
  <2> QED
    BY <1>17, <2>1, <2>2, FinishStepKeepsTypes DEF StepCancelled
<1>18. CASE ServerAnswers
  BY <1>18 DEF ServerAnswers, TypeOK, Points
<1>19. CASE TransportFails
  <2>1. "RAN" \in RowTexts /\ Linear \in Int
    BY DEF RowTexts, Linear
  <2>2. cancelInFlight' \in BOOLEAN /\ cancelledOnWire' \in BOOLEAN
    BY <1>19 DEF TransportFails, TypeOK
  <2> QED
    BY <1>19, <2>1, <2>2, FinishStepKeepsTypes DEF TransportFails
<1>20. ASSUME NEW ok \in BOOLEAN, NEW next \in Jumps, StepScored(ok, next)
       PROVE  TypeOK'
  <2>1. "RAN" \in RowTexts /\ next \in Int
    BY RunnerConstants DEF RowTexts, Linear, EndIteration
  <2>2. cancelInFlight' \in BOOLEAN /\ cancelledOnWire' \in BOOLEAN
    BY <1>20 DEF StepScored, TypeOK
  <2> QED
    BY <1>20, <2>1, <2>2, FinishStepKeepsTypes DEF StepScored
<1>21. CASE CleanupAbandoned
  <2>1. NotRunFrom("teardown", j, NTeardown) \in Seq(RowType)
    BY NotRunFromIsTyped, RunnerConstants DEF TypeOK
  <2>2. results' \in Seq(RowType)
    BY <1>21, <2>1, ConcatProperties DEF CleanupAbandoned, TypeOK
  <2> QED
    BY <1>21, <2>2 DEF CleanupAbandoned, TypeOK, Phases
<1>22. CASE CleanupDone
  BY <1>22 DEF CleanupDone, TypeOK, Phases, Points
<1>23. CASE FailHookBegins
  BY <1>23 DEF FailHookBegins, FinalReason, TypeOK, Phases, Points,
               StopReasons
<1>24. CASE Close
  BY <1>24 DEF Close, FinalReason, TypeOK, Phases, StopReasons
<1>25. CASE StopGracefully
  BY <1>25 DEF StopGracefully, TypeOK
<1>26. CASE StopNow
  BY <1>26 DEF StopNow, TypeOK
<1>27. CASE UNCHANGED vars
  BY <1>27 DEF vars, TypeOK
<1> QED
  BY <1>1, <1>2, <1>3, <1>4, <1>5, <1>6, <1>7, <1>8, <1>9, <1>10, <1>11,
     <1>12, <1>13, <1>14, <1>15, <1>16, <1>17, <1>18, <1>19, <1>20, <1>21,
     <1>22, <1>23, <1>24, <1>25, <1>26, <1>27
  DEF Next, OwnStep, Over

(* Every variable has its type at the start.                               *)
LEMMA InitIsTyped == Init => TypeOK
<1> SUFFICES ASSUME Init PROVE TypeOK
  OBVIOUS
<1>1. results \in Seq(RowType) /\ totals \in [Counters -> Nat]
  BY EmptySeq DEF Init
<1> QED
  BY <1>1 DEF Init, TypeOK, Phases, Points, StopReasons

(* In every reachable state of a run every variable has its type, whatever *)
(* the requests, their scripts and the stops do.                           *)
THEOREM TypeCorrect == Spec => []TypeOK
BY InitIsTyped, NextKeepsTypes, PTL DEF Spec

-----------------------------------------------------------------------------
(* Which rows a step adds to the report.                                   *)

(* What holds of the old rows and of the appended ones holds of all.       *)
LEMMA RowsAppended ==
    ASSUME NEW s \in Seq(RowType), NEW t \in Seq(RowType)
    PROVE  /\ \A m \in DOMAIN s : m \in DOMAIN (s \o t) /\ (s \o t)[m] = s[m]
           /\ \A m \in DOMAIN (s \o t) \ DOMAIN s :
                \E k \in DOMAIN t : (s \o t)[m] = t[k]
<1>1. /\ Len(s) \in Nat /\ DOMAIN s = 1..Len(s)
      /\ Len(t) \in Nat /\ DOMAIN t = 1..Len(t)
  BY LenProperties
<1>2. s \o t \in Seq(RowType) /\ Len(s \o t) = Len(s) + Len(t)
  BY ConcatProperties
<1>3. DOMAIN (s \o t) = 1..(Len(s) + Len(t))
  BY <1>2, LenProperties
<1>4. \A m \in 1..(Len(s) + Len(t)) :
         (s \o t)[m] = IF m <= Len(s) THEN s[m] ELSE t[m - Len(s)]
  BY ConcatProperties
<1>5. ASSUME NEW m \in DOMAIN (s \o t) \ DOMAIN s
      PROVE  \E k \in DOMAIN t : (s \o t)[m] = t[k]
  <2>1. m \in Int /\ m > Len(s) /\ m <= Len(s) + Len(t)
    BY <1>1, <1>3
  <2>2. m - Len(s) \in DOMAIN t
    BY <1>1, <2>1
  <2>3. (s \o t)[m] = t[m - Len(s)]
    BY <1>1, <1>4, <2>1
  <2> QED
    BY <2>2, <2>3
<1> QED
  BY <1>1, <1>3, <1>4, <1>5

(* Recording a step appends its one row.                                   *)
LEMMA RowRecorded ==
    ASSUME NEW s \in Seq(RowType), NEW r \in RowType, NEW t \in Seq(RowType)
    PROVE  LET u == Append(s, r) \o t
           IN  /\ \A m \in DOMAIN s : m \in DOMAIN u /\ u[m] = s[m]
               /\ \A m \in DOMAIN u \ DOMAIN s :
                    u[m] = r \/ \E k \in DOMAIN t : u[m] = t[k]
<1> DEFINE a == Append(s, r)
           u == a \o t
<1>1. a \in Seq(RowType) /\ Len(a) = Len(s) + 1
  OBVIOUS
<1>2. Len(s) \in Nat /\ DOMAIN s = 1..Len(s) /\ DOMAIN a = 1..(Len(s) + 1)
  BY <1>1, LenProperties
<1>3. (\A m \in DOMAIN s : a[m] = s[m]) /\ a[Len(s) + 1] = r
  BY <1>2
<1>4. \A m \in DOMAIN s : m \in DOMAIN a
  BY <1>2
<1>5. \A m \in DOMAIN a \ DOMAIN s : a[m] = r
  BY <1>2, <1>3
<1> HIDE DEF a
<1>6. /\ \A m \in DOMAIN a : m \in DOMAIN u /\ u[m] = a[m]
      /\ \A m \in DOMAIN u \ DOMAIN a : \E k \in DOMAIN t : u[m] = t[k]
  BY <1>1, RowsAppended
<1>7. /\ \A m \in DOMAIN s : m \in DOMAIN u /\ u[m] = s[m]
      /\ \A m \in DOMAIN u \ DOMAIN s :
           u[m] = r \/ \E k \in DOMAIN t : u[m] = t[k]
  BY <1>3, <1>4, <1>5, <1>6
<1> QED
  BY <1>7 DEF a

(* The rows of the rest of one pass are NOT_RUN rows of its phase.         *)
LEMMA NotRunFromRows ==
    ASSUME NEW p, NEW i \in Int, NEW n \in Int
    PROVE  \A k \in DOMAIN NotRunFrom(p, i, n) :
              /\ NotRunFrom(p, i, n)[k].phase = p
              /\ NotRunFrom(p, i, n)[k].text = "NOT_RUN"
BY DEF NotRunFrom, NotRunRow, Row

(* The rows of the rest of the flow are NOT_RUN rows of the flow.          *)
LEMMA NotRunAfterRows ==
    ASSUME NEW from \in Int
    PROVE  \A k \in DOMAIN NotRunAfter(from) :
              NotRunAfter(from)[k].phase = "main"
BY DEF NotRunAfter, NotRunRow, Row

-----------------------------------------------------------------------------
(* Hard stops and cleanup.                                                 *)

(* The rows of cleanup are the same after the step as before it.           *)
SameCleanupRows ==
    \A m \in DOMAIN results' :
        results'[m].phase = "teardown" =>
            m \in DOMAIN results /\ results'[m] = results[m]

(* A step of the flow adds no row of cleanup.                              *)
LEMMA FlowRowsRecorded ==
    ASSUME TypeOK, NEW r \in RowType, NEW rows \in Seq(RowType),
           RecordStep(r, rows), r.phase # "teardown",
           \A k \in DOMAIN rows : rows[k].phase # "teardown"
    PROVE  SameCleanupRows
<1>1. results \in Seq(RowType)
  BY DEF TypeOK
<1>2. results' = Append(results, r) \o rows
  BY DEF RecordStep
<1>3. /\ \A m \in DOMAIN results : m \in DOMAIN results' /\ results'[m] = results[m]
      /\ \A m \in DOMAIN results' \ DOMAIN results :
           results'[m] = r \/ \E k \in DOMAIN rows : results'[m] = rows[k]
  BY <1>1, <1>2, RowRecorded
<1> QED
  BY <1>3 DEF SameCleanupRows

(* Reporting what never ran adds no row of cleanup.                        *)
LEMMA FlowRowsReported ==
    ASSUME TypeOK, NEW rows \in Seq(RowType), results' = results \o rows,
           \A k \in DOMAIN rows : rows[k].phase # "teardown"
    PROVE  SameCleanupRows
<1>1. results \in Seq(RowType)
  BY DEF TypeOK
<1>2. /\ \A m \in DOMAIN results : m \in DOMAIN results' /\ results'[m] = results[m]
      /\ \A m \in DOMAIN results' \ DOMAIN results :
           \E k \in DOMAIN rows : results'[m] = rows[k]
  BY <1>1, RowsAppended
<1> QED
  BY <1>2 DEF SameCleanupRows

(* As long as the rows of cleanup do not change, a step has to keep only   *)
(* the parts of the invariant that speak of the control state.             *)
LEMMA SameCleanupRowsKeepInv ==
    ASSUME CleanupInv, SameCleanupRows,
           directStop' => directStop \/ ~teardownStarted,
           teardownStarted => teardownStarted'
    PROVE  /\ ~teardownStarted' => \A k \in DOMAIN results' :
                                      results'[k].phase # "teardown"
           /\ HardStopSkipsCleanup'
BY DEF CleanupInv, SameCleanupRows, HardStopSkipsCleanup, RowsOf, NotRun

(* Leaving the flow for cleanup keeps the invariant.                       *)
LEMMA EndFlowKeepsInv ==
    ASSUME CleanupInv, SameCleanupRows, EndFlow, UNCHANGED stopFlags,
           ~cancelInFlight', ~teardownStarted
    PROVE  CleanupInv'
<1>1. /\ ~teardownStarted' => \A k \in DOMAIN results' :
                                 results'[k].phase # "teardown"
      /\ HardStopSkipsCleanup'
  BY SameCleanupRowsKeepInv DEF EndFlow, stopFlags
<1> QED
  BY <1>1 DEF CleanupInv, EndFlow, stopFlags, AbortHandleIsCurrent,
              ReadsSteps, FlowPhases, CleanupPhases

(* The end of a step keeps the invariant.                                  *)
LEMMA FinishStepKeepsInv ==
    ASSUME TypeOK, CleanupInv, ReadsSteps, at # "head",
           NEW text \in RowTexts, NEW ok \in BOOLEAN, NEW next \in Int,
           NEW configError \in BOOLEAN,
           FinishStep(text, ok, next, configError), ~cancelInFlight'
    PROVE  CleanupInv'
<1> DEFINE r == Row(phase, j, IF phase = "main" THEN iter ELSE 0, text, ok)
<1>1. r \in RowType /\ r.phase = phase
  BY RowIsTyped DEF ReadsSteps, TypeOK, Row
<1>2. UNCHANGED stopFlags
  BY DEF FinishStep
<1>3. <<>> \in Seq(RowType) /\ DOMAIN <<>> = {}
  OBVIOUS
<1>4. Gap \in {"delay", "head"}
  BY DEF Gap
<1> HIDE DEF r
<1>5. CASE phase = "setup" /\ AfterSetupStep(r)
  <2>1. SameCleanupRows
    BY <1>1, <1>3, <1>5, FlowRowsRecorded DEF AfterSetupStep
  <2>2. HardStopSkipsCleanup' /\ ~teardownStarted
          /\ (~teardownStarted' => \A k \in DOMAIN results' :
                                     results'[k].phase # "teardown")
    BY <1>2, <1>5, <2>1, SameCleanupRowsKeepInv
    DEF AfterSetupStep, CleanupInv, FlowPhases, stopFlags
  <2> QED
    BY <1>2, <1>4, <1>5, <2>2
    DEF AfterSetupStep, CleanupInv, AbortHandleIsCurrent, ReadsSteps,
        FlowPhases, CleanupPhases, stopFlags
<1>6. CASE phase = "teardown" /\ AfterTeardownStep(r)
  <2>1. teardownStarted /\ ~directStop
    BY <1>6 DEF CleanupInv, CleanupPhases
  <2>2. teardownStarted' /\ ~directStop' /\ phase' = "teardown"
        /\ at' \in {"delay", "head"}
    BY <1>2, <1>4, <1>6, <2>1 DEF AfterTeardownStep, stopFlags
  <2> QED
    BY <2>2 DEF CleanupInv, AbortHandleIsCurrent, ReadsSteps, FlowPhases,
                CleanupPhases, HardStopSkipsCleanup
<1>7. CASE phase = "main" /\ AfterMainStep(r, next, configError)
  <2> DEFINE rest(i) == NotRunAfter(FlowPosition(iter, i))
  <2>1. \A i \in Int : /\ rest(i) \in Seq(RowType)
                       /\ \A k \in DOMAIN rest(i) :
                            rest(i)[k].phase # "teardown"
    <3> TAKE i \in Int
    <3>1. iter \in Int
      BY DEF TypeOK
    <3>2. FlowPosition(iter, i) \in Int
      BY <3>1, FlowPositionIsTyped
    <3> QED
      BY <3>2, NotRunAfterIsTyped, NotRunAfterRows
  <2>2. j \in Int /\ Landed(next) \in Int
    BY RunnerConstants DEF Landed, TypeOK
  <2>3. \/ RecordStep(r, rest(j)) \/ RecordStep(r, rest(Landed(next)))
        \/ RecordStep(r, <<>>)
    BY <1>7 DEF AfterMainStep
  <2> HIDE DEF rest
  <2>4. SameCleanupRows
    BY <1>1, <1>3, <1>7, <2>1, <2>2, <2>3, FlowRowsRecorded
  <2>5. ~teardownStarted
    BY <1>7 DEF CleanupInv, FlowPhases
  <2>6. CASE EndFlow
    BY <1>2, <2>4, <2>5, <2>6, EndFlowKeepsInv
  <2>7. CASE phase' = phase /\ at' \in {"delay", "head"}
             /\ UNCHANGED teardownStarted
    <3>1. HardStopSkipsCleanup'
            /\ (~teardownStarted' => \A k \in DOMAIN results' :
                                       results'[k].phase # "teardown")
      BY <1>2, <2>4, <2>5, <2>7, SameCleanupRowsKeepInv DEF stopFlags
    <3> QED
      BY <1>2, <1>7, <2>5, <2>7, <3>1
      DEF CleanupInv, AbortHandleIsCurrent, ReadsSteps, FlowPhases,
          CleanupPhases, stopFlags
  <2> QED
    BY <1>4, <1>7, <2>6, <2>7 DEF AfterMainStep
<1> QED
  BY <1>5, <1>6, <1>7 DEF FinishStep, r

(* A step that adds no row and keeps the stop flags keeps it.              *)
LEMMA SameRowsKeepInv ==
    ASSUME CleanupInv, UNCHANGED results,
           directStop' => directStop \/ ~teardownStarted,
           teardownStarted => teardownStarted'
    PROVE  /\ ~teardownStarted' => \A k \in DOMAIN results' :
                                      results'[k].phase # "teardown"
           /\ HardStopSkipsCleanup'
<1>1. SameCleanupRows
  BY DEF SameCleanupRows
<1> QED
  BY <1>1, SameCleanupRowsKeepInv

(* Every step keeps the invariant.                                         *)
LEMMA NextKeepsCleanupInv ==
    TypeOK /\ CleanupInv /\ [Next]_vars => CleanupInv'
<1> SUFFICES ASSUME TypeOK, CleanupInv, [Next]_vars PROVE CleanupInv'
  OBVIOUS
<1> USE DEF stopFlags, wire, cursor, report, control
<1>0. /\ "RAN" \in RowTexts /\ "UNSUPPORTED" \in RowTexts
      /\ "SKIPPED" \in RowTexts /\ "NOT_RUN" \in RowTexts
      /\ "CANCELLED" \in RowTexts /\ Linear \in Int
      /\ <<>> \in Seq(RowType) /\ DOMAIN <<>> = {}
  BY DEF RowTexts, Linear
<1>1. CASE Begin
  <2>1. /\ ~teardownStarted' => \A k \in DOMAIN results' :
                                  results'[k].phase # "teardown"
        /\ HardStopSkipsCleanup'
    BY <1>1, SameRowsKeepInv DEF Begin
  <2> QED
    BY <1>1, <2>1
    DEF Begin, CleanupInv, AbortHandleIsCurrent, ReadsSteps,
        FlowPhases, CleanupPhases
<1>2. CASE BeginThrows
  <2>1. /\ ~teardownStarted' => \A k \in DOMAIN results' :
                                  results'[k].phase # "teardown"
        /\ HardStopSkipsCleanup'
    BY <1>2, SameRowsKeepInv DEF BeginThrows
  <2> QED
    BY <1>2, <2>1
    DEF BeginThrows, CleanupInv, AbortHandleIsCurrent, ReadsSteps,
        FlowPhases, CleanupPhases
<1>3. CASE SetupDone
  <2>1. /\ ~teardownStarted' => \A k \in DOMAIN results' :
                                  results'[k].phase # "teardown"
        /\ HardStopSkipsCleanup'
    BY <1>3, SameRowsKeepInv DEF SetupDone
  <2> QED
    BY <1>3, <2>1
    DEF SetupDone, CleanupInv, AbortHandleIsCurrent, ReadsSteps,
        FlowPhases, CleanupPhases
<1>4. CASE BudgetExhausted
  <2>1. /\ ~teardownStarted' => \A k \in DOMAIN results' :
                                  results'[k].phase # "teardown"
        /\ HardStopSkipsCleanup'
    BY <1>4, SameRowsKeepInv DEF BudgetExhausted
  <2> QED
    BY <1>4, <2>1
    DEF BudgetExhausted, CleanupInv, AbortHandleIsCurrent, ReadsSteps,
        FlowPhases, CleanupPhases
<1>5. CASE DelayEnds
  <2>1. /\ ~teardownStarted' => \A k \in DOMAIN results' :
                                  results'[k].phase # "teardown"
        /\ HardStopSkipsCleanup'
    BY <1>5, SameRowsKeepInv DEF DelayEnds, NextIteration
  <2> QED
    BY <1>5, <2>1
    DEF DelayEnds, NextIteration, CleanupInv, AbortHandleIsCurrent, ReadsSteps,
        FlowPhases, CleanupPhases
<1>6. CASE BeginStep
  <2>1. /\ ~teardownStarted' => \A k \in DOMAIN results' :
                                  results'[k].phase # "teardown"
        /\ HardStopSkipsCleanup'
    BY <1>6, SameRowsKeepInv DEF BeginStep, MayBegin
  <2> QED
    BY <1>6, <2>1
    DEF BeginStep, MayBegin, CleanupInv, AbortHandleIsCurrent, ReadsSteps,
        FlowPhases, CleanupPhases
<1>7. CASE StepStarts
  <2>1. /\ ~teardownStarted' => \A k \in DOMAIN results' :
                                  results'[k].phase # "teardown"
        /\ HardStopSkipsCleanup'
    BY <1>7, SameRowsKeepInv DEF StepStarts
  <2> QED
    BY <1>7, <2>1
    DEF StepStarts, CleanupInv, AbortHandleIsCurrent, ReadsSteps,
        FlowPhases, CleanupPhases
<1>8. CASE Send
  <2>1. /\ ~teardownStarted' => \A k \in DOMAIN results' :
                                  results'[k].phase # "teardown"
        /\ HardStopSkipsCleanup'
    BY <1>8, SameRowsKeepInv DEF Send
  <2> QED
    BY <1>8, <2>1
    DEF Send, CleanupInv, AbortHandleIsCurrent, ReadsSteps,
        FlowPhases, CleanupPhases
<1>9. CASE ServerAnswers
  <2>1. /\ ~teardownStarted' => \A k \in DOMAIN results' :
                                  results'[k].phase # "teardown"
        /\ HardStopSkipsCleanup'
    BY <1>9, SameRowsKeepInv DEF ServerAnswers
  <2> QED
    BY <1>9, <2>1
    DEF ServerAnswers, CleanupInv, AbortHandleIsCurrent, ReadsSteps,
        FlowPhases, CleanupPhases
<1>10. CASE CleanupDone
  <2>1. /\ ~teardownStarted' => \A k \in DOMAIN results' :
                                  results'[k].phase # "teardown"
        /\ HardStopSkipsCleanup'
    BY <1>10, SameRowsKeepInv DEF CleanupDone
  <2> QED
    BY <1>10, <2>1
    DEF CleanupDone, CleanupInv, AbortHandleIsCurrent, ReadsSteps,
        FlowPhases, CleanupPhases
<1>11. CASE FailHookBegins
  <2>1. /\ ~teardownStarted' => \A k \in DOMAIN results' :
                                  results'[k].phase # "teardown"
        /\ HardStopSkipsCleanup'
    BY <1>11, SameRowsKeepInv DEF FailHookBegins, FailHookDue
  <2> QED
    BY <1>11, <2>1
    DEF FailHookBegins, FailHookDue, CleanupInv, AbortHandleIsCurrent, ReadsSteps,
        FlowPhases, CleanupPhases
<1>12. CASE Close
  <2>1. /\ ~teardownStarted' => \A k \in DOMAIN results' :
                                  results'[k].phase # "teardown"
        /\ HardStopSkipsCleanup'
    BY <1>12, SameRowsKeepInv DEF Close
  <2> QED
    BY <1>12, <2>1
    DEF Close, CleanupInv, AbortHandleIsCurrent, ReadsSteps,
        FlowPhases, CleanupPhases
<1>13. CASE StopGracefully
  <2>1. /\ ~teardownStarted' => \A k \in DOMAIN results' :
                                  results'[k].phase # "teardown"
        /\ HardStopSkipsCleanup'
    BY <1>13, SameRowsKeepInv DEF StopGracefully, Suspended
  <2> QED
    BY <1>13, <2>1
    DEF StopGracefully, Suspended, CleanupInv, AbortHandleIsCurrent, ReadsSteps,
        FlowPhases, CleanupPhases
<1>14. CASE StopNow
  <2>1. /\ ~teardownStarted' => \A k \in DOMAIN results' :
                                  results'[k].phase # "teardown"
        /\ HardStopSkipsCleanup'
    BY <1>14, SameRowsKeepInv DEF StopNow, Suspended
  <2> QED
    BY <1>14, <2>1
    DEF StopNow, Suspended, CleanupInv, AbortHandleIsCurrent, ReadsSteps,
        FlowPhases, CleanupPhases
<1>15. CASE UNCHANGED vars
  <2>1. /\ ~teardownStarted' => \A k \in DOMAIN results' :
                                  results'[k].phase # "teardown"
        /\ HardStopSkipsCleanup'
    BY <1>15, SameRowsKeepInv DEF vars
  <2> QED
    BY <1>15, <2>1
    DEF vars, CleanupInv, AbortHandleIsCurrent, ReadsSteps,
        FlowPhases, CleanupPhases
<1>16. ASSUME NEW ok \in BOOLEAN, SetupHookEnds(ok) PROVE CleanupInv'
  <2> DEFINE r == Row("setup", RunScript, 0, "RAN", ok)
  <2>1. r \in RowType /\ r.phase # "teardown"
    BY <1>0, RowIsTyped DEF RunScript, Row
  <2>2. RecordStep(r, <<>>)
    BY <1>16 DEF SetupHookEnds
  <2>3. SameCleanupRows
    BY <1>0, <2>1, <2>2, FlowRowsRecorded
  <2>4. /\ ~teardownStarted' => \A m \in DOMAIN results' :
                                  results'[m].phase # "teardown"
        /\ HardStopSkipsCleanup'
    BY <1>16, <2>3, SameCleanupRowsKeepInv DEF SetupHookEnds
  <2> QED
    BY <1>16, <2>4
    DEF SetupHookEnds, CleanupInv, AbortHandleIsCurrent, ReadsSteps,
        FlowPhases, CleanupPhases
<1>17. ASSUME NEW ok \in BOOLEAN, TeardownHookEnds(ok) PROVE CleanupInv'
  <2>1. teardownStarted /\ ~directStop
    BY <1>17 DEF TeardownHookEnds, CleanupInv, CleanupPhases
  <2> QED
    BY <1>17, <2>1
    DEF TeardownHookEnds, CleanupInv, AbortHandleIsCurrent, ReadsSteps,
        FlowPhases, CleanupPhases, HardStopSkipsCleanup
<1>18. ASSUME NEW ok \in BOOLEAN, FailHookEnds(ok) PROVE CleanupInv'
  <2>1. teardownStarted /\ ~directStop
    BY <1>18 DEF FailHookEnds, CleanupInv, CleanupPhases
  <2> QED
    BY <1>18, <2>1
    DEF FailHookEnds, CleanupInv, AbortHandleIsCurrent, ReadsSteps,
        FlowPhases, CleanupPhases, HardStopSkipsCleanup
<1>19. CASE LeaveSetup
  <2> DEFINE setupRows == NotRunFrom("setup", j, NSetup)
             mainRows == NotRunAfter(0)
  <2>1. /\ setupRows \in Seq(RowType)
        /\ \A m \in DOMAIN setupRows : setupRows[m].phase # "teardown"
    <3>1. j \in Int /\ NSetup \in Int
      BY RunnerConstants DEF TypeOK
    <3>2. setupRows \in Seq(RowType)
      BY <3>1, NotRunFromIsTyped
    <3>3. \A m \in DOMAIN setupRows : setupRows[m].phase = "setup"
      BY <3>1, NotRunFromRows
    <3> QED
      BY <3>2, <3>3
  <2>2. /\ mainRows \in Seq(RowType)
        /\ \A m \in DOMAIN mainRows : mainRows[m].phase # "teardown"
    BY NotRunAfterIsTyped, NotRunAfterRows
  <2>3. results' = (results \o setupRows) \o mainRows
    BY <1>19 DEF LeaveSetup
  <2>4. results \in Seq(RowType)
    BY DEF TypeOK
  <2> HIDE DEF setupRows, mainRows
  <2>5. results \o setupRows \in Seq(RowType)
    BY <2>1, <2>4, ConcatProperties
  <2>6. \A m \in DOMAIN (results \o setupRows) :
           (results \o setupRows)[m].phase = "teardown" =>
              m \in DOMAIN results /\ (results \o setupRows)[m] = results[m]
    BY <2>1, <2>4, RowsAppended
  <2>7. \A m \in DOMAIN results' :
           results'[m].phase = "teardown" =>
              /\ m \in DOMAIN (results \o setupRows)
              /\ results'[m] = (results \o setupRows)[m]
    BY <2>2, <2>3, <2>5, RowsAppended
  <2>8. SameCleanupRows
    BY <2>6, <2>7 DEF SameCleanupRows
  <2> QED
    BY <1>19, <2>8, EndFlowKeepsInv
    DEF LeaveSetup, CleanupInv, AbortHandleIsCurrent, FlowPhases
<1>20. CASE FlowCancelled
  <2> DEFINE rows == NotRunAfter(FlowPosition(iter, j - 1))
  <2>1. FlowPosition(iter, j - 1) \in Int
    BY FlowPositionIsTyped DEF TypeOK
  <2>2. /\ rows \in Seq(RowType)
        /\ \A m \in DOMAIN rows : rows[m].phase # "teardown"
    BY <2>1, NotRunAfterIsTyped, NotRunAfterRows
  <2>3. results' = results \o rows
    BY <1>20 DEF FlowCancelled
  <2> HIDE DEF rows
  <2>4. SameCleanupRows
    BY <2>2, <2>3, FlowRowsReported
  <2> QED
    BY <1>20, <2>4, EndFlowKeepsInv
    DEF FlowCancelled, CleanupInv, AbortHandleIsCurrent, FlowPhases
<1>21. CASE IterationEnds
  <2>1. SameCleanupRows
    BY <1>21 DEF IterationEnds, NextIteration, SameCleanupRows
  <2>2. ~teardownStarted /\ ~cancelInFlight
    BY <1>21 DEF IterationEnds, CleanupInv, FlowPhases, AbortHandleIsCurrent
  <2>3. CASE EndFlow /\ UNCHANGED <<stopFlags, wire>>
    BY <2>1, <2>2, <2>3, EndFlowKeepsInv
  <2>4. CASE at' \in {"head", "iterationDelay"}
             /\ UNCHANGED <<phase, report, control, stopFlags, wire>>
    BY <1>21, <2>2, <2>4
    DEF IterationEnds, CleanupInv, AbortHandleIsCurrent, ReadsSteps,
        FlowPhases, CleanupPhases, HardStopSkipsCleanup, RowsOf
  <2> QED
    BY <1>21, <2>3, <2>4 DEF IterationEnds, NextIteration
<1>22. CASE FlowThrows
  <2>1. SameCleanupRows
    BY <1>22 DEF FlowThrows, SameCleanupRows
  <2> QED
    BY <1>22, <2>1, EndFlowKeepsInv
    DEF FlowThrows, CleanupInv, AbortHandleIsCurrent, FlowPhases
<1>23. CASE StepMisconfigured \/ StepUnsupported \/ StepEndsUnsent
            \/ StepHeldBack
  <2>0. ReadsSteps /\ at \in {"step", "scripts"} /\ UNCHANGED wire
    BY <1>23
    DEF StepMisconfigured, StepUnsupported, StepEndsUnsent, StepHeldBack
  <2>1. ReadsSteps /\ at # "head" /\ ~cancelInFlight'
    BY <2>0 DEF CleanupInv, AbortHandleIsCurrent, ReadsSteps
  <2>2. \E text \in RowTexts, configError \in BOOLEAN :
           FinishStep(text, FALSE, Linear, configError)
    BY <1>23, <1>0
    DEF StepMisconfigured, StepUnsupported, StepEndsUnsent, StepHeldBack
  <2> QED
    BY <1>0, <2>1, <2>2, FinishStepKeepsInv
<1>24. CASE StepCancelled
  <2>1. ReadsSteps /\ at # "head" /\ ~cancelInFlight'
    BY <1>24 DEF StepCancelled
  <2>2. FinishStep("CANCELLED", FALSE, Linear, FALSE)
    BY <1>24 DEF StepCancelled
  <2> QED
    BY <1>0, <2>1, <2>2, FinishStepKeepsInv
<1>25. CASE TransportFails
  <2>1. ReadsSteps /\ at # "head" /\ ~cancelInFlight'
    BY <1>25 DEF TransportFails
  <2>2. FinishStep("RAN", FALSE, Linear, FALSE)
    BY <1>25 DEF TransportFails
  <2> QED
    BY <1>0, <2>1, <2>2, FinishStepKeepsInv
<1>26. ASSUME NEW ok \in BOOLEAN, NEW next \in Jumps, StepScored(ok, next)
       PROVE  CleanupInv'
  <2>1. ReadsSteps /\ at # "head" /\ ~cancelInFlight' /\ next \in Int
    BY <1>26, RunnerConstants
    DEF StepScored, CleanupInv, AbortHandleIsCurrent, ReadsSteps, Linear,
        EndIteration
  <2>2. FinishStep("RAN", ok, next, FALSE)
    BY <1>26 DEF StepScored
  <2> QED
    BY <1>0, <2>1, <2>2, FinishStepKeepsInv
<1>27. CASE CleanupAbandoned
  <2> DEFINE rows == NotRunFrom("teardown", j, NTeardown)
  <2>1. teardownStarted
    BY <1>27 DEF CleanupAbandoned, CleanupInv, CleanupPhases
  <2>2. /\ rows \in Seq(RowType)
        /\ \A m \in DOMAIN rows : rows[m].text = "NOT_RUN"
    <3>1. j \in Int /\ NTeardown \in Int
      BY RunnerConstants DEF TypeOK
    <3>2. rows \in Seq(RowType)
      BY <3>1, NotRunFromIsTyped
    <3>3. \A m \in DOMAIN rows : rows[m].text = "NOT_RUN"
      BY <3>1, NotRunFromRows
    <3> QED
      BY <3>2, <3>3
  <2>3. results' = results \o rows /\ results \in Seq(RowType)
    BY <1>27 DEF CleanupAbandoned, TypeOK
  <2> HIDE DEF rows
  <2>4. /\ \A m \in DOMAIN results : m \in DOMAIN results' /\ results'[m] = results[m]
        /\ \A m \in DOMAIN results' \ DOMAIN results :
             results'[m].text = "NOT_RUN"
    BY <2>2, <2>3, RowsAppended
  <2>5. HardStopSkipsCleanup'
    BY <1>27, <2>4
    DEF CleanupAbandoned, CleanupInv, HardStopSkipsCleanup, RowsOf, NotRun
  <2> QED
    BY <1>27, <2>1, <2>5
    DEF CleanupAbandoned, CleanupInv, AbortHandleIsCurrent, ReadsSteps,
        FlowPhases, CleanupPhases
<1> QED
  BY <1>1, <1>2, <1>3, <1>4, <1>5, <1>6, <1>7, <1>8, <1>9, <1>10, <1>11,
     <1>12, <1>13, <1>14, <1>15, <1>16, <1>17, <1>18, <1>19, <1>20, <1>21,
     <1>22, <1>23, <1>24, <1>25, <1>26, <1>27
  DEF Next, OwnStep, Over

(* A run begins before its cleanup.                                        *)
LEMMA InitKeepsCleanupInv == Init => CleanupInv
BY DEF Init, CleanupInv, AbortHandleIsCurrent, HardStopSkipsCleanup,
       RowsOf, FlowPhases, CleanupPhases, ReadsSteps

(* The types and the invariant hold in every state.                        *)
LEMMA CleanupInvariant == Spec => [](TypeOK /\ CleanupInv)
<1>2. TypeOK /\ CleanupInv /\ [Next]_vars => (TypeOK /\ CleanupInv)'
  BY NextKeepsTypes, NextKeepsCleanupInv
<1>3. Init => TypeOK /\ CleanupInv
  BY InitKeepsCleanupInv, InitIsTyped
<1> QED
  BY <1>2, <1>3, PTL DEF Spec

(* A hard stop that comes before cleanup leaves no trace of cleanup, for   *)
(* every run and every moment of the stop.                                 *)
THEOREM HardStopSafe == Spec => []HardStopSkipsCleanup
<1>1. CleanupInv => HardStopSkipsCleanup
  BY DEF CleanupInv
<1> QED
  BY <1>1, CleanupInvariant, PTL

(* There is something to abort exactly while a request of a step or the    *)
(* fail script is in flight.                                               *)
THEOREM AbortHandleSafe == Spec => []AbortHandleIsCurrent
<1>1. CleanupInv => AbortHandleIsCurrent
  BY DEF CleanupInv
<1> QED
  BY <1>1, CleanupInvariant, PTL

-----------------------------------------------------------------------------
(* The verdict.                                                            *)

(* A step that adds only rows of cleanup leaves the verdict as it is.      *)
LEMMA CleanupRowKeepsVerdict ==
    ASSUME TypeOK, NEW r \in RowType, r.phase = "teardown",
           RecordStep(r, <<>>)
    PROVE  /\ totals'.passed = totals.passed /\ totals'.failed = totals.failed
           /\ RunFailed' = RunFailed
<1>1. Counter(r) \in {"teardownPassed", "teardownFailed"}
  BY DEF Counter, CountsTowardRunVerdict
<1>2. totals'.passed = totals.passed /\ totals'.failed = totals.failed
  BY <1>1 DEF RecordStep, Tallied, TypeOK, Counters
<1>3. /\ results \in Seq(RowType) /\ <<>> \in Seq(RowType)
      /\ results' = Append(results, r) \o <<>>
  BY DEF TypeOK, RecordStep
<1>4. /\ \A m \in DOMAIN results : m \in DOMAIN results' /\ results'[m] = results[m]
      /\ \A m \in DOMAIN results' \ DOMAIN results : results'[m] = r
  BY <1>3, RowRecorded
<1>5. ~ScoredFailed(r)
  BY DEF ScoredFailed, Scored, CountsTowardRunVerdict
<1>6. RunFailed' <=> RunFailed
  BY <1>4, <1>5 DEF RunFailed
<1> QED
  BY <1>2, <1>6 DEF RunFailed

SameVerdict == /\ totals'.passed = totals.passed
               /\ totals'.failed = totals.failed
               /\ RunFailed' = RunFailed

(* A row of cleanup does not move the verdict.                             *)
LEMMA CleanupStepKeepsVerdict ==
    ASSUME TypeOK, CleanupInv, teardownStarted,
           NEW text \in RowTexts, NEW ok \in BOOLEAN, NEW next \in Int,
           NEW configError \in BOOLEAN,
           FinishStep(text, ok, next, configError)
    PROVE  SameVerdict
<1> DEFINE r == Row(phase, j, IF phase = "main" THEN iter ELSE 0, text, ok)
<1>1. phase = "teardown" /\ AfterTeardownStep(r)
  BY DEF FinishStep, CleanupInv, FlowPhases
<1>2. r \in RowType /\ r.phase = "teardown"
  <2>1. j \in Int
    BY DEF TypeOK
  <2> QED
    BY <1>1, <2>1, RowIsTyped DEF Row
<1> HIDE DEF r
<1> QED
  BY <1>1, <1>2, CleanupRowKeepsVerdict DEF AfterTeardownStep, SameVerdict

(* No step after the flow moves the verdict.                               *)
LEMMA NextKeepsVerdict ==
    TypeOK /\ CleanupInv /\ teardownStarted /\ [Next]_vars => SameVerdict
<1> SUFFICES ASSUME TypeOK, CleanupInv, teardownStarted, [Next]_vars
             PROVE  SameVerdict
  OBVIOUS
<1>0. /\ "RAN" \in RowTexts /\ "UNSUPPORTED" \in RowTexts
      /\ "SKIPPED" \in RowTexts /\ "NOT_RUN" \in RowTexts
      /\ "CANCELLED" \in RowTexts /\ Linear \in Int
  BY DEF RowTexts, Linear
<1>1. CASE UNCHANGED report
  BY <1>1 DEF report, SameVerdict, RunFailed
<1>2. CASE Begin \/ BeginThrows \/ SetupDone \/ BudgetExhausted
           \/ IterationEnds \/ DelayEnds \/ FlowThrows \/ BeginStep
           \/ StepStarts \/ Send \/ ServerAnswers \/ CleanupDone
           \/ FailHookBegins \/ Close \/ StopGracefully \/ StopNow
           \/ Over \/ UNCHANGED vars
  BY <1>1, <1>2
  DEF Begin, BeginThrows, SetupDone, BudgetExhausted, IterationEnds,
      NextIteration, DelayEnds, FlowThrows, BeginStep, StepStarts, Send,
      ServerAnswers, CleanupDone, FailHookBegins, Close, StopGracefully,
      StopNow, Over, vars
<1>3. CASE \/ LeaveSetup \/ FlowCancelled
           \/ \E ok \in BOOLEAN : SetupHookEnds(ok)
  BY <1>3 DEF LeaveSetup, FlowCancelled, SetupHookEnds, CleanupInv, FlowPhases
<1>4. ASSUME NEW ok \in BOOLEAN, TeardownHookEnds(ok) \/ FailHookEnds(ok)
      PROVE  SameVerdict
  <2>0. RunScript \in Int /\ FailScript \in Int
    BY DEF RunScript, FailScript
  <2>1. PICK i \in Int : RecordStep(Row("teardown", i, 0, "RAN", ok), <<>>)
    BY <1>4, <2>0 DEF TeardownHookEnds, FailHookEnds
  <2>2. /\ Row("teardown", i, 0, "RAN", ok) \in RowType
        /\ Row("teardown", i, 0, "RAN", ok).phase = "teardown"
    BY <1>0, RowIsTyped DEF Row
  <2> QED
    BY <2>1, <2>2, CleanupRowKeepsVerdict DEF SameVerdict
<1>5. CASE \/ StepMisconfigured \/ StepUnsupported \/ StepEndsUnsent
           \/ StepHeldBack \/ StepCancelled \/ TransportFails
  <2>1. \E text \in RowTexts, configError \in BOOLEAN :
           FinishStep(text, FALSE, Linear, configError)
    BY <1>0, <1>5
    DEF StepMisconfigured, StepUnsupported, StepEndsUnsent, StepHeldBack,
        StepCancelled, TransportFails
  <2> QED
    BY <1>0, <2>1, CleanupStepKeepsVerdict
<1>6. ASSUME NEW ok \in BOOLEAN, NEW next \in Jumps, StepScored(ok, next)
      PROVE  SameVerdict
  <2>1. next \in Int
    BY RunnerConstants DEF Linear, EndIteration
  <2> QED
    BY <1>0, <1>6, <2>1, CleanupStepKeepsVerdict DEF StepScored
<1>7. CASE CleanupAbandoned
  <2> DEFINE rows == NotRunFrom("teardown", j, NTeardown)
  <2>1. j \in Int /\ NTeardown \in Int
    BY RunnerConstants DEF TypeOK
  <2>2. rows \in Seq(RowType) /\ \A m \in DOMAIN rows : rows[m].phase = "teardown"
    BY <2>1, NotRunFromIsTyped, NotRunFromRows
  <2>3. results' = results \o rows /\ results \in Seq(RowType)
    BY <1>7 DEF CleanupAbandoned, TypeOK
  <2> HIDE DEF rows
  <2>4. /\ \A m \in DOMAIN results : m \in DOMAIN results' /\ results'[m] = results[m]
        /\ \A m \in DOMAIN results' \ DOMAIN results :
             ~ScoredFailed(results'[m])
    BY <2>2, <2>3, RowsAppended
    DEF ScoredFailed, Scored, CountsTowardRunVerdict
  <2>5. RunFailed' <=> RunFailed
    BY <2>4 DEF RunFailed
  <2> QED
    BY <1>7, <2>5 DEF CleanupAbandoned, SameVerdict, RunFailed
<1> QED
  BY <1>2, <1>3, <1>4, <1>5, <1>6, <1>7 DEF Next, OwnStep

(* Nothing cleanup, the teardown script or the fail script does moves the  *)
(* verdict of a run.                                                       *)
THEOREM VerdictSettled == Spec => CleanupKeepsVerdict
<1>1. TypeOK /\ CleanupInv /\ [Next]_vars
        => [teardownStarted => /\ totals'.passed = totals.passed
                               /\ totals'.failed = totals.failed
                               /\ RunFailed' = RunFailed]_vars
  BY NextKeepsVerdict DEF SameVerdict
<1> QED
  BY <1>1, CleanupInvariant, PTL DEF Spec, CleanupKeepsVerdict

(* A step that ends is not on the wire.                                    *)
LEMMA FinishStepLeavesTheWire ==
    ASSUME NEW text, NEW ok, NEW next, NEW configError,
           FinishStep(text, ok, next, configError)
    PROVE  at' # "wire"
<1>1. Gap # "wire"
  BY DEF Gap
<1> QED
  BY <1>1 DEF FinishStep, AfterSetupStep, AfterMainStep, AfterTeardownStep,
              EndFlow

(* Send is the only step that puts a request on the wire.                  *)
LEMMA OnlySendSends ==
    ASSUME [Next]_vars, at # "wire", at' = "wire"
    PROVE  Send
<1> USE DEF vars, cursor, report, control, stopFlags, wire
<1>1. ~ \E text, ok, next, configError : FinishStep(text, ok, next, configError)
  BY FinishStepLeavesTheWire
<1>2. /\ ~StepMisconfigured /\ ~StepUnsupported /\ ~StepEndsUnsent
      /\ ~StepHeldBack /\ ~StepCancelled /\ ~TransportFails
      /\ \A ok, next : ~StepScored(ok, next)
  BY <1>1
  DEF StepMisconfigured, StepUnsupported, StepEndsUnsent, StepHeldBack,
      StepCancelled, TransportFails, StepScored
<1>3. /\ ~Begin /\ ~BeginThrows
      /\ \A ok : ~SetupHookEnds(ok) /\ ~TeardownHookEnds(ok)
                 /\ ~FailHookEnds(ok)
  BY DEF Begin, BeginThrows, SetupHookEnds, TeardownHookEnds, FailHookEnds
<1>4. /\ ~LeaveSetup /\ ~SetupDone /\ ~FlowCancelled /\ ~BudgetExhausted
      /\ ~IterationEnds /\ ~DelayEnds /\ ~FlowThrows
  BY DEF LeaveSetup, SetupDone, FlowCancelled, BudgetExhausted,
         IterationEnds, NextIteration, DelayEnds, FlowThrows, EndFlow
<1>5. ~BeginStep /\ ~StepStarts /\ ~ServerAnswers
  BY DEF BeginStep, StepStarts, ServerAnswers
<1>6. /\ ~CleanupAbandoned /\ ~CleanupDone /\ ~FailHookBegins /\ ~Close
      /\ ~StopGracefully /\ ~StopNow /\ ~Over /\ ~UNCHANGED vars
  BY DEF CleanupAbandoned, CleanupDone, FailHookBegins, Close,
         StopGracefully, StopNow, Over
<1> QED
  BY <1>2, <1>3, <1>4, <1>5, <1>6 DEF Next, OwnStep

(* No request of any step leaves after a hard stop that came before        *)
(* cleanup, wherever in the flow the stop lands.                           *)
THEOREM HardStopSilent == Spec => HardStopSendsNothing
<1>1. [Next]_vars => [directStop /\ at # "wire" => at' # "wire"]_vars
  BY OnlySendSends DEF Send
<1> QED
  BY <1>1, PTL DEF Spec, HardStopSendsNothing

-----------------------------------------------------------------------------
(* Where the run is.                                                       *)

(* The run is in a step of one of its three loops.                         *)
InStep == ReadsSteps /\ at \in {"step", "scripts", "wire", "tests"}

(* A step ends with a row; one that was held back follows a hard stop.     *)
Finished ==
    /\ InStep
    /\ \E text \in RowTexts, ok \in BOOLEAN, next \in Jumps \cup {Linear},
          configError \in BOOLEAN :
          /\ FinishStep(text, ok, next, configError)
          /\ text = "NOT_RUN" => directStop

(* The steps that only move the run, or a flag, and report nothing.        *)
Silent ==
    \/ Begin \/ BeginThrows \/ SetupDone \/ BudgetExhausted \/ IterationEnds \/ DelayEnds
    \/ FlowThrows \/ BeginStep \/ StepStarts \/ Send \/ ServerAnswers \/ CleanupDone
    \/ FailHookBegins \/ Close \/ StopGracefully \/ StopNow \/ UNCHANGED vars

(* The end of a run script is a row, too; and a loop that is left reports  *)
(* what it left.                                                           *)
Reporting ==
    \/ \E ok \in BOOLEAN : SetupHookEnds(ok) \/ TeardownHookEnds(ok) \/ FailHookEnds(ok)
    \/ LeaveSetup \/ FlowCancelled \/ CleanupAbandoned

(* Every step is of one of these three kinds.                              *)
LEMMA StepKinds == [Next]_vars => Finished \/ Silent \/ Reporting
<1> SUFFICES ASSUME [Next]_vars PROVE Finished \/ Silent \/ Reporting
  OBVIOUS
<1>1. /\ "RAN" \in RowTexts /\ "UNSUPPORTED" \in RowTexts /\ "SKIPPED" \in RowTexts
      /\ "NOT_RUN" \in RowTexts /\ "CANCELLED" \in RowTexts
  BY DEF RowTexts
<1>2. Linear \in Jumps \cup {Linear} /\ Jumps \subseteq Jumps \cup {Linear}
  OBVIOUS
<1>3. CASE StepMisconfigured \/ StepUnsupported \/ StepEndsUnsent \/ StepHeldBack
            \/ StepCancelled \/ TransportFails
  <2>1. InStep
    BY <1>3 DEF StepMisconfigured, StepUnsupported, StepEndsUnsent, StepHeldBack, StepCancelled,
                TransportFails, InStep
  <2>2. \E text \in RowTexts, configError \in BOOLEAN :
           FinishStep(text, FALSE, Linear, configError) /\ (text = "NOT_RUN" => directStop)
    BY <1>1, <1>3 DEF StepMisconfigured, StepUnsupported, StepEndsUnsent, StepHeldBack,
                      StepCancelled, TransportFails
  <2> QED
    BY <1>2, <2>1, <2>2 DEF Finished
<1>4. ASSUME NEW ok \in BOOLEAN, NEW next \in Jumps, StepScored(ok, next) PROVE Finished
  BY <1>1, <1>2, <1>4 DEF StepScored, Finished, InStep
<1> QED
  BY <1>3, <1>4 DEF Next, OwnStep, Over, Silent, Reporting

(* What a step reports comes after what was reported.                      *)
Adds(new) == new \in Seq(RowType) /\ results' = results \o new

(* A recorded row and the rows of what will not run are added together.    *)
LEMMA RecordedRows ==
    ASSUME TypeOK, NEW r \in RowType, NEW rest \in Seq(RowType), RecordStep(r, rest)
    PROVE  /\ Adds(<<r>> \o rest)
           /\ Len(<<r>> \o rest) = Len(rest) + 1
           /\ (<<r>> \o rest)[1] = r
           /\ \A k \in DOMAIN rest : (<<r>> \o rest)[k + 1] = rest[k]
<1>1. results \in Seq(RowType) /\ <<r>> \in Seq(RowType) /\ Len(<<r>>) = 1 /\ <<r>>[1] = r
  BY DEF TypeOK
<1>2. Append(results, r) = results \o <<r>>
  BY <1>1, AppendIsConcat
<1>3. (results \o <<r>>) \o rest = results \o (<<r>> \o rest)
  BY <1>1, ConcatAssociative
<1>4. <<r>> \o rest \in Seq(RowType)
  BY <1>1, ConcatProperties
<1>5. /\ Len(<<r>> \o rest) = 1 + Len(rest)
      /\ \A k \in 1..(1 + Len(rest)) :
            (<<r>> \o rest)[k] = IF k <= 1 THEN <<r>>[k] ELSE rest[k - 1]
  BY <1>1, ConcatProperties
<1>6. Len(rest) \in Nat /\ DOMAIN rest = 1..Len(rest)
  OBVIOUS
<1>7. (<<r>> \o rest)[1] = r /\ \A k \in DOMAIN rest : (<<r>> \o rest)[k + 1] = rest[k]
  BY <1>1, <1>5, <1>6
<1>8. Adds(<<r>> \o rest)
  BY <1>2, <1>3, <1>4 DEF Adds, RecordStep
<1>9. Len(<<r>> \o rest) = Len(rest) + 1
  BY <1>5, <1>6
<1> HIDE DEF Adds
<1> QED
  BY <1>7, <1>8, <1>9

(* Where the added rows are.                                               *)
LEMMA AddedRows ==
    ASSUME TypeOK, NEW new, Adds(new)
    PROVE  /\ Len(results) \in Nat /\ Len(new) \in Nat
           /\ Len(results') = Len(results) + Len(new)
           /\ DOMAIN results = 1..Len(results) /\ DOMAIN new = 1..Len(new)
           /\ DOMAIN results' = 1..(Len(results) + Len(new))
           /\ \A k \in DOMAIN results : k \in DOMAIN results' /\ results'[k] = results[k]
           /\ \A k \in DOMAIN new : Len(results) + k \in DOMAIN results'
                                    /\ results'[Len(results) + k] = new[k]
           /\ \A m \in DOMAIN results' \ DOMAIN results :
                 m - Len(results) \in DOMAIN new /\ results'[m] = new[m - Len(results)]
<1>1. results \in Seq(RowType) /\ new \in Seq(RowType) /\ results' = results \o new
  BY DEF TypeOK, Adds
<1>2. /\ Len(results) \in Nat /\ DOMAIN results = 1..Len(results)
      /\ Len(new) \in Nat /\ DOMAIN new = 1..Len(new)
  BY <1>1, LenProperties
<1>3. results' \in Seq(RowType) /\ Len(results') = Len(results) + Len(new)
  BY <1>1, ConcatProperties
<1>4. DOMAIN results' = 1..(Len(results) + Len(new))
  BY <1>3, LenProperties
<1>5. \A m \in 1..(Len(results) + Len(new)) :
         results'[m] = IF m <= Len(results) THEN results[m] ELSE new[m - Len(results)]
  BY <1>1, ConcatProperties
<1>6. \A k \in DOMAIN new : Len(results) + k \in DOMAIN results'
                            /\ results'[Len(results) + k] = new[k]
  <2> TAKE k \in DOMAIN new
  <2>1. k \in Nat /\ k >= 1 /\ k <= Len(new)
    BY <1>2
  <2>2. Len(results) + k \in 1..(Len(results) + Len(new))
    BY <1>2, <2>1
  <2>3. ~(Len(results) + k <= Len(results)) /\ (Len(results) + k) - Len(results) = k
    BY <1>2, <2>1
  <2> QED
    BY <1>4, <1>5, <2>2, <2>3
<1>7. \A k \in DOMAIN results : k \in DOMAIN results' /\ results'[k] = results[k]
  BY <1>2, <1>4, <1>5
<1>8. \A m \in DOMAIN results' \ DOMAIN results :
                 m - Len(results) \in DOMAIN new /\ results'[m] = new[m - Len(results)]
  <2> TAKE m \in DOMAIN results' \ DOMAIN results
  <2>1. m \in Nat /\ m > Len(results) /\ m <= Len(results) + Len(new)
    BY <1>2, <1>4
  <2>2. m - Len(results) \in 1..Len(new)
    BY <1>2, <2>1
  <2>3. results'[m] = new[m - Len(results)]
    BY <1>2, <1>4, <1>5, <2>1
  <2> QED
    BY <1>2, <2>2, <2>3
<1> QED
  BY <1>2, <1>3, <1>4, <1>6, <1>7, <1>8

(* What the end of a step does: the row of the step is added, with those   *)
(* of the requests that will not run if it ends the flow.                  *)
LEMMA FinishStepAdds ==
    ASSUME TypeOK, ReadsSteps, NEW text \in RowTexts, NEW ok \in BOOLEAN,
           NEW next \in Jumps \cup {Linear}, NEW configError \in BOOLEAN,
           FinishStep(text, ok, next, configError)
    PROVE  LET r == Row(phase, j, IF phase = "main" THEN iter ELSE 0, text, ok)
           IN  /\ r \in RowType /\ r.phase = phase /\ r.idx = j /\ r.text = text /\ r.ok = ok
               /\ phase = "main" => r.iter = iter
               /\ next \in Int /\ Landed(next) \in Nat
               /\ \E rest \in Seq(RowType) :
                     /\ RecordStep(r, rest)
                     /\ rest # <<>> => phase = "main"
                     /\ rest \in {<<>>, NotRunAfter(FlowPosition(iter, j)),
                                  NotRunAfter(FlowPosition(iter, Landed(next)))}
<1> DEFINE r == Row(phase, j, IF phase = "main" THEN iter ELSE 0, text, ok)
<1>1. /\ r \in RowType /\ r.phase = phase /\ r.idx = j /\ r.text = text /\ r.ok = ok
      /\ (phase = "main" => r.iter = iter)
  BY RowIsTyped DEF ReadsSteps, TypeOK, Row
<1>2. next \in Int /\ Landed(next) \in Nat /\ NMain \in Nat
  BY RunnerConstants DEF Landed, TypeOK, Linear, EndIteration
<1>3. <<>> \in Seq(RowType)
  OBVIOUS
<1>4. /\ NotRunAfter(FlowPosition(iter, j)) \in Seq(RowType)
      /\ NotRunAfter(FlowPosition(iter, Landed(next))) \in Seq(RowType)
  <2>1. iter \in Int /\ j \in Int /\ Landed(next) \in Int
    BY <1>2 DEF TypeOK
  <2>2. FlowPosition(iter, j) \in Int /\ FlowPosition(iter, Landed(next)) \in Int
    BY <2>1, FlowPositionIsTyped
  <2> QED
    BY <2>2, NotRunAfterIsTyped
<1> HIDE DEF r
<1>5. \E rest \in Seq(RowType) :
         /\ RecordStep(r, rest)
         /\ rest # <<>> => phase = "main"
         /\ rest \in {<<>>, NotRunAfter(FlowPosition(iter, j)),
                      NotRunAfter(FlowPosition(iter, Landed(next)))}
  <2>1. CASE phase = "setup" /\ AfterSetupStep(r)
    BY <1>3, <2>1 DEF AfterSetupStep
  <2>2. CASE phase = "teardown" /\ AfterTeardownStep(r)
    BY <1>3, <2>2 DEF AfterTeardownStep
  <2>3. CASE phase = "main" /\ AfterMainStep(r, next, configError)
    BY <1>3, <1>4, <2>3 DEF AfterMainStep
  <2> QED
    BY <2>1, <2>2, <2>3 DEF FinishStep, r
<1> QED
  BY <1>1, <1>2, <1>5 DEF r


-----------------------------------------------------------------------------
(* How far the loops are.                                                  *)

(* A loop is at one of its steps, or just after the last one; only between *)
(* two iterations it may pause there.                                      *)
PositionInv ==
    /\ j >= 1
    /\ phase \in {"start", "setupHook"} => j = 1
    /\ phase = "setup" => j <= NSetup + 1
    /\ phase = "main" => iter \in 1..Iterations /\ j <= NMain + 1
    /\ phase = "teardown" => j <= NTeardown + 1
    /\ InStep => /\ phase = "setup" => j <= NSetup
                 /\ phase = "main" => j <= NMain
                 /\ phase = "teardown" => j <= NTeardown
    /\ at = "iterationDelay" => phase = "main" /\ iter < Iterations /\ j = NMain + 1

(* A run begins before its first step.                                     *)
LEMMA InitKeepsPositions == Init => PositionInv
BY RunnerConstants DEF Init, PositionInv, InStep, ReadsSteps

(* The end of a step moves the loop on by one, or to where the script      *)
(* jumped, or leaves it.                                                   *)
LEMMA FinishStepMoves ==
    ASSUME NEW text, NEW ok, NEW next, NEW configError,
           FinishStep(text, ok, next, configError)
    PROVE  /\ ReadsSteps /\ UNCHANGED <<iter, visits>>
           /\ \/ /\ phase' = phase /\ at' \in {"head", "delay"}
                 /\ UNCHANGED teardownStarted
                 /\ \/ j' = j + 1
                    \/ phase = "main" /\ j' \in {NMain + 1, Landed(next) + 1}
              \/ phase = "main" /\ EndFlow
<1>1. Gap \in {"head", "delay"}
  BY DEF Gap
<1> QED
  BY <1>1 DEF FinishStep, ReadsSteps, AfterSetupStep, AfterTeardownStep, AfterMainStep, EndFlow

(* Every step keeps the positions.                                         *)
LEMMA NextKeepsPositions == TypeOK /\ PositionInv /\ [Next]_vars => PositionInv'
<1> SUFFICES ASSUME TypeOK, PositionInv, [Next]_vars PROVE PositionInv'
  OBVIOUS
<1>0. /\ NSetup \in Nat /\ NMain \in Nat /\ NTeardown \in Nat /\ Iterations \in Nat
      /\ NMain >= 1 /\ Iterations >= 1
  BY RunnerConstants
<1>1. CASE Finished
  <2>1. PICK text \in RowTexts, ok \in BOOLEAN, next \in Jumps \cup {Linear},
             configError \in BOOLEAN : FinishStep(text, ok, next, configError)
    BY <1>1 DEF Finished
  <2>2. InStep
    BY <1>1 DEF Finished
  <2>3. next \in Int /\ Landed(next) \in Nat /\ (phase = "main" => Landed(next) <= NMain)
    BY <1>0, <2>2, RunnerConstants DEF Landed, TypeOK, Linear, EndIteration, PositionInv
  <2>4. /\ ReadsSteps /\ UNCHANGED <<iter, visits>>
        /\ \/ /\ phase' = phase /\ at' \in {"head", "delay"}
              /\ \/ j' = j + 1
                 \/ phase = "main" /\ j' \in {NMain + 1, Landed(next) + 1}
           \/ phase' = "teardown" /\ at' = "head" /\ j' = 1
    BY <2>1, FinishStepMoves DEF EndFlow
  <2>5. CASE phase' = "teardown" /\ at' = "head" /\ j' = 1
    BY <1>0, <2>5 DEF PositionInv, InStep
  <2>6. CASE phase' = phase /\ at' \in {"head", "delay"} /\ j' = j + 1
    BY <1>0, <2>2, <2>4, <2>6 DEF PositionInv, TypeOK, InStep, ReadsSteps
  <2>7. CASE phase' = "main" /\ phase = "main" /\ at' \in {"head", "delay"}
             /\ j' \in {NMain + 1, Landed(next) + 1}
    BY <1>0, <2>2, <2>3, <2>4, <2>7 DEF PositionInv, TypeOK, InStep, ReadsSteps
  <2> QED
    BY <2>4, <2>5, <2>6, <2>7
<1>2. CASE Silent
  <2> USE <1>0 DEF PositionInv, TypeOK, InStep, ReadsSteps, cursor, vars
  <2>1. CASE Begin \/ BeginThrows \/ SetupDone \/ BudgetExhausted
    BY <2>1 DEF Begin, BeginThrows, SetupDone, BudgetExhausted
  <2>2. CASE IterationEnds
    BY <2>2 DEF IterationEnds, NextIteration, EndFlow
  <2>3. CASE DelayEnds
    BY <2>3 DEF DelayEnds, NextIteration
  <2>4. CASE FlowThrows \/ StepStarts \/ Send \/ ServerAnswers
    BY <2>4 DEF FlowThrows, StepStarts, Send, ServerAnswers, EndFlow
  <2>5. CASE BeginStep
    BY <2>5 DEF BeginStep, MayBegin
  <2>6. CASE CleanupDone \/ FailHookBegins \/ Close
    BY <2>6 DEF CleanupDone, FailHookBegins, Close
  <2>7. CASE StopGracefully \/ StopNow \/ UNCHANGED vars
    BY <2>7 DEF StopGracefully, StopNow
  <2> QED
    BY <1>2, <2>1, <2>2, <2>3, <2>4, <2>5, <2>6, <2>7 DEF Silent
<1>3. CASE Reporting
  BY <1>0, <1>3
  DEF Reporting, PositionInv, TypeOK, InStep, ReadsSteps, cursor, EndFlow, SetupHookEnds,
      TeardownHookEnds, FailHookEnds, LeaveSetup, FlowCancelled, CleanupAbandoned
<1> QED
  BY <1>1, <1>2, <1>3, StepKinds

-----------------------------------------------------------------------------
(* The counters and the rows.                                              *)

(* Rows of requests that did not run.                                      *)
LeftOut(rows) ==
    /\ rows \in Seq(RowType)
    /\ \A k \in DOMAIN rows : NotRun(rows[k]) /\ ~rows[k].stoppedRun

(* What a loop reports of what it leaves is rows that did not run.         *)
LEMMA NotRunIsLeftOut ==
    /\ LeftOut(<<>>)
    /\ \A from \in Int : LeftOut(NotRunAfter(from))
    /\ \A p \in {"setup", "main", "teardown"} : \A i, n \in Int : LeftOut(NotRunFrom(p, i, n))
<1>1. LeftOut(<<>>)
  BY EmptySeq DEF LeftOut
<1>2. ASSUME NEW from \in Int PROVE LeftOut(NotRunAfter(from))
  <2>1. NotRunAfter(from) \in Seq(RowType)
    BY NotRunAfterIsTyped
  <2> QED
    BY <2>1 DEF LeftOut, NotRunAfter, NotRunRow, Row, NotRun
<1>3. ASSUME NEW p \in {"setup", "main", "teardown"}, NEW i \in Int, NEW n \in Int
      PROVE  LeftOut(NotRunFrom(p, i, n))
  <2>1. NotRunFrom(p, i, n) \in Seq(RowType)
    BY NotRunFromIsTyped
  <2> QED
    BY <2>1 DEF LeftOut, NotRunFrom, NotRunRow, Row, NotRun
<1> QED
  BY <1>1, <1>2, <1>3

(* Rows that did not run, of setup and then of the flow.                   *)
LEMMA LeftOutJoined ==
    ASSUME NEW s, NEW t, LeftOut(s), LeftOut(t)
    PROVE  LeftOut(s \o t)
<1>1. s \in Seq(RowType) /\ t \in Seq(RowType) /\ s \o t \in Seq(RowType)
  BY ConcatProperties DEF LeftOut
<1>2. ASSUME NEW m \in DOMAIN (s \o t)
      PROVE  NotRun((s \o t)[m]) /\ ~(s \o t)[m].stoppedRun
  BY <1>1, RowsAppended DEF LeftOut
<1> QED
  BY <1>1, <1>2 DEF LeftOut

(* The steps that move the run without a report leave it alone.            *)
LEMMA SilentReportsNothing == Silent => UNCHANGED <<results, totals>>
BY DEF Silent, Begin, BeginThrows, SetupDone, BudgetExhausted, IterationEnds, NextIteration,
       DelayEnds, FlowThrows, BeginStep, StepStarts, Send, ServerAnswers, CleanupDone,
       FailHookBegins, Close, StopGracefully, StopNow, vars, report

(* Every step either records one row, with the rows of what will not run   *)
(* because of it, or only adds rows of what did not run.                   *)
LEMMA ReportGrows ==
    ASSUME TypeOK, [Next]_vars
    PROVE  \/ \E r \in RowType, rest \in Seq(RowType) : RecordStep(r, rest) /\ LeftOut(rest)
           \/ \E rest \in Seq(RowType) :
                 LeftOut(rest) /\ results' = results \o rest /\ totals' = totals
<1>0. <<>> \in Seq(RowType) /\ results \in Seq(RowType) /\ iter \in Int /\ j \in Int
  BY EmptySeq DEF TypeOK
<1>1. CASE Finished
  <2>1. ReadsSteps
    BY <1>1 DEF Finished, InStep
  <2>2. PICK text \in RowTexts, ok \in BOOLEAN, next \in Jumps \cup {Linear},
             configError \in BOOLEAN : FinishStep(text, ok, next, configError)
    BY <1>1 DEF Finished
  <2> DEFINE r == Row(phase, j, IF phase = "main" THEN iter ELSE 0, text, ok)
  <2>3. r \in RowType /\ Landed(next) \in Int
    BY <2>1, <2>2, FinishStepAdds
  <2>4. PICK rest \in Seq(RowType) :
           /\ RecordStep(r, rest)
           /\ rest \in {<<>>, NotRunAfter(FlowPosition(iter, j)),
                        NotRunAfter(FlowPosition(iter, Landed(next)))}
    BY <2>1, <2>2, FinishStepAdds
  <2>5. LeftOut(rest)
    BY <1>0, <2>3, <2>4, NotRunIsLeftOut, FlowPositionIsTyped
  <2> QED
    BY <2>3, <2>4, <2>5
<1>2. CASE Silent
  <2>1. results' = results \o <<>> /\ totals' = totals
    BY <1>0, <1>2, SilentReportsNothing, ConcatEmptySeq
  <2> QED
    BY <1>0, <2>1, NotRunIsLeftOut
<1>3. CASE Reporting
  <2>1. ASSUME NEW ok \in BOOLEAN,
               SetupHookEnds(ok) \/ TeardownHookEnds(ok) \/ FailHookEnds(ok)
        PROVE  \E r \in RowType : RecordStep(r, <<>>)
    <3>1. /\ Row("setup", RunScript, 0, "RAN", ok) \in RowType
          /\ Row("teardown", RunScript, 0, "RAN", ok) \in RowType
          /\ Row("teardown", FailScript, 0, "RAN", ok) \in RowType
      BY RowIsTyped DEF RunScript, FailScript, RowTexts
    <3> QED
      BY <2>1, <3>1 DEF SetupHookEnds, TeardownHookEnds, FailHookEnds
  <2>2. CASE LeaveSetup
    <3> DEFINE s == NotRunFrom("setup", j, NSetup)
               m == NotRunAfter(0)
    <3>1. LeftOut(s) /\ LeftOut(m)
      BY <1>0, NotRunIsLeftOut, RunnerConstants
    <3>2. results' = (results \o s) \o m /\ totals' = totals
      BY <2>2 DEF LeaveSetup
    <3> HIDE DEF s, m
    <3>3. s \in Seq(RowType) /\ m \in Seq(RowType) /\ LeftOut(s \o m)
      BY <3>1, LeftOutJoined DEF LeftOut
    <3>4. (results \o s) \o m = results \o (s \o m)
      BY <1>0, <3>3, ConcatAssociative
    <3> QED
      BY <3>2, <3>3, <3>4 DEF LeftOut
  <2>3. CASE FlowCancelled
    <3>1. FlowPosition(iter, j - 1) \in Int
      BY <1>0, FlowPositionIsTyped
    <3>2. LeftOut(NotRunAfter(FlowPosition(iter, j - 1)))
      BY <3>1, NotRunIsLeftOut
    <3> QED
      BY <2>3, <3>2 DEF FlowCancelled, LeftOut
  <2>4. CASE CleanupAbandoned
    <3>1. LeftOut(NotRunFrom("teardown", j, NTeardown))
      BY <1>0, NotRunIsLeftOut, RunnerConstants
    <3> QED
      BY <2>4, <3>1 DEF CleanupAbandoned, LeftOut
  <2>5. ASSUME NEW r \in RowType, RecordStep(r, <<>>)
        PROVE  \E s \in RowType, rest \in Seq(RowType) : RecordStep(s, rest) /\ LeftOut(rest)
    BY <1>0, <2>5, NotRunIsLeftOut
  <2> QED
    BY <1>3, <2>1, <2>2, <2>3, <2>4, <2>5 DEF Reporting
<1> QED
  BY <1>1, <1>2, <1>3, StepKinds

(* The rows a counter stands for.                                          *)
Counted(c) == {r \in RowType : ~IsSkippedStep(r) /\ Counter(r) = c}
PlacesOf(c) == {k \in DOMAIN results : results[k] \in Counted(c)}

(* Every counter is the number of its rows.                                *)
TalliesInv == \A c \in Counters : totals[c] = Cardinality(PlacesOf(c))

(* The places of some of the rows are finitely many.                       *)
LEMMA PlacesAreFinite ==
    ASSUME TypeOK, NEW c
    PROVE  IsFiniteSet(PlacesOf(c)) /\ Cardinality(PlacesOf(c)) \in Nat
<1>1. results \in Seq(RowType)
  BY DEF TypeOK
<1>2. Len(results) \in Nat /\ DOMAIN results = 1..Len(results)
  BY <1>1, LenProperties
<1>3. IsFiniteSet(1..Len(results))
  BY <1>2, FS_Interval
<1>4. PlacesOf(c) \in SUBSET (1..Len(results))
  BY <1>2 DEF PlacesOf
<1>5. IsFiniteSet(PlacesOf(c))
  BY <1>3, <1>4, FS_Subset
<1> QED
  BY <1>5, FS_CardinalityType

(* Rows that did not run are in no counter.                                *)
LEMMA LeftOutIsNotCounted ==
    ASSUME NEW rows, LeftOut(rows), NEW c
    PROVE  \A k \in DOMAIN rows : rows[k] \notin Counted(c)
BY DEF LeftOut, Counted, IsSkippedStep, NotRun

(* Recording a row and counting it go together.                            *)
LEMMA NextKeepsTallies == TypeOK /\ TalliesInv /\ [Next]_vars => TalliesInv'
<1> SUFFICES ASSUME TypeOK, TalliesInv, [Next]_vars, NEW c \in Counters
             PROVE  totals'[c] = Cardinality(PlacesOf(c)')
  BY DEF TalliesInv
<1>0. /\ totals[c] = Cardinality(PlacesOf(c)) /\ totals \in [Counters -> Nat]
      /\ IsFiniteSet(PlacesOf(c)) /\ Cardinality(PlacesOf(c)) \in Nat
  BY PlacesAreFinite DEF TalliesInv, TypeOK
<1>1. ASSUME NEW r \in RowType, NEW rest \in Seq(RowType), RecordStep(r, rest), LeftOut(rest)
      PROVE  totals'[c] = Cardinality(PlacesOf(c)')
  <2> DEFINE new == <<r>> \o rest
             n == Len(results)
  <2>1. Adds(new) /\ Len(new) = Len(rest) + 1 /\ new[1] = r
        /\ \A k \in DOMAIN rest : new[k + 1] = rest[k]
    BY <1>1, RecordedRows
  <2>2. Len(rest) \in Nat /\ DOMAIN rest = 1..Len(rest)
    BY LenProperties
  <2> HIDE DEF new
  <2>3. /\ n \in Nat /\ Len(new) \in Nat
        /\ DOMAIN results = 1..n /\ DOMAIN new = 1..Len(new)
        /\ \A k \in DOMAIN results : k \in DOMAIN results' /\ results'[k] = results[k]
        /\ \A k \in DOMAIN new : n + k \in DOMAIN results' /\ results'[n + k] = new[k]
        /\ \A m \in DOMAIN results' \ DOMAIN results :
              m - n \in DOMAIN new /\ results'[m] = new[m - n]
        /\ DOMAIN results' = 1..(n + Len(new))
    BY <2>1, AddedRows
  <2> HIDE DEF n
  <2>4. n + 1 \in DOMAIN results' /\ results'[n + 1] = r /\ n + 1 \notin DOMAIN results
    BY <2>1, <2>2, <2>3
  <2>5. ASSUME NEW m \in DOMAIN results' \ DOMAIN results, m # n + 1
        PROVE  results'[m] \notin Counted(c)
    <3>1. m \in Int /\ m - n \in 1..(Len(rest) + 1) /\ m - n # 1
      BY <2>1, <2>2, <2>3, <2>5
    <3>2. m - n - 1 \in DOMAIN rest /\ (m - n - 1) + 1 = m - n
      BY <2>2, <2>3, <3>1
    <3>3. results'[m] = rest[m - n - 1]
      BY <2>1, <2>3, <3>2
    <3> QED
      BY <1>1, <3>2, <3>3, LeftOutIsNotCounted
  <2>6. PlacesOf(c)' = IF r \in Counted(c) THEN PlacesOf(c) \cup {n + 1} ELSE PlacesOf(c)
    BY <2>3, <2>4, <2>5 DEF PlacesOf, Counted
  <2>7. n + 1 \notin PlacesOf(c)
    BY <2>4 DEF PlacesOf
  <2>8. totals'[c] = IF r \in Counted(c) THEN totals[c] + 1 ELSE totals[c]
    BY <1>0, <1>1 DEF RecordStep, Tallied, Counted, Counter, Counters
  <2>9. Cardinality(PlacesOf(c) \cup {n + 1}) = Cardinality(PlacesOf(c)) + 1
    BY <1>0, <2>7, FS_AddElement
  <2> QED
    BY <1>0, <2>6, <2>8, <2>9
<1>2. ASSUME NEW rest \in Seq(RowType), LeftOut(rest), results' = results \o rest,
             totals' = totals
      PROVE  totals'[c] = Cardinality(PlacesOf(c)')
  <2>1. Adds(rest)
    BY <1>2 DEF Adds
  <2>2. /\ \A k \in DOMAIN results : k \in DOMAIN results' /\ results'[k] = results[k]
        /\ \A m \in DOMAIN results' \ DOMAIN results : results'[m] \notin Counted(c)
    BY <1>2, <2>1, AddedRows, LeftOutIsNotCounted
  <2>3. PlacesOf(c)' = PlacesOf(c)
    BY <2>2 DEF PlacesOf, Counted
  <2> QED
    BY <1>0, <1>2, <2>3
<1> QED
  BY <1>1, <1>2, ReportGrows

(* The counters the run keeps beside its rows, which the history table     *)
(* stores, are what every view of the results computes from the rows, in   *)
(* every state of every run.                                               *)
THEOREM TalliesAgree == Spec => []TalliesMatchRows
<1>1. Init => TalliesInv
  <2> SUFFICES ASSUME Init, NEW c \in Counters PROVE totals[c] = Cardinality(PlacesOf(c))
    BY DEF TalliesInv
  <2>1. PlacesOf(c) = {} /\ totals[c] = 0
    BY DEF Init, PlacesOf
  <2> QED
    BY <2>1, FS_EmptySet
<1>2. TypeOK /\ TalliesInv => TalliesMatchRows
  <2> SUFFICES ASSUME TypeOK, TalliesInv PROVE TalliesMatchRows
    OBVIOUS
  <2>1. \A k \in DOMAIN results : results[k] \in RowType
    BY DEF TypeOK
  <2>2. /\ PlacesOf("passed") =
             {k \in DOMAIN results : Scored(results[k]) /\ EndpointDidPass(results[k])}
        /\ PlacesOf("failed") = {k \in DOMAIN results : ScoredFailed(results[k])}
        /\ PlacesOf("teardownFailed") =
             {k \in DOMAIN results : /\ ~CountsTowardRunVerdict(results[k])
                                     /\ ~IsSkippedStep(results[k])
                                     /\ ~EndpointDidPass(results[k])}
    BY <2>1 DEF PlacesOf, Counted, Counter, Scored, ScoredFailed
  <2>3. "passed" \in Counters /\ "failed" \in Counters /\ "teardownFailed" \in Counters
    BY DEF Counters
  <2> QED
    BY <2>2, <2>3 DEF TalliesInv, TalliesMatchRows, Summary, RowsWhere
<1> QED
  BY <1>1, <1>2, TypeCorrect, NextKeepsTallies, PTL DEF Spec

-----------------------------------------------------------------------------
(* The rows as a set.                                                      *)

RowsIn(s) == {s[k] : k \in DOMAIN s}
Rows == RowsIn(results)

(* Rows that are appended are added.                                       *)
LEMMA RowsJoined ==
    ASSUME NEW s \in Seq(RowType), NEW t \in Seq(RowType)
    PROVE  RowsIn(s \o t) = RowsIn(s) \cup RowsIn(t)
<1>1. /\ Len(s) \in Nat /\ DOMAIN s = 1..Len(s)
      /\ Len(t) \in Nat /\ DOMAIN t = 1..Len(t)
  BY LenProperties
<1>2. s \o t \in Seq(RowType) /\ Len(s \o t) = Len(s) + Len(t)
  BY ConcatProperties
<1>3. DOMAIN (s \o t) = 1..(Len(s) + Len(t))
  BY <1>2, LenProperties
<1>4. \A m \in 1..(Len(s) + Len(t)) :
         (s \o t)[m] = IF m <= Len(s) THEN s[m] ELSE t[m - Len(s)]
  BY ConcatProperties
<1>5. ASSUME NEW k \in DOMAIN t PROVE \E m \in DOMAIN (s \o t) : (s \o t)[m] = t[k]
  <2>1. k \in Nat /\ k >= 1 /\ k <= Len(t)
    BY <1>1
  <2>2. Len(s) + k \in 1..(Len(s) + Len(t))
    BY <1>1, <2>1
  <2>3. ~(Len(s) + k <= Len(s)) /\ (Len(s) + k) - Len(s) = k
    BY <1>1, <2>1
  <2> QED
    BY <1>3, <1>4, <2>2, <2>3
<1>6. /\ \A m \in DOMAIN s : m \in DOMAIN (s \o t) /\ (s \o t)[m] = s[m]
      /\ \A m \in DOMAIN (s \o t) \ DOMAIN s : \E k \in DOMAIN t : (s \o t)[m] = t[k]
  BY RowsAppended
<1>7. \A x \in RowsIn(s \o t) : x \in RowsIn(s) \/ x \in RowsIn(t)
  BY <1>6 DEF RowsIn
<1>8. (\A x \in RowsIn(s) : x \in RowsIn(s \o t)) /\ (\A x \in RowsIn(t) : x \in RowsIn(s \o t))
  <2>1. ASSUME NEW k \in DOMAIN s PROVE s[k] \in RowsIn(s \o t)
    BY <1>6 DEF RowsIn
  <2>2. ASSUME NEW k \in DOMAIN t PROVE t[k] \in RowsIn(s \o t)
    <3>1. PICK m \in DOMAIN (s \o t) : (s \o t)[m] = t[k]
      BY <1>5
    <3> QED
      BY <3>1, Zenon DEF RowsIn
  <2> QED
    BY <2>1, <2>2, Zenon DEF RowsIn
<1> QED
  BY <1>7, <1>8

(* The rows after a recorded step.                                         *)
LEMMA RowsAfterRecord ==
    ASSUME TypeOK, NEW r \in RowType, NEW rest \in Seq(RowType), RecordStep(r, rest)
    PROVE  Rows' = Rows \cup {r} \cup RowsIn(rest)
<1>1. results \in Seq(RowType) /\ <<r>> \in Seq(RowType)
  BY DEF TypeOK
<1>2. Append(results, r) = results \o <<r>> /\ results \o <<r>> \in Seq(RowType)
  BY <1>1, AppendIsConcat, ConcatProperties
<1>3. results' = (results \o <<r>>) \o rest
  BY <1>2 DEF RecordStep
<1>4. RowsIn((results \o <<r>>) \o rest) = RowsIn(results) \cup RowsIn(<<r>>) \cup RowsIn(rest)
  BY <1>1, <1>2, RowsJoined
<1>5. RowsIn(<<r>>) = {r}
  BY DEF RowsIn
<1> QED
  BY <1>3, <1>4, <1>5 DEF Rows

(* The rows of what was left out.                                          *)
LEMMA RowsLeftOut ==
    /\ RowsIn(<<>>) = {}
    /\ \A p : \A i, n \in Int :
          RowsIn(NotRunFrom(p, i, n)) = {NotRunRow(p, m, 0) : m \in i..n}
    /\ \A from \in Int :
          /\ \A r \in RowsIn(NotRunAfter(from)) :
                r.phase = "main" /\ NotRun(r) /\ ~r.stoppedRun
          /\ from < Iterations * NMain => RowsIn(NotRunAfter(from)) # {}
<1>1. RowsIn(<<>>) = {}
  BY DEF RowsIn
<1>2. ASSUME NEW p, NEW i \in Int, NEW n \in Int
      PROVE  RowsIn(NotRunFrom(p, i, n)) = {NotRunRow(p, m, 0) : m \in i..n}
  <2>1. RowsIn(NotRunFrom(p, i, n)) = {NotRunRow(p, i + k - 1, 0) : k \in 1..(n - i + 1)}
    BY DEF RowsIn, NotRunFrom
  <2>2. \A k \in 1..(n - i + 1) : i + k - 1 \in i..n
    OBVIOUS
  <2>3. \A m \in i..n : m - i + 1 \in 1..(n - i + 1) /\ i + (m - i + 1) - 1 = m
    OBVIOUS
  <2> QED
    BY <2>1, <2>2, <2>3
<1>3. ASSUME NEW from \in Int
      PROVE  /\ \A r \in RowsIn(NotRunAfter(from)) :
                   r.phase = "main" /\ NotRun(r) /\ ~r.stoppedRun
             /\ from < Iterations * NMain => RowsIn(NotRunAfter(from)) # {}
  <2>1. Iterations * NMain \in Int
    BY RunnerConstants
  <2>2. DOMAIN NotRunAfter(from) = 1..(Iterations * NMain - from)
    BY DEF NotRunAfter
  <2>3. \A k \in DOMAIN NotRunAfter(from) :
           /\ NotRunAfter(from)[k].phase = "main"
           /\ NotRun(NotRunAfter(from)[k]) /\ ~NotRunAfter(from)[k].stoppedRun
    BY DEF NotRunAfter, NotRunRow, Row, NotRun
  <2>4. from < Iterations * NMain => 1 \in DOMAIN NotRunAfter(from)
    BY <2>1, <2>2
  <2> QED
    BY <2>3, <2>4 DEF RowsIn
<1> QED
  BY <1>1, <1>2, <1>3

(* What every kind of step does to the rows.                               *)
LEMMA RowsAfterFinish ==
    ASSUME TypeOK, Finished
    PROVE  \E text \in RowTexts, ok \in BOOLEAN, next \in Jumps \cup {Linear},
              configError \in BOOLEAN :
             LET r == Row(phase, j, IF phase = "main" THEN iter ELSE 0, text, ok)
             IN  /\ FinishStep(text, ok, next, configError)
                 /\ text = "NOT_RUN" => directStop
                 /\ r \in RowType /\ r.phase = phase /\ r.idx = j /\ r.text = text
                 /\ next \in Int /\ Landed(next) \in Nat
                 /\ phase # "main" => Rows' = Rows \cup {r}
                 /\ phase = "main" =>
                       \/ Rows' = Rows \cup {r} /\ ~EndFlow
                       \/ /\ EndFlow
                          /\ \E from \in {FlowPosition(iter, j),
                                          FlowPosition(iter, Landed(next))} :
                                Rows' = Rows \cup {r} \cup RowsIn(NotRunAfter(from))
<1>1. InStep /\ ReadsSteps
  BY DEF Finished, InStep
<1>2. PICK text \in RowTexts, ok \in BOOLEAN, next \in Jumps \cup {Linear},
           configError \in BOOLEAN :
              FinishStep(text, ok, next, configError) /\ (text = "NOT_RUN" => directStop)
  BY DEF Finished
<1> DEFINE r == Row(phase, j, IF phase = "main" THEN iter ELSE 0, text, ok)
<1>3. /\ r \in RowType /\ r.phase = phase /\ r.idx = j /\ r.text = text
      /\ next \in Int /\ Landed(next) \in Nat
  BY <1>1, <1>2, FinishStepAdds
<1>4. \A i \in {j, Landed(next)} : NotRunAfter(FlowPosition(iter, i)) \in Seq(RowType)
  <2>1. \A i \in {j, Landed(next)} : FlowPosition(iter, i) \in Int
    BY <1>3, FlowPositionIsTyped DEF TypeOK
  <2> QED
    BY <2>1, NotRunAfterIsTyped
<1>5. <<>> \in Seq(RowType) /\ RowsIn(<<>>) = {}
  BY EmptySeq, RowsLeftOut
<1> HIDE DEF r
<1>6. CASE phase = "main" /\ AfterMainStep(r, next, configError)
  <2>1. CASE /\ RecordStep(r, NotRunAfter(FlowPosition(iter, j)))
             /\ EndFlow
    <3>1. Rows' = Rows \cup {r} \cup RowsIn(NotRunAfter(FlowPosition(iter, j)))
      BY <1>3, <1>4, <2>1, RowsAfterRecord
    <3> QED
      BY <1>2, <1>3, <1>6, <2>1, <3>1 DEF r
  <2>2. CASE /\ RecordStep(r, NotRunAfter(FlowPosition(iter, Landed(next))))
             /\ EndFlow
    <3>1. Rows' = Rows \cup {r} \cup RowsIn(NotRunAfter(FlowPosition(iter, Landed(next))))
      BY <1>3, <1>4, <2>2, RowsAfterRecord
    <3> QED
      BY <1>2, <1>3, <1>6, <2>2, <3>1 DEF r
  <2>3. CASE RecordStep(r, <<>>) /\ phase' = phase
    <3>1. Rows' = Rows \cup {r} /\ ~EndFlow
      BY <1>3, <1>5, <1>6, <2>3, RowsAfterRecord DEF EndFlow
    <3> QED
      BY <1>2, <1>3, <1>6, <3>1 DEF r
  <2> QED
    BY <1>6, <2>1, <2>2, <2>3 DEF AfterMainStep
<1>7. CASE phase # "main" /\ RecordStep(r, <<>>)
  <2>1. Rows' = Rows \cup {r}
    BY <1>3, <1>5, <1>7, RowsAfterRecord
  <2> QED
    BY <1>2, <1>3, <1>7, <2>1 DEF r
<1> QED
  BY <1>2, <1>6, <1>7 DEF FinishStep, AfterSetupStep, AfterTeardownStep, r

(* What a step that reports what it leaves, or that ends one of the run's  *)
(* scripts, does to the rows.                                              *)
LEMMA RowsAfterReport ==
    ASSUME TypeOK
    PROVE  /\ \A ok \in BOOLEAN :
                 /\ SetupHookEnds(ok) => Rows' = Rows \cup {Row("setup", RunScript, 0, "RAN", ok)}
                 /\ TeardownHookEnds(ok) =>
                       Rows' = Rows \cup {Row("teardown", RunScript, 0, "RAN", ok)}
                 /\ FailHookEnds(ok) =>
                       Rows' = Rows \cup {Row("teardown", FailScript, 0, "RAN", ok)}
           /\ LeaveSetup => Rows' = Rows \cup {NotRunRow("setup", m, 0) : m \in j..NSetup}
                                         \cup RowsIn(NotRunAfter(0))
           /\ FlowCancelled => Rows' = Rows \cup RowsIn(NotRunAfter(FlowPosition(iter, j - 1)))
           /\ CleanupAbandoned =>
                 Rows' = Rows \cup {NotRunRow("teardown", m, 0) : m \in j..NTeardown}
           /\ Silent => Rows' = Rows
<1>0. results \in Seq(RowType) /\ <<>> \in Seq(RowType) /\ RowsIn(<<>>) = {}
  BY EmptySeq, RowsLeftOut DEF TypeOK
<1> j \in Int /\ iter \in Int /\ NSetup \in Int /\ NTeardown \in Int
  BY RunnerConstants DEF TypeOK
<1>1. ASSUME NEW ok \in BOOLEAN
      PROVE  /\ SetupHookEnds(ok) => Rows' = Rows \cup {Row("setup", RunScript, 0, "RAN", ok)}
             /\ TeardownHookEnds(ok) =>
                   Rows' = Rows \cup {Row("teardown", RunScript, 0, "RAN", ok)}
             /\ FailHookEnds(ok) =>
                   Rows' = Rows \cup {Row("teardown", FailScript, 0, "RAN", ok)}
  <2>1. /\ Row("setup", RunScript, 0, "RAN", ok) \in RowType
        /\ Row("teardown", RunScript, 0, "RAN", ok) \in RowType
        /\ Row("teardown", FailScript, 0, "RAN", ok) \in RowType
    BY RowIsTyped DEF RunScript, FailScript, RowTexts
  <2>2. ASSUME NEW r \in RowType, RecordStep(r, <<>>) PROVE Rows' = Rows \cup {r}
    BY <1>0, <2>2, RowsAfterRecord
  <2> QED
    BY <2>1, <2>2 DEF SetupHookEnds, TeardownHookEnds, FailHookEnds
<1>2. ASSUME LeaveSetup
      PROVE  Rows' = Rows \cup {NotRunRow("setup", m, 0) : m \in j..NSetup}
                          \cup RowsIn(NotRunAfter(0))
  <2> DEFINE s == NotRunFrom("setup", j, NSetup)
             m == NotRunAfter(0)
  <2>1. /\ s \in Seq(RowType) /\ m \in Seq(RowType)
        /\ RowsIn(s) = {NotRunRow("setup", i, 0) : i \in j..NSetup}
    <3>1. s \in Seq(RowType) /\ m \in Seq(RowType)
      BY NotRunFromIsTyped, NotRunAfterIsTyped
    <3>2. RowsIn(s) = {NotRunRow("setup", i, 0) : i \in j..NSetup}
      BY RowsLeftOut
    <3> QED
      BY <3>1, <3>2
  <2>2. results' = (results \o s) \o m
    BY <1>2 DEF LeaveSetup
  <2> HIDE DEF s, m
  <2>3. results \o s \in Seq(RowType)
    BY <1>0, <2>1, ConcatProperties
  <2>4. RowsIn((results \o s) \o m) = RowsIn(results) \cup RowsIn(s) \cup RowsIn(m)
    BY <1>0, <2>1, <2>3, RowsJoined
  <2> QED
    BY <2>1, <2>2, <2>4 DEF Rows, m
<1>3. ASSUME FlowCancelled
      PROVE  Rows' = Rows \cup RowsIn(NotRunAfter(FlowPosition(iter, j - 1)))
  <2>1. FlowPosition(iter, j - 1) \in Int
    BY FlowPositionIsTyped
  <2>2. NotRunAfter(FlowPosition(iter, j - 1)) \in Seq(RowType)
    BY <2>1, NotRunAfterIsTyped
  <2> QED
    BY <1>0, <1>3, <2>2, RowsJoined DEF FlowCancelled, Rows
<1>4. ASSUME CleanupAbandoned
      PROVE  Rows' = Rows \cup {NotRunRow("teardown", m, 0) : m \in j..NTeardown}
  <2>1. /\ NotRunFrom("teardown", j, NTeardown) \in Seq(RowType)
        /\ RowsIn(NotRunFrom("teardown", j, NTeardown))
             = {NotRunRow("teardown", m, 0) : m \in j..NTeardown}
    <3>1. NotRunFrom("teardown", j, NTeardown) \in Seq(RowType)
      BY NotRunFromIsTyped
    <3>2. RowsIn(NotRunFrom("teardown", j, NTeardown))
            = {NotRunRow("teardown", m, 0) : m \in j..NTeardown}
      BY RowsLeftOut
    <3> QED
      BY <3>1, <3>2
  <2> QED
    BY <1>0, <1>4, <2>1, RowsJoined DEF CleanupAbandoned, Rows
<1>5. Silent => Rows' = Rows
  BY SilentReportsNothing DEF Rows
<1> QED
  BY <1>1, <1>2, <1>3, <1>4, <1>5

(* The verdict is a matter of the rows, and red stays red.                 *)
LEMMA RedRows ==
    /\ RunFailed <=> \E r \in Rows : ScoredFailed(r)
    /\ RunFailed' <=> \E r \in Rows' : ScoredFailed(r)
<1>1. RunFailed <=> \E r \in Rows : ScoredFailed(r)
  BY DEF RunFailed, Rows, RowsIn
<1>2. RunFailed' <=> \E r \in Rows' : ScoredFailed(r)
  BY DEF RunFailed, Rows, RowsIn
<1> QED
  BY <1>1, <1>2

-----------------------------------------------------------------------------
(* The fail script.                                                        *)

IsFailRow(r) == r.phase = "teardown" /\ r.idx = FailScript

(* The fail script has its row last, and is not begun after a hard stop.   *)
FailScriptInv ==
    /\ phase \in {"start", "setupHook"} => Rows = {}
    /\ teardownSkipped => abortTeardown
    /\ phase # "over" => \A r \in Rows : ~IsFailRow(r)
    /\ phase = "failHook" => RunFailed /\ ~directStop /\ ~teardownSkipped
    /\ FailScriptForRedRuns

(* Before the run is over, no row may be the fail script's.                *)
LEMMA NoFailRowYet ==
    ASSUME (phase # "over")', \A r \in Rows' : ~IsFailRow(r)
    PROVE  FailScriptForRedRuns'
BY DEF FailScriptForRedRuns, Rows, RowsIn, RowsOf, IsFailRow

(* The ways to the end of a run.                                           *)
LEMMA WaysToTheEnd ==
    ASSUME TypeOK, [Next]_vars, phase' = "over"
    PROVE  \/ BeginThrows \/ Close \/ UNCHANGED vars
           \/ \E ok \in BOOLEAN : FailHookEnds(ok)
<1>1. ~Finished
  <2>1. ASSUME NEW text, NEW ok, NEW next, NEW configError,
               FinishStep(text, ok, next, configError)
        PROVE  FALSE
    BY <2>1, FinishStepMoves DEF ReadsSteps, EndFlow
  <2> QED
    BY <2>1 DEF Finished
<1>2. CASE Silent
  BY <1>2 DEF Silent, Begin, SetupDone, BudgetExhausted, IterationEnds, NextIteration,
       DelayEnds, FlowThrows, BeginStep, StepStarts, Send, ServerAnswers, CleanupDone,
       FailHookBegins, StopGracefully, StopNow, EndFlow, MayBegin, ReadsSteps, Suspended
<1>3. CASE Reporting
  BY <1>3 DEF Reporting, SetupHookEnds, TeardownHookEnds, LeaveSetup, FlowCancelled,
              CleanupAbandoned, EndFlow
<1> QED
  BY <1>1, <1>2, <1>3, StepKinds

(* No step but the end of the fail script reports it.                      *)
LEMMA OnlyTheFailScriptIsReported ==
    ASSUME TypeOK, [Next]_vars, \A ok \in BOOLEAN : ~FailHookEnds(ok)
    PROVE  \A r \in Rows' \ Rows : ~IsFailRow(r)
<1>0. j \in Nat /\ iter \in Int
  BY DEF TypeOK
<1>1. CASE Finished
  <2>1. \A i \in Int : \A r \in RowsIn(NotRunAfter(FlowPosition(iter, i))) : ~IsFailRow(r)
    BY <1>0, RowsLeftOut, FlowPositionIsTyped DEF IsFailRow
  <2>2. PICK r \in RowType, next \in Int :
           /\ r.idx = j /\ Landed(next) \in Int
           /\ \/ Rows' = Rows \cup {r}
              \/ \E from \in {FlowPosition(iter, j), FlowPosition(iter, Landed(next))} :
                    Rows' = Rows \cup {r} \cup RowsIn(NotRunAfter(from))
    BY <1>1, RowsAfterFinish
  <2>3. ~IsFailRow(r)
    BY <1>0, <2>2 DEF IsFailRow, FailScript
  <2> QED
    BY <1>0, <2>1, <2>2, <2>3
<1>2. CASE Silent
  BY <1>2, RowsAfterReport
<1>3. CASE Reporting
  <2>1. ASSUME NEW ok \in BOOLEAN, SetupHookEnds(ok) \/ TeardownHookEnds(ok)
        PROVE  \A r \in Rows' \ Rows : ~IsFailRow(r)
    BY <2>1, RowsAfterReport DEF IsFailRow, Row, RunScript, FailScript
  <2>2. CASE LeaveSetup
    BY <2>2, RowsAfterReport, RowsLeftOut DEF IsFailRow, NotRunRow, Row
  <2>3. CASE FlowCancelled
    <3>1. FlowPosition(iter, j - 1) \in Int
      BY <1>0, FlowPositionIsTyped
    <3> QED
      BY <2>3, <3>1, RowsAfterReport, RowsLeftOut DEF IsFailRow
  <2>4. CASE CleanupAbandoned
    <3>1. \A m \in j..NTeardown : ~IsFailRow(NotRunRow("teardown", m, 0))
      BY <1>0, RunnerConstants DEF IsFailRow, NotRunRow, Row, FailScript
    <3> QED
      BY <2>4, <3>1, RowsAfterReport
  <2> QED
    BY <1>3, <2>1, <2>2, <2>3, <2>4 DEF Reporting
<1> QED
  BY <1>1, <1>2, <1>3, StepKinds

(* A run that is over stays as it is.                                      *)
LEMMA OverIsOver == ASSUME TypeOK, [Next]_vars, phase = "over" PROVE UNCHANGED vars
<1>1. ~Finished
  BY DEF Finished, InStep, ReadsSteps
<1>2. CASE Silent
  BY <1>2 DEF Silent, Begin, BeginThrows, SetupDone, BudgetExhausted, IterationEnds,
       DelayEnds, FlowThrows, BeginStep, StepStarts, Send, ServerAnswers, CleanupDone,
       FailHookBegins, Close, StopGracefully, StopNow, MayBegin, ReadsSteps, Suspended
<1>3. ~Reporting
  BY DEF Reporting, SetupHookEnds, TeardownHookEnds, FailHookEnds, LeaveSetup, FlowCancelled,
         CleanupAbandoned
<1> QED
  BY <1>1, <1>2, <1>3, StepKinds

(* The fail script begins once the run is red, and only stops come while   *)
(* it runs.                                                                *)
LEMMA WaysToTheFailScript ==
    ASSUME TypeOK, [Next]_vars, phase' = "failHook"
    PROVE  \/ FailHookBegins
           \/ phase = "failHook" /\ (StopGracefully \/ StopNow \/ UNCHANGED vars)
<1>1. ~Finished
  <2>1. ASSUME NEW text, NEW ok, NEW next, NEW configError,
               FinishStep(text, ok, next, configError)
        PROVE  FALSE
    BY <2>1, FinishStepMoves DEF ReadsSteps, EndFlow
  <2> QED
    BY <2>1 DEF Finished
<1>2. CASE Silent
  BY <1>2 DEF Silent, Begin, BeginThrows, SetupDone, BudgetExhausted, IterationEnds,
       NextIteration, DelayEnds, FlowThrows, BeginStep, StepStarts, Send, ServerAnswers,
       CleanupDone, Close, StopGracefully, StopNow, EndFlow, MayBegin, ReadsSteps, vars
<1>3. ~Reporting
  BY DEF Reporting, SetupHookEnds, TeardownHookEnds, FailHookEnds, LeaveSetup, FlowCancelled,
         CleanupAbandoned, EndFlow
<1> QED
  BY <1>1, <1>2, <1>3, StepKinds

(* Every step keeps the invariant of the fail script.                      *)
LEMMA NextKeepsFailScriptInv ==
    TypeOK /\ CleanupInv /\ FailScriptInv /\ [Next]_vars => FailScriptInv'
<1> SUFFICES ASSUME TypeOK, CleanupInv, FailScriptInv, [Next]_vars PROVE FailScriptInv'
  OBVIOUS
<1>1. (phase \in {"start", "setupHook"})' => Rows' = {}
  <2>1. ASSUME (phase \in {"start", "setupHook"})' PROVE Silent /\ phase \in {"start", "setupHook"}
    <3>1. CASE Finished
      <4>1. PICK text, ok, next, configError : FinishStep(text, ok, next, configError)
        BY <3>1 DEF Finished
      <4> QED
        BY <2>1, <4>1, FinishStepMoves DEF ReadsSteps, EndFlow
    <3>2. CASE Reporting
      BY <2>1, <3>2 DEF Reporting, SetupHookEnds, TeardownHookEnds, FailHookEnds, LeaveSetup,
                        FlowCancelled, CleanupAbandoned, EndFlow
    <3>3. CASE Silent
      BY <2>1, <3>3 DEF Silent, Begin, BeginThrows, SetupDone, BudgetExhausted, IterationEnds,
           NextIteration, DelayEnds, FlowThrows, BeginStep, StepStarts, Send, ServerAnswers,
           CleanupDone, FailHookBegins, Close, StopGracefully, StopNow, EndFlow, vars, ReadsSteps,
           MayBegin
    <3> QED
      BY <3>1, <3>2, <3>3, StepKinds
  <2> QED
    BY <2>1, RowsAfterReport DEF FailScriptInv
<1>2. (teardownSkipped => abortTeardown)'
  <2>1. CASE Finished
    <3>1. PICK text, ok, next, configError : FinishStep(text, ok, next, configError)
      BY <2>1 DEF Finished
    <3> QED
      BY <3>1 DEF FinishStep, stopFlags, FailScriptInv
  <2>2. CASE Silent
    BY <2>2 DEF FailScriptInv, Silent, Begin, BeginThrows, SetupDone, BudgetExhausted,
         IterationEnds, NextIteration, DelayEnds, FlowThrows, BeginStep, StepStarts, Send,
         ServerAnswers, CleanupDone, FailHookBegins, Close, StopGracefully, StopNow, vars,
         control, stopFlags
  <2>3. CASE Reporting
    BY <2>3 DEF FailScriptInv, Reporting, SetupHookEnds, TeardownHookEnds, FailHookEnds,
         LeaveSetup, FlowCancelled, CleanupAbandoned, control, stopFlags
  <2> QED
    BY <2>1, <2>2, <2>3, StepKinds
<1>3. (phase # "over" => \A r \in Rows : ~IsFailRow(r))'
  <2>1. ASSUME (phase # "over")' PROVE phase # "over" /\ \A ok \in BOOLEAN : ~FailHookEnds(ok)
    <3>1. \A ok \in BOOLEAN : ~FailHookEnds(ok)
      BY <2>1 DEF FailHookEnds
    <3>2. phase = "over" => phase' = "over"
      BY OverIsOver DEF vars
    <3> QED
      BY <2>1, <3>1, <3>2
  <2> QED
    BY <2>1, OnlyTheFailScriptIsReported DEF FailScriptInv
<1>4. (phase = "failHook" => RunFailed /\ ~directStop /\ ~teardownSkipped)'
  <2> SUFFICES ASSUME (phase = "failHook")' PROVE (RunFailed /\ ~directStop /\ ~teardownSkipped)'
    OBVIOUS
  <2>1. FailHookBegins \/ (phase = "failHook" /\ (StopGracefully \/ StopNow \/ UNCHANGED vars))
    BY WaysToTheFailScript
  <2>2. CASE FailHookBegins
    BY <2>2 DEF FailHookBegins, FailHookDue, FailScriptInv, RunFailed, report, stopFlags
  <2>3. CASE phase = "failHook" /\ (StopGracefully \/ StopNow \/ UNCHANGED vars)
    <3>1. teardownStarted
      BY <2>3 DEF CleanupInv, CleanupPhases
    <3>2. UNCHANGED <<results, teardownSkipped>> /\ (directStop' => directStop)
      <4>1. CASE StopGracefully
        BY <4>1 DEF StopGracefully, report, control
      <4>2. CASE StopNow
        BY <3>1, <4>2 DEF StopNow, report, control
      <4>3. CASE UNCHANGED vars
        BY <4>3 DEF vars, report, control, stopFlags
      <4> QED
        BY <2>3, <4>1, <4>2, <4>3
    <3> QED
      BY <2>3, <3>2 DEF FailScriptInv, RunFailed
  <2> QED
    BY <2>1, <2>2, <2>3
<1>5. FailScriptForRedRuns'
  <2>1. CASE phase' # "over"
    BY <1>3, <2>1, NoFailRowYet
  <2>2. CASE BeginThrows
    <3>1. Rows' = {} /\ phase' = "over"
      BY <2>2, RowsAfterReport DEF FailScriptInv, Silent, BeginThrows
    <3>2. ~RunFailed' /\ {k \in RowsOf("teardown") : results[k].idx = FailScript}' = {}
      BY <3>1, RedRows DEF Rows, RowsIn, RowsOf
    <3> QED
      BY <3>2 DEF FailScriptForRedRuns
  <2>3. CASE Close
    <3>1. /\ UNCHANGED results /\ UNCHANGED stopFlags /\ UNCHANGED orchestrationError
          /\ phase = "closing" /\ ~FailHookDue
      BY <2>3 DEF Close, report
    <3>2. {k \in RowsOf("teardown") : results[k].idx = FailScript}' = {}
      BY <3>1 DEF FailScriptInv, Rows, RowsIn, RowsOf, IsFailRow
    <3>3. (HasFail /\ RunFailed /\ ~abortTeardown /\ ~orchestrationError)' => FALSE
      BY <3>1 DEF FailHookDue, RunFailed, stopFlags, CleanupInv
    <3> QED
      BY <3>2, <3>3 DEF FailScriptForRedRuns
  <2>4. CASE UNCHANGED vars
    BY <2>4 DEF vars, report, control, stopFlags, FailScriptInv, FailScriptForRedRuns, RowsOf,
                RunFailed
  <2>5. ASSUME NEW ok \in BOOLEAN, FailHookEnds(ok) PROVE FailScriptForRedRuns'
    <3> DEFINE r == Row("teardown", FailScript, 0, "RAN", ok)
    <3>1. r \in RowType /\ r.phase = "teardown" /\ r.idx = FailScript
      BY RowIsTyped DEF FailScript, RowTexts, Row
    <3>2. RecordStep(r, <<>>) /\ phase = "failHook" /\ phase' = "over"
          /\ UNCHANGED <<teardownSkipped, stopFlags>>
      BY <2>5 DEF FailHookEnds
    <3> HIDE DEF r
    <3>3. RunFailed' /\ ~directStop' /\ ~teardownSkipped'
      BY <3>1, <3>2, CleanupRowKeepsVerdict DEF FailScriptInv, stopFlags
    <3> DEFINE new == <<r>> \o <<>>
    <3>4. Adds(new) /\ new[1] = r /\ Len(new) = 1
      <4>1. <<>> \in Seq(RowType) /\ Len(<<>>) = 0
        BY EmptySeq
      <4>2. Adds(new) /\ new[1] = r /\ Len(new) = Len(<<>>) + 1
        BY <3>1, <3>2, <4>1, RecordedRows
      <4> QED
        BY <4>1, <4>2
    <3> HIDE DEF new
    <3>5. /\ DOMAIN results' = 1..(Len(results) + 1) /\ Len(results) \in Nat
          /\ DOMAIN results = 1..Len(results) /\ Len(results') = Len(results) + 1
          /\ \A k \in DOMAIN results : results'[k] = results[k]
      BY <3>4, AddedRows
    <3>6. results'[Len(results) + 1] = r
      BY <3>4, AddedRows
    <3>7. \A k \in DOMAIN results : ~IsFailRow(results[k])
      BY <3>2 DEF FailScriptInv, Rows, RowsIn
    <3>8. {k \in RowsOf("teardown") : results[k].idx = FailScript}' = {Len(results')}
      BY <3>1, <3>5, <3>6, <3>7 DEF RowsOf, IsFailRow
    <3> QED
      BY <3>2, <3>3, <3>8 DEF FailScriptForRedRuns
  <2> QED
    BY <2>1, <2>2, <2>3, <2>4, <2>5, WaysToTheEnd
<1> QED
  BY <1>1, <1>2, <1>3, <1>4, <1>5 DEF FailScriptInv

(* A run begins without a row, so without the fail script's.               *)
LEMMA InitKeepsFailScriptInv == Init => FailScriptInv
<1> SUFFICES ASSUME Init PROVE FailScriptInv
  OBVIOUS
<1>1. Rows = {} /\ DOMAIN results = {}
  BY DEF Init, Rows, RowsIn
<1> QED
  BY <1>1 DEF Init, FailScriptInv, FailScriptForRedRuns, RowsOf

(* The fail script runs for a red run only, once, after all of cleanup,    *)
(* and never after a hard stop cut cleanup short; and it does run for      *)
(* every red run that was neither stopped hard nor ended by an exception.  *)
THEOREM FailScriptIsDue == Spec => []FailScriptForRedRuns
<1>1. FailScriptInv => FailScriptForRedRuns
  BY DEF FailScriptInv
<1> QED
  BY <1>1, InitKeepsFailScriptInv, CleanupInvariant, NextKeepsFailScriptInv, PTL DEF Spec

-----------------------------------------------------------------------------
(* The stop reason.                                                        *)

(* Which reasons a run may have where it is.                               *)
ReasonState ==
    /\ phase \notin {"failHook", "over"} =>
          stopReason \notin {"teardownAborted", "stoppedImmediately"}
    /\ phase \in {"start", "setupHook", "main"} => stopReason = "none" /\ ~abortPrimary
    /\ phase = "setup" =>
          /\ stopReason = IF abortPrimary THEN "setupFailed" ELSE "none"
          /\ InStep => ~abortPrimary
    /\ phase = "failHook" => stopReason # "stoppedImmediately"
    /\ phase = "over" /\ teardownStarted => (stopReason = "stoppedImmediately" <=> directStop)
    /\ stopReason = "teardownAborted" => abortTeardown
    /\ stopReason = "cancelled" => shouldStop
    /\ stopReason = "stopOnError" => StopOnError

(* What the rows say of each reason.                                       *)
MainRow(r) == r.phase = "main"
FailedSetupRow(r) == r.phase = "setup" /\ ScoredFailed(r)
FailedMainRow(r) == r.phase = "main" /\ ScoredFailed(r)
UnrunMainRow(r) == r.phase = "main" /\ NotRun(r)
CriticalRow(r) == r.phase = "main" /\ r.stoppedRun

ReasonRows ==
    /\ phase = "setup" => \A r \in Rows : ~MainRow(r)
    /\ stopReason = "cancelled" => \E r \in Rows : UnrunMainRow(r)
    /\ stopReason = "setupFailed" =>
          /\ \E r \in Rows : FailedSetupRow(r)
          /\ \A r \in Rows : MainRow(r) => NotRun(r)
    /\ stopReason = "stopOnError" => \E r \in Rows : FailedMainRow(r)
    /\ (\E r \in Rows : CriticalRow(r)) =>
          /\ phase \notin FlowPhases
          /\ stopReason \in {"criticalFailed", "teardownAborted", "stoppedImmediately"}
    /\ (\E r \in Rows : NotRun(r)) =>
          \/ stopReason # "none"
          \/ phase \notin {"failHook", "over"} /\ (directStop \/ teardownSkipped)

ReasonInv == ReasonState /\ ReasonRows

(* Before its last iteration is through, the flow has requests left.       *)
LEMMA FlowHasMore ==
    ASSUME PositionInv, TypeOK, phase = "main", j <= NMain
    PROVE  FlowPosition(iter, j - 1) \in Int /\ FlowPosition(iter, j - 1) < Iterations * NMain
<1>1. /\ iter \in 1..Iterations /\ j \in Nat /\ j >= 1 /\ j <= NMain
      /\ NMain \in Nat /\ Iterations \in Nat
  BY RunnerConstants DEF PositionInv, TypeOK
<1>2. (iter - 1) * NMain \in Int /\ iter * NMain \in Int /\ Iterations * NMain \in Int
  BY <1>1
<1>3. (iter - 1) * NMain = iter * NMain - NMain
  BY <1>1
<1>4. iter * NMain <= Iterations * NMain
  BY <1>1
<1> QED
  BY <1>1, <1>2, <1>3, <1>4 DEF FlowPosition

(* The end of a step of setup.                                             *)
LEMMA SetupStepKeepsReason ==
    ASSUME TypeOK, ReasonInv, Finished, phase = "setup" PROVE ReasonInv'
<1>1. PICK text \in RowTexts, ok \in BOOLEAN, next \in Jumps \cup {Linear},
           configError \in BOOLEAN :
        LET r == Row(phase, j, IF phase = "main" THEN iter ELSE 0, text, ok)
        IN  /\ FinishStep(text, ok, next, configError)
            /\ text = "NOT_RUN" => directStop
            /\ r \in RowType /\ r.phase = phase /\ r.text = text
            /\ phase # "main" => Rows' = Rows \cup {r}
  BY RowsAfterFinish
<1> DEFINE r == Row(phase, j, IF phase = "main" THEN iter ELSE 0, text, ok)
<1>2. /\ r \in RowType /\ r.phase = "setup" /\ Rows' = Rows \cup {r}
      /\ NotRun(r) => directStop
      /\ AfterSetupStep(r) /\ UNCHANGED <<stopFlags, teardownSkipped>>
  BY <1>1 DEF FinishStep, NotRun
<1> HIDE DEF r
<1>3. /\ abortPrimary' = (~EndpointDidPass(r) /\ ~IsSkippedStep(r))
      /\ stopReason' = IF abortPrimary' THEN "setupFailed" ELSE stopReason
      /\ phase' = "setup" /\ at' \in {"head", "delay"}
      /\ UNCHANGED <<teardownStarted, directStop, shouldStop, abortTeardown, teardownSkipped>>
  BY <1>2 DEF AfterSetupStep, Gap, stopFlags
<1>4. stopReason = "none"
  BY DEF ReasonInv, ReasonState, Finished
<1>5. ReasonState'
  BY <1>3, <1>4 DEF ReasonState, InStep
<1>6. abortPrimary' => FailedSetupRow(r)
  BY <1>2, <1>3 DEF FailedSetupRow, ScoredFailed, Scored, CountsTowardRunVerdict
<1>7. ~MainRow(r) /\ ~CriticalRow(r)
  BY <1>2 DEF MainRow, CriticalRow
<1>8. \A s \in Rows : ~MainRow(s) /\ ~CriticalRow(s)
  BY DEF ReasonInv, ReasonRows, MainRow, CriticalRow
<1>9. (\E s \in Rows : NotRun(s)) => directStop \/ teardownSkipped
  BY <1>4 DEF ReasonInv, ReasonRows
<1>10. ReasonRows'
  BY <1>2, <1>3, <1>4, <1>6, <1>7, <1>8, <1>9 DEF ReasonRows
<1> QED
  BY <1>5, <1>10 DEF ReasonInv

(* The end of a step of the flow.                                          *)
LEMMA MainStepKeepsReason ==
    ASSUME TypeOK, ReasonInv, Finished, phase = "main" PROVE ReasonInv'
<1>1. PICK text \in RowTexts, ok \in BOOLEAN, next \in Jumps \cup {Linear},
           configError \in BOOLEAN :
        LET r == Row(phase, j, IF phase = "main" THEN iter ELSE 0, text, ok)
        IN  /\ FinishStep(text, ok, next, configError)
            /\ text = "NOT_RUN" => directStop
            /\ r \in RowType /\ r.phase = phase /\ r.text = text
            /\ next \in Int /\ Landed(next) \in Nat
            /\ phase = "main" =>
                 \/ Rows' = Rows \cup {r} /\ ~EndFlow
                 \/ /\ EndFlow
                    /\ \E from \in {FlowPosition(iter, j), FlowPosition(iter, Landed(next))} :
                          Rows' = Rows \cup {r} \cup RowsIn(NotRunAfter(from))
  BY RowsAfterFinish
<1> DEFINE r == Row(phase, j, IF phase = "main" THEN iter ELSE 0, text, ok)
<1>2. /\ r \in RowType /\ r.phase = "main" /\ (NotRun(r) => directStop)
      /\ AfterMainStep(r, next, configError) /\ UNCHANGED <<stopFlags, teardownSkipped>>
      /\ \/ Rows' = Rows \cup {r} /\ ~EndFlow
         \/ /\ EndFlow
            /\ \E from \in {FlowPosition(iter, j), FlowPosition(iter, Landed(next))} :
                  Rows' = Rows \cup {r} \cup RowsIn(NotRunAfter(from))
  BY <1>1 DEF FinishStep, NotRun
<1>3. FlowPosition(iter, j) \in Int /\ FlowPosition(iter, Landed(next)) \in Int
  BY <1>1, FlowPositionIsTyped DEF TypeOK
<1> HIDE DEF r
<1>4. /\ stopReason = "none" /\ ~abortPrimary
      /\ \A s \in Rows : ~CriticalRow(s)
      /\ (\E s \in Rows : NotRun(s)) => directStop \/ teardownSkipped
  BY DEF ReasonInv, ReasonState, ReasonRows, FlowPhases
<1>5. UNCHANGED <<directStop, shouldStop, abortTeardown, teardownSkipped>>
  BY <1>2 DEF stopFlags
<1>6. CASE Rows' = Rows \cup {r} /\ ~EndFlow
  <2>1. ~r.stoppedRun /\ UNCHANGED <<phase, abortPrimary, stopReason, teardownStarted>>
    BY <1>2, <1>6 DEF AfterMainStep
  <2>2. ReasonState'
    BY <1>4, <2>1 DEF ReasonState
  <2>3. ~CriticalRow(r)
    BY <2>1 DEF CriticalRow
  <2>4. ReasonRows'
    BY <1>2, <1>4, <1>5, <1>6, <2>1, <2>3 DEF ReasonRows
  <2> QED
    BY <2>2, <2>4 DEF ReasonInv
<1>7. CASE EndFlow /\ \E from \in {FlowPosition(iter, j), FlowPosition(iter, Landed(next))} :
                          Rows' = Rows \cup {r} \cup RowsIn(NotRunAfter(from))
  <2>1. PICK rest : /\ Rows' = Rows \cup {r} \cup rest
                    /\ \A s \in rest : ~CriticalRow(s)
    BY <1>3, <1>7, RowsLeftOut DEF CriticalRow
  <2>2. /\ phase' = "teardown" /\ at' = "head" /\ UNCHANGED abortPrimary
        /\ \/ r.stoppedRun /\ stopReason' = "criticalFailed"
           \/ /\ ~r.stoppedRun /\ StopsOnError(r, next, configError)
              /\ stopReason' = "stopOnError"
    BY <1>2, <1>7 DEF AfterMainStep, EndFlow
  <2>3. StopsOnError(r, next, configError) => StopOnError /\ FailedMainRow(r)
    BY <1>2 DEF StopsOnError, FailedMainRow, ScoredFailed, Scored, CountsTowardRunVerdict
  <2>4. ~r.stoppedRun => ~CriticalRow(r)
    BY DEF CriticalRow
  <2>5. ReasonState'
    BY <2>2, <2>3 DEF ReasonState, InStep, ReadsSteps
  <2>6. ReasonRows'
    BY <1>4, <2>1, <2>2, <2>3, <2>4 DEF ReasonRows, FlowPhases
  <2> QED
    BY <2>5, <2>6 DEF ReasonInv
<1> QED
  BY <1>2, <1>6, <1>7

(* Rows of cleanup are of no concern to the reason, as long as they are    *)
(* not left unrun without one.                                             *)
LEMMA CleanupRowsKeepReason ==
    ASSUME ReasonRows, NEW new, Rows' = Rows \cup new, \A r \in new : r.phase = "teardown",
           phase \notin FlowPhases, phase' \notin FlowPhases, phase' # "setup",
           stopReason' = stopReason \/ stopReason' = "teardownAborted",
           (\E r \in new : NotRun(r)) =>
              phase' \notin {"failHook", "over"} /\ (directStop' \/ teardownSkipped'),
           phase \notin {"failHook", "over"} =>
              phase' \notin {"failHook", "over"} /\ (directStop => directStop')
                /\ (teardownSkipped => teardownSkipped')
    PROVE  ReasonRows'
<1>1. \A r \in new : /\ ~MainRow(r) /\ ~CriticalRow(r) /\ ~FailedMainRow(r)
                     /\ ~UnrunMainRow(r) /\ ~FailedSetupRow(r)
  BY DEF MainRow, CriticalRow, FailedMainRow, UnrunMainRow, FailedSetupRow
<1> QED
  BY <1>1 DEF ReasonRows

(* A step that only moves the run keeps the reason true.                   *)
LEMMA SilentKeepsReason ==
    ASSUME TypeOK, CleanupInv, PositionInv, FailScriptInv, ReasonInv, Silent
    PROVE  ReasonInv'
<1> USE DEF ReasonInv
<1>1. Rows' = Rows
  BY RowsAfterReport
<1> USE DEF cursor, report, control, stopFlags, wire
<1>2. CASE Begin
  <2>1. Rows = {}
    BY <1>2 DEF Begin, FailScriptInv
  <2> QED
    BY <1>1, <1>2, <2>1 DEF Begin, ReasonState, ReasonRows, InStep, ReadsSteps, FlowPhases
<1>3. CASE BeginThrows
  <2>1. Rows = {} /\ ~teardownStarted
    BY <1>3 DEF BeginThrows, FailScriptInv, CleanupInv, FlowPhases
  <2> QED
    BY <1>1, <1>3, <2>1 DEF BeginThrows, ReasonState, ReasonRows
<1>4. CASE SetupDone
  BY <1>1, <1>4 DEF SetupDone, ReasonState, ReasonRows, FlowPhases
<1>5. CASE BudgetExhausted \/ DelayEnds
  BY <1>1, <1>5
  DEF BudgetExhausted, DelayEnds, NextIteration, ReasonState, ReasonRows, InStep
<1>6. CASE IterationEnds
  <2>1. /\ phase = "main" /\ phase' \in {"main", "teardown"}
        /\ UNCHANGED <<stopReason, abortPrimary, directStop, shouldStop, abortTeardown,
                       teardownSkipped>>
    BY <1>6 DEF IterationEnds, NextIteration, EndFlow
  <2> QED
    BY <1>1, <2>1 DEF ReasonState, ReasonRows, FlowPhases
<1>7. CASE FlowThrows
  <2>1. /\ phase \in {"setup", "main"} /\ at = "step" /\ phase' = "teardown" /\ at' = "head"
        /\ UNCHANGED <<stopReason, abortPrimary, directStop, shouldStop, abortTeardown,
                       teardownSkipped>>
    BY <1>7 DEF FlowThrows, EndFlow
  <2>2. stopReason = "none"
    BY <2>1 DEF ReasonState, InStep, ReadsSteps
  <2> QED
    BY <1>1, <2>1, <2>2 DEF ReasonState, ReasonRows, FlowPhases
<1>8. CASE BeginStep
  <2>1. /\ UNCHANGED <<phase, stopReason, abortPrimary, directStop, shouldStop, abortTeardown,
                       teardownSkipped, teardownStarted>>
        /\ phase = "setup" => ~abortPrimary
    BY <1>8 DEF BeginStep, MayBegin
  <2> QED
    BY <1>1, <2>1 DEF ReasonState, ReasonRows
<1>9. CASE StepStarts \/ Send \/ ServerAnswers
  BY <1>1, <1>9 DEF StepStarts, Send, ServerAnswers, ReasonState, ReasonRows, InStep
<1>10. CASE CleanupDone
  BY <1>1, <1>10 DEF CleanupDone, ReasonState, ReasonRows, FlowPhases
<1>11. CASE FailHookBegins
  <2>1. ~abortTeardown /\ ~directStop /\ ~teardownSkipped
    BY <1>11 DEF FailHookBegins, FailHookDue, FailScriptInv
  <2>2. stopReason' = stopReason
    BY <1>11, <2>1 DEF FailHookBegins, FinalReason
  <2> QED
    BY <1>1, <1>11, <2>1, <2>2 DEF FailHookBegins, ReasonState, ReasonRows, FlowPhases
<1>12. CASE Close
  <2>1. /\ phase = "closing" /\ phase' = "over" /\ stopReason' = FinalReason
        /\ UNCHANGED <<directStop, shouldStop, abortTeardown, teardownSkipped, teardownStarted>>
    BY <1>12 DEF Close
  <2>2. /\ directStop => abortTeardown
        /\ teardownSkipped => abortTeardown
    BY DEF CleanupInv, FailScriptInv
  <2>3. ReasonState'
    BY <2>1, <2>2 DEF FinalReason, ReasonState
  <2>4. ReasonRows'
    BY <1>1, <2>1 DEF FinalReason, ReasonRows, FlowPhases
  <2> QED
    BY <2>3, <2>4
<1>13. CASE StopGracefully \/ StopNow
  <2>1. /\ phase # "over" /\ UNCHANGED <<phase, at, abortPrimary, stopReason, teardownSkipped>>
        /\ shouldStop' /\ (abortTeardown => abortTeardown') /\ (directStop => directStop')
    <3>1. CASE StopGracefully
      BY <3>1 DEF StopGracefully, Suspended
    <3>2. CASE StopNow
      BY <3>2 DEF StopNow, Suspended
    <3> QED
      BY <1>13, <3>1, <3>2
  <2>2. ReasonState'
    BY <2>1 DEF ReasonState, InStep, ReadsSteps
  <2>3. ReasonRows'
    BY <1>1, <2>1 DEF ReasonRows
  <2> QED
    BY <2>2, <2>3
<1>14. CASE UNCHANGED vars
  BY <1>1, <1>14 DEF vars, ReasonState, ReasonRows, InStep, ReadsSteps
<1> QED
  BY <1>2, <1>3, <1>4, <1>5, <1>6, <1>7, <1>8, <1>9, <1>10, <1>11, <1>12, <1>13, <1>14 DEF Silent

(* A step that reports what it leaves, or the end of a run script, keeps   *)
(* the reason true.                                                        *)
LEMMA ReportKeepsReason ==
    ASSUME TypeOK, CleanupInv, PositionInv, FailScriptInv, ReasonInv, Reporting
    PROVE  ReasonInv'
<1> USE DEF ReasonInv
<1>1. ASSUME NEW ok \in BOOLEAN, SetupHookEnds(ok) PROVE ReasonInv'
  <2> DEFINE r == Row("setup", RunScript, 0, "RAN", ok)
  <2>1. Rows' = {r} /\ r.phase = "setup" /\ ~NotRun(r) /\ ~r.stoppedRun
    BY <1>1, RowsAfterReport DEF FailScriptInv, SetupHookEnds, Row, NotRun
  <2>2. ~ok => FailedSetupRow(r)
    BY DEF FailedSetupRow, ScoredFailed, Scored, CountsTowardRunVerdict, EndpointDidPass,
           IsSkippedStep, Row
  <2> HIDE DEF r
  <2>3. stopReason' = (IF ok THEN "none" ELSE "setupFailed") /\ (abortPrimary' <=> ~ok)
        /\ phase' = "setup" /\ at' = "head"
    BY <1>1 DEF SetupHookEnds, ReasonState
  <2>4. ReasonState'
    BY <2>3 DEF ReasonState, InStep
  <2>5. ReasonRows'
    BY <2>1, <2>2, <2>3 DEF ReasonRows, MainRow, CriticalRow
  <2> QED
    BY <2>4, <2>5
<1>2. ASSUME NEW ok \in BOOLEAN, TeardownHookEnds(ok) PROVE ReasonInv'
  <2> DEFINE r == Row("teardown", RunScript, 0, "RAN", ok)
  <2>1. /\ phase = "teardownHook" /\ phase' = "closing"
        /\ UNCHANGED <<abortPrimary, stopReason, shouldStop, abortTeardown, directStop,
                       teardownSkipped, teardownStarted>>
    BY <1>2 DEF TeardownHookEnds, control, stopFlags
  <2> DEFINE new == {r}
  <2>2. Rows' = Rows \cup new /\ \A x \in new : x.phase = "teardown" /\ ~NotRun(x)
    BY <1>2, RowsAfterReport DEF Row, NotRun
  <2> HIDE DEF new
  <2>3. ReasonState'
    BY <2>1 DEF ReasonState
  <2>4. ReasonRows'
    BY <2>1, <2>2, CleanupRowsKeepReason DEF FlowPhases
  <2> QED
    BY <2>3, <2>4
<1>3. ASSUME NEW ok \in BOOLEAN, FailHookEnds(ok) PROVE ReasonInv'
  <2> DEFINE r == Row("teardown", FailScript, 0, "RAN", ok)
  <2>1. /\ phase = "failHook" /\ phase' = "over"
        /\ stopReason' = IF abortTeardown THEN "teardownAborted" ELSE stopReason
        /\ UNCHANGED <<abortPrimary, shouldStop, abortTeardown, directStop, teardownSkipped,
                       teardownStarted>>
    BY <1>3 DEF FailHookEnds, stopFlags
  <2> DEFINE new == {r}
  <2>2. Rows' = Rows \cup new /\ \A x \in new : x.phase = "teardown" /\ ~NotRun(x)
    BY <1>3, RowsAfterReport DEF Row, NotRun
  <2> HIDE DEF new
  <2>3. ~directStop
    BY <2>1 DEF FailScriptInv
  <2>4. ReasonState'
    BY <2>1, <2>3 DEF ReasonState
  <2>5. ReasonRows'
    BY <2>1, <2>2, CleanupRowsKeepReason DEF FlowPhases
  <2> QED
    BY <2>4, <2>5
<1>4. CASE LeaveSetup
  <2> DEFINE s == {NotRunRow("setup", m, 0) : m \in j..NSetup}
             rest == RowsIn(NotRunAfter(0))
  <2>1. /\ phase = "setup" /\ phase' = "teardown" /\ at' = "head" /\ abortPrimary'
        /\ abortPrimary \/ shouldStop
        /\ stopReason' = IF abortPrimary THEN stopReason ELSE "cancelled"
        /\ UNCHANGED <<shouldStop, abortTeardown, directStop, teardownSkipped>>
    BY <1>4 DEF LeaveSetup, EndFlow, stopFlags
  <2>2. \A r \in s : r.phase = "setup" /\ ~r.stoppedRun
    BY DEF NotRunRow, Row
  <2>3. \A r \in rest : r.phase = "main" /\ NotRun(r) /\ ~r.stoppedRun
    BY RowsLeftOut
  <2>4. rest # {}
    <3>1. 0 < Iterations * NMain
      BY RunnerConstants
    <3> QED
      BY <3>1, RowsLeftOut
  <2>5. Rows' = Rows \cup s \cup rest
    BY <1>4, RowsAfterReport
  <2> HIDE DEF s, rest
  <2>6. /\ \A r \in Rows : ~MainRow(r) /\ ~CriticalRow(r)
        /\ stopReason = IF abortPrimary THEN "setupFailed" ELSE "none"
        /\ stopReason = "setupFailed" => \E r \in Rows : FailedSetupRow(r)
    BY <2>1 DEF ReasonState, ReasonRows, MainRow, CriticalRow
  <2>7. /\ \A r \in s : ~MainRow(r) /\ ~CriticalRow(r)
        /\ \A r \in rest : NotRun(r) /\ ~CriticalRow(r) /\ UnrunMainRow(r)
    BY <2>2, <2>3 DEF MainRow, CriticalRow, UnrunMainRow
  <2>8. ReasonState'
    BY <2>1, <2>6 DEF ReasonState
  <2>9. ReasonRows'
    BY <2>1, <2>4, <2>5, <2>6, <2>7 DEF ReasonRows
  <2> QED
    BY <2>8, <2>9
<1>5. CASE FlowCancelled
  <2> DEFINE from == FlowPosition(iter, j - 1)
             rest == RowsIn(NotRunAfter(from))
  <2>1. /\ phase = "main" /\ j <= NMain /\ shouldStop
        /\ phase' = "teardown" /\ at' = "head" /\ stopReason' = "cancelled"
        /\ UNCHANGED <<abortPrimary, shouldStop, abortTeardown, directStop, teardownSkipped>>
    BY <1>5 DEF FlowCancelled, EndFlow, stopFlags
  <2>2. from \in Int /\ from < Iterations * NMain
    BY <2>1, FlowHasMore
  <2>3. Rows' = Rows \cup rest
    BY <1>5, RowsAfterReport
  <2> HIDE DEF from
  <2>4. rest # {} /\ \A r \in rest : r.phase = "main" /\ NotRun(r) /\ ~r.stoppedRun
    BY <2>2, RowsLeftOut
  <2> HIDE DEF rest
  <2>5. \A r \in rest : UnrunMainRow(r) /\ ~CriticalRow(r)
    BY <2>4 DEF UnrunMainRow, CriticalRow
  <2>6. \A r \in Rows : ~CriticalRow(r)
    BY <2>1 DEF ReasonRows, FlowPhases
  <2>7. ReasonState'
    BY <2>1 DEF ReasonState
  <2>8. ReasonRows'
    BY <2>1, <2>3, <2>4, <2>5, <2>6 DEF ReasonRows
  <2> QED
    BY <2>7, <2>8
<1>6. CASE CleanupAbandoned
  <2> DEFINE s == {NotRunRow("teardown", m, 0) : m \in j..NTeardown}
  <2>1. /\ phase = "teardown" /\ phase' = "closing" /\ teardownSkipped'
        /\ UNCHANGED <<abortPrimary, stopReason, shouldStop, abortTeardown, directStop>>
    BY <1>6 DEF CleanupAbandoned, stopFlags
  <2>2. Rows' = Rows \cup s /\ \A r \in s : r.phase = "teardown"
    BY <1>6, RowsAfterReport DEF NotRunRow, Row
  <2> HIDE DEF s
  <2>3. ReasonState'
    BY <2>1 DEF ReasonState
  <2>4. ReasonRows'
    BY <2>1, <2>2, CleanupRowsKeepReason DEF FlowPhases
  <2> QED
    BY <2>3, <2>4
<1> QED
  BY <1>1, <1>2, <1>3, <1>4, <1>5, <1>6 DEF Reporting

(* Every step keeps the reason true.                                       *)
LEMMA NextKeepsReason ==
    TypeOK /\ CleanupInv /\ PositionInv /\ FailScriptInv /\ ReasonInv /\ [Next]_vars => ReasonInv'
<1> SUFFICES ASSUME TypeOK, CleanupInv, PositionInv, FailScriptInv, ReasonInv, [Next]_vars
             PROVE  ReasonInv'
  OBVIOUS
<1>1. CASE Finished /\ phase = "teardown"
  <2>1. PICK r : /\ Rows' = Rows \cup {r} /\ r.phase = "teardown" /\ AfterTeardownStep(r)
                 /\ UNCHANGED <<stopFlags, teardownSkipped>> /\ (NotRun(r) => directStop)
    <3>1. PICK text \in RowTexts, ok \in BOOLEAN, next \in Jumps \cup {Linear},
               configError \in BOOLEAN :
            LET r == Row(phase, j, IF phase = "main" THEN iter ELSE 0, text, ok)
            IN  /\ FinishStep(text, ok, next, configError)
                /\ text = "NOT_RUN" => directStop
                /\ r \in RowType /\ r.phase = phase /\ r.text = text
                /\ phase # "main" => Rows' = Rows \cup {r}
      BY <1>1, RowsAfterFinish
    <3> QED
      BY <1>1, <3>1 DEF FinishStep, NotRun
  <2> DEFINE new == {r}
  <2>5. Rows' = Rows \cup new /\ \A x \in new : x.phase = "teardown" /\ (NotRun(x) => directStop)
    BY <2>1
  <2> HIDE DEF new
  <2>2. /\ phase' = "teardown"
        /\ UNCHANGED <<abortPrimary, stopReason, shouldStop, abortTeardown, directStop,
                       teardownSkipped>>
    BY <1>1, <2>1 DEF AfterTeardownStep, stopFlags
  <2>3. ReasonState'
    BY <1>1, <2>2 DEF ReasonInv, ReasonState
  <2>4. ReasonRows'
    BY <1>1, <2>2, <2>5, CleanupRowsKeepReason DEF FlowPhases, ReasonInv
  <2> QED
    BY <2>3, <2>4 DEF ReasonInv
<1>2. CASE Finished /\ phase # "teardown"
  <2>1. phase \in {"setup", "main"}
    BY <1>2 DEF Finished, InStep, ReadsSteps
  <2> QED
    BY <1>2, <2>1, SetupStepKeepsReason, MainStepKeepsReason
<1> QED
  BY <1>1, <1>2, SilentKeepsReason, ReportKeepsReason, StepKinds

(* The reason a finished run gives for having ended early is what its rows *)
(* show: a cancelled run left requests unrun, a failed setup has a failed  *)
(* row and no request of the flow ran, and a run that gives no reason left *)
(* nothing out.                                                            *)
THEOREM StopReasonIsTrue == Spec => []StopReasonMatchesRows
<1> DEFINE Inv == TypeOK /\ CleanupInv /\ PositionInv /\ FailScriptInv /\ ReasonInv
<1>1. Init => Inv
  <2> SUFFICES ASSUME Init PROVE Inv
    OBVIOUS
  <2>1. Rows = {}
    BY DEF Init, Rows, RowsIn
  <2>2. TypeOK /\ CleanupInv
    BY InitIsTyped, InitKeepsCleanupInv
  <2>3. PositionInv
    BY InitKeepsPositions
  <2>4. FailScriptInv
    BY InitKeepsFailScriptInv
  <2>5. ReasonInv
    BY <2>1 DEF Init, ReasonInv, ReasonState, ReasonRows
  <2> QED
    BY <2>2, <2>3, <2>4, <2>5
<1>2. Inv /\ [Next]_vars => Inv'
  BY NextKeepsTypes, NextKeepsCleanupInv, NextKeepsPositions, NextKeepsFailScriptInv,
     NextKeepsReason
<1>3. Inv => StopReasonMatchesRows
  <2> SUFFICES ASSUME Inv, phase = "over", teardownStarted PROVE StopReasonMatchesRows
    BY DEF StopReasonMatchesRows
  <2>1. \A k \in DOMAIN results : results[k] \in Rows
    BY DEF Rows, RowsIn
  <2>2. \A r \in Rows : \E k \in DOMAIN results : results[k] = r
    BY DEF Rows, RowsIn
  <2>3. /\ (\E r \in Rows : UnrunMainRow(r)) => \E k \in RowsOf("main") : NotRun(results[k])
        /\ (\E r \in Rows : FailedSetupRow(r)) =>
              \E k \in RowsOf("setup") : ScoredFailed(results[k])
        /\ (\E r \in Rows : FailedMainRow(r)) =>
              \E k \in RowsOf("main") : ScoredFailed(results[k])
    BY <2>2 DEF UnrunMainRow, FailedSetupRow, FailedMainRow, RowsOf
  <2>4. /\ (\A r \in Rows : MainRow(r) => NotRun(r)) =>
              \A k \in RowsOf("main") : NotRun(results[k])
        /\ (\E k \in RowsOf("main") : results[k].stoppedRun) => \E r \in Rows : CriticalRow(r)
        /\ (\E k \in DOMAIN results : NotRun(results[k])) => \E r \in Rows : NotRun(r)
    BY <2>1 DEF MainRow, CriticalRow, RowsOf
  <2> HIDE DEF Rows
  <2>5. ReasonState /\ ReasonRows
    BY DEF ReasonInv
  <2> QED
    BY <2>3, <2>4, <2>5 DEF ReasonState, ReasonRows, StopReasonMatchesRows
<1> HIDE DEF Inv
<1> QED
  BY <1>1, <1>2, <1>3, PTL DEF Spec

-----------------------------------------------------------------------------
(* The run implements its promise.                                         *)

SettledIn(S) == {r.idx : r \in {s \in S : s.phase = "teardown"}} \ {RunScript, FailScript}

(* The settled teardown requests are those with a row.                     *)
LEMMA SettledRows ==
    /\ Settled = SettledIn(Rows) /\ Settled' = SettledIn(Rows')
    /\ \A S, T : SettledIn(S \cup T) = SettledIn(S) \cup SettledIn(T)
    /\ \A S : (\A r \in S : r.phase # "teardown") => SettledIn(S) = {}
    /\ \A S, r : r.phase = "teardown" =>
          SettledIn(S \cup {r}) = IF r.idx \in {RunScript, FailScript}
                                  THEN SettledIn(S) ELSE SettledIn(S) \cup {r.idx}
<1>1. Settled = SettledIn(Rows)
  BY DEF Settled, SettledIn, Rows, RowsIn, RowsOf
<1>2. Settled' = SettledIn(Rows')
  BY DEF Settled, SettledIn, Rows, RowsIn, RowsOf
<1>3. \A S, T : SettledIn(S \cup T) = SettledIn(S) \cup SettledIn(T)
  BY DEF SettledIn
<1>4. \A S : (\A r \in S : r.phase # "teardown") => SettledIn(S) = {}
  BY DEF SettledIn
<1>5. ASSUME NEW S, NEW r, r.phase = "teardown"
      PROVE  SettledIn(S \cup {r}) = IF r.idx \in {RunScript, FailScript}
                                     THEN SettledIn(S) ELSE SettledIn(S) \cup {r.idx}
  <2>1. {s \in S \cup {r} : s.phase = "teardown"} = {s \in S : s.phase = "teardown"} \cup {r}
    BY <1>5
  <2> QED
    BY <2>1 DEF SettledIn
<1> QED
  BY <1>1, <1>2, <1>3, <1>4, <1>5

(* Cleanup has settled the requests before the one it is at.               *)
SettledInv ==
    /\ phase \in FlowPhases => Settled = {}
    /\ phase = "teardown" => Settled = 1..(j - 1)
    /\ phase \in {"teardownHook", "closing", "failHook"} => Settled = 1..NTeardown

(* The promise of one step.                                                *)
Promised == [Promise!PNext]_(Promise!pvars)

(* The promise, with the state of the run put in.                          *)
LEMMA PromiseSteps ==
    /\ Stage = "idle" /\ Stage' = "closed"
         /\ UNCHANGED <<RunFailed, abortTeardown, Settled, teardownSkipped>> => Promised
    /\ Stage = "idle" /\ Stage' = "flow"
         /\ UNCHANGED <<RunFailed, abortTeardown, Settled, teardownSkipped>> => Promised
    /\ Stage = "flow" /\ RunFailed' \in {RunFailed, TRUE} /\ Stage' \in {"flow", "cleanup"}
         /\ UNCHANGED <<abortTeardown, Settled, teardownSkipped>> => Promised
    /\ Stage = "cleanup" /\ UNCHANGED <<Stage, RunFailed, abortTeardown, teardownSkipped>>
         /\ (\E i \in 1..NTeardown : Settled = 1..(i - 1) /\ Settled' = 1..i) => Promised
    /\ Stage = "cleanup" /\ abortTeardown /\ Settled' = 1..NTeardown /\ teardownSkipped' = TRUE
         /\ UNCHANGED <<Stage, RunFailed, abortTeardown>> => Promised
    /\ Stage = "cleanup" /\ Settled = 1..NTeardown /\ Stage' = "closed"
         /\ UNCHANGED <<RunFailed, abortTeardown, Settled, teardownSkipped>> => Promised
    /\ Stage # "closed" /\ abortTeardown' = TRUE
         /\ UNCHANGED <<Stage, RunFailed, Settled, teardownSkipped>> => Promised
    /\ UNCHANGED <<Stage, RunFailed, abortTeardown, Settled, teardownSkipped>> => Promised
BY DEF Promised, Promise!PNext, Promise!pvars, Promise!Refuse, Promise!BeginFlow,
       Promise!FlowStep, Promise!Settle, Promise!Abandon, Promise!PClose, Promise!HardStop

(* The stage of each phase.                                                *)
LEMMA Stages ==
    /\ phase = "start" => Stage = "idle"
    /\ phase \in FlowPhases \ {"start"} => Stage = "flow"
    /\ phase \in CleanupPhases => Stage = "cleanup"
    /\ phase = "over" => Stage = "closed"
    /\ phase' = "start" => Stage' = "idle"
    /\ phase' \in FlowPhases \ {"start"} => Stage' = "flow"
    /\ phase' \in CleanupPhases => Stage' = "cleanup"
    /\ phase' = "over" => Stage' = "closed"
<1>1. /\ phase = "start" => Stage = "idle"
      /\ phase \in FlowPhases \ {"start"} => Stage = "flow"
      /\ phase \in CleanupPhases => Stage = "cleanup"
      /\ phase = "over" => Stage = "closed"
  BY DEF Stage, FlowPhases, CleanupPhases
<1>2. /\ phase' = "start" => Stage' = "idle"
      /\ phase' \in FlowPhases \ {"start"} => Stage' = "flow"
      /\ phase' \in CleanupPhases => Stage' = "cleanup"
      /\ phase' = "over" => Stage' = "closed"
  BY DEF Stage, FlowPhases, CleanupPhases
<1> QED
  BY <1>1, <1>2

(* No row is taken back, so a red verdict stays red.                       *)
LEMMA RowsGrow ==
    ASSUME TypeOK, [Next]_vars PROVE Rows \subseteq Rows' /\ RunFailed' \in {RunFailed, TRUE}
<1>1. results \in Seq(RowType)
  BY DEF TypeOK
<1>2. ASSUME NEW r \in RowType, NEW rest \in Seq(RowType), RecordStep(r, rest)
      PROVE  Rows \subseteq Rows'
  BY <1>2, RowsAfterRecord
<1>3. ASSUME NEW rest \in Seq(RowType), results' = results \o rest
      PROVE  Rows \subseteq Rows'
  BY <1>1, <1>3, RowsJoined DEF Rows
<1>4. Rows \subseteq Rows'
  BY <1>2, <1>3, ReportGrows
<1>5. RunFailed => RunFailed'
  BY <1>4, RedRows
<1>6. RunFailed' = RunFailed \/ RunFailed' = TRUE
  BY <1>5 DEF RunFailed
<1> QED
  BY <1>4, <1>6

(* No step of the flow reports for cleanup, gives cleanup up, or moves on  *)
(* to anything but the first step of cleanup.                              *)
LEMMA FlowSteps ==
    ASSUME TypeOK, [Next]_vars, phase \in FlowPhases \ {"start"}
    PROVE  /\ \A r \in Rows' \ Rows : r.phase # "teardown"
           /\ \/ phase' \in FlowPhases \ {"start"}
              \/ phase' = "teardown" /\ j' = 1
           /\ teardownSkipped' = teardownSkipped
           /\ abortTeardown' = abortTeardown \/ (StopNow /\ abortTeardown' = TRUE)
<1> USE DEF FlowPhases
<1>0. j \in Int /\ iter \in Int
  BY DEF TypeOK
<1>1. CASE Finished
  <2>1. \A i \in Int : \A r \in RowsIn(NotRunAfter(FlowPosition(iter, i))) : r.phase # "teardown"
    BY <1>0, RowsLeftOut, FlowPositionIsTyped
  <2>2. PICK text \in RowTexts, ok \in BOOLEAN, next \in Jumps \cup {Linear},
             configError \in BOOLEAN :
           LET r == Row(phase, j, IF phase = "main" THEN iter ELSE 0, text, ok)
           IN  /\ FinishStep(text, ok, next, configError)
               /\ r.phase = phase /\ Landed(next) \in Int
               /\ \/ Rows' = Rows \cup {r}
                  \/ \E from \in {FlowPosition(iter, j), FlowPosition(iter, Landed(next))} :
                        Rows' = Rows \cup {r} \cup RowsIn(NotRunAfter(from))
    BY <1>1, RowsAfterFinish
  <2>3. \A s \in Rows' \ Rows : s.phase # "teardown"
    BY <1>0, <2>1, <2>2
  <2>4. \/ phase' = phase
        \/ phase' = "teardown" /\ j' = 1
    BY <2>2, FinishStepMoves DEF EndFlow
  <2>5. UNCHANGED <<teardownSkipped, abortTeardown>>
    BY <2>2 DEF FinishStep, stopFlags
  <2> QED
    BY <2>3, <2>4, <2>5
<1>2. CASE Silent
  <2>1. Rows' = Rows
    BY <1>2, RowsAfterReport
  <2>2. CASE StopNow
    BY <2>1, <2>2 DEF StopNow, control
  <2>3. CASE UNCHANGED vars
    BY <2>1, <2>3 DEF vars, control, cursor, stopFlags
  <2>4. CASE IterationEnds
    BY <2>1, <2>4 DEF IterationEnds, NextIteration, EndFlow, control, stopFlags
  <2>5. CASE FlowThrows
    BY <2>1, <2>5 DEF FlowThrows, EndFlow, stopFlags
  <2>6. CASE \/ SetupDone \/ BudgetExhausted \/ DelayEnds \/ BeginStep \/ StepStarts \/ Send
             \/ ServerAnswers \/ StopGracefully
    BY <2>1, <2>6 DEF SetupDone, BudgetExhausted, DelayEnds, NextIteration, BeginStep, StepStarts,
                      Send, ServerAnswers, StopGracefully, control, stopFlags
  <2>7. ~Begin /\ ~BeginThrows /\ ~CleanupDone /\ ~FailHookBegins /\ ~Close
    BY DEF Begin, BeginThrows, CleanupDone, FailHookBegins, Close
  <2> QED
    BY <1>2, <2>2, <2>3, <2>4, <2>5, <2>6, <2>7 DEF Silent
<1>3. CASE Reporting
  <2>1. ASSUME NEW ok \in BOOLEAN, SetupHookEnds(ok)
        PROVE  /\ \A r \in Rows' \ Rows : r.phase # "teardown"
               /\ phase' = "setup" /\ UNCHANGED <<teardownSkipped, abortTeardown>>
    BY <2>1, RowsAfterReport DEF SetupHookEnds, Row, stopFlags
  <2>2. CASE LeaveSetup
    <3>1. \A r \in Rows' \ Rows : r.phase # "teardown"
      BY <2>2, RowsAfterReport, RowsLeftOut DEF NotRunRow, Row
    <3> QED
      BY <2>2, <3>1 DEF LeaveSetup, EndFlow, stopFlags
  <2>3. CASE FlowCancelled
    <3>1. FlowPosition(iter, j - 1) \in Int
      BY <1>0, FlowPositionIsTyped
    <3>2. \A r \in Rows' \ Rows : r.phase # "teardown"
      BY <2>3, <3>1, RowsAfterReport, RowsLeftOut
    <3> QED
      BY <2>3, <3>2 DEF FlowCancelled, EndFlow, stopFlags
  <2>4. ~CleanupAbandoned /\ \A ok \in BOOLEAN : ~TeardownHookEnds(ok) /\ ~FailHookEnds(ok)
    BY DEF CleanupAbandoned, TeardownHookEnds, FailHookEnds
  <2> QED
    BY <1>3, <2>1, <2>2, <2>3, <2>4 DEF Reporting
<1> QED
  BY <1>1, <1>2, <1>3, StepKinds

(* Every step keeps count of what is settled, and is one of the promise.   *)
LEMMA NextKeepsPromise ==
    ASSUME TypeOK, CleanupInv, PositionInv, SettledInv, [Next]_vars
    PROVE  SettledInv' /\ Promised
<1>0. j \in Nat /\ NTeardown \in Nat /\ abortTeardown \in BOOLEAN
  BY RunnerConstants DEF TypeOK
<1>1. CASE Rows' = Rows /\ UNCHANGED <<phase, j, abortTeardown, teardownSkipped>>
  <2>1. UNCHANGED <<Settled, RunFailed, Stage>>
    BY <1>1, SettledRows, RedRows DEF Stage, RunFailed
  <2> QED
    BY <1>1, <2>1, PromiseSteps DEF SettledInv
<1>2. CASE StopNow
  <2>1. /\ UNCHANGED <<results, phase, j, teardownSkipped>> /\ abortTeardown' = TRUE
        /\ phase # "over"
    BY <1>2 DEF StopNow, cursor, report, control, Suspended
  <2>2. UNCHANGED <<Settled, RunFailed, Stage>>
    BY <2>1 DEF Settled, RowsOf, RunFailed, Stage
  <2>3. Stage # "closed"
    BY <2>1 DEF Stage, TypeOK, Phases
  <2> QED
    BY <2>1, <2>2, <2>3, PromiseSteps DEF SettledInv
<1>3. CASE phase = "start" /\ ~StopNow
  <2>1. Begin \/ BeginThrows \/ StopGracefully \/ UNCHANGED vars
    <3>1. ~Finished
      BY <1>3 DEF Finished, InStep, ReadsSteps
    <3>2. ~Reporting
      BY <1>3 DEF Reporting, SetupHookEnds, TeardownHookEnds, FailHookEnds, LeaveSetup,
                  FlowCancelled, CleanupAbandoned
    <3>3. Silent => Begin \/ BeginThrows \/ StopGracefully \/ UNCHANGED vars
      BY <1>3 DEF Silent, SetupDone, BudgetExhausted, IterationEnds, DelayEnds, FlowThrows,
           BeginStep, MayBegin, StepStarts, Send, ServerAnswers, CleanupDone, FailHookBegins,
           Close, ReadsSteps
    <3> QED
      BY <3>1, <3>2, <3>3, StepKinds
  <2>2. /\ UNCHANGED <<results, abortTeardown, teardownSkipped>>
        /\ phase' \in FlowPhases \cup {"over"}
    BY <1>3, <2>1 DEF Begin, BeginThrows, StopGracefully, vars, report, control, stopFlags,
                      FlowPhases
  <2>3. UNCHANGED <<Settled, RunFailed>>
    BY <2>2 DEF Settled, RowsOf, RunFailed
  <2>4. SettledInv'
    BY <1>3, <2>2, <2>3 DEF SettledInv, FlowPhases, CleanupPhases
  <2>5. Promised
    <3>1. Stage = "idle" /\ Stage' \in {"idle", "flow", "closed"}
      BY <1>3, <2>2, Stages DEF FlowPhases
    <3> QED
      BY <2>2, <2>3, <3>1, PromiseSteps
  <2> QED
    BY <2>4, <2>5
<1>4. CASE phase \in FlowPhases \ {"start"} /\ ~StopNow
  <2>1. /\ \A r \in Rows' \ Rows : r.phase # "teardown"
        /\ \/ phase' \in FlowPhases \ {"start"}
           \/ phase' = "teardown" /\ j' = 1
        /\ teardownSkipped' = teardownSkipped
        /\ abortTeardown' = abortTeardown
    BY <1>4, FlowSteps
  <2>2. Settled' = Settled /\ Settled = {}
    <3> DEFINE new == Rows' \ Rows
    <3>1. Rows' = Rows \cup new
      BY RowsGrow
    <3>2. SettledIn(new) = {}
      BY <2>1, SettledRows
    <3> HIDE DEF new
    <3>3. SettledIn(Rows') = SettledIn(Rows) \cup SettledIn(new)
      BY <3>1, SettledRows
    <3> QED
      BY <1>4, <3>2, <3>3, SettledRows DEF SettledInv
  <2>3. SettledInv'
    <3>1. 1..(1 - 1) = {}
      OBVIOUS
    <3> QED
      BY <2>1, <2>2, <3>1 DEF SettledInv, FlowPhases
  <2>4. Stage = "flow" /\ Stage' \in {"flow", "cleanup"}
    BY <1>4, <2>1, Stages DEF CleanupPhases
  <2> QED
    BY <2>1, <2>2, <2>3, <2>4, RowsGrow, PromiseSteps
<1>5. CASE phase \in CleanupPhases /\ ~StopNow
  <2>1. teardownStarted /\ RunFailed' = RunFailed
    BY <1>5, NextKeepsVerdict DEF CleanupInv, SameVerdict
  <2>2. Stage = "cleanup"
    BY <1>5, Stages
  <2>3. CASE Finished
    <3>1. phase = "teardown"
      BY <1>5, <2>3 DEF Finished, InStep, ReadsSteps, CleanupPhases
    <3>2. PICK text \in RowTexts, ok \in BOOLEAN, next \in Jumps \cup {Linear},
               configError \in BOOLEAN :
             LET r == Row(phase, j, IF phase = "main" THEN iter ELSE 0, text, ok)
             IN  /\ FinishStep(text, ok, next, configError)
                 /\ r.phase = "teardown" /\ r.idx = j /\ Rows' = Rows \cup {r}
      BY <2>3, <3>1, RowsAfterFinish
    <3> DEFINE r == Row(phase, j, IF phase = "main" THEN iter ELSE 0, text, ok)
    <3>8. r.phase = "teardown" /\ r.idx = j /\ Rows' = Rows \cup {r}
      BY <3>2
    <3> HIDE DEF r
    <3>3. /\ UNCHANGED <<phase, abortTeardown, teardownSkipped>> /\ j' = j + 1
      BY <3>1, <3>2 DEF FinishStep, AfterTeardownStep, stopFlags
    <3>4. j \in 1..NTeardown
      BY <1>0, <2>3, <3>1 DEF PositionInv, Finished
    <3>5. Settled = 1..(j - 1) /\ Settled' = 1..j
      <4>1. Settled = 1..(j - 1)
        BY <3>1 DEF SettledInv
      <4>2. j \notin {RunScript, FailScript}
        BY <3>4 DEF RunScript, FailScript
      <4>3. Settled' = Settled \cup {j}
        BY <3>8, <4>2, SettledRows
      <4>4. (1..(j - 1)) \cup {j} = 1..j
        BY <3>4
      <4> QED
        BY <4>1, <4>3, <4>4
    <3>6. SettledInv'
      BY <1>0, <3>1, <3>3, <3>5 DEF SettledInv, FlowPhases
    <3>7. UNCHANGED Stage
      BY <3>3 DEF Stage
    <3> QED
      BY <2>1, <2>2, <3>3, <3>4, <3>5, <3>6, <3>7, PromiseSteps
  <2>4. CASE CleanupAbandoned
    <3> DEFINE new == {NotRunRow("teardown", m, 0) : m \in j..NTeardown}
    <3>1. /\ phase = "teardown" /\ phase' = "closing" /\ abortTeardown
          /\ teardownSkipped' = TRUE /\ UNCHANGED abortTeardown
      BY <2>4 DEF CleanupAbandoned, stopFlags
    <3>2. Rows' = Rows \cup new
      BY <2>4, RowsAfterReport
    <3>3. j >= 1 /\ j <= NTeardown + 1 /\ Settled = 1..(j - 1)
      BY <3>1 DEF PositionInv, SettledInv
    <3>4. SettledIn(new) = j..NTeardown
      <4>1. \A r \in new : r.phase = "teardown"
        BY DEF NotRunRow, Row
      <4>2. {r.idx : r \in new} = j..NTeardown
        <5>1. \A m : NotRunRow("teardown", m, 0).idx = m
          BY DEF NotRunRow, Row
        <5> QED
          BY <5>1
      <4>3. {r.idx : r \in {s \in new : s.phase = "teardown"}} = {r.idx : r \in new}
        BY <4>1
      <4>4. RunScript \notin j..NTeardown /\ FailScript \notin j..NTeardown
        BY <1>0, <3>3 DEF RunScript, FailScript
      <4> HIDE DEF new
      <4> QED
        BY <4>2, <4>3, <4>4 DEF SettledIn
    <3> HIDE DEF new
    <3>5. Settled' = 1..NTeardown
      <4>1. Settled' = (1..(j - 1)) \cup (j..NTeardown)
        <5>1. SettledIn(Rows') = SettledIn(Rows) \cup SettledIn(new)
          BY <3>2, SettledRows
        <5> QED
          BY <3>3, <3>4, <5>1, SettledRows
      <4>2. (1..(j - 1)) \cup (j..NTeardown) = 1..NTeardown
        BY <1>0, <3>3
      <4> QED
        BY <4>1, <4>2
    <3>6. SettledInv'
      BY <3>1, <3>5 DEF SettledInv, FlowPhases
    <3>7. Stage' = "cleanup"
      BY <3>1, Stages DEF CleanupPhases
    <3> QED
      BY <1>0, <2>1, <2>2, <3>1, <3>5, <3>6, <3>7, PromiseSteps
  <2>5. ASSUME NEW ok \in BOOLEAN, TeardownHookEnds(ok) \/ FailHookEnds(ok)
        PROVE  SettledInv' /\ Promised
    <3>1. PICK r : /\ Rows' = Rows \cup {r} /\ r.phase = "teardown"
                   /\ r.idx \in {RunScript, FailScript}
      <4>1. CASE TeardownHookEnds(ok)
        <5>1. Rows' = Rows \cup {Row("teardown", RunScript, 0, "RAN", ok)}
          BY <4>1, RowsAfterReport
        <5>2. /\ Row("teardown", RunScript, 0, "RAN", ok).phase = "teardown"
              /\ Row("teardown", RunScript, 0, "RAN", ok).idx = RunScript
          BY DEF Row
        <5> QED
          BY <5>1, <5>2
      <4>2. CASE FailHookEnds(ok)
        <5>1. Rows' = Rows \cup {Row("teardown", FailScript, 0, "RAN", ok)}
          BY <4>2, RowsAfterReport
        <5>2. /\ Row("teardown", FailScript, 0, "RAN", ok).phase = "teardown"
              /\ Row("teardown", FailScript, 0, "RAN", ok).idx = FailScript
          BY DEF Row
        <5> QED
          BY <5>1, <5>2
      <4> QED
        BY <2>5, <4>1, <4>2
    <3>2. Settled' = Settled
      BY <3>1, SettledRows
    <3>3. /\ UNCHANGED <<abortTeardown, teardownSkipped>>
          /\ \/ phase = "teardownHook" /\ phase' = "closing"
             \/ phase = "failHook" /\ phase' = "over"
      BY <2>5 DEF TeardownHookEnds, FailHookEnds, control, stopFlags
    <3>4. SettledInv' /\ Settled = 1..NTeardown
      BY <3>2, <3>3 DEF SettledInv, FlowPhases
    <3>5. Stage' = Stage \/ Stage' = "closed"
      BY <2>2, <3>3, Stages DEF CleanupPhases
    <3> QED
      BY <2>1, <2>2, <3>2, <3>3, <3>4, <3>5, PromiseSteps
  <2>6. CASE CleanupDone \/ FailHookBegins \/ Close
    <3>1. /\ UNCHANGED <<results, abortTeardown, teardownSkipped, j>>
          /\ \/ phase = "teardown" /\ j > NTeardown /\ phase' \in {"teardownHook", "closing"}
             \/ phase = "closing" /\ phase' \in {"failHook", "over"}
      BY <2>6 DEF CleanupDone, FailHookBegins, Close, cursor, report, control, stopFlags
    <3>2. Settled' = Settled
      BY <3>1 DEF Settled, RowsOf
    <3>3. Settled = 1..NTeardown
      <4>1. CASE phase = "teardown"
        <5>1. j = NTeardown + 1
          BY <1>0, <3>1, <4>1 DEF PositionInv
        <5> QED
          BY <1>0, <4>1, <5>1 DEF SettledInv
      <4>2. CASE phase = "closing"
        BY <4>2 DEF SettledInv
      <4> QED
        BY <3>1, <4>1, <4>2
    <3>4. SettledInv'
      BY <3>1, <3>2, <3>3 DEF SettledInv, FlowPhases
    <3>5. Stage' = Stage \/ Stage' = "closed"
      BY <2>2, <3>1, Stages DEF CleanupPhases
    <3> QED
      BY <2>1, <2>2, <3>1, <3>2, <3>3, <3>4, <3>5, PromiseSteps
  <2>7. CASE UNCHANGED <<results, phase, j, abortTeardown, teardownSkipped>>
    BY <1>1, <2>7 DEF Rows
  <2>8. CASE Silent /\ ~(CleanupDone \/ FailHookBegins \/ Close)
    <3>1. /\ ~Begin /\ ~BeginThrows /\ ~SetupDone /\ ~BudgetExhausted /\ ~IterationEnds
          /\ ~FlowThrows /\ ~(at = "iterationDelay" /\ DelayEnds)
      BY <1>5 DEF CleanupPhases, Begin, BeginThrows, SetupDone, BudgetExhausted, IterationEnds,
                  FlowThrows, PositionInv
    <3>2. UNCHANGED <<results, phase, j, abortTeardown, teardownSkipped>>
      BY <1>5, <2>8, <3>1 DEF Silent, DelayEnds, BeginStep, StepStarts, Send, ServerAnswers,
           StopGracefully, vars, cursor, report, control, stopFlags
    <3> QED
      BY <2>7, <3>2
  <2>9. Reporting => CleanupAbandoned \/ \E ok \in BOOLEAN : TeardownHookEnds(ok) \/ FailHookEnds(ok)
    BY <1>5 DEF CleanupPhases, Reporting, SetupHookEnds, LeaveSetup, FlowCancelled
  <2> QED
    BY <2>3, <2>4, <2>5, <2>6, <2>8, <2>9, StepKinds
<1>6. CASE phase = "over"
  BY <1>1, <1>6, OverIsOver DEF vars, cursor, report, control, stopFlags, Rows
<1> QED
  BY <1>2, <1>3, <1>4, <1>5, <1>6 DEF TypeOK, Phases, FlowPhases, CleanupPhases

(* Every run implements its promise: its stages come in order, a verdict   *)
(* only turns red and is settled when cleanup begins, cleanup settles      *)
(* every teardown request once and in order, and gives the rest up only    *)
(* after a hard stop, which it remembers.                                  *)
THEOREM PromiseKept == Spec => KeepsPromise
<1> DEFINE Inv == TypeOK /\ CleanupInv /\ PositionInv /\ SettledInv
<1>1. Init => Inv /\ Promise!PInit
  <2> SUFFICES ASSUME Init PROVE Inv /\ Promise!PInit
    OBVIOUS
  <2>1. Settled = {} /\ RunFailed = FALSE /\ Stage = "idle"
    BY DEF Init, Settled, RowsOf, RunFailed, Stage
  <2>2. SettledInv
    BY <2>1 DEF SettledInv, Init
  <2>3. Promise!PInit
    BY <2>1 DEF Promise!PInit, Init
  <2> QED
    BY <2>2, <2>3, InitIsTyped, InitKeepsCleanupInv, InitKeepsPositions
<1>2. Inv /\ [Next]_vars => Inv' /\ [Promise!PNext]_(Promise!pvars)
  BY NextKeepsTypes, NextKeepsCleanupInv, NextKeepsPositions, NextKeepsPromise DEF Promised
<1> HIDE DEF Inv
<1> QED
  BY <1>1, <1>2, PTL DEF Spec, KeepsPromise, Promise!PSpec

-----------------------------------------------------------------------------
(* The report of the flow.                                                 *)

(* FlowReportedUpTo, of any list of rows.                                  *)
IsOfFlow(r) == r.phase # "teardown" /\ r.idx # RunScript
FlowRowsIn(s) == {k \in DOMAIN s : IsOfFlow(s[k])}
ReportedIn(s, n) ==
    /\ \A k \in FlowRowsIn(s) : IsFlowRow(s[k]) /\ Place(s[k]) \in 1..n
    /\ \A i \in 1..n : \E k \in FlowRowsIn(s) : Place(s[k]) = i
    /\ \A k, l \in FlowRowsIn(s) : k < l => Place(s[k]) < Place(s[l])

(* The rows of the requests from place n + 1 on, in order.                 *)
FollowOn(new, n) ==
    \A k \in DOMAIN new : IsOfFlow(new[k]) /\ IsFlowRow(new[k]) /\ Place(new[k]) = n + k

(* A report grows by the rows that follow on.                              *)
LEMMA ReportExtends ==
    ASSUME NEW s \in Seq(RowType), NEW new \in Seq(RowType), NEW n \in Nat,
           ReportedIn(s, n), FollowOn(new, n)
    PROVE  ReportedIn(s \o new, n + Len(new))
<1> DEFINE t == s \o new
           a == Len(s)
           b == Len(new)
<1>1. a \in Nat /\ DOMAIN s = 1..a /\ b \in Nat /\ DOMAIN new = 1..b
  BY LenProperties
<1>2. t \in Seq(RowType) /\ Len(t) = a + b
  BY ConcatProperties
<1>3. DOMAIN t = 1..(a + b)
  BY <1>2, LenProperties
<1>4. \A m \in 1..(a + b) : t[m] = IF m <= a THEN s[m] ELSE new[m - a]
  BY ConcatProperties
<1> HIDE DEF t, a, b
<1>5. ASSUME NEW m \in 1..a PROVE m \in DOMAIN t /\ m \in DOMAIN s /\ t[m] = s[m]
  BY <1>1, <1>3, <1>4
<1>6. ASSUME NEW k \in 1..b
      PROVE  /\ a + k \in FlowRowsIn(t) /\ t[a + k] = new[k]
             /\ IsFlowRow(t[a + k]) /\ Place(t[a + k]) = n + k
  <2>1. a + k \in 1..(a + b) /\ ~(a + k <= a) /\ (a + k) - a = k
    BY <1>1
  <2>2. t[a + k] = new[k] /\ a + k \in DOMAIN t
    BY <1>3, <1>4, <2>1
  <2>3. IsOfFlow(new[k]) /\ IsFlowRow(new[k]) /\ Place(new[k]) = n + k
    BY <1>1 DEF FollowOn
  <2> QED
    BY <2>2, <2>3 DEF FlowRowsIn
<1>7. ASSUME NEW m \in DOMAIN t PROVE m \in 1..a \/ \E k \in 1..b : m = a + k
  <2>1. m \in Nat /\ m >= 1 /\ m <= a + b
    BY <1>1, <1>3
  <2>2. CASE m <= a
    BY <1>1, <2>1, <2>2
  <2>3. CASE ~(m <= a)
    <3>1. m - a \in 1..b /\ m = a + (m - a)
      BY <1>1, <2>1, <2>3
    <3> QED
      BY <3>1
  <2> QED
    BY <2>2, <2>3
<1>8. ASSUME NEW m \in FlowRowsIn(t), m \in 1..a
      PROVE  m \in FlowRowsIn(s) /\ IsFlowRow(t[m]) /\ Place(t[m]) \in 1..n /\ t[m] = s[m]
  BY <1>5, <1>8 DEF FlowRowsIn, ReportedIn
<1>9. \A m \in FlowRowsIn(t) : IsFlowRow(t[m]) /\ Place(t[m]) \in 1..(n + b)
  <2> TAKE m \in FlowRowsIn(t)
  <2>1. m \in DOMAIN t
    BY DEF FlowRowsIn
  <2>2. CASE m \in 1..a
    <3>1. IsFlowRow(t[m]) /\ Place(t[m]) \in 1..n
      BY <1>8, <2>2
    <3> QED
      BY <1>1, <3>1
  <2>3. CASE \E k \in 1..b : m = a + k
    <3>1. PICK k \in 1..b : m = a + k
      BY <2>3
    <3>2. IsFlowRow(t[m]) /\ Place(t[m]) = n + k
      BY <1>6, <3>1
    <3>3. n + k \in 1..(n + b)
      BY <1>1
    <3> QED
      BY <3>2, <3>3
  <2> QED
    BY <1>7, <2>1, <2>2, <2>3
<1>10. \A i \in 1..(n + b) : \E m \in FlowRowsIn(t) : Place(t[m]) = i
  <2> TAKE i \in 1..(n + b)
  <2>1. CASE i <= n
    <3>1. i \in 1..n
      BY <1>1, <2>1
    <3>2. PICK k \in FlowRowsIn(s) : Place(s[k]) = i
      BY <3>1 DEF ReportedIn
    <3>3. k \in 1..a
      BY <1>1 DEF FlowRowsIn
    <3>4. k \in FlowRowsIn(t) /\ t[k] = s[k]
      BY <1>5, <3>3 DEF FlowRowsIn
    <3> QED
      BY <3>2, <3>4
  <2>2. CASE ~(i <= n)
    <3>1. i - n \in 1..b /\ n + (i - n) = i
      BY <1>1, <2>2
    <3> QED
      BY <1>6, <3>1
  <2> QED
    BY <2>1, <2>2
<1>11. ASSUME NEW k \in FlowRowsIn(t), NEW l \in FlowRowsIn(t), k < l
       PROVE  Place(t[k]) < Place(t[l])
  <2>1. k \in DOMAIN t /\ l \in DOMAIN t
    BY DEF FlowRowsIn
  <2>2. CASE k \in 1..a /\ l \in 1..a
    BY <1>8, <1>11, <2>2 DEF ReportedIn
  <2>3. CASE k \in 1..a /\ \E i \in 1..b : l = a + i
    <3>1. PICK i \in 1..b : l = a + i
      BY <2>3
    <3>2. Place(t[k]) \in 1..n /\ Place(t[l]) = n + i
      BY <1>6, <1>8, <2>3, <3>1
    <3> QED
      BY <1>1, <3>2
  <2>4. CASE (\E i \in 1..b : k = a + i) /\ \E i \in 1..b : l = a + i
    <3>1. PICK i \in 1..b : k = a + i
      BY <2>4
    <3>2. PICK h \in 1..b : l = a + h
      BY <2>4
    <3>3. Place(t[k]) = n + i /\ Place(t[l]) = n + h
      BY <1>6, <3>1, <3>2
    <3> QED
      BY <1>1, <1>11, <3>1, <3>2, <3>3
  <2>5. CASE (\E i \in 1..b : k = a + i) /\ l \in 1..a
    BY <1>1, <1>11, <2>5
  <2> QED
    BY <1>7, <2>1, <2>2, <2>3, <2>4, <2>5
<1> QED
  BY <1>9, <1>10, <1>11 DEF ReportedIn, t, b

(* Rows of scripts and of cleanup do not touch the report of the flow.     *)
LEMMA ReportKept ==
    ASSUME NEW s \in Seq(RowType), NEW new \in Seq(RowType), NEW n \in Nat,
           ReportedIn(s, n), \A k \in DOMAIN new : ~IsOfFlow(new[k])
    PROVE  ReportedIn(s \o new, n)
<1> DEFINE t == s \o new
<1>1. /\ \A m \in DOMAIN s : m \in DOMAIN t /\ t[m] = s[m]
      /\ \A m \in DOMAIN t \ DOMAIN s : \E k \in DOMAIN new : t[m] = new[k]
  BY RowsAppended
<1> HIDE DEF t
<1>2. FlowRowsIn(t) = FlowRowsIn(s)
  BY <1>1 DEF FlowRowsIn
<1>3. \A m \in FlowRowsIn(s) : t[m] = s[m]
  BY <1>1 DEF FlowRowsIn
<1>4. ReportedIn(t, n)
  BY <1>2, <1>3 DEF ReportedIn
<1> QED
  BY <1>4 DEF t

(* The places of the requests that are left out follow on.                 *)
LEMMA LeftOutFollowsOn ==
    /\ \A i \in Nat \ {0} : FollowOn(NotRunFrom("setup", i, NSetup), i - 1)
    /\ \A from \in Nat : FollowOn(NotRunAfter(from), NSetup + from)
<1>1. ASSUME NEW i \in Nat \ {0} PROVE FollowOn(NotRunFrom("setup", i, NSetup), i - 1)
  <2> SUFFICES ASSUME NEW k \in DOMAIN NotRunFrom("setup", i, NSetup)
               PROVE  LET r == NotRunFrom("setup", i, NSetup)[k]
                      IN  IsOfFlow(r) /\ IsFlowRow(r) /\ Place(r) = (i - 1) + k
    BY DEF FollowOn
  <2>1. k \in 1..(NSetup - i + 1) /\ NSetup \in Nat
    BY RunnerConstants DEF NotRunFrom
  <2> DEFINE r == NotRunFrom("setup", i, NSetup)[k]
  <2>2. r.phase = "setup" /\ r.idx = i + k - 1
    BY <2>1 DEF NotRunFrom, NotRunRow, Row
  <2> HIDE DEF r
  <2>3. i + k - 1 \in 1..NSetup /\ i + k - 1 # 0
    BY <2>1
  <2>4. IsOfFlow(r) /\ IsFlowRow(r) /\ Place(r) = (i - 1) + k
    BY <2>1, <2>2, <2>3 DEF IsOfFlow, IsFlowRow, Place, RunScript
  <2> QED
    BY <2>4 DEF r
<1>2. ASSUME NEW from \in Nat PROVE FollowOn(NotRunAfter(from), NSetup + from)
  <2> SUFFICES ASSUME NEW k \in DOMAIN NotRunAfter(from)
               PROVE  LET r == NotRunAfter(from)[k]
                      IN  IsOfFlow(r) /\ IsFlowRow(r) /\ Place(r) = (NSetup + from) + k
    BY DEF FollowOn
  <2>1. /\ Iterations \in Nat /\ NMain \in Nat /\ NMain > 0 /\ NSetup \in Nat
        /\ Iterations * NMain \in Nat
    BY RunnerConstants
  <2>2. k \in 1..(Iterations * NMain - from)
    BY DEF NotRunAfter
  <2> DEFINE r == NotRunAfter(from)[k]
             x == from + k - 1
             q == x \div NMain
             m == x % NMain
  <2>3. r.phase = "main" /\ r.idx = m + 1 /\ r.iter = q + 1
    BY <2>2 DEF NotRunAfter, NotRunRow, Row
  <2>4. x \in Nat /\ x < Iterations * NMain
    BY <2>1, <2>2
  <2> HIDE DEF x
  <2>5. q \in Nat /\ m \in 0..(NMain - 1) /\ x = q * NMain + m
    BY <2>1, <2>4
  <2> HIDE DEF r, q, m
  <2>6. q < Iterations
    <3>1. q * NMain < Iterations * NMain
      <4>1. q * NMain \in Nat
        BY <2>1, <2>5
      <4> QED
        BY <2>1, <2>4, <2>5, <4>1
    <3> QED
      BY <2>1, <2>5, <3>1
  <2>7. FlowPosition(q + 1, m + 1) = x + 1
    <3>1. (q + 1) - 1 = q
      BY <2>5
    <3>2. q * NMain \in Nat
      BY <2>1, <2>5
    <3> QED
      BY <2>5, <3>1, <3>2 DEF FlowPosition
  <2>8. IsOfFlow(r) /\ IsFlowRow(r)
    BY <2>1, <2>3, <2>5, <2>6 DEF IsOfFlow, IsFlowRow, RunScript
  <2>9. Place(r) = NSetup + (x + 1)
    BY <2>3, <2>7 DEF Place
  <2>10. NSetup + (x + 1) = (NSetup + from) + k
    BY <2>1, <2>2 DEF x
  <2> QED
    BY <2>8, <2>9, <2>10 DEF r
<1> QED
  BY <1>1, <1>2

(* A run whose scripts do not jump: setNextRequest() is not called, and    *)
(* the visit budget, ten times the length of the flow and more in the      *)
(* code, is enough to visit every request of it once.                      *)
NoJumps == Jumps \subseteq {Linear} /\ VisitBudget >= NMain

Reached == NSetup + FlowPosition(iter, j) - 1

(* The report is complete up to where the run is, and complete when        *)
(* cleanup begins, unless an exception ended the flow.                     *)
FlowInv ==
    /\ phase \in {"start", "setupHook"} => ReportedIn(results, 0)
    /\ phase = "setup" => ReportedIn(results, j - 1)
    /\ phase = "main" => ReportedIn(results, Reached)
    /\ phase = "main" => visits = IF InStep THEN j ELSE j - 1
    /\ teardownStarted /\ ~orchestrationError =>
          ReportedIn(results, NSetup + Iterations * NMain)

(* Positions of the flow are counted on from one request to the next and   *)
(* from one iteration to the next.                                         *)
LEMMA FlowPositions ==
    ASSUME NEW it \in 1..Iterations, NEW i \in 1..(NMain + 1)
    PROVE  /\ FlowPosition(it, i) \in Nat /\ FlowPosition(it, i) >= 1
           /\ FlowPosition(it, i) - 1 <= Iterations * NMain
           /\ i <= NMain => FlowPosition(it, i) <= Iterations * NMain
           /\ FlowPosition(it, i + 1) = FlowPosition(it, i) + 1
           /\ FlowPosition(it, i - 1) = FlowPosition(it, i) - 1
           /\ FlowPosition(it + 1, 1) = FlowPosition(it, NMain + 1)
           /\ FlowPosition(1, 1) = 1
           /\ FlowPosition(Iterations, NMain + 1) = Iterations * NMain + 1
           /\ Iterations * NMain \in Nat
<1>1. /\ NMain \in Nat /\ NMain >= 1 /\ Iterations \in Nat /\ it \in Nat /\ it >= 1
      /\ it <= Iterations /\ i \in Nat /\ i >= 1 /\ i <= NMain + 1
  BY RunnerConstants
<1> DEFINE b == (it - 1) * NMain
<1>2. b \in Nat /\ Iterations * NMain \in Nat
  BY <1>1
<1>3. b + NMain = it * NMain /\ ((it + 1) - 1) * NMain = it * NMain
  BY <1>1
<1>4. it * NMain <= Iterations * NMain
  BY <1>1
<1>5. (1 - 1) * NMain = 0 /\ (Iterations - 1) * NMain + NMain = Iterations * NMain
  BY <1>1
<1>6. \A k : FlowPosition(it, k) = b + k
  BY DEF FlowPosition
<1>7. /\ FlowPosition(it + 1, 1) = it * NMain + 1 /\ FlowPosition(1, 1) = 0 + 1
      /\ FlowPosition(Iterations, NMain + 1) = (Iterations - 1) * NMain + (NMain + 1)
  BY <1>3, <1>5 DEF FlowPosition
<1>8. (Iterations - 1) * NMain \in Nat
  BY <1>1
<1> HIDE DEF b
<1>9. b <= Iterations * NMain - NMain
  BY <1>1, <1>2, <1>3, <1>4
<1>10. /\ b + i \in Nat /\ b + i >= 1 /\ (b + i) - 1 <= Iterations * NMain
       /\ i <= NMain => b + i <= Iterations * NMain
       /\ b + (i + 1) = (b + i) + 1 /\ b + (i - 1) = (b + i) - 1
  BY <1>1, <1>2, <1>9
<1>11. /\ it * NMain + 1 = b + (NMain + 1)
       /\ (Iterations - 1) * NMain + (NMain + 1) = Iterations * NMain + 1
  BY <1>1, <1>2, <1>3, <1>5, <1>8
<1> QED
  BY <1>2, <1>6, <1>7, <1>10, <1>11

(* A recorded row of the flow, with what is left out because of it.        *)
LEMMA FlowRowFollows ==
    ASSUME TypeOK, NEW n \in Nat, ReportedIn(results, n),
           NEW r \in RowType, NEW rest \in Seq(RowType), RecordStep(r, rest),
           IsOfFlow(r), IsFlowRow(r), Place(r) = n + 1, FollowOn(rest, n + 1)
    PROVE  ReportedIn(results', n + 1 + Len(rest))
<1> DEFINE new == <<r>> \o rest
<1>1. /\ Adds(new) /\ Len(new) = Len(rest) + 1 /\ new[1] = r
      /\ \A k \in DOMAIN rest : new[k + 1] = rest[k]
  BY RecordedRows
<1>2. Len(rest) \in Nat /\ DOMAIN rest = 1..Len(rest)
  BY LenProperties
<1> HIDE DEF new
<1>3. /\ new \in Seq(RowType) /\ results' = results \o new /\ results \in Seq(RowType)
  BY <1>1 DEF Adds, TypeOK
<1>4. DOMAIN new = 1..(Len(rest) + 1)
  BY <1>1, <1>3, LenProperties
<1>5. FollowOn(new, n)
  <2> SUFFICES ASSUME NEW k \in 1..(Len(rest) + 1)
               PROVE  IsOfFlow(new[k]) /\ IsFlowRow(new[k]) /\ Place(new[k]) = n + k
    BY <1>4 DEF FollowOn
  <2>1. CASE k = 1
    BY <1>1, <2>1
  <2>2. CASE k # 1
    <3>1. k - 1 \in DOMAIN rest /\ (k - 1) + 1 = k
      BY <1>2, <2>2
    <3>2. new[k] = rest[k - 1]
      BY <1>1, <3>1
    <3>3. IsOfFlow(rest[k - 1]) /\ IsFlowRow(rest[k - 1]) /\ Place(rest[k - 1]) = (n + 1) + (k - 1)
      BY <3>1 DEF FollowOn
    <3>4. (n + 1) + (k - 1) = n + k
      BY <1>2
    <3> QED
      BY <3>2, <3>3, <3>4
  <2> QED
    BY <2>1, <2>2
<1>6. ReportedIn(results', n + Len(new))
  BY <1>3, <1>5, ReportExtends
<1>7. n + Len(new) = n + 1 + Len(rest)
  BY <1>1, <1>2
<1> QED
  BY <1>6, <1>7

(* A recorded row that is not of the flow.                                 *)
LEMMA OtherRowKeepsReport ==
    ASSUME TypeOK, NEW n \in Nat, ReportedIn(results, n),
           NEW r \in RowType, RecordStep(r, <<>>), ~IsOfFlow(r)
    PROVE  ReportedIn(results', n)
<1>1. results \in Seq(RowType) /\ <<r>> \in Seq(RowType)
  BY DEF TypeOK
<1>2. results' = results \o <<r>>
  <2>1. Append(results, r) = results \o <<r>> /\ Append(results, r) \in Seq(RowType)
    BY <1>1, AppendIsConcat
  <2>2. Append(results, r) \o <<>> = Append(results, r)
    BY <2>1, ConcatEmptySeq
  <2> QED
    BY <2>1, <2>2 DEF RecordStep
<1>3. \A k \in DOMAIN <<r>> : ~IsOfFlow(<<r>>[k])
  OBVIOUS
<1> QED
  BY <1>1, <1>2, <1>3, ReportKept

(* The number of rows that are left out.                                   *)
LEMMA LeftOutLengths ==
    /\ \A i, n \in Int : i <= n + 1 => Len(NotRunFrom("setup", i, n)) = n - i + 1
    /\ \A from \in Int : from <= Iterations * NMain =>
          Len(NotRunAfter(from)) = Iterations * NMain - from
<1>1. ASSUME NEW i \in Int, NEW n \in Int, i <= n + 1
      PROVE  Len(NotRunFrom("setup", i, n)) = n - i + 1
  <2>1. n - i + 1 \in Nat
    BY <1>1
  <2>2. DOMAIN NotRunFrom("setup", i, n) = 1..(n - i + 1)
    BY DEF NotRunFrom
  <2>3. NotRunFrom("setup", i, n) \in Seq(RowType)
    BY NotRunFromIsTyped
  <2> HIDE DEF NotRunFrom
  <2> QED
    BY <2>1, <2>2, <2>3, LenProperties
<1>2. ASSUME NEW from \in Int, from <= Iterations * NMain
      PROVE  Len(NotRunAfter(from)) = Iterations * NMain - from
  <2>1. Iterations * NMain - from \in Nat
    BY <1>2, RunnerConstants
  <2>2. DOMAIN NotRunAfter(from) = 1..(Iterations * NMain - from)
    BY DEF NotRunAfter
  <2>3. NotRunAfter(from) \in Seq(RowType)
    BY NotRunAfterIsTyped
  <2> QED
    BY <2>1, <2>2, <2>3, LenProperties
<1> QED
  BY <1>1, <1>2

(* A step of setup or of the flow reports the request it is at.            *)
LEMMA FinishKeepsFlow ==
    ASSUME NoJumps, TypeOK, CleanupInv, PositionInv, FlowInv, Finished
    PROVE  FlowInv'
<1>0. /\ NSetup \in Nat /\ NMain \in Nat /\ j \in Nat /\ iter \in Nat /\ j >= 1
      /\ InStep /\ ReadsSteps /\ <<>> \in Seq(RowType) /\ Len(<<>>) = 0
      /\ \A n : FollowOn(<<>>, n)
  BY RunnerConstants, EmptySeq DEF TypeOK, PositionInv, Finished, InStep, FollowOn
<1>1. PICK text \in RowTexts, ok \in BOOLEAN, next \in Jumps \cup {Linear},
           configError \in BOOLEAN : FinishStep(text, ok, next, configError)
  BY DEF Finished
<1>2. next = Linear /\ Landed(next) = j /\ next # EndIteration
  BY <1>0 DEF NoJumps, Landed, Linear, EndIteration
<1> DEFINE r == Row(phase, j, IF phase = "main" THEN iter ELSE 0, text, ok)
<1>3. /\ r \in RowType /\ r.phase = phase /\ r.idx = j /\ (phase = "main" => r.iter = iter)
  BY <1>0, <1>1, FinishStepAdds
<1>4. /\ \/ phase = "setup"    /\ AfterSetupStep(r)
         \/ phase = "main"     /\ AfterMainStep(r, next, configError)
         \/ phase = "teardown" /\ AfterTeardownStep(r)
      /\ UNCHANGED orchestrationError
  BY <1>1 DEF FinishStep
<1> HIDE DEF r
<1>5. Gap \in {"head", "delay"}
  BY DEF Gap
<1>6. CASE phase = "setup" /\ AfterSetupStep(r)
  <2>1. /\ phase' = "setup" /\ j' = j + 1 /\ UNCHANGED teardownStarted /\ ~teardownStarted
        /\ RecordStep(r, <<>>)
    BY <1>6 DEF AfterSetupStep, CleanupInv, FlowPhases
  <2>2. j \in 1..NSetup /\ j - 1 \in Nat /\ (j - 1) + 1 = j /\ j + 0 = j /\ (j + 1) - 1 = j
    BY <1>0, <1>6 DEF PositionInv
  <2>3. IsOfFlow(r) /\ IsFlowRow(r) /\ Place(r) = j
    BY <1>3, <1>6, <2>2 DEF IsOfFlow, IsFlowRow, Place, RunScript
  <2>4. ReportedIn(results, j - 1)
    BY <1>6 DEF FlowInv
  <2>5. ReportedIn(results', (j - 1) + 1 + Len(<<>>))
    BY <1>0, <1>3, <2>1, <2>2, <2>3, <2>4, FlowRowFollows
  <2>6. ReportedIn(results', j' - 1)
    BY <1>0, <2>1, <2>2, <2>5
  <2> QED
    BY <2>1, <2>6 DEF FlowInv
<1>7. CASE phase = "main" /\ AfterMainStep(r, next, configError)
  <2> DEFINE p == FlowPosition(iter, j)
             n == NSetup + p - 1
             total == Iterations * NMain
  <2>1. iter \in 1..Iterations /\ j \in 1..NMain /\ j \in 1..(NMain + 1)
    BY <1>0, <1>7 DEF PositionInv
  <2>2. p \in Nat /\ p >= 1 /\ p <= total /\ FlowPosition(iter, j + 1) = p + 1 /\ total \in Nat
    BY <1>0, <2>1, FlowPositions
  <2>3. Place(r) = NSetup + p
    BY <1>3, <1>7 DEF Place
  <2> HIDE DEF p, total
  <2>4. /\ n \in Nat /\ n + 1 = NSetup + p /\ n + 1 + 0 = NSetup + (p + 1) - 1
        /\ (n + 1) + (total - p) = NSetup + total
    BY <1>0, <2>2
  <2>5. ReportedIn(results, n)
    BY <1>7 DEF FlowInv, Reached, p
  <2> HIDE DEF n
  <2>6. IsOfFlow(r) /\ IsFlowRow(r) /\ Place(r) = n + 1
    BY <1>0, <1>3, <1>7, <2>1, <2>3, <2>4 DEF IsOfFlow, IsFlowRow, RunScript
  <2>7. CASE RecordStep(r, NotRunAfter(p)) /\ EndFlow
    <3>1. NotRunAfter(p) \in Seq(RowType) /\ Len(NotRunAfter(p)) = total - p
      BY <2>2, NotRunAfterIsTyped, LeftOutLengths DEF total
    <3>2. FollowOn(NotRunAfter(p), n + 1)
      BY <2>2, <2>4, LeftOutFollowsOn
    <3>3. ReportedIn(results', n + 1 + Len(NotRunAfter(p)))
      BY <1>3, <2>4, <2>5, <2>6, <2>7, <3>1, <3>2, FlowRowFollows
    <3>4. ReportedIn(results', NSetup + total)
      BY <2>4, <3>1, <3>3
    <3> QED
      BY <2>7, <3>4 DEF FlowInv, EndFlow, total
  <2>8. CASE /\ RecordStep(r, <<>>) /\ j' = j + 1 /\ at' = Gap
             /\ UNCHANGED <<phase, iter, visits, teardownStarted>>
    <3>1. ReportedIn(results', n + 1 + Len(<<>>))
      BY <1>0, <1>3, <2>4, <2>5, <2>6, <2>8, FlowRowFollows
    <3>2. ReportedIn(results', NSetup + FlowPosition(iter, j + 1) - 1)
      BY <1>0, <2>2, <2>4, <3>1
    <3>3. (ReportedIn(results, Reached))'
      BY <2>8, <3>2 DEF Reached
    <3>4. ~teardownStarted
      BY <1>7 DEF CleanupInv, FlowPhases
    <3>5. visits = j /\ ~InStep' /\ j' - 1 = j
      BY <1>0, <1>5, <1>7, <2>8 DEF FlowInv, InStep
    <3> QED
      BY <1>7, <2>8, <3>3, <3>4, <3>5 DEF FlowInv
  <2> QED
    BY <1>2, <1>7, <2>7, <2>8 DEF AfterMainStep, p
<1>8. CASE phase = "teardown" /\ AfterTeardownStep(r)
  <2>1. /\ UNCHANGED <<phase, teardownStarted, orchestrationError>> /\ RecordStep(r, <<>>)
    BY <1>4, <1>8 DEF AfterTeardownStep
  <2>2. ~IsOfFlow(r) /\ NSetup + Iterations * NMain \in Nat
    BY <1>3, <1>8, RunnerConstants DEF IsOfFlow
  <2>3. teardownStarted /\ ~orchestrationError => ReportedIn(results', NSetup + Iterations * NMain)
    BY <1>3, <2>1, <2>2, OtherRowKeepsReport DEF FlowInv
  <2> QED
    BY <1>8, <2>1, <2>3 DEF FlowInv
<1> QED
  BY <1>4, <1>6, <1>7, <1>8

(* A step that only moves the run moves it to where its report is.         *)
LEMMA SilentKeepsFlow ==
    ASSUME NoJumps, TypeOK, CleanupInv, PositionInv, FlowInv, Silent
    PROVE  FlowInv'
<1>0. /\ NSetup \in Nat /\ NMain \in Nat /\ NMain >= 1 /\ Iterations \in Nat /\ Iterations >= 1
      /\ j \in Nat /\ j >= 1 /\ iter \in Nat /\ visits \in Nat
  BY RunnerConstants DEF TypeOK, PositionInv
<1>1. UNCHANGED results
  BY SilentReportsNothing
<1> USE DEF cursor, control, stopFlags
<1>2. CASE Begin
  <2>1. /\ phase = "start" /\ phase' \in {"setupHook", "setup"}
        /\ UNCHANGED <<j, teardownStarted, orchestrationError>>
    BY <1>2 DEF Begin
  <2>2. j - 1 = 0
    BY <2>1 DEF PositionInv
  <2> QED
    BY <1>1, <2>1, <2>2 DEF FlowInv
<1>3. CASE BeginThrows \/ CleanupDone \/ FailHookBegins \/ Close
  BY <1>1, <1>3 DEF BeginThrows, CleanupDone, FailHookBegins, Close, FlowInv
<1>4. CASE SetupDone
  <2>1. /\ phase = "setup" /\ j > NSetup /\ phase' = "main" /\ at' = "head" /\ j' = 1
        /\ iter' = 1 /\ visits' = 0 /\ UNCHANGED <<teardownStarted, orchestrationError>>
    BY <1>4 DEF SetupDone
  <2>2. j - 1 = NSetup
    BY <1>0, <2>1 DEF PositionInv
  <2>3. 1 \in 1..Iterations /\ 1 \in 1..(NMain + 1)
    BY <1>0
  <2>4. FlowPosition(1, 1) = 1
    BY <2>3, FlowPositions
  <2>5. Reached' = NSetup
    BY <1>0, <2>1, <2>4 DEF Reached
  <2>6. ReportedIn(results', Reached')
    BY <1>1, <2>1, <2>2, <2>5 DEF FlowInv
  <2> QED
    BY <1>1, <2>1, <2>6 DEF FlowInv, InStep
<1>5. ~BudgetExhausted
  BY <1>0, RunnerConstants DEF BudgetExhausted, FlowInv, InStep, NoJumps
<1>6. ASSUME phase = "main", iter < Iterations, j = NMain + 1, NextIteration
      PROVE  FlowInv'
  <2>1. /\ phase' = "main" /\ at' = "head" /\ j' = 1 /\ iter' = iter + 1 /\ visits' = 0
        /\ UNCHANGED <<teardownStarted, orchestrationError>>
    BY <1>6 DEF NextIteration
  <2>2. iter \in 1..Iterations /\ j \in 1..(NMain + 1)
    BY <1>0, <1>6 DEF PositionInv
  <2>3. FlowPosition(iter + 1, 1) = FlowPosition(iter, NMain + 1)
    BY <2>2, FlowPositions
  <2>4. Reached' = Reached
    BY <1>6, <2>1, <2>3 DEF Reached
  <2>5. ReportedIn(results', Reached')
    BY <1>1, <1>6, <2>4 DEF FlowInv
  <2> QED
    BY <1>1, <2>1, <2>5 DEF FlowInv, InStep
<1>7. CASE IterationEnds
  <2>1. phase = "main" /\ j = NMain + 1 /\ at = "head" /\ iter \in 1..Iterations
    BY <1>0, <1>7 DEF IterationEnds, PositionInv
  <2>2. CASE at' = "iterationDelay" /\ UNCHANGED <<phase, cursor, control>>
    BY <1>1, <2>1, <2>2 DEF FlowInv, InStep, Reached
  <2>3. CASE iter = Iterations /\ EndFlow /\ UNCHANGED orchestrationError
    <3>1. FlowPosition(Iterations, NMain + 1) = Iterations * NMain + 1 /\ Iterations * NMain \in Nat
      BY <1>0, <2>1, FlowPositions
    <3>2. Reached = NSetup + Iterations * NMain
      BY <1>0, <2>1, <2>3, <3>1 DEF Reached
    <3>3. ReportedIn(results', NSetup + Iterations * NMain)
      BY <1>1, <2>1, <3>2 DEF FlowInv
    <3> QED
      BY <2>3, <3>3 DEF FlowInv, EndFlow
  <2> QED
    BY <1>6, <1>7, <2>1, <2>2, <2>3 DEF IterationEnds
<1>8. CASE DelayEnds
  <2>1. CASE at = "delay" /\ at' = "head" /\ UNCHANGED <<phase, cursor, control>>
    BY <1>1, <2>1 DEF FlowInv, InStep, ReadsSteps, Reached
  <2>2. CASE at = "iterationDelay" /\ NextIteration
    BY <1>6, <2>2 DEF PositionInv
  <2> QED
    BY <1>8, <2>1, <2>2 DEF DelayEnds
<1>9. CASE FlowThrows
  BY <1>9 DEF FlowThrows, EndFlow, FlowInv
<1>10. CASE BeginStep
  <2>1. /\ at = "head" /\ at' = "step" /\ UNCHANGED <<phase, j, iter, control>>
        /\ phase = "main" => visits' = visits + 1
    BY <1>10 DEF BeginStep
  <2>2. phase = "main" => visits = j - 1
    BY <2>1 DEF FlowInv, InStep
  <2>3. phase = "main" => visits' = j
    BY <1>0, <2>1, <2>2
  <2> QED
    BY <1>1, <2>1, <2>3 DEF FlowInv, InStep, ReadsSteps, Reached
<1>11. CASE StepStarts \/ Send \/ ServerAnswers
  <2>1. /\ InStep /\ InStep' /\ UNCHANGED <<phase, cursor, control>>
    BY <1>11 DEF StepStarts, Send, ServerAnswers, InStep, ReadsSteps
  <2> QED
    BY <1>1, <2>1 DEF FlowInv, Reached
<1>12. CASE StopGracefully \/ StopNow \/ UNCHANGED vars
  <2>1. UNCHANGED <<phase, at, cursor, control>>
    BY <1>12 DEF StopGracefully, StopNow, vars
  <2> QED
    BY <1>1, <2>1 DEF FlowInv, InStep, ReadsSteps, Reached
<1> QED
  BY <1>2, <1>3, <1>4, <1>5, <1>7, <1>8, <1>9, <1>10, <1>11, <1>12 DEF Silent

(* What a loop leaves is reported to the end.                              *)
LEMMA ReportKeepsFlow ==
    ASSUME TypeOK, CleanupInv, PositionInv, FlowInv, Reporting
    PROVE  FlowInv'
<1>0. /\ NSetup \in Nat /\ NMain \in Nat /\ NMain >= 1 /\ Iterations \in Nat /\ Iterations >= 1
      /\ NTeardown \in Nat /\ Iterations * NMain \in Nat /\ NSetup + Iterations * NMain \in Nat
      /\ j \in Nat /\ j >= 1 /\ iter \in Nat /\ results \in Seq(RowType)
  BY RunnerConstants DEF TypeOK, PositionInv
<1>1. ASSUME NEW ok \in BOOLEAN, SetupHookEnds(ok) PROVE FlowInv'
  <2> DEFINE r == Row("setup", RunScript, 0, "RAN", ok)
  <2>1. r \in RowType /\ ~IsOfFlow(r)
    BY RowIsTyped DEF RunScript, RowTexts, IsOfFlow, Row
  <2>2. /\ RecordStep(r, <<>>) /\ phase = "setupHook" /\ phase' = "setup" /\ j' = j
        /\ UNCHANGED <<orchestrationError, teardownStarted>> /\ ~teardownStarted
    BY <1>1 DEF SetupHookEnds, cursor, CleanupInv, FlowPhases
  <2> HIDE DEF r
  <2>3. j = 1 /\ ReportedIn(results, 0)
    BY <2>2 DEF PositionInv, FlowInv
  <2>4. ReportedIn(results', 0)
    BY <2>1, <2>2, <2>3, OtherRowKeepsReport
  <2>5. j' - 1 = 0
    BY <2>2, <2>3
  <2> QED
    BY <2>2, <2>4, <2>5 DEF FlowInv
<1>2. ASSUME NEW ok \in BOOLEAN, TeardownHookEnds(ok) \/ FailHookEnds(ok) PROVE FlowInv'
  <2>1. \A i \in {RunScript, FailScript} :
           Row("teardown", i, 0, "RAN", ok) \in RowType
             /\ ~IsOfFlow(Row("teardown", i, 0, "RAN", ok))
    <3> TAKE i \in {RunScript, FailScript}
    <3>1. i \in Int /\ "RAN" \in RowTexts
      BY DEF RunScript, FailScript, RowTexts
    <3> QED
      BY <3>1, RowIsTyped DEF IsOfFlow, Row
  <2>2. /\ \E i \in {RunScript, FailScript} : RecordStep(Row("teardown", i, 0, "RAN", ok), <<>>)
        /\ phase' \in {"closing", "over"} /\ UNCHANGED <<orchestrationError, teardownStarted>>
    BY <1>2 DEF TeardownHookEnds, FailHookEnds, control
  <2>3. teardownStarted /\ ~orchestrationError => ReportedIn(results', NSetup + Iterations * NMain)
    BY <1>0, <2>1, <2>2, OtherRowKeepsReport DEF FlowInv
  <2> QED
    BY <2>2, <2>3 DEF FlowInv
<1>3. CASE LeaveSetup
  <2> DEFINE s == NotRunFrom("setup", j, NSetup)
             m == NotRunAfter(0)
  <2>1. phase = "setup" /\ EndFlow /\ results' = (results \o s) \o m
    BY <1>3 DEF LeaveSetup
  <2>2. j <= NSetup + 1 /\ ReportedIn(results, j - 1) /\ j - 1 \in Nat
    BY <1>0, <2>1 DEF PositionInv, FlowInv
  <2>3. s \in Seq(RowType) /\ m \in Seq(RowType)
    <3>1. j \in Int /\ NSetup \in Int
      BY <1>0
    <3>2. s \in Seq(RowType)
      BY <3>1, NotRunFromIsTyped
    <3>3. m \in Seq(RowType)
      BY NotRunAfterIsTyped
    <3> QED
      BY <3>2, <3>3
  <2>4. Len(s) = NSetup - j + 1
    BY <1>0, <2>2, LeftOutLengths
  <2>5. Len(m) = Iterations * NMain - 0
    <3>1. 0 <= Iterations * NMain
      BY <1>0
    <3> QED
      BY <3>1, LeftOutLengths
  <2>6. FollowOn(s, j - 1)
    BY <1>0, LeftOutFollowsOn
  <2>7. FollowOn(m, NSetup + 0)
    BY LeftOutFollowsOn
  <2> HIDE DEF s, m
  <2>8. ReportedIn(results \o s, (j - 1) + Len(s))
    BY <1>0, <2>2, <2>3, <2>6, ReportExtends
  <2>9. results \o s \in Seq(RowType)
    BY <1>0, <2>3, ConcatProperties
  <2>10. (j - 1) + Len(s) = NSetup /\ NSetup + 0 = NSetup
    BY <1>0, <2>4
  <2>11. ReportedIn((results \o s) \o m, NSetup + Len(m))
    BY <1>0, <2>3, <2>7, <2>8, <2>9, <2>10, ReportExtends
  <2>12. ReportedIn(results', NSetup + Iterations * NMain)
    BY <1>0, <2>1, <2>5, <2>11
  <2> QED
    BY <2>1, <2>12 DEF FlowInv, EndFlow
<1>4. CASE FlowCancelled
  <2> DEFINE from == FlowPosition(iter, j - 1)
             total == Iterations * NMain
  <2>1. phase = "main" /\ j <= NMain /\ EndFlow /\ results' = results \o NotRunAfter(from)
    BY <1>4 DEF FlowCancelled
  <2>2. iter \in 1..Iterations /\ j \in 1..(NMain + 1)
    BY <1>0, <2>1 DEF PositionInv
  <2>3. /\ FlowPosition(iter, j) \in Nat /\ FlowPosition(iter, j) >= 1
        /\ FlowPosition(iter, j) <= total /\ from = FlowPosition(iter, j) - 1
    BY <2>1, <2>2, FlowPositions
  <2>4. ReportedIn(results, Reached)
    BY <2>1 DEF FlowInv
  <2> HIDE DEF from, total
  <2>5. from \in Nat /\ from <= total /\ Reached = NSetup + from /\ total \in Nat
    BY <1>0, <2>3 DEF Reached, total
  <2>6. /\ NotRunAfter(from) \in Seq(RowType) /\ Len(NotRunAfter(from)) = total - from
        /\ FollowOn(NotRunAfter(from), NSetup + from)
    BY <2>5, NotRunAfterIsTyped, LeftOutLengths, LeftOutFollowsOn DEF total
  <2>7. NSetup + from \in Nat /\ (NSetup + from) + (total - from) = NSetup + total
    BY <1>0, <2>5
  <2>8. ReportedIn(results', (NSetup + from) + Len(NotRunAfter(from)))
    BY <1>0, <2>1, <2>4, <2>5, <2>6, <2>7, ReportExtends
  <2>9. ReportedIn(results', NSetup + total)
    BY <2>6, <2>7, <2>8
  <2> QED
    BY <2>1, <2>9 DEF FlowInv, EndFlow, total
<1>5. CASE CleanupAbandoned
  <2> DEFINE s == NotRunFrom("teardown", j, NTeardown)
  <2>1. /\ phase' = "closing" /\ results' = results \o s
        /\ UNCHANGED <<orchestrationError, teardownStarted>>
    BY <1>5 DEF CleanupAbandoned
  <2>2. s \in Seq(RowType)
    BY <1>0, NotRunFromIsTyped
  <2>3. \A k \in DOMAIN s : ~IsOfFlow(s[k])
    BY <1>0, NotRunFromRows DEF IsOfFlow
  <2> HIDE DEF s
  <2>4. teardownStarted /\ ~orchestrationError => ReportedIn(results', NSetup + Iterations * NMain)
    BY <1>0, <2>1, <2>2, <2>3, ReportKept DEF FlowInv
  <2> QED
    BY <2>1, <2>4 DEF FlowInv
<1> QED
  BY <1>1, <1>2, <1>3, <1>4, <1>5 DEF Reporting

(* Without jumps, the report of a finished run has exactly one row for     *)
(* every setup request and for every request of every iteration, in the    *)
(* order of the run, whether it ran or not: wherever the run was stopped,  *)
(* failed or was cut short by a critical request.                          *)
THEOREM FlowIsReportedOnce == ASSUME NoJumps PROVE Spec => []FlowReportedOnce
<1> DEFINE Inv == TypeOK /\ CleanupInv /\ PositionInv /\ FlowInv
<1>1. Init => Inv
  <2> SUFFICES ASSUME Init PROVE Inv
    OBVIOUS
  <2>1. FlowRowsIn(results) = {} /\ 1..0 = {}
    BY DEF Init, FlowRowsIn
  <2>2. ReportedIn(results, 0)
    BY <2>1 DEF ReportedIn
  <2>3. FlowInv
    BY <2>2 DEF Init, FlowInv
  <2> QED
    BY <2>3, InitIsTyped, InitKeepsCleanupInv, InitKeepsPositions
<1>2. Inv /\ [Next]_vars => Inv'
  BY NextKeepsTypes, NextKeepsCleanupInv, NextKeepsPositions, StepKinds, FinishKeepsFlow,
     SilentKeepsFlow, ReportKeepsFlow
<1>3. Inv => FlowReportedOnce
  <2> SUFFICES ASSUME FlowInv, teardownStarted, ~orchestrationError
               PROVE  FlowReportedUpTo(NSetup + Iterations * NMain)
    BY DEF FlowReportedOnce
  <2>1. ReportedIn(results, NSetup + Iterations * NMain)
    BY DEF FlowInv
  <2>2. FlowRows = FlowRowsIn(results)
    BY DEF FlowRows, FlowRowsIn, IsOfFlow
  <2> QED
    BY <2>1, <2>2 DEF ReportedIn, FlowReportedUpTo
<1> HIDE DEF Inv
<1> QED
  BY <1>1, <1>2, <1>3, PTL DEF Spec

=============================================================================
