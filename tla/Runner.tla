------------------------------- MODULE Runner -------------------------------
(***************************************************************************)
(* One run of the collection runner: executeCollection and the steps it    *)
(* calls (src/main/ipc/runner.handler.ts), with the runner:stop handler    *)
(* arriving at any moment the run is suspended.                            *)
(*                                                                         *)
(* The main process is single threaded.  The code between two awaits is    *)
(* one or more steps here, but while "at" names a point that is not an     *)
(* await no stop can be handled (see Suspended), so a synchronous block    *)
(* is never interleaved with the handler.                                  *)
(*                                                                         *)
(* Positions are 1-based; the code's are 0-based.                          *)
(***************************************************************************)
EXTENDS Integers, Sequences, FiniteSets

CONSTANTS
    NSetup,         \* length of setupEndpointIds
    NMain,          \* length of endpointIds
    NTeardown,      \* length of teardownEndpointIds
    Iterations,     \* how often the main flow is repeated
    VisitBudget,    \* maxVisits: NMain * 10 + 50 in the code
    StopOnError,    \* the "Stop run if an error occurs" switch
    Delay,          \* a delay between requests is configured
    IterationDelay, \* a delay between iterations is configured
    HasPre,         \* the run has a setup script ...
    HasPost,        \* ... a teardown script ...
    HasFail,        \* ... and a fail script
    Critical,       \* positions of the main flow marked Critical
    Jumps,          \* what scripts may give setNextRequest()
    Outcomes,       \* what a step may do besides being answered
    MayThrow        \* whether a database read may throw out of the flow

(* Rows of the run's own scripts carry an id no request has.               *)
RunScript == 0
FailScript == -1

(* pm.execution.setNextRequest(): not called (or an unknown name), null,   *)
(* or the position of a request of the main flow.                          *)
Linear == 0
EndIteration == -1

OutcomeKinds ==
    {"config", "unsupported", "blocked", "error", "skip", "reject"}

ASSUME RunnerConstants ==
    /\ NSetup \in Nat /\ NTeardown \in Nat
    /\ NMain \in Nat \ {0} /\ Iterations \in Nat \ {0}
    /\ VisitBudget \in Nat
    /\ StopOnError \in BOOLEAN /\ Delay \in BOOLEAN
    /\ IterationDelay \in BOOLEAN /\ MayThrow \in BOOLEAN
    /\ HasPre \in BOOLEAN /\ HasPost \in BOOLEAN /\ HasFail \in BOOLEAN
    /\ Critical \subseteq 1..NMain
    /\ Jumps \subseteq {Linear, EndIteration} \cup 1..NMain
    /\ Outcomes \subseteq OutcomeKinds

VARIABLES
    phase,          \* where the run is: see Phases
    at,             \* where inside the phase: see Points
    j,              \* the step the phase is at
    iter,           \* the iteration of the main flow
    visits,         \* flowVisits: steps begun in this iteration
    abortPrimary,   \* the flow is not to be started
    stopReason,     \* why the run ended early
    orchestrationError, \* an exception escaped the flow
    results,        \* the rows of the report
    totals,         \* the counters recordStep keeps beside the rows
    emitted,        \* rows sent to the progress view
    registered,     \* the run is in activeRuns
    shouldStop, abortTeardown, directStop,      \* RunState, set by a stop
    cancelInFlight,   \* RunState: there is something a stop can abort
    cancelledOnWire,  \* the request (or hook) in flight was aborted
    teardownStarted, teardownSkipped            \* RunState, set by the run

stopFlags == <<shouldStop, abortTeardown, directStop>>
wire      == <<cancelInFlight, cancelledOnWire>>
cursor    == <<j, iter, visits>>
report    == <<results, totals, emitted>>
control   == <<abortPrimary, stopReason, orchestrationError, registered,
               teardownStarted, teardownSkipped>>
vars == <<phase, at, cursor, report, control, stopFlags, wire>>

-----------------------------------------------------------------------------
(* The rows of the report.                                                 *)

RowTexts == {"RAN", "UNSUPPORTED", "SKIPPED", "CANCELLED", "NOT_RUN"}

Row(p, i, it, text, ok) ==
    [phase |-> p, idx |-> i, iter |-> it, text |-> text, ok |-> ok,
     stoppedRun |-> /\ p = "main" /\ i \in Critical
                    /\ text = "UNSUPPORTED" \/ (text = "RAN" /\ ~ok)]

(* recordNotRun pushes its rows without the stamp of recordStep.           *)
NotRunRow(p, i, it) == Row(p, i, it, "NOT_RUN", FALSE)

IsSkippedStep(r) == ~r.stoppedRun /\ r.text # "RAN"
EndpointDidPass(r) == ~r.stoppedRun /\ r.ok
(* Mutant: cleanup counts like the rest.                                   *)
CountsTowardRunVerdict_All(r) == TRUE

CountsTowardRunVerdict(r) == r.phase # "teardown"

(* What summarizeRun makes of the rows: the numbers every view shows.      *)
RowsWhere(P(_)) == Cardinality({k \in DOMAIN results : P(results[k])})
Scored(r) == CountsTowardRunVerdict(r) /\ ~IsSkippedStep(r)
ScoredFailed(r) == Scored(r) /\ ~EndpointDidPass(r)
Summary ==
    [total   |-> RowsWhere(CountsTowardRunVerdict),
     passed  |-> RowsWhere(LAMBDA r : Scored(r) /\ EndpointDidPass(r)),
     failed  |-> RowsWhere(ScoredFailed),
     skipped |-> RowsWhere(IsSkippedStep),
     teardownFailed |-> RowsWhere(LAMBDA r : /\ ~CountsTowardRunVerdict(r)
                                             /\ ~IsSkippedStep(r)
                                             /\ ~EndpointDidPass(r))]
RunFailed == \E k \in DOMAIN results : ScoredFailed(results[k])

Counters == {"passed", "failed", "teardownPassed", "teardownFailed"}
Counter(r) ==
    IF CountsTowardRunVerdict(r)
    THEN IF EndpointDidPass(r) THEN "passed" ELSE "failed"
    ELSE IF EndpointDidPass(r) THEN "teardownPassed" ELSE "teardownFailed"

(* Mutant: a row that did not run for lack of support counts as failed.    *)
Tallied_Unsupported(r) ==
    IF r.text \notin {"RAN", "UNSUPPORTED"}
    THEN totals ELSE [totals EXCEPT ![Counter(r)] = @ + 1]

Tallied(r) ==
    IF IsSkippedStep(r) THEN totals ELSE [totals EXCEPT ![Counter(r)] = @ + 1]

RecordStep(r, notRun) ==
    /\ results' = Append(results, r) \o notRun
    /\ totals' = Tallied(r)
    /\ emitted' = emitted + 1

(* The steps of setup / of cleanup from position i on, and the steps of    *)
(* the main flow after its first "from" ones (all iterations in order).    *)
NotRunFrom(p, i, n) == [k \in 1..(n - i + 1) |-> NotRunRow(p, i + k - 1, 0)]
FlowPosition(it, i) == (it - 1) * NMain + i
NotRunAfter(from) ==
    [k \in 1..(Iterations * NMain - from) |->
        NotRunRow("main", ((from + k - 1) % NMain) + 1,
                          ((from + k - 1) \div NMain) + 1)]

Total == NSetup + NMain * Iterations + NTeardown
           + (IF HasPre THEN 1 ELSE 0) + (IF HasPost THEN 1 ELSE 0)

-----------------------------------------------------------------------------
(* Control.                                                                *)

Phases == {"start", "setupHook", "setup", "main", "teardown",
           "teardownHook", "closing", "failHook", "over"}

(* "head" is the top of the phase's loop and "step" the synchronous start  *)
(* of runEndpointStep; at the other points the run is in an await.         *)
Points == {"head", "step", "scripts", "wire", "tests", "delay",
           "iterationDelay"}
Suspended == phase \notin {"closing", "over"} /\ at \notin {"head", "step"}

ReadsSteps == phase \in {"setup", "main", "teardown"}

Init ==
    /\ phase = "start" /\ at = "scripts"
    /\ j = 1 /\ iter = 1 /\ visits = 0
    /\ abortPrimary = FALSE /\ stopReason = "none"
    /\ orchestrationError = FALSE /\ registered = TRUE
    /\ results = <<>> /\ emitted = 0
    /\ totals = [c \in Counters |-> 0]
    /\ shouldStop = FALSE /\ abortTeardown = FALSE /\ directStop = FALSE
    /\ cancelInFlight = FALSE /\ cancelledOnWire = FALSE
    /\ teardownStarted = FALSE /\ teardownSkipped = FALSE

(* A pause after a recorded step: refused once a stop arrived and after    *)
(* the last row (emitted' is the count the code compares).                 *)
Gap == IF Delay /\ ~shouldStop /\ emitted' < Total THEN "delay" ELSE "head"

(* The flow is left, by its end or early: the finally block begins.        *)
EndFlow ==
    /\ phase' = "teardown" /\ at' = "head" /\ j' = 1
    /\ teardownStarted' = TRUE
    /\ UNCHANGED <<iter, visits>>

(* What follows a recorded step, in each of the three phases.              *)
AfterSetupStep(r) ==
    /\ RecordStep(r, <<>>)
    /\ abortPrimary' = (~EndpointDidPass(r) /\ ~IsSkippedStep(r))
    /\ stopReason' = IF abortPrimary' THEN "setupFailed" ELSE stopReason
    /\ j' = j + 1 /\ at' = Gap
    /\ UNCHANGED <<phase, iter, visits, teardownStarted>>

AfterTeardownStep(r) ==
    /\ RecordStep(r, <<>>)
    /\ j' = j + 1 /\ at' = Gap
    /\ UNCHANGED <<phase, iter, visits, teardownStarted, abortPrimary,
                   stopReason>>

(* A jump moves j to just before its target: the loop's j++ lands on it.   *)
Landed(next) == IF next \in 1..NMain THEN next - 1 ELSE j

StopsOnError(r, next, configError) ==
    /\ StopOnError /\ ~IsSkippedStep(r) /\ ~EndpointDidPass(r)
    /\ ~configError /\ next # EndIteration

AfterMainStep(r, next, configError) ==
    \/ /\ r.stoppedRun
       /\ RecordStep(r, NotRunAfter(FlowPosition(iter, j)))
       /\ stopReason' = "criticalFailed"
       /\ EndFlow
       /\ UNCHANGED abortPrimary
    \/ /\ ~r.stoppedRun /\ StopsOnError(r, next, configError)
       /\ RecordStep(r, NotRunAfter(FlowPosition(iter, Landed(next))))
       /\ stopReason' = "stopOnError"
       /\ EndFlow
       /\ UNCHANGED abortPrimary
    \/ /\ ~r.stoppedRun /\ ~StopsOnError(r, next, configError)
       /\ RecordStep(r, <<>>)
       /\ IF next = EndIteration
          THEN j' = NMain + 1 /\ at' = "head"
          ELSE j' = Landed(next) + 1 /\ at' = Gap
       /\ UNCHANGED <<phase, iter, visits, teardownStarted, abortPrimary,
                      stopReason>>

FinishStep(text, ok, next, configError) ==
    LET r == Row(phase, j, IF phase = "main" THEN iter ELSE 0, text, ok)
    IN  /\ \/ phase = "setup"    /\ AfterSetupStep(r)
           \/ phase = "main"     /\ AfterMainStep(r, next, configError)
           \/ phase = "teardown" /\ AfterTeardownStep(r)
        /\ UNCHANGED <<orchestrationError, registered, teardownSkipped,
                       stopFlags>>

-----------------------------------------------------------------------------
(* Before the flow.                                                        *)

(* The settings are read: nothing has run yet, but the run is registered.  *)
Begin ==
    /\ phase = "start"
    /\ IF HasPre THEN phase' = "setupHook" /\ at' = "scripts"
                 ELSE phase' = "setup" /\ at' = "head"
    /\ UNCHANGED <<cursor, report, control, stopFlags, wire>>

(* A read before the try block throws: the promise of the run rejects.     *)
BeginThrows ==
    /\ MayThrow /\ phase = "start"
    /\ phase' = "over"
    /\ UNCHANGED <<at, cursor, report, control, stopFlags, wire>>

SetupHookEnds(ok) ==
    /\ phase = "setupHook"
    /\ phase' = "setup" /\ at' = "head"
    /\ RecordStep(Row("setup", RunScript, 0, "RAN", ok), <<>>)
    /\ abortPrimary' = ~ok
    /\ stopReason' = IF ok THEN stopReason ELSE "setupFailed"
    /\ UNCHANGED <<cursor, orchestrationError, registered, teardownStarted,
                   teardownSkipped, stopFlags, wire>>

-----------------------------------------------------------------------------
(* The heads of the three loops.                                           *)

(* Setup failed or was stopped: the rest of it and the flow never run.     *)
LeaveSetup ==
    /\ phase = "setup" /\ at = "head"
    /\ abortPrimary \/ (j <= NSetup /\ shouldStop)
    /\ abortPrimary' = TRUE
    /\ stopReason' = IF abortPrimary THEN stopReason ELSE "cancelled"
    /\ results' = results \o NotRunFrom("setup", j, NSetup) \o NotRunAfter(0)
    /\ EndFlow
    /\ UNCHANGED <<totals, emitted, orchestrationError, registered,
                   teardownSkipped, stopFlags, wire>>

SetupDone ==
    /\ phase = "setup" /\ at = "head"
    /\ ~abortPrimary /\ j > NSetup
    /\ phase' = "main" /\ j' = 1 /\ iter' = 1 /\ visits' = 0
    /\ UNCHANGED <<at, report, control, stopFlags, wire>>

(* Mutant: the request at which the stop is seen has no row.               *)
FlowCancelled_MissesOne ==
    /\ phase = "main" /\ at = "head"
    /\ j <= NMain /\ shouldStop
    /\ stopReason' = "cancelled"
    /\ results' = results \o NotRunAfter(FlowPosition(iter, j))
    /\ EndFlow
    /\ UNCHANGED <<totals, emitted, abortPrimary, orchestrationError,
                   registered, teardownSkipped, stopFlags, wire>>

FlowCancelled ==
    /\ phase = "main" /\ at = "head"
    /\ j <= NMain /\ shouldStop
    /\ stopReason' = "cancelled"
    /\ results' = results \o NotRunAfter(FlowPosition(iter, j - 1))
    /\ EndFlow
    /\ UNCHANGED <<totals, emitted, abortPrimary, orchestrationError,
                   registered, teardownSkipped, stopFlags, wire>>

(* Mutant: the loop goes on instead of ending the iteration.               *)
BudgetExhausted_GoesOn ==
    /\ phase = "main" /\ at = "head"
    /\ j <= NMain /\ ~shouldStop /\ visits >= VisitBudget
    /\ UNCHANGED vars

(* A cycle of jumps used up the visit budget: the iteration ends.          *)
BudgetExhausted ==
    /\ phase = "main" /\ at = "head"
    /\ j <= NMain /\ ~shouldStop /\ visits >= VisitBudget
    /\ j' = NMain + 1
    /\ UNCHANGED <<phase, at, iter, visits, report, control, stopFlags, wire>>

NextIteration ==
    /\ iter' = iter + 1 /\ j' = 1 /\ visits' = 0 /\ at' = "head"
    /\ UNCHANGED <<phase, report, control, stopFlags, wire>>

IterationEnds ==
    /\ phase = "main" /\ at = "head" /\ j > NMain
    /\ \/ /\ iter < Iterations /\ IterationDelay /\ ~shouldStop
          /\ at' = "iterationDelay"
          /\ UNCHANGED <<phase, cursor, report, control, stopFlags, wire>>
       \/ /\ iter < Iterations /\ ~(IterationDelay /\ ~shouldStop)
          /\ NextIteration
       \/ /\ iter = Iterations
          /\ EndFlow
          /\ UNCHANGED <<report, abortPrimary, stopReason, orchestrationError,
                         registered, teardownSkipped, stopFlags, wire>>

(* A pause is over: its time has passed or a stop cut it short.            *)
DelayEnds ==
    /\ ReadsSteps
    /\ \/ /\ at = "delay" /\ at' = "head"
          /\ UNCHANGED <<phase, cursor, report, control, stopFlags, wire>>
       \/ at = "iterationDelay" /\ NextIteration

(* An exception escapes the flow: no row reports what did not run.         *)
FlowThrows ==
    /\ MayThrow /\ phase \in {"setup", "main"} /\ at = "step"
    /\ orchestrationError' = TRUE
    /\ EndFlow
    /\ UNCHANGED <<report, abortPrimary, stopReason, registered,
                   teardownSkipped, stopFlags, wire>>

-----------------------------------------------------------------------------
(* One step: runEndpointStep and runMcpStep.                               *)

(* Mutant: the loop of cleanup does not look at the hard stop.             *)
MayBegin_IgnoresStop ==
    \/ phase = "setup" /\ j <= NSetup /\ ~abortPrimary /\ ~shouldStop
    \/ phase = "main" /\ j <= NMain /\ ~shouldStop /\ visits < VisitBudget
    \/ phase = "teardown" /\ j <= NTeardown

MayBegin ==
    \/ phase = "setup" /\ j <= NSetup /\ ~abortPrimary /\ ~shouldStop
    \/ phase = "main" /\ j <= NMain /\ ~shouldStop /\ visits < VisitBudget
    \/ phase = "teardown" /\ j <= NTeardown /\ ~abortTeardown

BeginStep ==
    /\ at = "head" /\ MayBegin
    /\ at' = "step"
    /\ visits' = IF phase = "main" THEN visits + 1 ELSE visits
    /\ UNCHANGED <<phase, j, iter, report, control, stopFlags, wire>>

(* No such row in this project, or no address: a failing row, no await.    *)
StepMisconfigured ==
    /\ ReadsSteps /\ at = "step" /\ "config" \in Outcomes
    /\ FinishStep("RAN", FALSE, Linear, TRUE)
    /\ UNCHANGED wire

(* A protocol the runner does not drive: a neutral row.                    *)
StepUnsupported ==
    /\ ReadsSteps /\ at = "step" /\ "unsupported" \in Outcomes
    /\ FinishStep("UNSUPPORTED", FALSE, Linear, FALSE)
    /\ UNCHANGED wire

StepStarts ==
    /\ ReadsSteps /\ at = "step"
    /\ at' = "scripts"
    /\ UNCHANGED <<phase, cursor, report, control, stopFlags, wire>>

(* The scripts are not allowed, or one threw, or a certificate cannot be   *)
(* loaded, or the script called skipRequest(): nothing is sent.            *)
StepEndsUnsent ==
    /\ ReadsSteps /\ at = "scripts"
    /\ \/ "blocked" \in Outcomes /\ FinishStep("RAN", FALSE, Linear, TRUE)
       \/ "error" \in Outcomes /\ FinishStep("RAN", FALSE, Linear, FALSE)
       \/ "skip" \in Outcomes /\ FinishStep("SKIPPED", FALSE, Linear, FALSE)
    /\ UNCHANGED wire

(* A hard stop came while the scripts ran: the request stays unsent.       *)
StepHeldBack ==
    /\ ReadsSteps /\ at = "scripts" /\ directStop
    /\ FinishStep("NOT_RUN", FALSE, Linear, FALSE)
    /\ UNCHANGED wire

(* Mutant: the request whose scripts ran when the stop came is sent.       *)
Send_Unchecked ==
    /\ ReadsSteps /\ at = "scripts"
    /\ at' = "wire"
    /\ cancelInFlight' = TRUE /\ cancelledOnWire' = FALSE
    /\ UNCHANGED <<phase, cursor, report, control, stopFlags>>

Send ==
    /\ ReadsSteps /\ at = "scripts" /\ ~directStop
    /\ at' = "wire"
    /\ cancelInFlight' = TRUE /\ cancelledOnWire' = FALSE
    /\ UNCHANGED <<phase, cursor, report, control, stopFlags>>

(* The aborted request comes back, whether it was answered or not.         *)
StepCancelled ==
    /\ ReadsSteps /\ at = "wire" /\ cancelledOnWire
    /\ cancelInFlight' = FALSE
    /\ FinishStep("CANCELLED", FALSE, Linear, FALSE)
    /\ UNCHANGED cancelledOnWire

(* Mutant: the abort handle is kept while the tests run.                   *)
ServerAnswers_KeepsHandle ==
    /\ ReadsSteps /\ at = "wire" /\ ~cancelledOnWire
    /\ at' = "tests"
    /\ UNCHANGED <<phase, cursor, report, control, stopFlags, wire>>

ServerAnswers ==
    /\ ReadsSteps /\ at = "wire" /\ ~cancelledOnWire
    /\ cancelInFlight' = FALSE
    /\ at' = "tests"
    /\ UNCHANGED <<phase, cursor, report, control, stopFlags,
                   cancelledOnWire>>

TransportFails ==
    /\ ReadsSteps /\ at = "wire" /\ ~cancelledOnWire
    /\ "reject" \in Outcomes
    /\ cancelInFlight' = FALSE
    /\ FinishStep("RAN", FALSE, Linear, FALSE)
    /\ UNCHANGED cancelledOnWire

(* The post-response scripts and the assertions give the verdict.          *)
StepScored(ok, next) ==
    /\ ReadsSteps /\ at = "tests"
    /\ FinishStep("RAN", ok, next, FALSE)
    /\ UNCHANGED wire

-----------------------------------------------------------------------------
(* Cleanup and the end of the run.                                         *)

(* A hard stop leaves the rest of cleanup undone, and says so.             *)
CleanupAbandoned ==
    /\ phase = "teardown" /\ at = "head"
    /\ j <= NTeardown \/ HasPost
    /\ abortTeardown
    /\ teardownSkipped' = TRUE
    /\ results' = results \o NotRunFrom("teardown", j, NTeardown)
    /\ phase' = "closing"
    /\ UNCHANGED <<at, cursor, totals, emitted, abortPrimary, stopReason,
                   orchestrationError, registered, teardownStarted,
                   stopFlags, wire>>

(* Mutant: the last teardown request is left out.                          *)
CleanupDone_Early ==
    /\ phase = "teardown" /\ at = "head" /\ j >= NTeardown
    /\ \/ HasPost /\ ~abortTeardown /\ phase' = "teardownHook"
                  /\ at' = "scripts"
       \/ ~HasPost /\ phase' = "closing" /\ at' = at
    /\ UNCHANGED <<cursor, report, control, stopFlags, wire>>

CleanupDone ==
    /\ phase = "teardown" /\ at = "head" /\ j > NTeardown
    /\ \/ HasPost /\ ~abortTeardown /\ phase' = "teardownHook"
                  /\ at' = "scripts"
       \/ ~HasPost /\ phase' = "closing" /\ at' = at
    /\ UNCHANGED <<cursor, report, control, stopFlags, wire>>

TeardownHookEnds(ok) ==
    /\ phase = "teardownHook"
    /\ phase' = "closing" /\ at' = "head"
    /\ RecordStep(Row("teardown", RunScript, 0, "RAN", ok), <<>>)
    /\ UNCHANGED <<cursor, control, stopFlags, wire>>

(* Mutant: the first reason stands.                                        *)
FinalReason_First == IF stopReason # "none" THEN stopReason
                     ELSE IF directStop THEN "stoppedImmediately"
                     ELSE IF teardownSkipped THEN "teardownAborted" ELSE "none"

FinalReason == IF directStop THEN "stoppedImmediately"
               ELSE IF teardownSkipped THEN "teardownAborted"
               ELSE stopReason

(* Mutant: the verdict is not asked.                                       *)
FailHookDue_Always == /\ HasFail /\ ~orchestrationError
                      /\ ~abortTeardown /\ ~directStop

FailHookDue == /\ HasFail /\ ~orchestrationError
               /\ ~abortTeardown /\ ~directStop
               /\ RunFailed

FailHookBegins ==
    /\ phase = "closing" /\ FailHookDue
    /\ phase' = "failHook" /\ at' = "scripts"
    /\ stopReason' = FinalReason
    /\ cancelInFlight' = TRUE /\ cancelledOnWire' = FALSE
    /\ UNCHANGED <<cursor, report, abortPrimary, orchestrationError,
                   registered, teardownStarted, teardownSkipped, stopFlags>>

FailHookEnds(ok) ==
    /\ phase = "failHook"
    /\ phase' = "over" /\ at' = "head"
    /\ RecordStep(Row("teardown", FailScript, 0, "RAN", ok), <<>>)
    /\ cancelInFlight' = FALSE
    /\ stopReason' = IF abortTeardown THEN "teardownAborted" ELSE stopReason
    /\ registered' = FALSE
    /\ UNCHANGED <<cursor, abortPrimary, orchestrationError, teardownStarted,
                   teardownSkipped, stopFlags, cancelledOnWire>>

Close ==
    /\ phase = "closing" /\ ~FailHookDue
    /\ phase' = "over"
    /\ stopReason' = FinalReason
    /\ registered' = FALSE
    /\ UNCHANGED <<at, cursor, report, abortPrimary, orchestrationError,
                   teardownStarted, teardownSkipped, stopFlags, wire>>

-----------------------------------------------------------------------------
(* The runner:stop handler.                                                *)

StopGracefully ==
    /\ Suspended /\ registered
    /\ shouldStop' = TRUE
    /\ UNCHANGED <<phase, at, cursor, report, control, abortTeardown,
                   directStop, wire>>

StopNow ==
    /\ Suspended /\ registered
    /\ shouldStop' = TRUE /\ abortTeardown' = TRUE
    /\ directStop' = (directStop \/ ~teardownStarted)
    /\ cancelledOnWire' = (cancelledOnWire \/ cancelInFlight)
    /\ UNCHANGED <<phase, at, cursor, report, control, cancelInFlight>>

-----------------------------------------------------------------------------

(* What the run does by itself, whatever the server does.                  *)
OwnStep ==
    \/ Begin \/ BeginThrows
    \/ \E ok \in BOOLEAN :
          SetupHookEnds(ok) \/ TeardownHookEnds(ok) \/ FailHookEnds(ok)
    \/ LeaveSetup \/ SetupDone \/ FlowCancelled \/ BudgetExhausted
    \/ IterationEnds \/ DelayEnds \/ FlowThrows
    \/ BeginStep \/ StepMisconfigured \/ StepUnsupported \/ StepStarts
    \/ StepEndsUnsent \/ StepHeldBack \/ Send \/ StepCancelled
    \/ \E ok \in BOOLEAN, next \in Jumps : StepScored(ok, next)
    \/ CleanupAbandoned \/ CleanupDone \/ FailHookBegins \/ Close

Over == phase = "over" /\ UNCHANGED vars

Next == OwnStep \/ ServerAnswers \/ TransportFails
        \/ StopGracefully \/ StopNow \/ Over

(* Timers and database reads settle by themselves, and an aborted request  *)
(* comes back; a server need not answer.  A script ends too, which is an   *)
(* assumption on scripts: no code gives them a time limit.                 *)
Spec == Init /\ [][Next]_vars /\ WF_vars(OwnStep)

-----------------------------------------------------------------------------
(* Properties.                                                             *)

StopReasons == {"none", "setupFailed", "stopOnError", "criticalFailed",
                "cancelled", "teardownAborted", "stoppedImmediately"}
RowType == [phase : {"setup", "main", "teardown"}, idx : Int, iter : Int,
            text : RowTexts, ok : BOOLEAN, stoppedRun : BOOLEAN]

(* Every variable of the run has its type.                                 *)
TypeOK ==
    /\ phase \in Phases /\ at \in Points
    /\ j \in Nat /\ iter \in Nat /\ visits \in Nat
    /\ stopReason \in StopReasons
    /\ abortPrimary \in BOOLEAN /\ orchestrationError \in BOOLEAN
    /\ registered \in BOOLEAN
    /\ shouldStop \in BOOLEAN /\ abortTeardown \in BOOLEAN
    /\ directStop \in BOOLEAN
    /\ cancelInFlight \in BOOLEAN /\ cancelledOnWire \in BOOLEAN
    /\ teardownStarted \in BOOLEAN /\ teardownSkipped \in BOOLEAN
    /\ results \in Seq(RowType) /\ totals \in [Counters -> Nat] /\ emitted \in Nat

RowsOf(p) == {k \in DOMAIN results : results[k].phase = p}
NotRun(r) == r.text = "NOT_RUN"

(* The counters recordStep keeps beside the rows (and the history table    *)
(* stores) agree with what every results view computes from the rows, so   *)
(* a run never reads green in one place and red in another.                *)
TalliesMatchRows ==
    /\ totals.passed = Summary.passed
    /\ totals.failed = Summary.failed
    /\ totals.teardownFailed = Summary.teardownFailed

(* A hard stop that comes before cleanup leaves no trace of cleanup: all   *)
(* its rows read NOT_RUN and no run script runs after the click.           *)
HardStopSkipsCleanup ==
    directStop => \A k \in RowsOf("teardown") : NotRun(results[k])

(* No request leaves after a hard stop that came before cleanup, not even  *)
(* the one whose pre-request script was running when it came.              *)
HardStopSendsNothing == [][directStop /\ at # "wire" => at' # "wire"]_vars

(* A stop can abort something exactly while a request of a step or the     *)
(* fail script is in flight: it can never hit the request after it.        *)
AbortHandleIsCurrent ==
    cancelInFlight <=> (at = "wire" \/ phase = "failHook")

(* Cleanup and the run's closing scripts never move the verdict.           *)
CleanupKeepsVerdict ==
    [][teardownStarted => /\ totals'.passed = totals.passed
                          /\ totals'.failed = totals.failed
                          /\ RunFailed' = RunFailed]_vars

(* The stop reason of a finished run tells what the rows show.             *)
StopReasonMatchesRows ==
    (phase = "over" /\ teardownStarted /\ ~orchestrationError) =>
        /\ stopReason = "stoppedImmediately" <=> directStop
        /\ stopReason = "teardownAborted" => abortTeardown
        /\ stopReason = "cancelled" =>
             shouldStop /\ \E k \in RowsOf("main") : NotRun(results[k])
        /\ stopReason = "setupFailed" =>
             /\ \E k \in RowsOf("setup") : ScoredFailed(results[k])
             /\ \A k \in RowsOf("main") : NotRun(results[k])
        /\ stopReason = "stopOnError" =>
             StopOnError /\ \E k \in RowsOf("main") : ScoredFailed(results[k])
        /\ (\E k \in RowsOf("main") : results[k].stoppedRun) =>
             stopReason \in {"criticalFailed", "teardownAborted",
                             "stoppedImmediately"}
        /\ stopReason = "none" =>
             \A k \in DOMAIN results : ~NotRun(results[k])

(* The rows of the flow's requests, and their places in it: the setup      *)
(* requests, then the main flow with all its iterations.                   *)
FlowRows ==
    {k \in DOMAIN results : results[k].phase # "teardown" /\ results[k].idx # RunScript}
Place(r) == IF r.phase = "setup" THEN r.idx ELSE NSetup + FlowPosition(r.iter, r.idx)
IsFlowRow(r) ==
    \/ r.phase = "setup" /\ r.idx \in 1..NSetup
    \/ r.phase = "main" /\ r.idx \in 1..NMain /\ r.iter \in 1..Iterations

(* The rows are those of the first n places, one each and in this order.   *)
FlowReportedUpTo(n) ==
    /\ \A k \in FlowRows : IsFlowRow(results[k]) /\ Place(results[k]) \in 1..n
    /\ \A i \in 1..n : \E k \in FlowRows : Place(results[k]) = i
    /\ \A k, l \in FlowRows : k < l => Place(results[k]) < Place(results[l])

(* Without jumps, the report of a finished run has exactly one row for     *)
(* every setup request and for every request of every iteration, in the    *)
(* order of the run, whether it ran or not.                                *)
FlowReportedOnce ==
    (phase = "over" /\ teardownStarted /\ ~orchestrationError) =>
        FlowReportedUpTo(NSetup + Iterations * NMain)

(* The fail script runs for a red run only, after all of cleanup; and for  *)
(* every red run that was not stopped hard and did not end by an exception.*)
FailScriptForRedRuns ==
    LET failRows == {k \in RowsOf("teardown") : results[k].idx = FailScript}
    IN  /\ failRows \subseteq {Len(results)}
        /\ failRows # {} => /\ RunFailed /\ phase = "over"
                            /\ ~directStop /\ ~teardownSkipped
        /\ ( /\ phase = "over" /\ HasFail /\ RunFailed
             /\ ~abortTeardown /\ ~orchestrationError ) => failRows # {}

(* Every run ends, cycles of setNextRequest() included, as long as every   *)
(* request is answered (or has a time limit).                              *)
RunEnds == WF_vars(ServerAnswers) => <>(phase = "over")

(* A hard stop that comes before cleanup ends the run even if no server    *)
(* ever answers a request of a step again.                                 *)
HardStopEndsRun == directStop ~> (phase = "over")

-----------------------------------------------------------------------------
(* What the run looks like to its user.                                    *)

Stage ==
    CASE phase = "start" -> "idle"
      [] phase \in {"setupHook", "setup", "main"} -> "flow"
      [] phase \in {"teardown", "teardownHook", "closing", "failHook"} -> "cleanup"
      [] phase = "over" -> "closed"

Settled == {results[k].idx : k \in RowsOf("teardown")} \ {RunScript, FailScript}

Promise == INSTANCE RunPromise WITH
    N <- NTeardown, stage <- Stage, red <- RunFailed, hard <- abortTeardown,
    settled <- Settled, skipped <- teardownSkipped

(* Every run keeps the promise of RunPromise: its stages in order, the     *)
(* verdict settled before cleanup, each teardown request settled once and  *)
(* in order, cleanup given up only after a hard stop.                      *)
KeepsPromise == Promise!PSpec

-----------------------------------------------------------------------------
(* The inductive invariant behind the safety theorems of RunnerProofs.     *)

FlowPhases == {"start", "setupHook", "setup", "main"}
CleanupPhases == {"teardown", "teardownHook", "closing", "failHook"}

(* How the phases, the flags of a hard stop and the rows hang together: a  *)
(* hard stop that precedes cleanup keeps the run from leaving the head of  *)
(* the cleanup loop, so nothing is in flight and no row of it says more    *)
(* than NOT_RUN.                                                           *)
CleanupInv ==
    /\ phase \in CleanupPhases => teardownStarted
    /\ phase \in FlowPhases => ~teardownStarted
    /\ at = "wire" => ReadsSteps
    /\ AbortHandleIsCurrent
    /\ directStop => abortTeardown
    /\ (directStop /\ teardownStarted) =>
         phase \in {"teardown", "closing", "over"} /\ at = "head"
    /\ ~teardownStarted => \A k \in DOMAIN results :
                              results[k].phase # "teardown"
    /\ HardStopSkipsCleanup

=============================================================================
