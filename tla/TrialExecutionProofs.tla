--------------------------- MODULE TrialExecutionProofs ---------------------------
(***************************************************************************)
(* What one engine's trial, check or serve keeps, whichever faults may     *)
(* happen, whoever takes the address, whenever the operator interrupts.    *)
(***************************************************************************)
EXTENDS TrialExecution, TLAPS

USE DEF env, host, got, vars, Goto, Fine, Note, Look, FailWith

Checking  == {"lighteval", "lighteval_run", "capabilities", "capabilities_run", "collect"}
Measuring == {"benchmark", "benchmark_run", "metrics"}
Early     == {"new", "start", "token", "status", "answer", "clock", "loop"}
                 \cup Checking \cup Measuring
Ends      == {"served", "checked", "measured", "alive", "stop", "stopped", "finish", "left",
              "done"}

\* Nothing failed before the end of a stage; the listener is dropped before the
\* engine is started, and the handle before the outcome is told.
Where ==
    /\ pc \in Early \cup Ends
    /\ pc \in Early => failure = Nothing
    /\ pc \notin {"new", "left", "done"} => ~reserved
    /\ pc \in {"new", "start"} => engine = "none" /\ ~held
    /\ pc \in {"token", "status", "answer", "clock"} => engine # "none"
    /\ pc \in {"stopped", "finish", "left", "done"} => ~held
    /\ (mode = "check" => gate) /\ (mode = "serve" => ~gate)
    /\ pc = "loop" => mode = "serve"
    /\ pc \in Checking \cup {"checked"} => gate
    /\ pc \in Measuring \cup {"measured"} => mode = "trial"

\* An engine nobody holds is gone, unless it could not be stopped.
Owned == ~held => engine \in {"none", "dead"} \/ "stop" \in struck

\* Who had the address when; and what a failure is called.
Blamed ==
    /\ foreign /\ engine = "none" => "before" \in visits
    /\ foreign /\ engine # "none" => "after" \in visits
    /\ RefusedByAnother
    /\ failure # Nothing =>
         /\ failure.kind = "interrupted" => failure.interrupted
         /\ failure.interrupted => cancelled

GateDone == pc \in {"checked", "measured", "alive", "stop", "stopped", "finish"} \cup Measuring
BenchDone == pc \in {"measured", "alive", "stop", "stopped", "finish"}

\* As long as nothing failed, each stage that is over has its results.
Collected ==
    failure = Nothing =>
        /\ gate /\ GateDone => correctness # Nothing /\ correctness.status = "passed"
        /\ mode = "trial" /\ BenchDone => metrics # Nothing /\ metrics.valid

\* And they come from the engine: while it is not known to be dead, it is the
\* only one that was heard; once it was looked at, this is settled.
Answered ==
    failure = Nothing /\ "after" \notin visits =>
        /\ pc \in {"served", "checked", "measured", "alive", "loop"} \cup Checking \cup Measuring
             => engine \in {"serving", "dead"}
        /\ engine # "dead"
           /\ pc \in {"lighteval_run", "capabilities", "capabilities_run", "collect",
                      "benchmark_run", "metrics"}
             => heard = {"engine"}
        /\ gate /\ GateDone /\ (engine # "dead" \/ pc \in {"stop", "stopped", "finish"})
             => correctness.asked = {"engine"}
        /\ mode = "trial" /\ BenchDone /\ (engine # "dead" \/ pc \in {"stop", "stopped", "finish"})
             => metrics.measured = {"engine"}

\* What was returned, and what the check wrote.
Told ==
    /\ pc \notin {"left", "done"} => result = "none" /\ report = "none"
    /\ pc = "left" => result \in {"error", "interrupted"} /\ report = "none"
    /\ pc = "left" /\ mode = "check" => struck # {}
    /\ result = "success" => failure = Nothing
    /\ MeasuredTheEngine
    /\ CheckIsReported

\* The types, in three parts.
HostOK ==
    /\ mode \in Modes /\ gate \in BOOLEAN /\ probe \in BOOLEAN /\ reserved \in BOOLEAN
    /\ engine \in {"none", "loading", "serving", "dead"}
    /\ foreign \in BOOLEAN /\ visits \subseteq {"before", "after"}
    /\ cancelled \in BOOLEAN /\ late \in BOOLEAN /\ held \in BOOLEAN
    /\ foreign => engine # "serving" /\ ~reserved
    /\ heard \subseteq Voices
GotOK ==
    /\ failure \in {Nothing} \cup Failures
    /\ metrics \in {Nothing} \cup Measurements
    /\ correctness \in {Nothing} \cup Answers
ToldOK ==
    /\ result \in {"none", "success", "failed", "error", "interrupted"}
    /\ report \in {"none", "passed", "failed", "interrupted"}
    /\ struck \subseteq Faults

LEMMA TypeParts == TypeOK <=> HostOK /\ GotOK /\ ToldOK
  BY DEF TypeOK, HostOK, GotOK, ToldOK

Inv == HostOK /\ GotOK /\ ToldOK /\ Where /\ Owned /\ Blamed /\ Collected /\ Answered /\ Told

LEMMA InitTrial == Init => Inv
<1> SUFFICES ASSUME Init PROVE Inv
  OBVIOUS
<1>1. TypeOK
  BY TrialAssumption DEF Init, TypeOK, TrialAssumption
<1>2. Where /\ Owned
  BY DEF Init, Where, Owned, Early, Ends, Checking, Measuring
<1>3. Blamed
  BY DEF Init, Blamed, RefusedByAnother
<1>4. Collected /\ Answered
  BY DEF Init, Collected, Answered, GateDone, BenchDone, Checking, Measuring
<1>5. Told
  BY DEF Init, Told, MeasuredTheEngine, CheckIsReported
<1>6. QED BY <1>1, <1>2, <1>3, <1>4, <1>5, TypeParts DEF Inv

LEMMA Kind ==
  ASSUME NEW k \in Kinds
  PROVE  /\ Failure(k) \in Failures /\ Failure(k) # Nothing /\ Failure(k).kind = k
         /\ Failure(k).interrupted = (k = "interrupted")
<1>1. (k = "timeout") \in BOOLEAN /\ (k = "interrupted") \in BOOLEAN
  OBVIOUS
<1>2. \A b, c \in BOOLEAN : [kind |-> k, timedOut |-> b, interrupted |-> c] \in Failures
  BY DEF Failures
<1>3. Failure(k) \in Failures
  BY <1>1, <1>2, Zenon DEF Failure
<1>4. Failure(k).kind = k /\ Failure(k).interrupted = (k = "interrupted")
  BY DEF Failure
<1>5. QED BY <1>3, <1>4, NothingAssumption DEF NothingAssumption

LEMMA MergedKind ==
  ASSUME failure \in {Nothing} \cup Failures, NEW k \in Kinds
  PROVE  /\ Merged(k) \in Failures /\ Merged(k) # Nothing
         /\ failure = Nothing => Merged(k) = Failure(k)
         /\ failure # Nothing =>
              /\ Merged(k).kind = failure.kind
              /\ failure.timedOut => Merged(k).timedOut
              /\ Merged(k).interrupted = (failure.interrupted \/ k = "interrupted")
<1>1. CASE failure = Nothing
  BY <1>1, Kind DEF Merged
<1>2. CASE failure # Nothing
  <2>1. failure \in Failures
    BY <1>2
  <2>2. (failure.timedOut \/ k = "timeout") \in BOOLEAN
        /\ (failure.interrupted \/ k = "interrupted") \in BOOLEAN
    BY <2>1 DEF Failures
  <2>3. \A b, c \in BOOLEAN :
           LET f == [failure EXCEPT !.timedOut = b, !.interrupted = c]
           IN  f \in Failures /\ f.kind = failure.kind /\ f.timedOut = b /\ f.interrupted = c
    BY <2>1 DEF Failures
  <2>4. Merged(k) = [failure EXCEPT !.timedOut = failure.timedOut \/ k = "timeout",
                                    !.interrupted = failure.interrupted \/ k = "interrupted"]
    BY <1>2 DEF Merged
  <2>5. /\ Merged(k) \in Failures /\ Merged(k).kind = failure.kind
        /\ Merged(k).timedOut = (failure.timedOut \/ k = "timeout")
        /\ Merged(k).interrupted = (failure.interrupted \/ k = "interrupted")
    BY <2>2, <2>3, <2>4, Zenon
  <2>6. QED BY <1>2, <2>5, NothingAssumption DEF NothingAssumption
<1>3. QED BY <1>1, <1>2

LEMMA EngineKeeps ==
  ASSUME Inv, EngineServes \/ EngineDies
  PROVE  Inv'
<1>1. UNCHANGED <<env, got, pc, held, result, report, struck, reserved, foreign, visits, cancelled, late>>
  BY DEF EngineServes, EngineDies
<1>2. engine \in {"loading", "serving"} /\ engine' \in {"serving", "dead"}
      /\ (engine' = "serving" => engine = "loading" /\ ~foreign /\ ~reserved)
  BY DEF EngineServes, EngineDies
<1>3. heard' = IF Talking THEN heard \cup {Voice(engine', foreign)} ELSE heard
  BY DEF EngineServes, EngineDies, Hear
<1>4. Voice(engine', foreign) \in Voices
  BY DEF Voice, Voices
<1>5. HostOK' /\ GotOK' /\ ToldOK'
  BY <1>1, <1>2, <1>3, <1>4 DEF Inv, HostOK, GotOK, ToldOK
<1>6. Where' /\ Owned' /\ Collected' /\ Told'
  BY <1>1, <1>2 DEF Inv, Where, Owned, Collected, GateDone, BenchDone, Told, MeasuredTheEngine, CheckIsReported
<1>7. Blamed'
  BY <1>1, <1>2 DEF Inv, Blamed, RefusedByAnother
<1>8. Answered'
  BY <1>1, <1>2, <1>3 DEF Inv, Answered, GateDone, BenchDone, Where, Checking, Measuring, Ends, Early, Talking, Voice
<1>9. QED BY <1>5, <1>6, <1>7, <1>8 DEF Inv

LEMMA ForeignKeeps ==
  ASSUME Inv, ForeignBinds \/ ForeignLeaves
  PROVE  Inv'
<1>1. UNCHANGED <<env, got, pc, held, result, report, struck, reserved, engine, cancelled, late>>
  BY DEF ForeignBinds, ForeignLeaves
<1>2. /\ foreign' \in BOOLEAN
      /\ foreign' => visits' = visits \cup {IF engine = "none" THEN "before" ELSE "after"}
                     /\ ~reserved /\ engine # "serving"
      /\ ~foreign' => foreign /\ visits' = visits
  BY DEF ForeignBinds, ForeignLeaves
<1>3. heard' = IF Talking THEN heard \cup {Voice(engine, foreign')} ELSE heard
  BY DEF ForeignBinds, ForeignLeaves, Hear
<1>4. Voice(engine, foreign') \in Voices
  BY DEF Voice, Voices
<1>5. HostOK' /\ GotOK' /\ ToldOK'
  <2>1. visits' \subseteq {"before", "after"}
    BY <1>2 DEF Inv, HostOK, GotOK, ToldOK
  <2>2. heard' \subseteq Voices
    BY <1>3, <1>4 DEF Inv, HostOK, GotOK, ToldOK
  <2>3. QED BY <1>1, <1>2, <2>1, <2>2 DEF Inv, HostOK, GotOK, ToldOK
<1>6. Where' /\ Owned' /\ Collected' /\ Told'
  BY <1>1, <1>2 DEF Inv, Where, Owned, Collected, GateDone, BenchDone, Told, MeasuredTheEngine, CheckIsReported
<1>7. Blamed'
  BY <1>1, <1>2 DEF Inv, Blamed, RefusedByAnother
<1>8. Answered'
  <2>1. CASE "after" \in visits'
    BY <2>1 DEF Answered
  <2>2. CASE "after" \notin visits'
    <3>1. engine = "none"
      BY <2>2, <1>2 DEF Inv, Blamed
    <3>2. QED BY <3>1, <2>2, <1>1, <1>2, <1>3 DEF Inv, Answered, GateDone, BenchDone, Where, Checking, Measuring, Talking
  <2>3. QED BY <2>1, <2>2
<1>9. QED BY <1>5, <1>6, <1>7, <1>8 DEF Inv

LEMMA ClockKeeps ==
  ASSUME Inv, Cancel \/ StartupDeadline
  PROVE  Inv'
<1>1. UNCHANGED <<env, got, pc, held, heard, result, report, struck, reserved, engine, foreign, visits>>
  BY DEF Cancel, StartupDeadline
<1>2. cancelled' \in BOOLEAN /\ late' \in BOOLEAN /\ (cancelled => cancelled')
  BY DEF Cancel, StartupDeadline, Inv, HostOK, GotOK, ToldOK
<1>3. HostOK' /\ GotOK' /\ ToldOK' /\ Where' /\ Owned' /\ Collected' /\ Answered'
  BY <1>1, <1>2 DEF Inv, HostOK, GotOK, ToldOK, Where, Owned, Collected, Answered, GateDone, BenchDone
<1>4. Blamed' /\ Told'
  BY <1>1, <1>2 DEF Inv, Blamed, RefusedByAnother, Told, MeasuredTheEngine, CheckIsReported
<1>5. QED BY <1>3, <1>4 DEF Inv

-------------------------------------------------------------------------------
\* What giving the handle up does to the engine.
LEMMA BroughtDown ==
  ASSUME Inv, NEW faults, BringDown(faults)
  PROVE  /\ held' = FALSE /\ Owned' /\ HostOK'
         /\ engine' = engine \/ (engine' = "dead" /\ engine # "none")
         /\ struck \subseteq struck' /\ faults \subseteq struck' /\ struck' \subseteq Faults
         /\ UNCHANGED <<env, reserved, foreign, visits, cancelled, late, heard>>
<1>1. PICK F \in {{}, {"stop"}} :
         /\ faults \cup F \subseteq Faults /\ struck' = struck \cup faults \cup F
         /\ engine' = IF engine = "none" \/ ~held \/ F # {} THEN engine ELSE "dead"
  BY DEF BringDown
<1>2. held' = FALSE /\ UNCHANGED <<env, reserved, foreign, visits, cancelled, late, heard>>
  BY DEF BringDown
<1>3. Owned'
  BY <1>1, <1>2 DEF Inv, Owned
<1>4. HostOK'
  BY <1>1, <1>2 DEF Inv, HostOK
<1>5. QED BY <1>1, <1>2, <1>3, <1>4 DEF Inv, ToldOK

\* A stage that fails ends with a failure of a kind, and without an outcome.
LEMMA StageFails ==
  ASSUME Inv, NEW k \in Kinds, NEW to \in {"served", "checked", "measured", "stop"},
         failure = Nothing, pc \notin {"new", "left", "done"}, pc' = to, failure' = Failure(k),
         k = "inUse" => "before" \in visits, k = "interrupted" => cancelled,
         to = "checked" => gate, to = "measured" => mode = "trial",
         engine' = engine \/ (engine' = "dead" /\ engine # "none"),
         UNCHANGED <<env, reserved, foreign, visits, cancelled, late, result, report>>,
         HostOK', GotOK', ToldOK', Owned'
  PROVE  Inv'
<1>1. failure' # Nothing /\ failure'.kind = k /\ failure'.interrupted = (k = "interrupted")
  BY Kind
<1>2. Where'
  BY DEF Inv, Where, Early, Ends, Checking, Measuring
<1>3. Blamed'
  BY <1>1 DEF Inv, Blamed, RefusedByAnother
<1>4. Collected' /\ Answered'
  BY <1>1 DEF Collected, Answered
<1>5. Told'
  BY DEF Inv, Told, MeasuredTheEngine, CheckIsReported
<1>6. QED BY <1>2, <1>3, <1>4, <1>5 DEF Inv

\* So does one whose failure is all that changes.
LEMMA FailWithKeeps ==
  ASSUME Inv, NEW k \in Kinds, NEW to \in {"served", "checked", "measured", "stop"},
         failure = Nothing, pc \notin {"new", "left", "done"}, FailWith(k, to),
         k = "inUse" => "before" \in visits, k = "interrupted" => cancelled,
         to = "checked" => gate, to = "measured" => mode = "trial",
         struck \subseteq struck', struck' \subseteq Faults
  PROVE  Inv'
<1>1. HostOK' /\ GotOK' /\ ToldOK'
  BY Kind DEF Inv, HostOK, GotOK, ToldOK
<1>2. Owned'
  BY DEF Inv, Owned
<1>3. QED BY <1>1, <1>2, StageFails

\* An early return is an error that says so.
LEMMA LeaveEarlyKeeps ==
  ASSUME Inv, NEW f, LeaveEarly(f), pc \notin {"new", "left", "done"}
  PROVE  Inv'
<1>1. BringDown({f}) /\ pc' = "left" /\ result' = "error" /\ UNCHANGED <<got, report>>
  BY DEF LeaveEarly
<1>2. HostOK' /\ GotOK' /\ ToldOK'
  BY <1>1, BroughtDown DEF Inv, GotOK, ToldOK
<1>3. Where' /\ Owned' /\ Collected' /\ Answered'
  BY <1>1, BroughtDown DEF Inv, Where, Early, Ends, Checking, Measuring, Collected, Answered, GateDone, BenchDone
<1>4. Blamed'
  BY <1>1, BroughtDown DEF Inv, Blamed, RefusedByAnother
<1>5. Told'
  BY <1>1, BroughtDown DEF Inv, Told, MeasuredTheEngine, CheckIsReported
<1>6. QED BY <1>2, <1>3, <1>4, <1>5 DEF Inv

LEMMA ProgressKeeps ==
  ASSUME Inv, ProgressFails
  PROVE  Inv'
  BY LeaveEarlyKeeps DEF ProgressFails
-------------------------------------------------------------------------------
LEMMA PrepareKeeps ==
  ASSUME Inv, Prepare
  PROVE  Inv'
<1>1. pc = "new" /\ UNCHANGED prepareRest
  BY DEF Prepare
<1>2. CASE Note("dir") /\ pc' = "left" /\ result' = "error" /\ UNCHANGED <<reserved, failure>>
  <2>1. HostOK' /\ GotOK' /\ ToldOK'
    BY <1>1, <1>2 DEF Inv, HostOK, GotOK, ToldOK, prepareRest
  <2>2. Where' /\ Owned' /\ Blamed'
    BY <1>1, <1>2 DEF Inv, Where, Owned, Blamed, RefusedByAnother, Early, Ends, Checking, Measuring, prepareRest
  <2>3. Collected' /\ Answered' /\ Told'
    BY <1>1, <1>2 DEF Inv, Collected, Answered, GateDone, BenchDone, Checking, Measuring, Told, MeasuredTheEngine, CheckIsReported, prepareRest
  <2>4. QED BY <2>1, <2>2, <2>3 DEF Inv
<1>3. CASE Note("plan") /\ reserved' = FALSE /\ mode = "serve" /\ pc' = "left"
           /\ result' = "error" /\ UNCHANGED failure
  <2>1. HostOK' /\ GotOK' /\ ToldOK'
    BY <1>1, <1>3 DEF Inv, HostOK, GotOK, ToldOK, prepareRest
  <2>2. Where' /\ Owned' /\ Blamed'
    BY <1>1, <1>3 DEF Inv, Where, Owned, Blamed, RefusedByAnother, Early, Ends, Checking, Measuring, prepareRest
  <2>3. Collected' /\ Answered' /\ Told'
    BY <1>1, <1>3 DEF Inv, Collected, Answered, GateDone, BenchDone, Checking, Measuring, Told, MeasuredTheEngine, CheckIsReported, prepareRest
  <2>4. QED BY <2>1, <2>2, <2>3 DEF Inv
<1>4. CASE Note("plan") /\ reserved' = FALSE /\ pc' = "finish" /\ failure' = Failure("plan")
           /\ UNCHANGED result
  <2>1. failure' \in Failures /\ failure' # Nothing /\ failure'.kind = "plan"
        /\ failure'.interrupted = FALSE
    BY <1>4, Kind DEF Kinds
  <2>2. HostOK' /\ GotOK' /\ ToldOK'
    <3>1. HostOK'
      BY <1>1, <1>4 DEF Inv, HostOK, prepareRest
    <3>2. GotOK'
      BY <1>1, <2>1 DEF Inv, GotOK, prepareRest
    <3>3. ToldOK'
      BY <1>1, <1>4 DEF Inv, ToldOK, prepareRest
    <3>4. QED BY <3>1, <3>2, <3>3
  <2>3. Where' /\ Owned'
    BY <1>1, <1>4, <2>1 DEF Inv, Where, Owned, Early, Ends, Checking, Measuring, prepareRest
  <2>4. Blamed' /\ Collected' /\ Answered' /\ Told'
    BY <1>1, <1>4, <2>1 DEF Inv, Blamed, RefusedByAnother, Collected, Answered, Told, MeasuredTheEngine, CheckIsReported, prepareRest
  <2>5. QED BY <2>2, <2>3, <2>4 DEF Inv
<1>5. CASE Fine /\ reserved' = FALSE /\ pc' = "start" /\ UNCHANGED <<failure, result>>
  <2>1. HostOK' /\ GotOK' /\ ToldOK'
    <3>1. HostOK'
      BY <1>1, <1>5 DEF Inv, HostOK, prepareRest
    <3>2. GotOK' /\ ToldOK'
      BY <1>1, <1>5 DEF Inv, GotOK, ToldOK, prepareRest
    <3>3. QED BY <3>1, <3>2
  <2>2. Where' /\ Owned'
    BY <1>1, <1>5 DEF Inv, Where, Owned, Early, Ends, Checking, Measuring, prepareRest
  <2>3. Blamed' /\ Collected' /\ Answered' /\ Told'
    BY <1>1, <1>5 DEF Inv, Blamed, RefusedByAnother, Collected, Answered, GateDone, BenchDone, Checking, Measuring, Told, MeasuredTheEngine, CheckIsReported, prepareRest
  <2>4. QED BY <2>1, <2>2, <2>3 DEF Inv
<1>6. QED BY <1>2, <1>3, <1>4, <1>5 DEF Prepare

LEMMA LaunchKeeps ==
  ASSUME Inv, Launch
  PROVE  Inv'
<1>1. HostOK' /\ GotOK' /\ ToldOK' /\ Owned' /\ Blamed'
  BY DEF Launch, Taken, Inv, HostOK, GotOK, ToldOK, Where, Owned, Blamed, RefusedByAnother
<1>2. Where' /\ Collected' /\ Answered'
  BY DEF Launch, Inv, Where, Early, Ends, Checking, Measuring, Collected, Answered, GateDone, BenchDone
<1>3. Told'
  BY DEF Launch, Inv, Told, MeasuredTheEngine, CheckIsReported
<1>4. QED BY <1>1, <1>2, <1>3 DEF Inv

LEMMA LaunchFailsKeeps ==
  ASSUME Inv, LaunchFails
  PROVE  Inv'
<1>1. pc = "start" /\ failure = Nothing /\ engine = "none" /\ ~reserved
  BY DEF LaunchFails, Inv, Where, Early
<1>2. struck \subseteq struck' /\ struck' \subseteq Faults
  BY DEF LaunchFails, Inv, HostOK, GotOK, ToldOK
<1>3. CASE Taken /\ FailWith("inUse", "served")
  <2>1. "before" \in visits
    BY <1>1, <1>3 DEF Taken, Inv, Blamed
  <2>2. QED BY <1>1, <1>2, <1>3, <2>1, FailWithKeeps DEF Kinds
<1>4. CASE cancelled /\ FailWith("interrupted", "served")
  BY <1>1, <1>2, <1>4, FailWithKeeps DEF Kinds
<1>5. CASE FailWith("io", "served")
  BY <1>1, <1>2, <1>5, FailWithKeeps DEF Kinds
<1>6. QED BY <1>3, <1>4, <1>5 DEF LaunchFails
-------------------------------------------------------------------------------
\* A step that only moves the thread on.
LEMMA LookKeeps ==
  ASSUME Inv, NEW at, NEW to, Look(at, to), at \notin {"left", "done"}, to \notin {"left", "done"},
         Where', Collected', Answered'
  PROVE  Inv'
<1>1. HostOK' /\ GotOK' /\ ToldOK'
  BY DEF Inv, HostOK, GotOK, ToldOK
<1>2. Owned' /\ Blamed'
  BY DEF Inv, Owned, Blamed, RefusedByAnother
<1>3. Told'
  BY DEF Inv, Told, MeasuredTheEngine, CheckIsReported
<1>4. QED BY <1>1, <1>2, <1>3 DEF Inv

LEMMA GiveUpKeeps ==
  ASSUME Inv, NEW at \in {"token", "status", "clock"},
         NEW k \in {"interrupted", "exit", "io", "timeout"}, NEW faults,
         GiveUp(at, k, faults), k = "interrupted" => cancelled
  PROVE  Inv'
<1>1. /\ pc = at /\ pc' = "served" /\ BringDown(faults) /\ failure' = Failure(k)
      /\ UNCHANGED <<metrics, correctness, result, report>>
  BY DEF GiveUp
<1>2. k \in Kinds /\ failure = Nothing
  BY <1>1 DEF Kinds, Inv, Where, Early
<1>3. HostOK' /\ Owned'
  BY <1>1, BroughtDown
<1>4. GotOK' /\ ToldOK'
  <2>1. struck' \subseteq Faults
    BY <1>1, BroughtDown
  <2>2. failure' \in Failures
    BY <1>1, <1>2, Kind
  <2>3. QED BY <1>1, <2>1, <2>2 DEF Inv, GotOK, ToldOK
<1>5. engine' = engine \/ (engine' = "dead" /\ engine # "none")
  BY <1>1, BroughtDown
<1>6. UNCHANGED <<env, reserved, foreign, visits, cancelled, late>>
  BY <1>1, BroughtDown
<1>7. QED BY <1>1, <1>2, <1>3, <1>4, <1>5, <1>6, StageFails

LEMMA WaitReadyKeeps ==
  ASSUME Inv, WaitReady
  PROVE  Inv'
<1>1. ASSUME NEW at \in {"token", "status", "answer", "clock"},
             NEW to \in {"token", "status", "answer", "clock"}, Look(at, to)
      PROVE  Inv'
  <2>1. Where' /\ Collected' /\ Answered'
    BY <1>1 DEF Inv, Where, Early, Ends, Checking, Measuring, Collected, Answered, GateDone, BenchDone
  <2>2. QED BY <1>1, <2>1, LookKeeps
<1>2. ASSUME Voice(engine, foreign) # "nobody", Look("answer", "served")
      PROVE  Inv'
  <2>1. foreign \/ engine = "serving"
    BY <1>2 DEF Voice
  <2>2. "after" \notin visits => engine = "serving"
    BY <1>2, <2>1 DEF Inv, Blamed, Where, Early
  <2>3. Where' /\ Collected' /\ Answered'
    BY <1>2, <2>2 DEF Inv, Where, Early, Ends, Checking, Measuring, Collected, Answered, GateDone, BenchDone
  <2>4. QED BY <1>2, <2>3, LookKeeps
<1>3. QED BY <1>1, <1>2, GiveUpKeeps DEF WaitReady, Clock

LEMMA StageEndsKeeps ==
  ASSUME Inv, StageEnds
  PROVE  Inv'
<1>1. CASE Look("served", AfterServed)
  <2>1. CASE failure = Nothing
    <3>1. \/ AfterServed = "loop" /\ mode = "serve"
          \/ AfterServed = "lighteval" /\ gate
          \/ AfterServed = "benchmark" /\ mode = "trial" /\ ~gate
      BY <2>1, TrialAssumption DEF AfterServed, Inv, Where, HostOK, TrialAssumption
    <3>2. Where'
      BY <1>1, <2>1, <3>1 DEF Inv, Where, Early, Ends, Checking, Measuring
    <3>3. Collected' /\ Answered'
      BY <1>1, <2>1, <3>1 DEF Inv, Collected, Answered, GateDone, BenchDone, Checking, Measuring
    <3>4. QED BY <1>1, <3>1, <3>2, <3>3, LookKeeps
  <2>2. CASE failure # Nothing
    <3>1. AfterServed = "alive" \/ (AfterServed = "finish" /\ ~held)
      BY <2>2 DEF AfterServed
    <3>2. Where'
      BY <1>1, <2>2, <3>1 DEF Inv, Where, Early, Ends, Checking, Measuring
    <3>3. Collected' /\ Answered'
      BY <1>1, <2>2 DEF Collected, Answered
    <3>4. QED BY <1>1, <3>1, <3>2, <3>3, LookKeeps
  <2>3. QED BY <2>1, <2>2
<1>2. CASE Look("checked", AfterChecked)
  <2>1. \/ AfterChecked = "benchmark" /\ mode = "trial" /\ failure = Nothing
        \/ AfterChecked = "alive" /\ (mode # "trial" \/ failure # Nothing)
    BY DEF AfterChecked
  <2>2. Where' /\ Collected' /\ Answered'
    BY <1>2, <2>1 DEF Inv, Where, Early, Ends, Checking, Measuring, Collected, Answered, GateDone, BenchDone
  <2>3. QED BY <1>2, <2>1, <2>2, LookKeeps
<1>3. CASE Look("measured", "alive")
  <2>1. Where' /\ Collected' /\ Answered'
    BY <1>3 DEF Inv, Where, Early, Ends, Checking, Measuring, Collected, Answered, GateDone, BenchDone
  <2>2. QED BY <1>3, <2>1, LookKeeps
<1>4. QED BY <1>1, <1>2, <1>3 DEF StageEnds

LEMMA ClientStartsKeeps ==
  ASSUME Inv, NEW c \in Clients, ClientStarts(c)
  PROVE  Inv'
<1>1. /\ pc = c /\ failure = Nothing
      /\ Missed(c) \in {"checked", "measured"}
      /\ Missed(c) = "checked" => gate
      /\ Missed(c) = "measured" => mode = "trial"
  BY DEF ClientStarts, Missed, Inv, Where, Early, Checking, Measuring, Clients
<1>2. CASE /\ Fine /\ pc' = Running(c)
           /\ heard' = (IF c = "capabilities" THEN heard ELSE {}) \cup {Voice(engine, foreign)}
           /\ UNCHANGED <<env, host, held, got, result, report>>
  <2>1. \/ c = "lighteval" /\ pc' = "lighteval_run"
        \/ c = "capabilities" /\ pc' = "capabilities_run"
        \/ c = "benchmark" /\ pc' = "benchmark_run"
    BY <1>2 DEF Running, Clients
  <2>2. HostOK' /\ GotOK' /\ ToldOK'
    <3>1. heard' \subseteq Voices
      BY <1>2 DEF Voice, Voices, Inv, HostOK
    <3>2. QED BY <1>2, <3>1 DEF Inv, HostOK, GotOK, ToldOK
  <2>3. Where' /\ Owned' /\ Blamed'
    BY <1>1, <1>2, <2>1 DEF Inv, Where, Owned, Blamed, RefusedByAnother, Early, Ends, Checking, Measuring
  <2>4. Collected'
    BY <1>1, <1>2, <2>1 DEF Inv, Collected, GateDone, BenchDone, Measuring
  <2>5. Answered'
    <3>1. SUFFICES ASSUME "after" \notin visits PROVE Answered'
      BY <1>2 DEF Answered
    <3>2. engine \in {"serving", "dead"} /\ ~foreign
      BY <1>1, <3>1 DEF Inv, Answered, Blamed, HostOK, Checking, Measuring, Clients
    <3>3. engine # "dead" => heard' = {"engine"}
      BY <1>1, <1>2, <3>1, <3>2 DEF Voice, Inv, Answered, Clients
    <3>4. QED BY <1>1, <1>2, <2>1, <3>1, <3>2, <3>3
              DEF Inv, Answered, GateDone, BenchDone, Checking, Measuring
  <2>6. Told'
    BY <1>1, <1>2, <2>1 DEF Inv, Told, MeasuredTheEngine, CheckIsReported
  <2>7. QED BY <2>2, <2>3, <2>4, <2>5, <2>6 DEF Inv
<1>3. CASE cancelled /\ Fine /\ FailWith("interrupted", Missed(c))
  BY <1>1, <1>3, FailWithKeeps DEF Kinds, Inv, ToldOK, Clients
<1>4. CASE Note("spawn") /\ FailWith("io", Missed(c))
  <2>1. struck \subseteq struck' /\ struck' \subseteq Faults
    BY <1>4 DEF Inv, ToldOK
  <2>2. QED BY <1>1, <1>4, <2>1, FailWithKeeps DEF Kinds, Clients
<1>5. CASE LeaveEarly("dir")
  BY <1>1, <1>5, LeaveEarlyKeeps DEF Clients
<1>6. QED BY <1>2, <1>3, <1>4, <1>5 DEF ClientStarts

LEMMA ClientEndsKeeps ==
  ASSUME Inv, NEW c \in Clients, ClientEnds(c)
  PROVE  Inv'
<1>1. /\ pc = Running(c) /\ pc \in {"lighteval_run", "capabilities_run", "benchmark_run"}
      /\ failure = Nothing /\ Missed(c) \in {"checked", "measured"}
      /\ Missed(c) = "checked" => gate
      /\ Missed(c) = "measured" => mode = "trial"
  BY DEF ClientEnds, Running, Missed, Inv, Where, Early, Checking, Measuring, Clients
<1>2. CASE Look(Running(c), Read(c))
  <2>1. \/ pc = "lighteval_run" /\ Read(c) \in {"capabilities", "collect"}
        \/ pc = "capabilities_run" /\ Read(c) = "collect"
        \/ pc = "benchmark_run" /\ Read(c) = "metrics"
    BY <1>1 DEF Running, Read, Clients
  <2>2. Where'
    BY <1>2, <2>1 DEF Inv, Where, Early, Ends, Checking, Measuring
  <2>3. Collected' /\ Answered'
    BY <1>2, <2>1 DEF Inv, Collected, Answered, GateDone, BenchDone, Checking, Measuring
  <2>4. QED BY <1>1, <1>2, <2>1, <2>2, <2>3, LookKeeps
<1>3. CASE cancelled /\ Fine /\ FailWith("interrupted", Missed(c))
  BY <1>1, <1>3, FailWithKeeps DEF Kinds, Inv, ToldOK
<1>4. ASSUME NEW f, Note(f), NEW k \in {"cleanup", "timeout", "exit", "io"}, FailWith(k, Missed(c))
      PROVE  Inv'
  <2>1. struck \subseteq struck' /\ struck' \subseteq Faults
    BY <1>4 DEF Inv, ToldOK
  <2>2. QED BY <1>1, <1>4, <2>1, FailWithKeeps DEF Kinds
<1>5. QED BY <1>1, <1>2, <1>3, <1>4 DEF ClientEnds
-------------------------------------------------------------------------------
LEMMA CollectKeeps ==
  ASSUME Inv, Collect
  PROVE  Inv'
<1>1. /\ pc = "collect" /\ pc' = "checked" /\ failure = Nothing /\ gate
      /\ UNCHANGED <<env, host, held, heard, metrics, result, report>>
  BY DEF Collect, Inv, Where, Early, Checking
<1>2. HostOK' /\ Owned' /\ ToldOK'
  <2>1. struck' \subseteq Faults
    BY DEF Collect, Inv, ToldOK
  <2>2. struck \subseteq struck'
    BY DEF Collect
  <2>3. QED BY <1>1, <2>1, <2>2 DEF Inv, HostOK, Owned, ToldOK
<1>3. ASSUME NEW status \in {"passed", "failed"},
             correctness' = [status |-> status, asked |-> heard]
      PROVE  correctness' \in Answers /\ correctness' # Nothing
  <2>1. correctness' \in Answers
    BY <1>3 DEF Answers, Inv, HostOK
  <2>2. QED BY <2>1, NothingAssumption DEF NothingAssumption
<1>4. ASSUME correctness' \in {Nothing} \cup Answers,
             NEW k \in {"results", "gate"}, failure' = Failure(k)
      PROVE  Inv'
  <2>1. GotOK'
    BY <1>1, <1>4, Kind DEF Inv, GotOK, Kinds
  <2>2. QED BY <1>1, <1>2, <1>4, <2>1, StageFails DEF Kinds
<1>5. ASSUME correctness' = [status |-> "passed", asked |-> heard], UNCHANGED failure
      PROVE  Inv'
  <2>1. correctness' \in Answers /\ correctness' # Nothing
        /\ correctness'.status = "passed" /\ correctness'.asked = heard
    BY <1>3, <1>5
  <2>2. GotOK' /\ Where' /\ Blamed'
    BY <1>1, <1>5, <2>1 DEF Inv, GotOK, Where, Early, Ends, Checking, Measuring, Blamed, RefusedByAnother
  <2>3. Collected' /\ Answered'
    BY <1>1, <1>5, <2>1 DEF Inv, Collected, Answered, GateDone, BenchDone, Checking, Measuring
  <2>4. Told'
    BY <1>1, <1>5 DEF Inv, Told, MeasuredTheEngine, CheckIsReported
  <2>5. QED BY <1>2, <2>2, <2>3, <2>4 DEF Inv
<1>6. CASE failure' = Failure("results") /\ UNCHANGED correctness
  BY <1>4, <1>6 DEF Inv, GotOK
<1>7. CASE \E status \in {"passed", "failed"} :
             /\ correctness' = [status |-> status, asked |-> heard]
             /\ failure' = IF status = "passed" THEN failure ELSE Failure("gate")
  <2>1. PICK status \in {"passed", "failed"} :
             /\ correctness' = [status |-> status, asked |-> heard]
             /\ failure' = IF status = "passed" THEN failure ELSE Failure("gate")
    BY <1>7
  <2>2. CASE status = "passed"
    BY <1>5, <2>1, <2>2
  <2>3. CASE status = "failed"
    BY <1>3, <1>4, <2>1, <2>3
  <2>4. QED BY <2>2, <2>3
<1>8. QED BY <1>6, <1>7 DEF Collect

LEMMA ReadMetricsKeeps ==
  ASSUME Inv, ReadMetrics
  PROVE  Inv'
<1>1. /\ pc = "metrics" /\ pc' = "measured" /\ failure = Nothing /\ mode = "trial"
      /\ UNCHANGED <<env, host, held, heard, correctness, result, report>>
  BY DEF ReadMetrics, Inv, Where, Early, Measuring
<1>2. HostOK' /\ Owned' /\ ToldOK'
  <2>1. struck' \subseteq Faults
    BY DEF ReadMetrics, Inv, ToldOK
  <2>2. struck \subseteq struck'
    BY DEF ReadMetrics
  <2>3. QED BY <1>1, <2>1, <2>2 DEF Inv, HostOK, Owned, ToldOK
<1>3. ASSUME NEW valid \in BOOLEAN, metrics' = [valid |-> valid, measured |-> heard]
      PROVE  metrics' \in Measurements /\ metrics' # Nothing
  <2>1. metrics' \in Measurements
    BY <1>3 DEF Measurements, Inv, HostOK
  <2>2. QED BY <2>1, NothingAssumption DEF NothingAssumption
<1>4. ASSUME metrics' \in {Nothing} \cup Measurements, failure' = Failure("metrics")
      PROVE  Inv'
  <2>1. GotOK'
    BY <1>1, <1>4, Kind DEF Inv, GotOK, Kinds
  <2>2. QED BY <1>1, <1>2, <1>4, <2>1, StageFails DEF Kinds
<1>5. ASSUME metrics' = [valid |-> TRUE, measured |-> heard], UNCHANGED failure
      PROVE  Inv'
  <2>1. metrics' \in Measurements /\ metrics' # Nothing
        /\ metrics'.valid /\ metrics'.measured = heard
    BY <1>3, <1>5
  <2>2. GotOK' /\ Where' /\ Blamed'
    BY <1>1, <1>5, <2>1 DEF Inv, GotOK, Where, Early, Ends, Checking, Measuring, Blamed, RefusedByAnother
  <2>3. Collected' /\ Answered'
    BY <1>1, <1>5, <2>1 DEF Inv, Collected, Answered, GateDone, BenchDone, Checking, Measuring
  <2>4. Told'
    BY <1>1, <1>5 DEF Inv, Told, MeasuredTheEngine, CheckIsReported
  <2>5. QED BY <1>2, <2>2, <2>3, <2>4 DEF Inv
<1>6. CASE failure' = Failure("metrics") /\ UNCHANGED metrics
  BY <1>4, <1>6 DEF Inv, GotOK
<1>7. CASE \E valid \in BOOLEAN :
             /\ metrics' = [valid |-> valid, measured |-> heard]
             /\ failure' = IF valid THEN failure ELSE Failure("metrics")
  <2>1. PICK valid \in BOOLEAN :
             /\ metrics' = [valid |-> valid, measured |-> heard]
             /\ failure' = IF valid THEN failure ELSE Failure("metrics")
    BY <1>7
  <2>2. CASE valid = TRUE
    BY <1>5, <2>1, <2>2
  <2>3. CASE valid = FALSE
    BY <1>3, <1>4, <2>1, <2>3
  <2>4. QED BY <2>2, <2>3
<1>8. QED BY <1>6, <1>7 DEF ReadMetrics

LEMMA CheckAliveKeeps ==
  ASSUME Inv, CheckAlive
  PROVE  Inv'
<1>1. pc = "alive"
  BY DEF CheckAlive
<1>2. CASE (failure # Nothing \/ engine # "dead") /\ Look("alive", "stop")
  <2>1. Where' /\ Collected'
    BY <1>2 DEF Inv, Where, Early, Ends, Checking, Measuring, Collected, GateDone, BenchDone
  <2>2. Answered'
    BY <1>2 DEF Inv, Answered, GateDone, BenchDone, Checking, Measuring
  <2>3. QED BY <1>2, <2>1, <2>2, LookKeeps
<1>3. ASSUME failure = Nothing, NEW k \in {"exit", "io"}, FailWith(k, "stop"),
             struck \subseteq struck', struck' \subseteq Faults
      PROVE  Inv'
  BY <1>1, <1>3, FailWithKeeps DEF Kinds
<1>4. CASE failure = Nothing /\ Fine /\ FailWith("exit", "stop")
  BY <1>3, <1>4 DEF Inv, ToldOK
<1>5. CASE failure = Nothing /\ Note("poll") /\ FailWith("io", "stop")
  <2>1. struck \subseteq struck' /\ struck' \subseteq Faults
    BY <1>5 DEF Inv, ToldOK
  <2>2. QED BY <1>3, <1>5, <2>1
<1>6. QED BY <1>2, <1>4, <1>5 DEF CheckAlive

LEMMA StopKeeps ==
  ASSUME Inv, Stop
  PROVE  Inv'
<1>1. PICK faults : BringDown(faults)
  BY DEF Stop
<1>2. pc = "stop" /\ pc' = "stopped" /\ UNCHANGED <<metrics, correctness, result, report>>
  BY DEF Stop
<1>3. failure' = failure \/ \E k \in {"io", "cleanup", "timeout"} : failure' = Merged(k)
  BY DEF Stop
<1>4. HostOK' /\ Owned'
  BY <1>1, BroughtDown
<1>5. struck' \subseteq Faults /\ UNCHANGED <<env, reserved, foreign, visits, cancelled, late, heard>>
      /\ held' = FALSE /\ (engine' = engine \/ (engine' = "dead" /\ engine # "none"))
  BY <1>1, BroughtDown
<1>6. /\ failure' \in {Nothing} \cup Failures
      /\ failure' = Nothing => failure = Nothing
      /\ failure # Nothing => /\ failure'.kind = failure.kind
                              /\ failure'.interrupted = failure.interrupted
      /\ failure = Nothing /\ failure' # Nothing
           => failure'.kind \notin {"inUse", "interrupted"} /\ ~failure'.interrupted
  <2>1. CASE failure' = failure
    BY <2>1 DEF Inv, GotOK
  <2>2. CASE \E k \in {"io", "cleanup", "timeout"} : failure' = Merged(k)
    <3>1. PICK k \in {"io", "cleanup", "timeout"} : failure' = Merged(k)
      BY <2>2
    <3>2. k \in Kinds /\ failure \in {Nothing} \cup Failures
      BY DEF Kinds, Inv, GotOK
    <3>3. QED BY <3>1, <3>2, MergedKind, Kind, Zenon DEF Failures
  <2>3. QED BY <1>3, <2>1, <2>2
<1>7. GotOK' /\ ToldOK'
  BY <1>2, <1>5, <1>6 DEF Inv, GotOK, ToldOK
<1>8. Where'
  BY <1>2, <1>5 DEF Inv, Where, Early, Ends, Checking, Measuring
<1>9. Blamed'
  BY <1>5, <1>6 DEF Inv, Blamed, RefusedByAnother
<1>10. Collected' /\ Answered'
  BY <1>2, <1>5, <1>6 DEF Inv, Collected, Answered, GateDone, BenchDone, Checking, Measuring
<1>11. Told'
  BY <1>2 DEF Inv, Told, MeasuredTheEngine, CheckIsReported
<1>12. QED BY <1>4, <1>7, <1>8, <1>9, <1>10, <1>11 DEF Inv

LEMMA StoppedEndsKeeps ==
  ASSUME Inv, StoppedEnds
  PROVE  Inv'
<1>1. Look("stopped", "finish")
  BY DEF StoppedEnds
<1>2. Where' /\ Collected' /\ Answered'
  BY <1>1 DEF Inv, Where, Early, Ends, Checking, Measuring, Collected, Answered, GateDone, BenchDone
<1>3. QED BY <1>1, <1>2, LookKeeps
-------------------------------------------------------------------------------
LEMMA ServeLoopKeeps ==
  ASSUME Inv, ServeLoop
  PROVE  Inv'
<1>1. PICK faults : BringDown(faults)
  BY DEF ServeLoop
<1>2. /\ pc = "loop" /\ pc' = "left" /\ result' \in {"interrupted", "error"}
      /\ UNCHANGED <<got, report>>
  BY DEF ServeLoop
<1>3. mode = "serve" /\ failure = Nothing
  BY <1>2 DEF Inv, Where, Early
<1>4. /\ HostOK' /\ Owned' /\ held' = FALSE /\ struck' \subseteq Faults
      /\ UNCHANGED <<env, reserved, foreign, visits, cancelled, late, heard>>
      /\ engine' = engine \/ (engine' = "dead" /\ engine # "none")
  BY <1>1, BroughtDown
<1>5. GotOK' /\ ToldOK'
  BY <1>2, <1>4 DEF Inv, GotOK, ToldOK
<1>6. Where' /\ Blamed'
  BY <1>2, <1>4 DEF Inv, Where, Early, Ends, Checking, Measuring, Blamed, RefusedByAnother
<1>7. Collected' /\ Answered'
  BY <1>2 DEF Collected, Answered, GateDone, BenchDone, Checking, Measuring
<1>8. Told'
  BY <1>2, <1>3, <1>4 DEF Inv, Told, MeasuredTheEngine, CheckIsReported
<1>9. QED BY <1>4, <1>5, <1>6, <1>7, <1>8 DEF Inv

\* A success tells what the last stages have collected.
LEMMA SuccessIsMeasured ==
  ASSUME Inv, pc = "finish", failure = Nothing, "after" \notin visits
  PROVE  /\ mode = "trial" => metrics # Nothing /\ metrics.valid /\ metrics.measured = {"engine"}
         /\ gate => correctness = [status |-> "passed", asked |-> {"engine"}]
<1>1. mode = "trial" => metrics # Nothing /\ metrics.valid /\ metrics.measured = {"engine"}
  BY DEF Inv, Collected, Answered, BenchDone
<1>2. ASSUME gate
      PROVE  correctness = [status |-> "passed", asked |-> {"engine"}]
  <2>1. correctness # Nothing /\ correctness.status = "passed" /\ correctness.asked = {"engine"}
    BY <1>2 DEF Inv, Collected, Answered, GateDone
  <2>2. correctness \in Answers
    BY <2>1 DEF Inv, GotOK
  <2>3. QED BY <2>1, <2>2 DEF Answers
<1>3. QED BY <1>1, <1>2

\* What every end of the thread leaves as it is.
LEMMA DoneKeeps ==
  ASSUME Inv, pc \in {"finish", "left"}, pc' = "done", UNCHANGED <<env, host, held, heard, got>>,
         struck \subseteq struck', ToldOK', Told'
  PROVE  Inv'
<1>1. HostOK' /\ GotOK' /\ Owned' /\ Blamed'
  BY DEF Inv, HostOK, GotOK, Owned, Blamed, RefusedByAnother
<1>2. Where' /\ Collected' /\ Answered'
  BY DEF Inv, Where, Early, Ends, Checking, Measuring, Collected, Answered, GateDone, BenchDone
<1>3. QED BY <1>1, <1>2 DEF Inv

LEMMA FinishKeeps ==
  ASSUME Inv, Finish
  PROVE  Inv'
<1>1. /\ pc = "finish" /\ pc' = "done" /\ mode # "check" /\ struck \subseteq struck'
      /\ UNCHANGED <<env, host, held, heard, got, report>>
  BY DEF Finish
<1>2. result' \in {"interrupted", "error", "failed"}
      \/ (result' = "success" /\ failure = Nothing)
  BY DEF Finish
<1>3. ToldOK'
  <2>1. struck' \subseteq Faults
    BY DEF Finish, Inv, ToldOK
  <2>2. QED BY <1>1, <1>2, <2>1 DEF Inv, ToldOK
<1>4. MeasuredTheEngine'
  BY <1>1, <1>2, SuccessIsMeasured DEF MeasuredTheEngine
<1>5. Told'
  BY <1>1, <1>2, <1>4 DEF Told, CheckIsReported
<1>6. QED BY <1>1, <1>3, <1>5, DoneKeeps

LEMMA CheckEndsKeeps ==
  ASSUME Inv, CheckEnds
  PROVE  Inv'
<1>1. /\ mode = "check" /\ gate /\ pc \in {"finish", "left"} /\ pc' = "done"
      /\ UNCHANGED <<env, host, held, heard, got>>
  BY DEF CheckEnds, Inv, Where
<1>2. struck \subseteq struck' /\ struck' \subseteq Faults
  <2>1. struck' = struck \/ \E f \in Faults : struck' = struck \cup {f}
    BY DEF CheckEnds
  <2>2. QED BY <2>1 DEF Inv, ToldOK
<1>3. CASE /\ pc = "finish" /\ failure = Nothing /\ Fine
           /\ report' = correctness.status /\ result' = "success"
  <2>1. report' = "passed"
    BY <1>1, <1>3 DEF Inv, Collected, GateDone
  <2>2. MeasuredTheEngine'
    BY <1>1, <1>3, SuccessIsMeasured DEF MeasuredTheEngine
  <2>3. Told' /\ ToldOK'
    BY <1>1, <1>2, <1>3, <2>1, <2>2 DEF Told, ToldOK, CheckIsReported
  <2>4. QED BY <1>1, <1>2, <2>3, DoneKeeps
<1>4. CASE /\ pc = "finish" /\ failure # Nothing /\ Fine
           /\ report' = (IF failure.interrupted THEN "interrupted" ELSE "failed")
           /\ result' = "error"
  <2>1. Told' /\ ToldOK'
    BY <1>1, <1>2, <1>4 DEF Inv, Blamed, Told, ToldOK, MeasuredTheEngine, CheckIsReported
  <2>2. QED BY <1>1, <1>2, <2>1, DoneKeeps
<1>5. CASE /\ report' = "failed" /\ result' = "error"
           /\ (Fine /\ pc = "left") \/ struck' # {}
  <2>1. struck' # {}
    BY <1>1, <1>5 DEF Inv, Told
  <2>2. Told' /\ ToldOK'
    BY <1>1, <1>2, <1>5, <2>1 DEF Told, ToldOK, MeasuredTheEngine, CheckIsReported
  <2>3. QED BY <1>1, <1>2, <2>2, DoneKeeps
<1>6. CASE Note("persist") /\ UNCHANGED report /\ result' = "error"
  <2>1. Told' /\ ToldOK'
    BY <1>1, <1>2, <1>6 DEF Inv, Told, ToldOK, MeasuredTheEngine, CheckIsReported
  <2>2. QED BY <1>1, <1>2, <2>1, DoneKeeps
<1>7. QED BY <1>3, <1>4, <1>5, <1>6 DEF CheckEnds

LEMMA NextTrial == Inv /\ [Next]_vars => Inv'
<1>1. ASSUME Inv, UNCHANGED vars PROVE Inv'
  <2>1. HostOK' /\ GotOK' /\ ToldOK' /\ Owned' /\ Blamed'
    BY <1>1 DEF Inv, HostOK, GotOK, ToldOK, Owned, Blamed, RefusedByAnother
  <2>2. Where' /\ Collected' /\ Answered' /\ Told'
    BY <1>1 DEF Inv, Where, Collected, Answered, GateDone, BenchDone, Told, MeasuredTheEngine, CheckIsReported
  <2>3. QED BY <2>1, <2>2 DEF Inv
<1>2. ASSUME Inv, Thread PROVE Inv'
  <2>1. CASE Prepare \/ Launch \/ LaunchFails \/ WaitReady \/ ProgressFails \/ StageEnds
    BY <1>2, <2>1, PrepareKeeps, LaunchKeeps, LaunchFailsKeeps, WaitReadyKeeps, ProgressKeeps, StageEndsKeeps
  <2>2. CASE \E c \in Clients : ClientStarts(c) \/ ClientEnds(c)
    BY <1>2, <2>2, ClientStartsKeeps, ClientEndsKeeps
  <2>3. CASE Collect \/ ReadMetrics \/ CheckAlive \/ Stop \/ StoppedEnds \/ ServeLoop \/ Finish \/ CheckEnds
    BY <1>2, <2>3, CollectKeeps, ReadMetricsKeeps, CheckAliveKeeps, StopKeeps, StoppedEndsKeeps,
       ServeLoopKeeps, FinishKeeps, CheckEndsKeeps
  <2>4. QED BY <1>2, <2>1, <2>2, <2>3 DEF Thread
<1>3. QED BY <1>1, <1>2, EngineKeeps, ForeignKeeps, ClockKeeps DEF Next

LEMMA TrialInvariant == Spec => []Inv
  BY InitTrial, NextTrial, PTL DEF Spec

\* A success speaks of the engine that was started, and of nobody else, for any
\* set of faults and any number of visits at its address.
THEOREM SuccessMeasuresTheEngine == Spec => []MeasuredTheEngine
<1>1. Inv => MeasuredTheEngine
  BY DEF Inv, Told
<1>2. QED BY <1>1, TrialInvariant, PTL

\* However the thread ends, it takes its engine with it.
THEOREM EngineIsTakenDown == Spec => []NoEngineLeft
<1>1. Inv => NoEngineLeft
  BY DEF Inv, Where, Owned, NoEngineLeft, Over
<1>2. QED BY <1>1, TrialInvariant, PTL

\* Types, and an address that is only refused for somebody else's sake.
THEOREM TrialsAreConsistent == Spec => []Consistent
<1>1. Inv => Consistent
  BY TypeParts DEF Inv, Blamed, Consistent
<1>2. QED BY <1>1, TrialInvariant, PTL

\* A check that ended has written what it returned.
THEOREM ChecksAreReported == Spec => []CheckIsReported
<1>1. Inv => CheckIsReported
  BY DEF Inv, Told
<1>2. QED BY <1>1, TrialInvariant, PTL

\* Only Stop changes a failure that stands, and it merges.
LEMMA FailureStep ==
  ASSUME Inv, [Next]_vars, failure # Nothing
  PROVE  /\ failure'.kind = failure.kind
         /\ failure.timedOut => failure'.timedOut
         /\ failure.interrupted => failure'.interrupted
<1>1. failure \in {Nothing} \cup Failures /\ pc \notin Early
  BY DEF Inv, GotOK, Where
<1>2. CASE UNCHANGED failure
  BY <1>2
<1>3. CASE Stop
  <2>1. failure' = failure \/ \E k \in {"io", "cleanup", "timeout"} : failure' = Merged(k)
    BY <1>3 DEF Stop
  <2>2. CASE failure' = failure
    BY <2>2
  <2>3. CASE \E k \in {"io", "cleanup", "timeout"} : failure' = Merged(k)
    <3>1. PICK k \in {"io", "cleanup", "timeout"} : failure' = Merged(k)
      BY <2>3
    <3>2. k \in Kinds
      BY DEF Kinds
    <3>3. failure.interrupted \in BOOLEAN
      BY <1>1 DEF Failures
    <3>4. QED BY <1>1, <3>1, <3>2, <3>3, MergedKind, Zenon
  <2>4. QED BY <2>1, <2>2, <2>3
<1>4. CASE ~Stop /\ ~UNCHANGED failure
  <2>1. Thread
    BY <1>4 DEF Next, EngineServes, EngineDies, ForeignBinds, ForeignLeaves, Cancel, StartupDeadline
  <2>2. ~Prepare /\ ~Launch /\ ~LaunchFails /\ ~WaitReady /\ ~ServeLoop
    BY <1>1, <1>4 DEF Early, Prepare, Launch, LaunchFails, WaitReady, Clock, GiveUp, ServeLoop
  <2>3. ~ProgressFails /\ ~StageEnds /\ ~StoppedEnds /\ ~Finish /\ ~CheckEnds
    BY <1>4 DEF ProgressFails, LeaveEarly, StageEnds, StoppedEnds, Finish, CheckEnds
  <2>4. \A c \in Clients : ~ClientStarts(c) /\ ~ClientEnds(c)
    BY <1>1 DEF Early, Checking, Measuring, Clients, ClientStarts, ClientEnds, Running
  <2>5. ~Collect /\ ~ReadMetrics
    BY <1>1 DEF Early, Checking, Measuring, Collect, ReadMetrics
  <2>6. ~CheckAlive
    BY <1>4 DEF CheckAlive
  <2>7. QED BY <1>4, <2>1, <2>2, <2>3, <2>4, <2>5, <2>6 DEF Thread
<1>5. QED BY <1>2, <1>3, <1>4

\* What went wrong first is what is reported.
THEOREM FirstFailuresStand == Spec => FirstFailureStands
<1>1. Inv /\ [Next]_vars =>
        [failure # Nothing =>
            /\ failure'.kind = failure.kind
            /\ failure.timedOut => failure'.timedOut
            /\ failure.interrupted => failure'.interrupted]_vars
  BY FailureStep
<1>2. QED BY <1>1, TrialInvariant, PTL DEF Spec, FirstFailureStands
=================================================================================
