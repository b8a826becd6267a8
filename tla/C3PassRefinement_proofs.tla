------------------------ MODULE C3PassRefinement_proofs ------------------------
(***************************************************************************)
(* Proofs that the pass scheduler implements the abstract run of           *)
(* C3PassAbstract (its safety part), that exitWarmer() reports success     *)
(* only at the end of the final pass (CleanExit), for every corpus and    *)
(* option value.                                                           *)
(***************************************************************************)
EXTENDS C3Processor_proofs

\* The hits startAccessPass(pre) plans: N, or N * ProfileRuns when profiling.
PassPlan(pre) == IF ~pre /\ ProfileRuns > 0 THEN N * ProfileRuns ELSE N

(* What the refinement needs beyond IInv: no exit is requested while the   *)
(* run goes on, and a running pass planned the hits of its kind.           *)
PassInv ==
    /\ phase \in {"init", "running", "delay"} => exitCode = NoExit
    /\ phase = "running" => totalURLs = PassPlan(isPreWarmUp)

(* The inductive invariant: CleanExit needs the accounting of IInv to know *)
(* that the last page of a pass is the only busy one, and PassInv to know  *)
(* that an early exit carries an error code.                               *)
RInv == IInv /\ PassInv /\ CleanExit

-----------------------------------------------------------------------------
(* Facts about the plan.                                                   *)

\* Every pass plans at least as many hits as there are pages.
LEMMA PassPlanFacts ==
    ASSUME NEW pre \in BOOLEAN
    PROVE  /\ PassPlan(pre) \in Nat
           /\ NumPages <= PassPlan(pre)
<1>1. CASE ~pre /\ ProfileRuns > 0
  <2>1. N * ProfileRuns >= N * 1
    BY <1>1, PoolFacts, ConstantsAssumption
  <2>2. QED
    BY <1>1, <2>1, PoolFacts, ConstantsAssumption DEF PassPlan
<1>2. CASE ~(~pre /\ ProfileRuns > 0)
  BY <1>2, PoolFacts DEF PassPlan
<1>3. QED
  BY <1>1, <1>2

-----------------------------------------------------------------------------
(* The start of a pass: run() and the warm-up timer.                       *)

\* Init establishes RInv and maps to the abstract initial state.
LEMMA InitRInv == Init => RInv /\ Pass!Init
<1> SUFFICES ASSUME Init PROVE RInv /\ Pass!Init
  OBVIOUS
<1>1. IInv
  BY InitInv
<1>2. PassInv /\ CleanExit
  BY DEF Init, PassInv, CleanExit
<1>3. Pass!Init
  BY DEF Init, Pass!Init, PassStage, EC_OK, NoExit
<1>4. QED
  BY <1>1, <1>2, <1>3 DEF RInv

(* startAccessPass(pre) from a state without an exit: the new pass plans   *)
(* PassPlan(pre) hits.                                                     *)
LEMMA StartPassRInv ==
    ASSUME RInv, exitCode = NoExit, NEW pre \in BOOLEAN, StartAccessPass(pre),
           UNCHANGED <<checks, exitCode, saves, pageFailed, resourceFailed>>
    PROVE  /\ RInv'
           /\ PassStage' = IF pre THEN "warmup" ELSE "measure"
           /\ urlsStarted' \in 1 .. PassPlan(pre)
           /\ urlsFinished' = 0
<1>1. IInv'
  BY StartPassInv DEF RInv
<1>2. totalURLs' = PassPlan(pre) /\ NumPages <= PassPlan(pre)
  BY PassPlanFacts DEF StartAccessPass, PassPlan
<1>3. PassInv'
  BY <1>2 DEF StartAccessPass, PassInv
<1>4. CleanExit'
  BY DEF StartAccessPass, CleanExit
<1>6. PassStage' = IF pre THEN "warmup" ELSE "measure"
  BY DEF StartAccessPass, PassStage
<1>7. QED
  BY <1>1, <1>2, <1>3, <1>4, <1>6, PoolFacts DEF RInv, StartAccessPass

\* run() starts the first pass: the abstract Start.
LEMMA RunStep ==
    ASSUME RInv, Run
    PROVE  RInv' /\ Pass!Start
<1>1. phase = "init" /\ exitCode = NoExit
  BY DEF Run, RInv, PassInv
<1>2. /\ RInv'
      /\ PassStage' = IF ProfileRuns > 0 /\ WarmUpPass THEN "warmup" ELSE "measure"
      /\ urlsStarted' \in 1 .. PassPlan(ProfileRuns > 0 /\ WarmUpPass)
      /\ urlsFinished' = 0
      /\ exitCode' = exitCode
  BY <1>1, StartPassRInv, ConstantsAssumption DEF Run
<1>3. PassPlan(ProfileRuns > 0 /\ WarmUpPass)
        = Pass!Plan(IF ProfileRuns > 0 /\ WarmUpPass THEN "warmup" ELSE "measure")
  BY DEF PassPlan, Pass!Plan
<1>4. QED
  BY <1>1, <1>2, <1>3 DEF Pass!Start, Pass!Begin, PassStage

\* The warm-up timer starts the measuring pass: the abstract Resume.
LEMMA TimerStep ==
    ASSUME RInv, WarmUpTimer
    PROVE  RInv' /\ Pass!Resume
<1>1. phase = "delay" /\ exitCode = NoExit
  BY DEF WarmUpTimer, RInv, PassInv
<1>2. /\ RInv'
      /\ PassStage' = "measure"
      /\ urlsStarted' \in 1 .. PassPlan(FALSE)
      /\ urlsFinished' = 0
      /\ exitCode' = exitCode
  BY <1>1, StartPassRInv DEF WarmUpTimer
<1>3. PassPlan(FALSE) = Pass!Plan("measure")
  BY DEF PassPlan, Pass!Plan
<1>4. QED
  BY <1>1, <1>2, <1>3 DEF Pass!Resume, Pass!Begin, PassStage

-----------------------------------------------------------------------------
(* A finished hit: the tail of pageLoadCallback().                         *)

(* The tail of pageLoadCallback() on a busy page keeps RInv and is one     *)
(* abstract Hit, given that the code the handler passes on is no success: *)
(* none, or the error code of a fatal page failure.                       *)
LEMMA FinishPageStep ==
    ASSUME RInv, phase = "running",
           NEW i \in Slots, slot[i] # "idle",
           NEW errors \in Nat, NEW code \in ExitCodes \ {EC_OK}, NEW saved \in Nat,
           FinishPage(i, errors, code, saved)
    PROVE  /\ PassInv' /\ CleanExit'
           /\ Pass!Hit
<1>1. /\ i \in Busy
      /\ urlsFinished < urlsStarted
      /\ Cardinality(Busy \ {i}) = urlsStarted - urlsFinished - 1
  BY BusyPageUnfinished DEF RInv, IInv
<1>2. /\ exitCode = NoExit
      /\ urlsStarted <= totalURLs
      /\ PassStage \in {"warmup", "measure"}
      /\ Pass!Plan(PassStage) = totalURLs
  BY DEF RInv, PassInv, IInv, InFlightAccounting, PassStage, Pass!Plan, PassPlan
<1>3. /\ urlsFinished' = urlsFinished + 1
      /\ UNCHANGED <<isPreWarmUp, totalURLs>>
      /\ urlsStarted \in Nat /\ urlsFinished \in Nat /\ totalURLs \in Nat
  BY DEF FinishPage, RInv, IInv, TypeOK
<1>4. CASE urlsFinished + 1 = totalURLs
  <2>1. /\ slot' = [slot EXCEPT ![i] = "idle"]
        /\ UNCHANGED urlsStarted
        /\ EndPass(errors, code, saved)
    BY <1>4 DEF FinishPage
  <2>2. urlsStarted = totalURLs
    BY <1>1, <1>2, <1>3, <1>4
  <2>3. Busy' = {}
    <3>1. IsFiniteSet(Busy \ {i})
      BY BusyFinite, FS_Subset
    <3>2. Cardinality(Busy \ {i}) = 0
      BY <1>1, <1>3, <1>4, <2>2
    <3>4. Busy \ {i} = {}
      BY <3>1, <3>2, FS_EmptySet, Zenon
    <3>3. QED
      BY <2>1, <3>4 DEF Busy, RInv, IInv, TypeOK
  <2>5. urlsStarted' = IF urlsStarted < Pass!Plan(PassStage)
                       THEN urlsStarted + 1 ELSE urlsStarted
    BY <1>2, <1>3, <2>1, <2>2
  <2>6. CASE isPreWarmUp
    <3>1. /\ phase' = IF code = NoExit THEN "delay" ELSE "exited"
          /\ exitCode' = code
      BY <2>1, <2>6 DEF EndPass
    <3>2. PassStage = "warmup"
      BY <2>6 DEF PassStage
    <3>3. PassStage' = IF code = NoExit THEN "pause" ELSE "exited"
      BY <3>1 DEF PassStage
    <3>4. PassInv' /\ CleanExit'
      BY <1>3, <3>1, <2>6 DEF PassInv, CleanExit
    <3>5. /\ urlsFinished < urlsStarted
          /\ urlsFinished' = urlsFinished + 1
          /\ urlsFinished' = Pass!Plan(PassStage)
      BY <1>1, <1>2, <1>3, <1>4
    <3>6. CASE code = NoExit
      <4>1. PassStage' = "pause" /\ (exitCode' = EC_OK) = (exitCode = EC_OK)
        BY <1>2, <3>1, <3>3, <3>6
      <4>2. Pass!Hit
        BY <2>5, <3>2, <3>5, <4>1 DEF Pass!Hit
      <4>3. QED
        BY <3>4, <4>2
    <3>7. CASE code # NoExit
      <4>1. PassStage' = "exited" /\ (exitCode' = EC_OK) = FALSE
        BY <3>1, <3>3, <3>7
      <4>2. Pass!Hit
        BY <2>5, <3>2, <3>5, <4>1 DEF Pass!Hit
      <4>3. QED
        BY <3>4, <4>2
    <3>8. QED
      BY <3>6, <3>7
  <2>7. CASE ~isPreWarmUp
    <3>1. /\ phase' = "exited"
          /\ exitCode' = ExitCodeOf(EC_OK, errors)
      BY <2>1, <2>7 DEF EndPass
    <3>2. PassStage = "measure" /\ PassStage' = "exited"
      BY <2>7, <3>1, <1>3 DEF PassStage
    <3>3. PassInv'
      BY <3>1 DEF PassInv
    <3>4. CleanExit'
      BY <1>3, <1>4, <2>3, <2>7 DEF CleanExit
    <3>5. Pass!Hit
      BY <1>1, <1>2, <1>3, <1>4, <2>5, <3>2 DEF Pass!Hit
    <3>6. QED
      BY <3>3, <3>4, <3>5
  <2>8. QED
    BY <2>6, <2>7
<1>5. CASE urlsFinished + 1 # totalURLs
  <2>1. /\ phase' = IF code = NoExit THEN phase ELSE "exited"
        /\ exitCode' = code
        /\ DispatchNext(i)
    BY <1>5 DEF FinishPage
  <2>2. urlsFinished + 1 < totalURLs
    BY <1>1, <1>2, <1>3, <1>5
  <2>3. PassStage' = IF code = NoExit THEN PassStage ELSE "exited"
    BY <1>3, <2>1 DEF PassStage
  <2>4. PassInv' /\ CleanExit'
    BY <1>3, <2>1 DEF PassInv, CleanExit, RInv
  <2>5. urlsStarted' = IF urlsStarted < totalURLs
                       THEN urlsStarted + 1 ELSE urlsStarted
    BY <2>1 DEF DispatchNext, HasNextURL
  <2>6. /\ urlsFinished < urlsStarted
        /\ urlsFinished' = urlsFinished + 1
        /\ urlsFinished' < Pass!Plan(PassStage)
        /\ urlsStarted' = IF urlsStarted < Pass!Plan(PassStage)
                           THEN urlsStarted + 1 ELSE urlsStarted
    BY <1>1, <1>2, <1>3, <2>2, <2>5
  <2>7. CASE code = NoExit
    <3>1. PassStage' = PassStage /\ (exitCode' = EC_OK) = (exitCode = EC_OK)
      BY <1>2, <2>1, <2>3, <2>7
    <3>2. Pass!Hit
      BY <1>2, <2>6, <3>1 DEF Pass!Hit
    <3>3. QED
      BY <2>4, <3>2
  <2>8. CASE code # NoExit
    <3>1. PassStage' = "exited" /\ (exitCode' = EC_OK) = FALSE
      BY <2>1, <2>3, <2>8
    <3>2. Pass!Hit
      BY <1>2, <2>6, <3>1 DEF Pass!Hit
    <3>3. QED
      BY <2>4, <3>2
  <2>9. QED
    BY <2>7, <2>8
<1>6. QED
  BY <1>4, <1>5



-----------------------------------------------------------------------------
(* The callbacks of a page, and the theorems.                              *)

(* A callback of a running pass that leaves the pass's counters, cursor    *)
(* and exit code alone keeps RInv and is an abstract stutter.             *)
LEMMA RunningStutter ==
    ASSUME RInv, IInv', phase = "running",
           UNCHANGED <<phase, isPreWarmUp, urlsStarted, urlsFinished,
                       totalURLs, exitCode>>
    PROVE  RInv' /\ UNCHANGED Pass!avars
<1>1. PassInv' /\ CleanExit'
  BY DEF RInv, PassInv, CleanExit
<1>2. PassStage' = PassStage
  BY DEF PassStage
<1>3. QED
  BY <1>1, <1>2 DEF RInv, Pass!avars

(* onLoadFinished: the page takes its screenshot loop (a stutter), or the  *)
(* hit finishes with a fatal error code or with the code so far, which is  *)
(* none while the pass runs.                                               *)
LEMMA PageLoadedStep ==
    ASSUME RInv, NEW i \in Slots, NEW ok \in BOOLEAN, PageLoaded(i, ok)
    PROVE  RInv' /\ [Pass!Next]_Pass!avars
<1>1. IInv'
  BY PageLoadedInv DEF RInv
<1>2. /\ phase = "running" /\ slot[i] = "loading"
      /\ exitCode = NoExit /\ numErrors \in Nat /\ saves \in Nat
  BY DEF PageLoaded, RInv, PassInv, IInv, TypeOK
<1>3. CASE ScreenshotDue(ok)
  BY <1>1, <1>2, <1>3, RunningStutter DEF PageLoaded
<1>4. CASE ~ScreenshotDue(ok) /\ ~ok /\ ExitIf \in {ER_MISSING_PAGE, ER_MISSING_RESOURCE}
  <2>1. ExitCodeOf(EC_MISSING_PAGE, numErrors) \in ExitCodes \ {EC_OK}
    BY <1>4 DEF ExitCodeOf, ExitCodes, EC_OK, EC_MISSING_PAGE, EC_MISSING_RESOURCE,
              ER_MISSING_PAGE, ER_MISSING_RESOURCE, ER_RECORDED_ERRORS
  <2>2. FinishPage(i, numErrors + 1, ExitCodeOf(EC_MISSING_PAGE, numErrors), saves)
    BY <1>4 DEF PageLoaded
  <2>3. QED
    BY <1>1, <1>2, <2>1, <2>2, FinishPageStep DEF RInv, Pass!Next
<1>5. CASE ~ScreenshotDue(ok) /\ ~(~ok /\ ExitIf \in {ER_MISSING_PAGE, ER_MISSING_RESOURCE})
  <2>1. FinishPage(i, IF ~ok /\ ExitIf = ER_RECORDED_ERRORS
                        THEN numErrors + 1 ELSE numErrors,
                   exitCode, saves)
    BY <1>5 DEF PageLoaded
  <2>2. NoExit \in ExitCodes \ {EC_OK}
    BY DEF ExitCodes, NoExit, EC_OK
  <2>3. QED
    BY <1>1, <1>2, <2>1, <2>2, FinishPageStep DEF RInv, Pass!Next
<1>6. QED
  BY <1>3, <1>4, <1>5

(* A tick of the screenshot loop: the page waits on (a stutter), or its    *)
(* screenshot is saved and the hit finishes with the code so far.          *)
LEMMA SaveTickStep ==
    ASSUME RInv, NEW i \in Slots, NEW ready \in BOOLEAN, SaveTick(i, ready)
    PROVE  RInv' /\ [Pass!Next]_Pass!avars
<1>1. IInv'
  BY SaveTickInv DEF RInv
<1>2. /\ phase = "running" /\ slot[i] = "saving"
      /\ exitCode = NoExit /\ numErrors \in Nat /\ saves + 1 \in Nat
  BY DEF SaveTick, RInv, PassInv, IInv, TypeOK
<1>3. CASE ready \/ checks[i] - 1 = 0
  <2>1. FinishPage(i, numErrors, exitCode, saves + 1)
    BY <1>3 DEF SaveTick
  <2>2. NoExit \in ExitCodes \ {EC_OK}
    BY DEF ExitCodes, NoExit, EC_OK
  <2>3. QED
    BY <1>1, <1>2, <2>1, <2>2, FinishPageStep DEF RInv, Pass!Next
<1>4. CASE ~(ready \/ checks[i] - 1 = 0)
  BY <1>1, <1>2, <1>4, RunningStutter DEF SaveTick
<1>5. QED
  BY <1>3, <1>4

(* RInv is inductive, and every step of the warmer is a step of the        *)
(* abstract run or leaves its stage, counters and outcome alone.          *)
THEOREM RInvInductive == RInv /\ [Next]_vars => RInv' /\ [Pass!Next]_Pass!avars
<1> SUFFICES ASSUME RInv, [Next]_vars PROVE RInv' /\ [Pass!Next]_Pass!avars
  OBVIOUS
<1>1. CASE Run
  BY <1>1, RunStep DEF Pass!Next
<1>2. CASE \E i \in Slots, ok \in BOOLEAN : PageLoaded(i, ok)
  BY <1>2, PageLoadedStep
<1>3. CASE \E i \in Slots, ready \in BOOLEAN : SaveTick(i, ready)
  BY <1>3, SaveTickStep
<1>4. CASE WarmUpTimer
  BY <1>4, TimerStep DEF Pass!Next
<1>5. CASE \E i \in Slots : ResourceFailed(i)
  <2>1. IInv'
    BY <1>5, IInvInductive DEF RInv, Next
  <2>2. QED
    BY <1>5, <2>1, RunningStutter DEF ResourceFailed
<1>6. CASE Exited \/ UNCHANGED vars
  <2>1. IInv'
    BY <1>6, IInvInductive DEF RInv, Next
  <2>2. RInv'
    BY <1>6, <2>1 DEF Exited, vars, RInv, PassInv, CleanExit, Busy
  <2>3. UNCHANGED <<phase, isPreWarmUp, urlsStarted, urlsFinished, exitCode>>
    BY <1>6 DEF Exited, vars
  <2>4. PassStage' = PassStage
    BY <2>3 DEF PassStage
  <2>5. QED
    BY <2>2, <2>3, <2>4 DEF Pass!avars
<1>7. QED
  BY <1>1, <1>2, <1>3, <1>4, <1>5, <1>6 DEF Next

(* The warmer implements the abstract run of C3PassAbstract: every         *)
(* behaviour of its callbacks, seen through PassStage and the counters of  *)
(* passStatus, is a behaviour of the abstract run (its safety part; the    *)
(* fairness part is checked by TLC as PassRefinement).                     *)
THEOREM Refinement == Spec => Pass!SafeSpec
<1>1. Init => RInv /\ Pass!Init
  BY InitRInv
<1>2. RInv /\ [Next]_vars => RInv' /\ [Pass!Next]_Pass!avars
  BY RInvInductive
<1>3. QED
  BY <1>1, <1>2, PTL DEF Spec, Pass!SafeSpec

(* exitWarmer() reports success only after the last planned hit of the     *)
(* final pass, with no page loading or saving.                             *)
THEOREM CleanExitHolds == Spec => []CleanExit
<1>1. Spec => []RInv
  BY InitRInv, RInvInductive, PTL DEF Spec
<1>2. QED
  BY <1>1, PTL DEF RInv

=============================================================================
