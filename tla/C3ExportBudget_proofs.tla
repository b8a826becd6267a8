------------------------ MODULE C3ExportBudget_proofs ------------------------
(***************************************************************************)
(* The screenshot budget of a warming run (ExportBudget) for every value  *)
(* of the constants.  pageLoadCallback() defers a page into the           *)
(* saveImageAsync() loop when at most numScreenshots hits remain, and the *)
(* page is counted finished only when its screenshot is saved; while it   *)
(* waits, other pages may load and see the same count of remaining hits.   *)
(***************************************************************************)
EXTENDS C3PassRefinement_proofs

\* The hits of the pass not yet counted finished.
Remaining == totalURLs - urlsFinished

\* The screenshots a warming run without failures owes: min(numScreenshots, hits).
Budget == IF NumScreenshots < totalURLs THEN NumScreenshots ELSE totalURLs

\* The pages in their saveImageAsync() loop.
Saving == {i \in Slots : slot[i] = "saving"}

(* Once a screenshot was saved or is pending, the saved ones and the       *)
(* remaining hits together fit in the budget: each remaining hit may still *)
(* take one.                                                               *)
SavesBounded ==
    (saves > 0 \/ Saving # {}) => saves + Remaining <= NumScreenshots

(* Without a failed load, every hit counted since the remaining count fell *)
(* to the budget took a screenshot, and none before.                       *)
SavesExact ==
    (~pageFailed /\ ImageTemplate /\ phase # "init") =>
        saves = IF Remaining <= Budget THEN Budget - Remaining ELSE 0

(***************************************************************************)
(* The inductive invariant of the budget.  A warming run has no warm-up   *)
(* pass, so saves is never reset by a second pass, and a run without a     *)
(* failed load exits only after its last hit.                              *)
(***************************************************************************)
EInv ==
    /\ urlsFinished <= totalURLs
    /\ phase = "init" => saves = 0
    /\ (phase = "exited" /\ ~pageFailed) => urlsFinished = totalURLs
    /\ ProfileRuns = 0 =>
          /\ ~isPreWarmUp /\ phase # "delay"
          /\ SavesBounded
          /\ SavesExact

-----------------------------------------------------------------------------

\* Init establishes EInv.
LEMMA InitEInv == Init => EInv
<1> SUFFICES ASSUME Init PROVE EInv
  OBVIOUS
<1>1. Saving = {}
  BY DEF Init, Saving
<1>2. QED
  BY <1>1 DEF Init, EInv, SavesBounded, SavesExact

(* The tail of pageLoadCallback() counts one hit, frees or reloads its     *)
(* page, keeps the save count it is given (a warming run takes no          *)
(* screenshot at exit), and exits before the last hit only with a code.    *)
LEMMA FinishPageFacts ==
    ASSUME RInv, phase = "running", NEW i \in Slots, slot[i] # "idle",
           NEW errors, NEW code, NEW saved,
           FinishPage(i, errors, code, saved)
    PROVE  /\ urlsFinished' = urlsFinished + 1
           /\ urlsFinished' <= totalURLs
           /\ UNCHANGED <<totalURLs, isPreWarmUp>>
           /\ Saving' \subseteq Saving
           /\ ProfileRuns = 0 => saves' = saved
           /\ phase' # "init"
           /\ ~isPreWarmUp => phase' \in {"running", "exited"}
           /\ phase' = "exited" => (urlsFinished' = totalURLs \/ code # NoExit)
<1>1. /\ urlsFinished < urlsStarted /\ urlsStarted <= totalURLs
      /\ urlsFinished \in Nat /\ urlsStarted \in Nat /\ totalURLs \in Nat
      /\ slot \in [Slots -> {"loading", "saving", "idle"}]
  BY BusyPageUnfinished DEF RInv, IInv, InFlightAccounting, TypeOK
<1>2. slot' = [slot EXCEPT ![i] = "idle"] \/ slot' = [slot EXCEPT ![i] = "loading"]
  BY DEF FinishPage, DispatchNext
<1>3. Saving' \subseteq Saving
  BY <1>1, <1>2 DEF Saving
<1>4. QED
  BY <1>1, <1>3 DEF FinishPage, EndPass


(* A pass starts with no page saving: run() in a warming run starts with   *)
(* nothing saved and every hit remaining.                                  *)
LEMMA RunEInv ==
    ASSUME RInv, EInv, Run
    PROVE  EInv'
<1> DEFINE pre == ProfileRuns > 0 /\ WarmUpPass
<1>1. /\ phase = "init" /\ saves' = saves /\ pageFailed' = pageFailed
      /\ isPreWarmUp' = pre
      /\ urlsFinished' = 0 /\ phase' = "running"
      /\ totalURLs' = PassPlan(pre)
  BY DEF Run, StartAccessPass, PassPlan
<1>2. saves = 0
  BY <1>1 DEF EInv
<1>3. PassPlan(pre) \in Nat /\ NumScreenshots \in Nat
  <2>1. pre \in BOOLEAN
    OBVIOUS
  <2>2. QED
    BY <2>1, PassPlanFacts, ConstantsAssumption
<1>4. ProfileRuns = 0 => ~isPreWarmUp'
  <2>1. ProfileRuns = 0 => ~pre
    OBVIOUS
  <2>2. QED
    BY <1>1, <2>1, Zenon
<1>5. Saving' = {}
  BY DEF Run, StartAccessPass, Saving
<1>6. SavesBounded'
  BY <1>1, <1>2, <1>5 DEF SavesBounded
<1>7. /\ Remaining' = PassPlan(pre)
      /\ Budget' = IF NumScreenshots < PassPlan(pre) THEN NumScreenshots
                                                    ELSE PassPlan(pre)
  BY <1>1, <1>3 DEF Budget, Remaining
<1>8. SavesExact'
  BY <1>1, <1>2, <1>3, <1>7 DEF SavesExact
<1>9. QED
  BY <1>1, <1>2, <1>3, <1>4, <1>6, <1>8 DEF EInv

(* The warm-up timer exists only in profiling mode.                        *)
LEMMA TimerEInv ==
    ASSUME RInv, EInv, WarmUpTimer
    PROVE  EInv'
<1>1. ProfileRuns # 0
  BY DEF WarmUpTimer, EInv
<1>2. /\ urlsFinished' = 0 /\ totalURLs' \in Nat /\ phase' = "running"
  BY PassPlanFacts DEF WarmUpTimer, StartAccessPass, PassPlan
<1>3. QED
  BY <1>1, <1>2 DEF EInv



(* onLoadFinished: a page deferred into the screenshot loop saw at most    *)
(* numScreenshots hits remaining; a page counted at once took no          *)
(* screenshot, so without a failed load more than numScreenshots hits     *)
(* remained and none was saved yet.                                        *)
LEMMA PageLoadedEInv ==
    ASSUME RInv, EInv, NEW i \in Slots, NEW ok \in BOOLEAN, PageLoaded(i, ok)
    PROVE  EInv'
<1>1. /\ phase = "running" /\ slot[i] = "loading" /\ exitCode = NoExit
      /\ saves \in Nat /\ urlsFinished \in Nat /\ totalURLs \in Nat
      /\ numErrors \in Nat /\ NumScreenshots \in Nat
      /\ pageFailed \in BOOLEAN /\ pageFailed' = (pageFailed \/ ~ok)
  BY ConstantsAssumption DEF PageLoaded, RInv, PassInv, IInv, TypeOK
<1>2. CASE ScreenshotDue(ok)
  <2>1. /\ UNCHANGED <<phase, isPreWarmUp, urlsFinished, totalURLs, saves>>
        /\ ok /\ ProfileRuns = 0 /\ totalURLs - urlsFinished <= NumScreenshots
    BY <1>2 DEF PageLoaded, ScreenshotDue
  <2>6. pageFailed' = pageFailed
    BY <1>1, <2>1, Zenon
  <2>2. Remaining' = Remaining /\ Budget' = Budget /\ Remaining <= NumScreenshots
    BY <1>1, <2>1 DEF Remaining, Budget
  <2>7. saves + Remaining <= NumScreenshots
    <3>1. CASE saves > 0 \/ Saving # {}
      BY <2>1, <3>1 DEF EInv, SavesBounded
    <3>2. CASE ~(saves > 0 \/ Saving # {})
      BY <1>1, <2>1, <3>2 DEF Remaining
    <3>3. QED
      BY <3>1, <3>2
  <2>3. SavesBounded'
    BY <2>1, <2>2, <2>7 DEF SavesBounded
  <2>4. SavesExact'
    BY <2>1, <2>2, <2>6 DEF EInv, SavesExact
  <2>5. QED
    BY <2>1, <2>3, <2>4, <2>6 DEF EInv
<1>3. CASE ~ScreenshotDue(ok)
  <2>1. \E errors \in Nat, code \in {exitCode, ExitCodeOf(EC_MISSING_PAGE, numErrors)} :
          /\ FinishPage(i, errors, code, saves)
          /\ code # NoExit => ~ok
    BY <1>1, <1>3 DEF PageLoaded, ExitCodeOf, EC_MISSING_PAGE, ER_RECORDED_ERRORS, NoExit
  <2>2. PICK errors \in Nat, code \in {exitCode, ExitCodeOf(EC_MISSING_PAGE, numErrors)} :
          /\ FinishPage(i, errors, code, saves)
          /\ code # NoExit => ~ok
    BY <2>1
  <2>3. /\ urlsFinished' = urlsFinished + 1
        /\ urlsFinished' <= totalURLs
        /\ UNCHANGED <<totalURLs, isPreWarmUp>>
        /\ Saving' \subseteq Saving
        /\ ProfileRuns = 0 => saves' = saves
        /\ phase' # "init"
        /\ ~isPreWarmUp => phase' \in {"running", "exited"}
        /\ phase' = "exited" => (urlsFinished' = totalURLs \/ code # NoExit)
    BY <1>1, <2>2, FinishPageFacts
  <2>4. (phase' = "exited" /\ ~pageFailed') => urlsFinished' = totalURLs'
    BY <1>1, <2>2, <2>3
  <2>5. Remaining' = Remaining - 1 /\ Budget' = Budget
    BY <1>1, <2>3 DEF Remaining, Budget
  <2>6. ASSUME ProfileRuns = 0 PROVE SavesBounded'
    <3>1. (saves' > 0 \/ Saving' # {}) => (saves > 0 \/ Saving # {})
      BY <2>3, <2>6
    <3>2. SavesBounded
      BY <2>6 DEF EInv
    <3>3. QED
      BY <1>1, <2>3, <2>6, <3>1, <3>2 DEF SavesBounded, Remaining
  <2>7. ASSUME ProfileRuns = 0 PROVE SavesExact'
    <3>1. SUFFICES ASSUME ~pageFailed', ImageTemplate
                   PROVE  saves' = IF Remaining' <= Budget' THEN Budget' - Remaining' ELSE 0
      BY <2>3 DEF SavesExact
    <3>2. ok
      BY <1>1, <3>1
    <3>3. Remaining > NumScreenshots
      BY <1>1, <1>3, <2>7, <3>1, <3>2 DEF ScreenshotDue, Remaining
    <3>7. SavesBounded
      BY <2>7 DEF EInv
    <3>4. saves = 0
      BY <1>1, <3>3, <3>7 DEF SavesBounded, Remaining
    <3>5. Budget <= NumScreenshots /\ Budget \in Nat
      BY <1>1 DEF Budget
    <3>6. QED
      BY <1>1, <2>3, <2>7, <3>1, <3>3, <3>4, <3>5 DEF Remaining, Budget
  <2>8. QED
    BY <1>1, <2>3, <2>4, <2>6, <2>7 DEF EInv
<1>4. QED
  BY <1>2, <1>3


(* saveImageAsync(): the page saved counts its hit with one screenshot     *)
(* more, so the saved ones and the remaining hits keep their sum; a page   *)
(* still waiting for its timer changes nothing the budget depends on.      *)
LEMMA SaveTickEInv ==
    ASSUME RInv, EInv, NEW i \in Slots, NEW ready \in BOOLEAN, SaveTick(i, ready)
    PROVE  EInv'
<1>1. /\ phase = "running" /\ slot[i] = "saving" /\ exitCode = NoExit
      /\ saves \in Nat /\ urlsFinished \in Nat /\ totalURLs \in Nat
      /\ NumScreenshots \in Nat /\ pageFailed' = pageFailed
      /\ i \in Saving
  BY ConstantsAssumption DEF SaveTick, RInv, PassInv, IInv, TypeOK, Saving
<1>2. CASE ready \/ checks[i] - 1 = 0
  <2>1. FinishPage(i, numErrors, exitCode, saves + 1)
    BY <1>2 DEF SaveTick
  <2>2. /\ urlsFinished' = urlsFinished + 1
        /\ urlsFinished' <= totalURLs
        /\ UNCHANGED <<totalURLs, isPreWarmUp>>
        /\ Saving' \subseteq Saving
        /\ ProfileRuns = 0 => saves' = saves + 1
        /\ phase' # "init"
        /\ ~isPreWarmUp => phase' \in {"running", "exited"}
        /\ phase' = "exited" => (urlsFinished' = totalURLs \/ exitCode # NoExit)
    BY <1>1, <2>1, FinishPageFacts
  <2>3. (phase' = "exited" /\ ~pageFailed') => urlsFinished' = totalURLs'
    BY <1>1, <2>2
  <2>4. Remaining' = Remaining - 1 /\ Budget' = Budget
    BY <1>1, <2>2 DEF Remaining, Budget
  <2>5. ASSUME ProfileRuns = 0
        PROVE  /\ saves' = saves + 1
               /\ saves + Remaining <= NumScreenshots
    <3>1. Saving # {}
      BY <1>1
    <3>2. QED
      BY <2>2, <2>5, <3>1 DEF EInv, SavesBounded
  <2>6. ASSUME ProfileRuns = 0 PROVE SavesBounded'
    BY <1>1, <2>2, <2>4, <2>5, <2>6 DEF SavesBounded, Remaining
  <2>7. ASSUME ProfileRuns = 0 PROVE SavesExact'
    <3>1. SUFFICES ASSUME ~pageFailed', ImageTemplate
                   PROVE  saves' = IF Remaining' <= Budget' THEN Budget' - Remaining' ELSE 0
      BY <2>2 DEF SavesExact
    <3>2. saves = IF Remaining <= Budget THEN Budget - Remaining ELSE 0
      BY <1>1, <2>7, <3>1 DEF EInv, SavesExact
    <3>3. Remaining <= Budget
      BY <1>1, <2>5, <2>7 DEF Remaining, Budget
    <3>4. Remaining \in Int /\ Budget \in Int /\ saves \in Int
      BY <1>1 DEF Remaining, Budget
    <3>5. QED
      BY <2>4, <2>5, <2>7, <3>2, <3>3, <3>4
  <2>8. QED
    BY <1>1, <2>2, <2>3, <2>6, <2>7 DEF EInv
<1>3. CASE ~(ready \/ checks[i] - 1 = 0)
  <2>1. /\ UNCHANGED <<phase, isPreWarmUp, urlsFinished, totalURLs, saves, slot>>
    BY <1>3 DEF SaveTick
  <2>2. Saving' = Saving /\ Remaining' = Remaining /\ Budget' = Budget
    BY <2>1 DEF Saving, Remaining, Budget
  <2>3. QED
    BY <1>1, <2>1, <2>2 DEF EInv, SavesBounded, SavesExact
<1>4. QED
  BY <1>2, <1>3


-----------------------------------------------------------------------------

(* EInv is inductive relative to RInv: every handler of the warmer, and    *)
(* the stutter of an exited process, keeps the budget invariant.           *)
THEOREM EInvInductive == RInv /\ EInv /\ [Next]_vars => EInv'
<1> SUFFICES ASSUME RInv, EInv, [Next]_vars PROVE EInv'
  OBVIOUS
<1>1. CASE Run
  BY <1>1, RunEInv
<1>2. CASE \E i \in Slots, ok \in BOOLEAN : PageLoaded(i, ok)
  BY <1>2, PageLoadedEInv
<1>3. CASE \E i \in Slots, ready \in BOOLEAN : SaveTick(i, ready)
  BY <1>3, SaveTickEInv
<1>4. CASE WarmUpTimer
  BY <1>4, TimerEInv
<1>5. CASE \E i \in Slots : ResourceFailed(i)
  <2>1. UNCHANGED <<phase, isPreWarmUp, urlsFinished, totalURLs, saves, slot,
                    pageFailed>>
    BY <1>5 DEF ResourceFailed
  <2>2. Saving' = Saving /\ Remaining' = Remaining /\ Budget' = Budget
    BY <2>1 DEF Saving, Remaining, Budget
  <2>3. QED
    BY <2>1, <2>2 DEF EInv, SavesBounded, SavesExact
<1>6. CASE Exited \/ UNCHANGED vars
  <2>1. UNCHANGED vars
    BY <1>6 DEF Exited
  <2>2. Saving' = Saving /\ Remaining' = Remaining /\ Budget' = Budget
    BY <2>1 DEF vars, Saving, Remaining, Budget
  <2>3. QED
    BY <2>1, <2>2 DEF vars, EInv, SavesBounded, SavesExact
<1>7. QED
  BY <1>1, <1>2, <1>3, <1>4, <1>5, <1>6 DEF Next

\* Every reachable state satisfies the scheduler and the budget invariants.
LEMMA BudgetInvariant == Spec => [](RInv /\ EInv)
<1>1. Init => RInv /\ EInv
  BY InitRInv, InitEInv
<1>2. RInv /\ EInv /\ [Next]_vars => RInv' /\ EInv'
  BY RInvInductive, EInvInductive
<1>3. QED
  BY <1>1, <1>2, PTL DEF Spec

(* A warming run (profileRuns = 0) never saves more than numScreenshots    *)
(* screenshots, and one that exits without a failed page load has saved    *)
(* exactly min(numScreenshots, hits): the last hits of the pass, each      *)
(* deferred into saveImageAsync() by pageLoadCallback().                   *)
THEOREM ExportBudgetHolds == Spec => []ExportBudget
<1>1. Spec => [](RInv /\ EInv)
  BY BudgetInvariant
<1>2. RInv /\ EInv => ExportBudget
  <2> SUFFICES ASSUME RInv, EInv, ProfileRuns = 0 PROVE ExportBudget
    BY DEF ExportBudget
  <2>1. /\ saves \in Nat /\ urlsFinished \in Nat /\ totalURLs \in Nat
        /\ NumScreenshots \in Nat /\ urlsFinished <= totalURLs
    BY ConstantsAssumption DEF RInv, IInv, TypeOK, EInv
  <2>2. saves <= NumScreenshots
    <3>1. CASE saves > 0
      BY <2>1, <3>1 DEF EInv, SavesBounded, Remaining
    <3>2. QED
      BY <2>1, <3>1
  <2>3. ASSUME phase = "exited", ~pageFailed, ImageTemplate
        PROVE  saves = IF NumScreenshots < totalURLs THEN NumScreenshots
                                                     ELSE totalURLs
    <3>1. urlsFinished = totalURLs
      BY <2>3 DEF EInv
    <3>2. saves = IF Remaining <= Budget THEN Budget - Remaining ELSE 0
      BY <2>3 DEF EInv, SavesExact
    <3>3. QED
      BY <2>1, <3>1, <3>2 DEF Remaining, Budget
  <2>4. QED
    BY <2>2, <2>3 DEF ExportBudget
<1>3. QED
  BY <1>1, <1>2, PTL

-----------------------------------------------------------------------------

(* Every handler of the warmer is a ScreenshotStep: only the end of a      *)
(* saveImageAsync() loop changes the save count of a warming run, and the  *)
(* loop was entered with at most numScreenshots hits remaining, a count    *)
(* that only falls while the page waits (SavesBounded).                    *)
LEMMA ScreenshotStepHolds ==
    ASSUME RInv, EInv, [Next]_vars
    PROVE  ScreenshotStep
<1> SUFFICES ASSUME ProfileRuns = 0, saves' # saves
             PROVE  /\ saves' = saves + 1
                    /\ urlsFinished' = urlsFinished + 1
                    /\ totalURLs - urlsFinished <= NumScreenshots
                    /\ \E i \in Slots : slot[i] = "saving" /\ slot'[i] # "saving"
  BY DEF ScreenshotStep
<1>1. CASE \E i \in Slots, ready \in BOOLEAN : SaveTick(i, ready)
  <2>1. PICK i \in Slots, ready \in BOOLEAN : SaveTick(i, ready)
    BY <1>1
  <2>2. /\ phase = "running" /\ slot[i] = "saving"
        /\ saves \in Nat /\ urlsFinished \in Nat /\ totalURLs \in Nat
        /\ NumScreenshots \in Nat /\ i \in Saving
    BY <2>1, ConstantsAssumption DEF SaveTick, RInv, IInv, TypeOK, Saving
  <2>3. CASE ready \/ checks[i] - 1 = 0
    <3>1. FinishPage(i, numErrors, exitCode, saves + 1)
      BY <2>1, <2>3 DEF SaveTick
    <3>2. /\ urlsFinished' = urlsFinished + 1
          /\ saves' = saves + 1
      BY <2>2, <3>1, FinishPageFacts
    <3>3. slot'[i] # "saving"
      <4>1. slot \in [Slots -> {"loading", "saving", "idle"}]
        BY DEF RInv, IInv, TypeOK
      <4>2. slot' = [slot EXCEPT ![i] = "idle"] \/ slot' = [slot EXCEPT ![i] = "loading"]
        BY <3>1 DEF FinishPage, DispatchNext
      <4> QED  BY <4>1, <4>2
    <3>4. saves + Remaining <= NumScreenshots
      BY <2>2 DEF EInv, SavesBounded
    <3> QED  BY <2>2, <3>2, <3>3, <3>4 DEF Remaining
  <2>4. CASE ~(ready \/ checks[i] - 1 = 0)
    BY <2>1, <2>4 DEF SaveTick
  <2> QED  BY <2>3, <2>4
<1>2. CASE \E i \in Slots, ok \in BOOLEAN : PageLoaded(i, ok)
  <2>1. PICK i \in Slots, ok \in BOOLEAN : PageLoaded(i, ok)
    BY <1>2
  <2>2. phase = "running" /\ slot[i] # "idle"
    BY <2>1 DEF PageLoaded
  <2>3. CASE ScreenshotDue(ok)
    BY <2>1, <2>3 DEF PageLoaded
  <2>4. CASE ~ScreenshotDue(ok) /\ ~ok /\ ExitIf \in {ER_MISSING_PAGE, ER_MISSING_RESOURCE}
    <3>1. FinishPage(i, numErrors + 1,
                     ExitCodeOf(EC_MISSING_PAGE, numErrors), saves)
      BY <2>1, <2>4 DEF PageLoaded
    <3> QED  BY <2>2, <3>1, FinishPageFacts
  <2>5. CASE ~ScreenshotDue(ok) /\ ~(~ok /\ ExitIf \in {ER_MISSING_PAGE, ER_MISSING_RESOURCE})
    <3>1. FinishPage(i, IF ~ok /\ ExitIf = ER_RECORDED_ERRORS
                        THEN numErrors + 1 ELSE numErrors,
                     exitCode, saves)
      BY <2>1, <2>5 DEF PageLoaded
    <3> QED  BY <2>2, <3>1, FinishPageFacts
  <2> QED  BY <2>3, <2>4, <2>5
<1>3. CASE Run \/ WarmUpTimer \/ \E i \in Slots : ResourceFailed(i)
  BY <1>3 DEF Run, WarmUpTimer, ResourceFailed
<1>4. CASE Exited \/ UNCHANGED vars
  BY <1>4 DEF Exited, vars
<1> QED  BY <1>1, <1>2, <1>3, <1>4 DEF Next

(* The trailing export holds at every step for every value of the          *)
(* constants: in a warming run saveImage() is called only at the end of a  *)
(* page's saveImageAsync() loop, for one of the last numScreenshots hits.  *)
THEOREM ScreenshotInWindowHolds == Spec => ScreenshotInWindow
<1>1. (RInv /\ EInv) /\ [Next]_vars => [ScreenshotStep]_vars
  BY ScreenshotStepHolds
<1>2. Spec => [][Next]_vars
  BY PTL DEF Spec
<1> QED  BY <1>1, <1>2, BudgetInvariant, PTL DEF ScreenshotInWindow
=============================================================================
