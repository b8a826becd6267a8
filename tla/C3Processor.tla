----------------------------- MODULE C3Processor -----------------------------
(***************************************************************************)
(* The pass scheduler of the CyberCache warmer/profiler                    *)
(* (src/src/warmer/c3processor.js): a fixed pool of PhantomJS pages that   *)
(* is fed the hits of the finalized corpus, the per-pass counters         *)
(* of `passStatus`, the optional warm-up pass, the error-tolerance policy, *)
(* the asynchronous screenshot loop of `saveImageAsync()`, and the exit    *)
(* procedure `exitWarmer()`.                                               *)
(*                                                                         *)
(* PhantomJS runs every callback to completion on one event loop, so each  *)
(* action below is one whole callback.  `phantom.exit(code)` does not stop *)
(* the script: it records `code` as the process's return value (a later    *)
(* call overwrites it) and quits when the callback returns.  The model     *)
(* keeps this: a handler that calls exit still runs to its end, and the    *)
(* last code it passed is the one the process returns.                     *)
(*                                                                         *)
(* Which URL a page loads is left out: getNextURL() hands out the corpus   *)
(* cyclically from the cursor urlsStarted, and the reload()/open() choice  *)
(* loads that URL either way, so no property here tells URLs apart; only   *)
(* the corpus size N matters.                                              *)
(***************************************************************************)
EXTENDS Integers, Sequences, FiniteSets, C3Codes

CONSTANTS
    Corpus,          \* urlList after urls.load(): the finalized URL sequence
    QueueSize,       \* options.values.queueSize (-q), 1..256
    ProfileRuns,     \* options.values.profileRuns (-p); 0 = cache warming
    WarmUpPass,      \* options.values.warmUpPass !== false (-w given)
    ExitIf,          \* options.values.exitIf, an ER_xxx value
    ImageTemplate,   \* options.values.imageTemplate !== false (-x given)
    NumScreenshots,  \* options.values.numScreenshots
    SaveChecks       \* the `numChecks` of saveImageAsync() (10 in the code)

ASSUME ConstantsAssumption ==
    /\ Len(Corpus) \in Nat \ {0}
    /\ QueueSize \in Nat \ {0}
    /\ ProfileRuns \in Nat
    /\ WarmUpPass \in BOOLEAN
    /\ ExitIf \in ER_USER_INTERRUPT .. ER_MISSING_RESOURCE
    /\ ImageTemplate \in BOOLEAN
    /\ NumScreenshots \in Nat
    /\ SaveChecks \in Nat \ {0}

N == Len(Corpus)

\* run(): numPages = min(queueSize, urls.getNumber()); webPages[0..numPages-1].
NumPages == IF QueueSize > N THEN N ELSE QueueSize
Slots == 0 .. NumPages - 1

VARIABLES
    phase,         \* "init" (before run()), "running", "delay" (warm-up
                   \* done, setTimeout pending), "exited"
    isPreWarmUp,   \* passStatus.isPreWarmUp
    urlsStarted,   \* passStatus.urlsStarted
    urlsFinished,  \* passStatus.urlsFinished
    totalURLs,     \* passStatus.totalURLs
    numErrors,     \* passStatus.numErrors
    slot,          \* per page: "loading" (open/reload in flight), "saving"
                   \* (saveImageAsync interval armed) or "idle"
    checks,        \* per page: numChecks left in its saveImageAsync loop
    exitCode,      \* the code of the last phantom.exit() call, or NoExit
    \* history, read only by the properties:
    saves,         \* number of saveImage() calls
    pageFailed,    \* some onLoadFinished reported a failure
    resourceFailed \* some onResourceError/onResourceTimeout fired

vars == <<phase, isPreWarmUp, urlsStarted, urlsFinished, totalURLs, numErrors,
          slot, checks, exitCode, saves, pageFailed, resourceFailed>>

-----------------------------------------------------------------------------
(* Helpers                                                                 *)

(* Mutants of the definitions below: each is a plausible slip in the code *)
(* and is used only to show that some checked property notices it.        *)

\* getNextURL() testing `<=` instead of `<`.
HasNextURLOffByOne == urlsStarted <= totalURLs

\* getNextURL(): the pass still has planned hits to start.
HasNextURL == urlsStarted < totalURLs

\* Step 4 of exitWarmer(): the code actually passed to phantom.exit().
ExitCodeOf(code, errors) ==
    IF ExitIf = ER_RECORDED_ERRORS /\ errors > 0 THEN ER_RECORDED_ERRORS ELSE code

\* pageLoadCallback() computing `remains` after counting the page finished.
ScreenshotDueAfterIncrement(ok) ==
    /\ ok /\ ProfileRuns = 0 /\ ImageTemplate
    /\ totalURLs - (urlsFinished + 1) <= NumScreenshots

\* pageLoadCallback() measuring `remains` with urlsStarted, not urlsFinished.
ScreenshotDueOnStarted(ok) ==
    /\ ok /\ ProfileRuns = 0 /\ ImageTemplate
    /\ totalURLs - urlsStarted <= NumScreenshots

\* pageLoadCallback(): a loaded page is among the last numScreenshots hits.
ScreenshotDue(ok) ==
    /\ ok /\ ProfileRuns = 0 /\ ImageTemplate
    /\ totalURLs - urlsFinished <= NumScreenshots

\* startAccessPass(pre): reset the pass and open one URL on every page.
StartAccessPass(pre) ==
    /\ isPreWarmUp' = pre
    /\ urlsStarted' = NumPages
    /\ urlsFinished' = 0
    /\ totalURLs' = IF ~pre /\ ProfileRuns > 0 THEN N * ProfileRuns ELSE N
    /\ numErrors' = 0
    /\ slot' = [i \in Slots |-> "loading"]
    /\ phase' = "running"

\* The last hit of a pass finished, but the warm-up flag is not looked at.
EndPassIgnoresWarmUp(errors, code, saved) ==
    /\ phase' = "exited"
    /\ exitCode' = ExitCodeOf(EC_OK, errors)
    /\ saves' = IF ProfileRuns > 0 /\ ImageTemplate THEN saved + 1 ELSE saved

(* The last planned hit of the pass finished (pageLoadCallback, the branch *)
(* of `++urlsFinished === totalURLs`): after the warm-up pass arm the      *)
(* setTimeout() of the measurement pass, otherwise exitWarmer(EC_OK,       *)
(* action), where the action is a screenshot of the last page in          *)
(* profiling mode.  An exit the handler already requested makes the       *)
(* process quit before the timer fires.                                   *)
EndPass(errors, code, saved) ==
    IF isPreWarmUp
    THEN /\ phase' = IF code = NoExit THEN "delay" ELSE "exited"
         /\ exitCode' = code
         /\ saves' = saved
    ELSE /\ phase' = "exited"
         /\ exitCode' = ExitCodeOf(EC_OK, errors)
         /\ saves' = IF ProfileRuns > 0 /\ ImageTemplate THEN saved + 1 ELSE saved

(* The pass goes on: page i takes the next URL of the cursor (by reload() *)
(* or open(), which load it alike), or falls idle when every planned hit  *)
(* started.                                                                *)
DispatchNext(i) ==
    IF HasNextURL
    THEN /\ urlsStarted' = urlsStarted + 1
         /\ slot' = [slot EXCEPT ![i] = "loading"]
    ELSE /\ slot' = [slot EXCEPT ![i] = "idle"]
         /\ UNCHANGED urlsStarted

(* The tail of pageLoadCallback() from `++passStatus.urlsFinished` on, for *)
(* page i, where `errors` and `saved` are numErrors and the saveImage()   *)
(* count as the handler left them and `code` the code of an exit the      *)
(* handler already requested (or NoExit).                                 *)
FinishPage(i, errors, code, saved) ==
    /\ urlsFinished' = urlsFinished + 1
    /\ numErrors' = errors
    /\ UNCHANGED <<isPreWarmUp, totalURLs>>
    /\ IF urlsFinished + 1 = totalURLs
       THEN /\ slot' = [slot EXCEPT ![i] = "idle"]
            /\ UNCHANGED urlsStarted
            /\ EndPass(errors, code, saved)
       ELSE /\ phase' = IF code = NoExit THEN phase ELSE "exited"
            /\ exitCode' = code
            /\ saves' = saved
            /\ DispatchNext(i)

-----------------------------------------------------------------------------
(* Actions                                                                 *)

Init ==
    /\ phase = "init"
    /\ isPreWarmUp = FALSE
    /\ urlsStarted = 0
    /\ urlsFinished = 0
    /\ totalURLs = 0
    /\ numErrors = 0
    /\ slot = [i \in Slots |-> "idle"]
    /\ checks = [i \in Slots |-> 0]
    /\ exitCode = NoExit
    /\ saves = 0
    /\ pageFailed = FALSE
    /\ resourceFailed = FALSE

\* exports.run(): create the pages and start the first pass.
Run ==
    /\ phase = "init"
    /\ StartAccessPass(ProfileRuns > 0 /\ WarmUpPass)
    /\ UNCHANGED <<checks, exitCode, saves, pageFailed, resourceFailed>>

\* onLoadFinished(status) of page i: pageLoadCallback(i, status, false).
PageLoaded(i, ok) ==
    /\ phase = "running"
    /\ slot[i] = "loading"
    /\ pageFailed' = (pageFailed \/ ~ok)
    /\ UNCHANGED resourceFailed
    /\ IF ScreenshotDue(ok)
       THEN \* saveImageAsync(page, i); return
            /\ slot' = [slot EXCEPT ![i] = "saving"]
            /\ checks' = [checks EXCEPT ![i] = SaveChecks]
            /\ UNCHANGED <<phase, isPreWarmUp, urlsStarted, urlsFinished,
                           totalURLs, numErrors, exitCode, saves>>
       ELSE IF ~ok /\ ExitIf \in {ER_MISSING_PAGE, ER_MISSING_RESOURCE}
       THEN \* reportError(EC_MISSING_PAGE) and fall through to numErrors++
            /\ FinishPage(i, numErrors + 1,
                           ExitCodeOf(EC_MISSING_PAGE, numErrors), saves)
            /\ UNCHANGED checks
       ELSE /\ FinishPage(i, IF ~ok /\ ExitIf = ER_RECORDED_ERRORS
                              THEN numErrors + 1 ELSE numErrors,
                           exitCode, saves)
            /\ UNCHANGED checks

(* One tick of the saveImageAsync() interval of page i: `ready` is what    *)
(* the document.images check returned.                                     *)
SaveTick(i, ready) ==
    /\ phase = "running"
    /\ slot[i] = "saving"
    /\ UNCHANGED <<pageFailed, resourceFailed>>
    /\ IF ready \/ checks[i] - 1 = 0
       THEN \* saveImage(page); clearInterval; pageLoadCallback(i, .., true)
            /\ checks' = [checks EXCEPT ![i] = 0]
            /\ FinishPage(i, numErrors, exitCode, saves + 1)
       ELSE /\ checks' = [checks EXCEPT ![i] = checks[i] - 1]
            /\ UNCHANGED <<phase, isPreWarmUp, urlsStarted, urlsFinished,
                           totalURLs, numErrors, slot, exitCode, saves>>

\* The timer starts another warm-up pass instead of the measurement pass.
WarmUpTimerRestartsWarmUp ==
    /\ phase = "delay"
    /\ StartAccessPass(TRUE)
    /\ UNCHANGED <<checks, exitCode, saves, pageFailed, resourceFailed>>

\* The setTimeout() armed at the end of the warm-up pass fires.
WarmUpTimer ==
    /\ phase = "delay"
    /\ StartAccessPass(FALSE)
    /\ UNCHANGED <<checks, exitCode, saves, pageFailed, resourceFailed>>

(* onResourceError / onResourceTimeout while page i loads.  Both callbacks *)
(* read `requestData.url` first, and `requestData` is not defined in their *)
(* scope: the ReferenceError ends the callback before it logs, counts or   *)
(* exits, so nothing but the history flag changes.                         *)
ResourceFailed(i) ==
    /\ phase = "running"
    /\ slot[i] = "loading"
    /\ ~resourceFailed
    /\ resourceFailed' = TRUE
    /\ UNCHANGED <<phase, isPreWarmUp, urlsStarted, urlsFinished, totalURLs,
                   numErrors, slot, checks, exitCode, saves, pageFailed>>

\* After phantom.exit() the process is gone: nothing happens any more.
Exited ==
    /\ phase = "exited"
    /\ UNCHANGED vars

Next ==
    \/ Run
    \/ \E i \in Slots, ok \in BOOLEAN : PageLoaded(i, ok)
    \/ \E i \in Slots, ready \in BOOLEAN : SaveTick(i, ready)
    \/ WarmUpTimer
    \/ \E i \in Slots : ResourceFailed(i)
    \/ Exited

(* PhantomJS reports the end of every load it started (success, failure   *)
(* or its own timeout), and timers armed with setTimeout/setInterval fire: *)
(* each callback that stays enabled eventually runs.                       *)
Fairness ==
    /\ WF_vars(Run)
    /\ \A i \in Slots :
          WF_vars(\E ok \in BOOLEAN : PageLoaded(i, ok))
    /\ \A i \in Slots : WF_vars(\E ready \in BOOLEAN : SaveTick(i, ready))
    /\ WF_vars(WarmUpTimer)

Spec == Init /\ [][Next]_vars /\ Fairness

-----------------------------------------------------------------------------
(* Properties                                                              *)

TypeOK ==
    /\ phase \in {"init", "running", "delay", "exited"}
    /\ isPreWarmUp \in BOOLEAN
    /\ urlsStarted \in Nat
    /\ urlsFinished \in Nat
    /\ totalURLs \in Nat
    /\ numErrors \in Nat
    /\ slot \in [Slots -> {"loading", "saving", "idle"}]
    /\ checks \in [Slots -> 0 .. SaveChecks]
    /\ exitCode \in {NoExit} \cup (EC_OK .. EC_MISSING_RESOURCE)
    /\ saves \in Nat
    /\ pageFailed \in BOOLEAN
    /\ resourceFailed \in BOOLEAN

\* The pages that owe the pass a completion: loading, or in the screenshot loop.
Busy == {i \in Slots : slot[i] # "idle"}

(* Counter accounting across interleaved page callbacks: the pass never    *)
(* starts more URLs than it planned, and the URLs started but not yet      *)
(* counted as finished are exactly the pages still loading or still in     *)
(* their saveImageAsync loop (a deferred screenshot is counted once, when  *)
(* its timer completes it).                                                *)
InFlightAccounting ==
    phase \in {"running", "delay"} =>
        /\ urlsFinished <= urlsStarted
        /\ urlsStarted <= totalURLs
        /\ Cardinality(Busy) = urlsStarted - urlsFinished

(* exitWarmer() reports success only at the end of the last pass: a run    *)
(* that exits with EC_OK finished every planned hit of the measurement or  *)
(* warming pass, with no page still loading or waiting for its screenshot. *)
CleanExit ==
    (phase = "exited" /\ exitCode = EC_OK) =>
        /\ ~isPreWarmUp
        /\ urlsFinished = totalURLs
        /\ Busy = {}

(* Trailing export budget: a warming run takes screenshots of the last     *)
(* NumScreenshots completed pages only; if no page failed it takes exactly *)
(* min(NumScreenshots, planned hits) of them by the time it exits.         *)
ExportBudget ==
    ProfileRuns = 0 =>
        /\ saves <= NumScreenshots
        /\ (phase = "exited" /\ ~pageFailed /\ ImageTemplate) =>
              saves = IF NumScreenshots < totalURLs THEN NumScreenshots
                                                    ELSE totalURLs

(* Trailing export, step by step: in a warming run, a step that calls      *)
(* saveImage() is the one that ends a page's saveImageAsync() loop; it     *)
(* saves one screenshot and counts that page's hit, which is one of the    *)
(* last NumScreenshots hits of the pass, however many pages wait in their  *)
(* loops at once.                                                         *)
ScreenshotStep ==
    (ProfileRuns = 0 /\ saves' # saves) =>
        /\ saves' = saves + 1
        /\ urlsFinished' = urlsFinished + 1
        /\ totalURLs - urlsFinished <= NumScreenshots
        /\ \E i \in Slots : slot[i] = "saving" /\ slot'[i] # "saving"

\* Every step of every run of the warmer is such a step: saveImage() is
\* called only for one of the last NumScreenshots hits of a warming pass.
ScreenshotInWindow == [][ScreenshotStep]_vars

\* Every run ends: the process reaches phantom.exit() and quits.
Termination == <>(phase = "exited")

(* The refinement mapping onto C3PassAbstract: the stage of the run is the *)
(* phase with the isPreWarmUp flag of the pass, started and finished hits  *)
(* are passStatus.urlsStarted and urlsFinished, and a clean exit is one    *)
(* with EC_OK.                                                             *)
PassStage ==
    CASE phase = "init" -> "idle"
      [] phase = "running" -> IF isPreWarmUp THEN "warmup" ELSE "measure"
      [] phase = "delay" -> "pause"
      [] phase = "exited" -> "exited"

Pass == INSTANCE C3PassAbstract
        WITH WarmUp <- ProfileRuns > 0 /\ WarmUpPass,
             WarmUpHits <- N,
             MeasureHits <- IF ProfileRuns > 0 THEN N * ProfileRuns ELSE N,
             stage <- PassStage,
             started <- urlsStarted,
             hits <- urlsFinished,
             clean <- (exitCode = EC_OK)

(* The scheduler implements the abstract run, fairness included: however   *)
(* the page callbacks, screenshot timers and the warm-up timer interleave, *)
(* the passes come in order, every finished page takes the next planned    *)
(* hit, no hit is counted twice or before it started, exitWarmer() reports *)
(* success only after the last hit of the final pass, and the run ends.    *)
PassRefinement == Pass!Spec

-----------------------------------------------------------------------------
(* What the spec says of exit codes; the code disagrees with each of these *)
(* (see the violation runs).                                               *)

(* Spec 4.2/7: under missing-page tolerance any page failure is fatal with *)
(* exit code 4 (EC_MISSING_PAGE), wherever in the pass it happens.         *)
FatalPageExitCode ==
    (ExitIf = ER_MISSING_PAGE /\ pageFailed /\ phase = "exited") =>
        exitCode = EC_MISSING_PAGE

(* Spec 6/7: a run under recorded-errors tolerance that completes with     *)
(* errors recorded returns exit code 3 (EC_RECORDED_ERRORS).               *)
RecordedErrorsExitCode ==
    (ExitIf = ER_RECORDED_ERRORS /\ numErrors > 0 /\ phase = "exited") =>
        exitCode = EC_RECORDED_ERRORS

(* Spec 4.2: under missing-resource tolerance a page-class failure is      *)
(* recorded but not fatal, so the run never ends with EC_MISSING_PAGE.     *)
PageFailureNotFatalUnderMissingResource ==
    ExitIf = ER_MISSING_RESOURCE => exitCode # EC_MISSING_PAGE

(* Spec 4.2/8: under missing-resource tolerance a failed resource stops    *)
(* the run at once with exit code 5 (EC_MISSING_RESOURCE).                 *)
ResourceFailureFatal ==
    (ExitIf = ER_MISSING_RESOURCE /\ resourceFailed) =>
        exitCode = EC_MISSING_RESOURCE

====
