# Verification project: CyberCache warmer/profiler

This directory has TLA+ models of the cache warmer/profiler in `src/src/warmer/`, and of the parts of the repository around it. It also holds the TLC configurations that check them and the TLAPS proofs about them.

## 1. Inventory

The warmer is a PhantomJS script, `warmer.js`. It runs four stages in order: `options.parse()`, `logger.openLogFile()`, `urls.load()` and `processor.run()`. After that everything happens in PhantomJS callbacks on one event loop.

| Component | Source | State it keeps | Operations |
|---|---|---|---|
| Option parser | `c3options.js` | `options` (values), `option_set` (explicitly-set flags), `sources`, `urls` | `parseOptions` (one branch per option), `parseProfileOption` (mode defaults), `parseOptionFile` (nested, depth up to 16), `validateOptions`, `printInfo`, `optionError` |
| Logging sink | `c3logger.js` | `file` handle | `openLogFile`, `logMessage` (level filter), `closeLogFile` |
| URL corpus builder | `c3urls.js` | `urlList` (ordered), `urlPriorities` (url to priority) | `addURL`, `loadCustomURLFile`, `loadSiteMapFile`, `load` (filter, empty check, sort, slice), `getNumber`, `get` |
| Pass scheduler (core) | `c3processor.js` | `webPages` (the pool), `passStatus` {isPreWarmUp, urlsStarted, urlsFinished, totalURLs, numErrors, startTime} | `run`, `startAccessPass`, `getNextURL`, `pageLoadCallback`, `resourceErrorCallback`, `resourceTimeoutCallback`, `resourceRequestCallback`, `exitWarmer`, `reportError` |
| Export controller | `c3processor.js` | the `numChecks` countdown and interval of each screenshot | `saveImageAsync` (readiness poll), `saveImage` (name from URL, render) |
| Magento session handlers | `magento1/.../Session.php`, `magento2/C3/Session/CyberCacheSession.php` | resource handle, lifetime mode, cached lifetime (Magento 1) | `read`, `write` (lifetime policy), `destroy`, `gc`, `open`, `close` |
| Magento 2 cache store | `magento2/C3/Store/CyberCacheStore.php` | resource handle | one-line calls into the extension |
| Stubs and tests | `packaging/stubs/cybercache.php`, `client/`, `tests/` | none | declarations and test scripts |

**How the components interact.** The parser fills `options.values`, `options.sources` and `options.urls`, which the other modules read as shared module state. The corpus builder turns the sources into `urlList`, which the scheduler reads through `urls.get`/`urls.getNumber`. The scheduler registers callbacks on each PhantomJS page: `onLoadFinished` calls `pageLoadCallback`, and there are callbacks for resource errors and timeouts. The scheduler also arms timers: a `setTimeout` between the warm-up pass and the measurement pass, and a `setInterval` per screenshot. Every stage ends the process with `phantom.exit(code)`.

**What is hard.**
- *Interleaving.* Up to 256 pages complete in any order, and all of them update `passStatus`.
- *Re-entry.* The screenshot loop re-injects a page's completion into `pageLoadCallback` later.
- *Passes.* The warm-up pass hands over to the measurement pass through a timer.
- *Exits that don't stop.* `phantom.exit` only records the return code and quits when the callback returns. Every "fatal" path (`reportError`, `urlError`, `optionError`) goes on running. A later `phantom.exit` in the same callback, or in a later stage, overwrites the code.
- *Exit codes and policy.* The tolerance policy and the exit codes are easy to get wrong, and no test exercises them under concurrency.

**What makes each component correct.**
- *Scheduler:*
  - the pass starts exactly the planned number of hits;
  - it counts each one finished exactly once;
  - the run exits only after the last pass, with the exit code the tolerance policy prescribes;
  - the run terminates.
- *Export controller:* exactly the last `numScreenshots` pages are exported, and each deferred completion is counted once.
- *Corpus builder:*
  - one entry per URL, at its first-seen position, with the last accepted priority;
  - priority and freshness filters;
  - a stable sort;
  - the slice bounds;
  - exit 1 on an empty result and exit 2 on a malformed source.
- *Option parser:*
  - profile-mode defaults never override an explicit option;
  - any error exits with 2.
- *Session handlers:* the lifetime passed to `c3_write` follows the `magento_lifetime` mode.

The full list of hazards, each at its source line, is in `PROJECT.json` under "hazards".

## 2. Plan

Modules, in order of importance:
1. **`C3Processor`** (done): the pass scheduler and export loop, with `MC_C3Processor` for TLC and `C3Processor_proofs` for TLAPS.
2. **`C3Processor` extensions**:
   - which URL a page loads is not modelled. `getNextURL()` hands out `urls.get(urlsStarted++ % N)`, and `pageLoadCallback` uses `reload()` only when `page.url` equals that URL, so either call loads it. Only the cursor `urlsStarted` matters to the properties;
   - duplicate `onLoadFinished` events (not modelled, see section 6).
3. **`C3Urls`** (done): the corpus builder, with `MC_C3Urls`; see section 4a.
4. **`C3Options`** (done, section 4b): `parseOptions` over a sequence of option tokens, with the `option_set` flags, nested option files and `validateOptions`.
5. **`C3Warmer`**: composes the three stages of `warmer.js` with a single process exit code ("last `phantom.exit` wins"). It shows that an error in an early stage is reported or overwritten.
6. **`C3SessionLifetime`**: the lifetime `write()` passes in Magento 1 and Magento 2. The Magento 2 code compares with backtick shell-exec strings instead of quoted strings.

Abstract specification (done, section 3a): `C3PassAbstract`. A pass is a counter of finished hits, and the run is warm-up, then measurement, then exit. `C3Processor` is shown to implement it through a refinement mapping. Each `PageLoaded`/`SaveTick` completion maps to one abstract hit, and every other step maps to a stutter.

Theorems worth proving:
- type correctness and `InFlightAccounting` (done);
- `CleanExit` and the refinement of `C3PassAbstract` (done, section 5);
- during collection, `urlList` has no duplicate and its entries are exactly the keys of `urlPriorities`. After the sort this can only be model-checked, because the sort is a recursive function;

## 3. The core model: `C3Processor.tla`

**State.** One variable per `passStatus` field, except `startTime`, which is timing only. The per-page variables are:
- `slot[i]`: `"loading"` while an `open()`/`reload()` is in flight, `"saving"` while its `saveImageAsync` interval is armed, otherwise `"idle"`;
- `checks[i]`: the `numChecks` countdown.

`page.url` is not a variable. The next URL is loaded by `reload()` when it equals `page.url` and by `open()` otherwise, and both load that URL.

Two more variables describe the process:
- `phase`: `"init"` before `run()`, `"running"`, `"delay"` (warm-up done, the `setTimeout` pending) and `"exited"`;
- `exitCode`: the code of the last `phantom.exit` call.

History variables read only by properties: `saves` (calls of `saveImage`), `pageFailed` and `resourceFailed`.

**Constants.** The finalized corpus `Corpus` (a sequence of model values, of which only the length `N` is used) and the option values the scheduler reads:
- `QueueSize`, `ProfileRuns`, `WarmUpPass`, `ExitIf`;
- `ImageTemplate`, `NumScreenshots`;
- `SaveChecks`, the literal 10 of `saveImageAsync`.

`ConstantsAssumption` states their ranges. The corpus is non-empty because `urls.load` exits on an empty corpus.

**Actions.** Each action is a whole callback:

| Action | Code |
|---|---|
| `Run` | `exports.run` and `startAccessPass` |
| `PageLoaded(i, ok)` | `onLoadFinished` → `pageLoadCallback(i, status, false)`:  the screenshot deferral, the failure policy and the shared tail `FinishPage`: `EndPass` at the end of a pass, otherwise `DispatchNext`, which advances the cursor and keeps the page loading, or idles it when every planned hit has started |
| `SaveTick(i, ready)` | one tick of the `saveImageAsync` interval, completing through `FinishPage` |
| `WarmUpTimer` | the `setTimeout` that starts the measurement pass |
| `ResourceFailed(i)` | `onResourceError`/`onResourceTimeout`: they throw on `requestData.url` before doing anything, so only the history flag changes |
| `Exited` | the process is gone (a stutter, so a stuck state is still reported as a deadlock) |

`phantom.exit` is modelled as PhantomJS implements it. It sets the return value, a later call overwrites it, and the process quits when the current callback returns. A handler that calls `reportError` therefore still runs to its end.

**Fairness.** Weak fairness on `Run`, on each page's `PageLoaded`, on each page's `SaveTick` and on `WarmUpTimer`. PhantomJS reports the end of every load it starts, as success, failure or its own timeout, and armed timers fire. `ResourceFailed` gets no fairness.

## 3a. What a run promises: `C3PassAbstract.tla`

`C3PassAbstract` states the run without pages, screenshots or callbacks. Its state is:
- `stage`: `idle`, `warmup`, `pause`, `measure` or `exited`;
- the counters `started` and `hits` of the current pass;
- `clean`: the run exited with success.

Its actions:
- `Start` and `Resume` begin a pass with between 1 and `Plan(stage)` hits started.
- `Hit` counts one started hit and starts the next planned one, if any. The pass then goes on, pauses after warm-up, or exits after the final pass, possibly with success. A fatal error exits at any hit, never with success.

`C3Processor` implements it under the refinement mapping `Pass == INSTANCE C3PassAbstract WITH ...`:
- `stage <- PassStage`: `phase` and `isPreWarmUp` read as a stage;
- `started <- urlsStarted` and `hits <- urlsFinished`;
- `clean <- (exitCode = EC_OK)`;
- the plans `WarmUpHits <- N` and `MeasureHits <- N * ProfileRuns` (or `N` when warming).

`Run` maps to `Start` and `WarmUpTimer` to `Resume`. Every `PageLoaded` or `SaveTick` that goes through `FinishPage` is one `Hit`. Every other step is a stutter: a deferral into the screenshot loop, a poll that waits, a resource callback, or the exited process.

The property `PassRefinement == Pass!Spec` includes the abstract weak fairness. It is checked by TLC on both passing runs and is the one property the two runs share with the abstract view. Its safety part is proved (section 5).

## 4. Runs

| Run | Bounds | Checks | Shows |
|---|---|---|---|
| `profile` | 4 URLs, 3 pages, 4 profile runs, warm-up, missing-page, final screenshot | `InFlightAccounting`, `CleanExit`, `Termination`, `PassRefinement` | counters reset across the pass change, exit only at the end of the measurement pass, termination, and that the run is a run of `C3PassAbstract` |
| `warm` | 3 URLs, 2 pages, warming, recorded-errors, 2 screenshots, 10 polls | `InFlightAccounting`, `ExportBudget`, `ScreenshotInWindow`, `PassRefinement` | deferred screenshot completions are counted once; exactly min(budget, hits) screenshots when no page fails; a screenshot is saved only as the deferred hit that ends its page's readiness loop, and only within the last `numScreenshots` hits |
| `fatal_page_exit_code` | 2 URLs, 2 pages, missing-page | `FatalPageExitCode` | **violated**: when the last page fails, exit code 4 is overwritten by 0 |
| `recorded_errors_exit_code` | recorded-errors | `RecordedErrorsExitCode` | **violated**: the run returns 1 instead of 3 |
| `page_failure_missing_resource` | missing-resource | `PageFailureNotFatalUnderMissingResource` | **violated**: a page failure is fatal (4) |
| `resource_failure_fatal` | missing-resource | `ResourceFailureFatal` | **violated**: a resource failure changes nothing |

**Why these bounds are enough.**
- Fewer pages than URLs (2 over 3, and 3 over 4) let one page take a second URL while the others are still loading.
- Four profiling runs make the cursor wrap around several times, and the three pages of `profile` have three loads in flight at once.
- A budget of 2 screenshots on 3 hits makes two pages sit in their readiness loops together while the third completes.
- All 10 polls of the real loop are kept.

The violation runs need only one failure at the right moment.

Every property of the passing runs has a mutant in `PROJECT.json`: a plausible slip in the code that TLC catches. The type invariant `TypeOK` is proved rather than run. No plausible mutant of this code breaks it, because the model's values stay in their sets by construction.

## 4a. The corpus builder: `C3Urls.tla`

Shared codes (exit codes, tolerance levels, sort orders) live in `C3Codes.tla`, which both models extend.

**State.**
- `urlList` and `prio` (`urlPriorities`, a function on the URLs seen);
- the loop position `next` over `options.sources`;
- the file being read (`reading`, `records`);
- `exitCode`.

`sources` is chosen in `Init` from all source lists up to `MaxSources`, and the read-only `options.values` (`sortOrder`, `firstURL`, `numURLs`) from the constant set `Settings`. An explicit URL source carries the priority its `-u` option wrote, and `load()` looks it up as the code does, through `options.urls`, which keeps the last `-u` priority of a URL (`OptionPriority`). The records of a file are inputs chosen as the file is read: `"ok"`, `"stale"` (site map, `<lastmod>` older than `-o`) or `"bad"` (malformed, or a priority outside [0,1]). Up to `MaxRecords` are read per file.

**Actions.** `load()` runs synchronously with nothing beside it, so its loop is split into steps that change nothing another actor could see:
- `AddListedURL`: an explicit URL;
- `OpenFile`, then `ReadRecord` per record, then `CloseFile`;
- `ReadFailed`: the `catch` of an unreadable file;
- `Finish`: steps 2 to 5 of `load()`, which are the empty check, the sort, the slice and clearing `urlPriorities`.

`urlError` and the nothing-to-do exits record an exit code and go on, as `phantom.exit` does.

**The sort.** `urlList.sort(cmp)` is modelled by what PhantomJS's JavaScriptCore does with a comparator: a stable sort. It is written as an insertion sort, a recursive function `SortByPriority`, and checked against an independent reference. `OrderedBefore`/`RankIn` give every element its rank in the stable order, so the window the slice keeps can be stated rank by rank.

**Runs.**

| Run | Bounds | Checks | Shows |
|---|---|---|---|
| `corpus` | 3 URLs (symmetric), priorities 0/0.5/1, `-r:0.5,1`, 2 sources, 3 records per file; two settings: descending with `-b 1 -n 1`, and ascending with `-b 0 -n 0` | `DedupLastWins`, `FinalCorpus` | `addURL` matches the first-seen/last-priority reference; the result is the right window of the stable sort, with the right exit code; the defaults keep everything |
| `explicit_priority_overwrite` | 2 records per file | `ExplicitPriorityHonoured` | **violated**: `-u 0.5 a -u 0.0 a` under `-r:0.5,1` loses `a` and exits 1, because both occurrences use the last `-u` priority |
| `config_error_exit_code` | 2 records per file | `ConfigErrorExitCode` | **violated**: a malformed record, then an empty corpus, returns 1, not 2 |

**Why these bounds are enough.**
- Three URLs with three records per file give three-element sorts with ties.
- Two sources let a URL come back from a second source with a new priority.
- One priority level lies outside the `-r` range, so the filter rejects some entries.
- `-b 1 -n 1` cuts the list at both ends.

## 4b. The option parser: `C3Options.tla`

**State.**
- `opts`: the values of `options` that later stages read (profile runs, queue size, priority range, sort order, user agent, tolerance, warm-up, screenshots and template);
- `optSet`: `option_set`, the flags for sort order, user agent and tolerance set explicitly;
- `frames`: one `optionsEnded` flag per active `parseOptions()` call (the command line, then one per nested option file);
- `action`: the `action` value passed through those calls;
- `numSources`: `sources.length`;
- `exitCode`: the last `phantom.exit` code.

An argument is a token: the option it matches and the value its parser extracts, or a rejected value (`"bad"`, `Rejected`). Tokens are inputs chosen as parsing reaches them, from a small set per run, up to `MaxTokens` in all. A line of an option file is a token of the same kind.

`TokensAssumption` states what the parsers can hand back, from their regular expressions and switches:
- `-p` and `-q` give a natural number (`\d+` through `parseInt`);
- `-r` gives a pair of numbers, and `-u` a number;
- `-s`, `-a` and `-e` give a code or `Rejected`;
- `-x` gives a count (`all|\d+`) and a template that is well-formed or not.

TLC evaluates the assumption on every run of the module.

**Actions.**
- `ParseArg(t)`: one iteration of the loop of `parseOptions()`. Once a source has been seen, or after `--`, every argument is a source. Otherwise `-v`/`-h` change `action` (`-h` takes precedence), and an option runs its parser (`ApplyOption`). `parseProfileOption` applies the mode defaults only to options whose `option_set` flag is clear. A rejected value calls `optionError`, which records exit 2 and does not stop parsing: the bad value of `-q` or `-r` is still stored.
- `ParseOptionFile(t, readable)`: `@path`. Past the nesting limit it reports an error and reads the file all the same. A readable file opens a new frame. An unreadable one is an error, and its `catch` returns `undefined` as the new action, which drops an earlier `-v` or `-h`.
- `EndOptionFile`: a nested call returns.
- `Finish`: `exports.parse`'s switch. `PA_PRINT_VERSION` falls through to `printInfo(true)` and `PA_PRINT_HELP` to `validateOptions()`, because `printInfo`'s `phantom.exit(1)` does not return. `validateOptions` exits 2 when there is no source, more than one screenshot in profiling mode, or a bad template. `validateOptions` runs last, so its exit 2 overrides `printInfo`'s exit 1 within `parse()`. That is not the process's exit code: `warmer.js` goes on with `urls.load()`, whose empty-corpus exit 1 comes later (the whole-run composition, `C3Warmer`, is not modelled). No property here claims a code for the whole run. The model writes this as an ordered `IF`: a TLA+ `CASE` with two true guards may take either arm. The same holds for `Resolved` in `ModeDefaultsHonoured`, where an explicit setting takes precedence over the `-p` default.

**Runs.**

| Run | Bounds | Checks | Shows |
|---|---|---|---|
| `options_parse` | 18 tokens: `-p:0`, `-p:2`, `-s` (valid or rejected), `-a`, `-e`, a source, `--`, option files (readable or not), a rejected value for each checked parser, the screenshot and template cases, `-v`, `-h`; 5 tokens, 2 nested files | `ModeDefaultsHonoured`, `ValidatedConfiguration` | the options resolve to the last explicit setting, or else to the last `-p`'s mode default, in every order and across files; a command line that reaches the next stage without an exit has valid options |
| `sort_default_documented` | mode tokens, 3 tokens | `SortDefaultAsDocumented` | **violated**: `-p:0 url` sorts as-is; the help says high-priority-first is the warming default |
| `info_request_printed` | validation tokens, 3 tokens | `InfoRequestPrinted` | **violated**: `-v` prints the help too, because `printInfo()` returns and the switch of `exports.parse()` falls through |

**Bounds.** The real nesting limit (16) is scaled down to `NestingLimit = 0`, so one nested file already takes the error path. `MaxDepth` bounds the nesting the model follows. Five tokens are enough for `-s`, `-a` or `-e` to stand before and after two `-p` options, with a file between them.

**Observations outside the properties.**
- `parseLogLevelOption` maps `normal` to `LL_NONE` (line 354).
- The help text names `--export` while the parser matches `--export-if`.
- The nesting check (line 716) reports an error but still recurses, so a self-including file recurses without limit.

## 5. Proofs (`C3Processor_proofs.tla`)

**`TypeCorrect`** (`Spec => []TypeOK`) and **`Accounting`** (`Spec => []InFlightAccounting`) are proved for every value of the constants that satisfies `ConstantsAssumption`.

Neither invariant is inductive on its own. The inductive invariant is `IInv == TypeOK /\ InFlightAccounting /\ SavingArmed`:
- `SavingArmed` says a page in its screenshot loop has 1..`SaveChecks` polls left. Without it the decrement in `SaveTick` could leave the type.
- The accounting needs the types to reason about `Cardinality` of the busy pages.

The proof is one lemma per action (`InitInv`, `StartPassInv`, `PageLoadedInv`, `SaveTickInv`) plus `FinishPageInv` for the shared tail of `pageLoadCallback`. `FinishPageInv` rests on `BusyPageUnfinished`: a busy page implies `urlsFinished < urlsStarted`. It also uses the finite-set facts `FS_RemoveElement` and `FS_Interval`. The pass-start lemma needs `NumPages <= totalURLs`, which holds because `NumPages = min(QueueSize, N)` and `totalURLs` is `N` or `N * ProfileRuns` with `ProfileRuns >= 1`.

TLC checked `IInv` on both passing runs before it was proved.

### The refinement (`C3PassRefinement_proofs.tla`)

**`Refinement`** (`Spec => Pass!SafeSpec`) states that `C3Processor` implements the safety part of `C3PassAbstract` for every value of the constants. **`CleanExitHolds`** (`Spec => []CleanExit`) is proved along the way.

The inductive invariant is `RInv == IInv /\ PassInv /\ CleanExit`. `PassInv` adds two facts:
- before the exit no exit code is set. So the code `FinishPage` passes on while the pass runs is either none or a fatal error code, never success. This is what makes an early exit an abstract fatal `Hit` with `clean' = FALSE`.
- while a pass runs, `totalURLs` is that pass's plan. The abstract `started'` follows `getNextURL()`'s test only because of this.

`CleanExit` needs the accounting: at the last hit, `urlsStarted = totalURLs = urlsFinished + 1`, so the finishing page is the only busy one (`FS_EmptySet`), and the pool is idle when `exitWarmer(EC_OK)` runs.

The step lemmas are `RunStep`, `TimerStep`, `FinishPageStep`, `PageLoadedStep`, `SaveTickStep` and `RunningStutter` for the stutters. `RInvInductive` combines them into `RInv /\ [Next]_vars => RInv' /\ [Pass!Next]_Pass!avars`. TLC checked `RInv` as an invariant of both passing runs before it was proved.

### The screenshot budget (`C3ExportBudget_proofs.tla`)

**`ExportBudgetHolds`** (`Spec => []ExportBudget`) holds for every value of the constants. A warming run never saves more than `numScreenshots` screenshots, and one that exits without a failed load has saved exactly `min(numScreenshots, hits)`.

The difficulty is that `pageLoadCallback` defers a page into `saveImageAsync` when at most `numScreenshots` hits remain, and several deferred pages may wait at once. The inductive invariant `EInv` (with `Remaining == totalURLs - urlsFinished`) says:
- `SavesBounded`: once a screenshot was saved or is pending, `saves + Remaining <= numScreenshots`, because each remaining hit may still take one;
- `SavesExact`: without a failed load, `saves` is `Budget - Remaining` once `Remaining` fell to the budget, and 0 before;
- a warming run has no warm-up pass, so `saves` is never reset;
- a run without a failed load exits only at its last hit.

The step lemmas follow the actions:
- `PageLoadedEInv`: a page counted at once, with no failure, saw more than `numScreenshots` hits remaining, so nothing was saved yet;
- `SaveTickEInv`: a completed save adds one to `saves` and takes one from `Remaining`;
- `RunEInv`, `TimerEInv`, and `FinishPageFacts` for the shared tail.

They rest on `RInv` from the refinement. `EInvInductive` states the step, and TLC checked `EInv` on both passing runs before it was proved. `BudgetInvariant` packages the two invariants as `Spec => [](RInv /\ EInv)`.

**`ScreenshotInWindowHolds`** (`Spec => ScreenshotInWindow`) is the action property that goes with the budget, and it holds for every value of the constants. In a warming run, every step that changes `saves` does three things:
- it takes one page out of its `saveImageAsync()` loop;
- it adds exactly one to `saves` and to `urlsFinished`;
- it leaves at most `numScreenshots` hits remaining.

This rules out two plausible mistakes:
- saving from a page that was counted at once;
- deciding the deferral on `urlsStarted` rather than on `urlsFinished`. The mutant `ScreenshotDueOnStarted` breaks the property.

The proof is `ScreenshotStepHolds`, which has one case per action. Only `SaveTick`'s save branch changes `saves` in a warming run. Within it, `SavesBounded` from `EInv` gives `saves + Remaining <= numScreenshots` while a page is in its loop, so after the step `Remaining <= numScreenshots`. `PageLoaded`, `Run`, `WarmUpTimer`, `ResourceFailed` and `Exited` leave `saves` alone when `profileRuns = 0`. TLC checks the property on `warm`.

### The option parser (`C3Options_proofs.tla`)

**`ValidatedConfigurationHolds`** (`Spec => []ValidatedConfiguration`) holds for every token set allowed by `TokensAssumption` and every bound. `optionError` does not stop parsing, so a rejected value is stored and may later be overwritten by a valid one. The inductive invariant `VInv` therefore rests on the exit code, which no later step sets back to "no exit":
- while no exit is requested, the stored queue size and priority range are within their limits and no option file failed to be read;
- `-x` always sets a template with its count;
- `Finish` leaves no exit request only for a valid configuration without `-v` or `-h`.

**`ModeDefaultsHonouredHolds`** (`Spec => []ModeDefaultsHonoured`) holds for every command line and nesting of option files. The inductive invariant is `MInv` (with `VInv` for the shape of `options`):
- the `option_set` flag of an option is up exactly when an argument for it is in the history `given`, whether its value was accepted or not;
- the last `-s`, `-a`, `-e` and `-p` are where `LastGiven` finds them;
- until `optionError` is called, each of the three options already equals what `Resolved` makes of the history.

The lemmas about the history:
- `LastOfAppend`: an appended token becomes the last of its kind, and the last of every other kind stays put;
- `ResolvedAppend`: an explicit setting decides its option, a `-p` decides it only if no explicit setting came before, and any other token changes nothing.

`LastGiven` chooses a maximum with `CHOOSE`. The provers do not identify two `CHOOSE` terms over equal sets, so the proof names that maximum `MaxIndex` and reasons by congruence. It never needs the existence of a maximum: `MInv` carries the fact that the last index holds a token of its kind. TLC checked `VInv` and `MInv` on `options_parse` before they were proved.

**`TypeCorrect`** (`Spec => []TypeOK`) holds for every token set and every bound. It says three things:
- the parseOptions() calls nest at most `MaxDepth` deep;
- at most `MaxTokens` arguments are read;
- the only exit codes requested are 1 and 2, because phantom.exit is called only by optionError() and printInfo().

`TypeOK` alone is not inductive. `numSources <= MaxTokens` holds only because every counted source was read, so the inductive invariant `TInv` adds `numSources <= read`. The step lemmas are:
- `ParseArgTInv`, using `EndTop`: marking a call's options ended keeps the stack of calls as deep as it was;
- `ParseOptionFileTInv`;
- `ReportCode` and `ApplyOptionCounts`, where an option's parser counts at most one source and requests only code 2.

TLC checked `TInv` on the `options_parse` configuration (3.7 million distinct states) before it was proved.

### The corpus builder (`C3Urls_proofs.tla`)

**`DedupLastWinsHolds`** (`Spec => []DedupLastWins`) holds for every set of URLs and priorities, every priority range and every list of sources and file records. Whatever order explicit URLs and file records arrive in, `urlList` has each accepted URL once, in the order of its first accepted `addURL()` call, and `urlPriorities` has the priority of its last accepted call.

The reference `IsCorpusOf` names the first and the last acceptance with `CHOOSE`. The inductive invariant `UInv` therefore adds:
- `FirstExists` and `LastExists`: every accepted URL has a first and a last accepted call. This means the proof never needs a minimum of a set of naturals to exist;
- that the set of accepted URLs is finite, for `FS_AddElement`;
- that files are read only while collecting;
- the types of the sources and of the history of calls.

The lemmas about the history are as follows:
- `AcceptedAppend`: an appended call is accepted exactly when its priority is in range;
- `FirstAcceptedIs` and `LastAcceptedIs`: a call that is first (last) among the accepted calls of its URL is the one the `CHOOSE` picks;
- `FirstAppend`: a new call moves no URL's first acceptance and is the first acceptance of a new URL;
- `LastAppend`: a new accepted call is the last acceptance of its URL and leaves the other URLs' last acceptance alone.

`AddURLCorpus` combines these into one `addURL()` call. It has three cases: out of range, a URL already listed, and a new URL. `UInvInductive` applies it to `AddListedURL` and to an "ok" file record, and shows that the other steps leave the history alone or move the collection into `collected`. TLC checked `UInv` on `corpus` (4.7 million distinct states) before it was proved.

**Only model-checked.** Liveness (`Termination`, and the fairness part of `PassRefinement`) and everything involving ENABLED are beyond TLAPS here. So is what a recursive definition computes for all inputs, which is why `FinalCorpus` is TLC-only. It compares the corpus with `SortByPriority`, a recursive function over the sequence, and proving it for every corpus needs induction over sequences with an operator parameter.

## 6. Not modelled

- Timing statistics and display modes (`printPassStats`, `getDurationString`) and logging text.
- Page settings: user agent, viewport, and the disabled-resource regular expression. Their only behavioural effect, aborted requests, goes through the resource error callback, which throws anyway.
- The Magento 2 cache store, the extension stubs and the test scripts, which have no state or control of their own.
- Duplicate `onLoadFinished` events for one `open()`. `pageLoadCallback` has no guard against them, so any model that delivers one breaks `InFlightAccounting` at once. Whether PhantomJS really repeats the event (frames, client-side redirects) is engine behaviour outside this repository. The hazard stays listed in `PROJECT.json`, with that note.
- `C3Warmer` (the composition of the stages in `warmer.js`) and `C3SessionLifetime` from the plan have not been written yet. Their hazards are listed in `PROJECT.json`, and those without a property carry a note.
- The session-lock protocol, which is implemented in the CyberCache server and is not part of this repository.
