-------------------------- MODULE C3Processor_proofs --------------------------
(***************************************************************************)
(* Proofs about the pass scheduler: type correctness and the in-flight     *)
(* accounting of passStatus, for every corpus and every option value.      *)
(***************************************************************************)
EXTENDS C3Processor, FiniteSetTheorems, TLAPS

(* A page in its saveImageAsync() loop has a countdown of 1..SaveChecks    *)
(* ticks left: the loop is armed with numChecks = 10 and ends at 0.        *)
SavingArmed ==
    \A i \in Slots : slot[i] = "saving" => checks[i] \in 1 .. SaveChecks

(* The inductive invariant: InFlightAccounting alone is not inductive, it  *)
(* needs the types, and TypeOK needs SavingArmed for the countdown.        *)
IInv == TypeOK /\ InFlightAccounting /\ SavingArmed

-----------------------------------------------------------------------------
(* Facts about the constants and the helpers.                              *)

\* The pool has 1..N pages, numbered 0 .. NumPages - 1.
LEMMA PoolFacts ==
    /\ N \in Nat \ {0}
    /\ NumPages \in 1 .. N
    /\ IsFiniteSet(Slots)
    /\ Cardinality(Slots) = NumPages
<1>1. N \in Nat \ {0}
  BY ConstantsAssumption DEF N
<1>2. NumPages \in 1 .. N
  BY <1>1, ConstantsAssumption DEF NumPages
<1>3. IsFiniteSet(Slots) /\ Cardinality(Slots) = NumPages
  BY <1>2, FS_Interval DEF Slots
<1>4. QED
  BY <1>1, <1>2, <1>3

\* The busy pages are a finite set of pages.
LEMMA BusyFinite == IsFiniteSet(Busy) /\ Busy \subseteq Slots
BY PoolFacts, FS_Subset DEF Busy

\* The exit codes a handler can pass to phantom.exit().
ExitCodes == {NoExit} \cup (EC_OK .. EC_MISSING_RESOURCE)

LEMMA ExitCodeOfType ==
    ASSUME NEW code \in EC_OK .. EC_MISSING_RESOURCE, NEW errors \in Nat
    PROVE  ExitCodeOf(code, errors) \in EC_OK .. EC_MISSING_RESOURCE
BY DEF ExitCodeOf, ER_RECORDED_ERRORS, EC_OK, EC_MISSING_RESOURCE

(* A page that owes the pass a completion (loading or saving) exists only *)
(* while some started URL is not yet finished.                            *)
LEMMA BusyPageUnfinished ==
    ASSUME TypeOK, InFlightAccounting, phase = "running",
           NEW i \in Slots, slot[i] # "idle"
    PROVE  /\ i \in Busy
           /\ urlsFinished < urlsStarted
           /\ Cardinality(Busy \ {i}) = urlsStarted - urlsFinished - 1
<1>1. i \in Busy
  BY DEF Busy
<1>2. Cardinality(Busy \ {i}) = Cardinality(Busy) - 1
      /\ Cardinality(Busy \ {i}) \in Nat
  BY <1>1, BusyFinite, FS_RemoveElement, FS_CardinalityType
<1>3. Cardinality(Busy) = urlsStarted - urlsFinished
  BY DEF InFlightAccounting
<1>4. QED
  BY <1>1, <1>2, <1>3 DEF TypeOK

(* The tail of pageLoadCallback() keeps the invariant, whatever the part  *)
(* of the handler before it did to numErrors, the exit code, the save     *)
(* count and the countdowns of the other pages.                           *)
LEMMA FinishPageInv ==
    ASSUME IInv, phase = "running",
           NEW i \in Slots, slot[i] # "idle",
           NEW errors \in Nat, NEW code \in ExitCodes, NEW saved \in Nat,
           FinishPage(i, errors, code, saved),
           checks' \in [Slots -> 0 .. SaveChecks],
           \A j \in Slots \ {i} : checks'[j] = checks[j],
           pageFailed' \in BOOLEAN, resourceFailed' \in BOOLEAN
    PROVE  IInv'
<1> USE DEF IInv
<1>1. /\ i \in Busy
      /\ urlsFinished < urlsStarted
      /\ Cardinality(Busy \ {i}) = urlsStarted - urlsFinished - 1
  BY BusyPageUnfinished
<1>2. /\ urlsFinished' = urlsFinished + 1
      /\ numErrors' = errors
      /\ UNCHANGED <<isPreWarmUp, totalURLs>>
  BY DEF FinishPage
<1>3. SavingArmed'
  <2>1. \A j \in Slots \ {i} : slot'[j] = slot[j]
    BY DEF FinishPage, DispatchNext, TypeOK
  <2>2. slot'[i] # "saving"
    BY DEF FinishPage, DispatchNext, TypeOK
  <2>3. QED
    BY <2>1, <2>2 DEF SavingArmed
<1>4. CASE urlsFinished + 1 = totalURLs
  <2>1. /\ slot' = [slot EXCEPT ![i] = "idle"]
        /\ UNCHANGED urlsStarted
        /\ EndPass(errors, code, saved)
    BY <1>4 DEF FinishPage
  <2>2. Busy' = Busy \ {i}
    BY <2>1 DEF Busy, TypeOK
  <2>3. /\ phase' \in {"delay", "exited"}
        /\ exitCode' \in ExitCodes
        /\ saves' \in Nat
    BY <2>1, ExitCodeOfType DEF EndPass, ExitCodes, EC_OK, EC_MISSING_RESOURCE
  <2>4. TypeOK'
    BY <1>2, <2>1, <2>3 DEF TypeOK, ExitCodes
  <2>5. InFlightAccounting'
    BY <1>1, <1>2, <2>1, <2>2 DEF InFlightAccounting, TypeOK
  <2>6. QED
    BY <1>3, <2>4, <2>5
<1>5. CASE urlsFinished + 1 # totalURLs
  <2>1. /\ phase' \in {"running", "exited"}
        /\ exitCode' = code
        /\ saves' = saved
        /\ DispatchNext(i)
    BY <1>5 DEF FinishPage
  <2>2. CASE HasNextURL
    <3>1. /\ urlsStarted' = urlsStarted + 1
          /\ slot' = [slot EXCEPT ![i] = "loading"]
      BY <2>1, <2>2 DEF DispatchNext
    <3>2. Busy' = Busy
      BY <1>1, <3>1 DEF Busy, TypeOK
    <3>4. TypeOK'
      BY <1>2, <2>1, <3>1 DEF TypeOK, ExitCodes
    <3>5. InFlightAccounting'
      BY <1>1, <1>2, <2>2, <3>1, <3>2 DEF InFlightAccounting, TypeOK, HasNextURL
    <3>6. QED
      BY <1>3, <3>4, <3>5
  <2>3. CASE ~HasNextURL
    <3>1. /\ slot' = [slot EXCEPT ![i] = "idle"]
          /\ UNCHANGED urlsStarted
      BY <2>1, <2>3 DEF DispatchNext
    <3>2. Busy' = Busy \ {i}
      BY <3>1 DEF Busy, TypeOK
    <3>3. TypeOK'
      BY <1>2, <2>1, <3>1 DEF TypeOK, ExitCodes
    <3>4. InFlightAccounting'
      BY <1>1, <1>2, <3>1, <3>2 DEF InFlightAccounting, TypeOK
    <3>5. QED
      BY <1>3, <3>3, <3>4
  <2>4. QED
    BY <2>2, <2>3
<1>6. QED
  BY <1>4, <1>5

-----------------------------------------------------------------------------
(* One lemma per action of Next.                                           *)

\* Init establishes the invariant: no page is busy before run().
LEMMA InitInv == Init => IInv
<1> SUFFICES ASSUME Init PROVE IInv
  OBVIOUS
<1>1. /\ slot \in [Slots -> {"loading", "saving", "idle"}]
      /\ checks \in [Slots -> 0 .. SaveChecks]
  BY ConstantsAssumption DEF Init
<1>3. exitCode \in {NoExit} \cup (EC_OK .. EC_MISSING_RESOURCE)
  BY DEF Init
<1>4. TypeOK
  BY <1>1, <1>3 DEF Init, TypeOK
<1>5. InFlightAccounting /\ SavingArmed
  BY DEF Init, InFlightAccounting, SavingArmed
<1>6. QED
  BY <1>4, <1>5 DEF IInv

(* startAccessPass() from run() or from the warm-up timer: every page      *)
(* loads one URL and the pass plans at least as many hits as there are     *)
(* pages.                                                                  *)
LEMMA StartPassInv ==
    ASSUME IInv, NEW pre \in BOOLEAN, StartAccessPass(pre),
           UNCHANGED <<checks, exitCode, saves, pageFailed, resourceFailed>>
    PROVE  IInv'
<1>1. totalURLs' \in Nat /\ NumPages <= totalURLs'
  <2>1. CASE ~pre /\ ProfileRuns > 0
    <3>1. totalURLs' = N * ProfileRuns
      BY <2>1 DEF StartAccessPass
    <3>2. N * ProfileRuns >= N * 1
      BY <2>1, PoolFacts, ConstantsAssumption
    <3>3. QED
      BY <3>1, <3>2, PoolFacts, ConstantsAssumption
  <2>2. CASE ~(~pre /\ ProfileRuns > 0)
    BY <2>2, PoolFacts DEF StartAccessPass
  <2>3. QED
    BY <2>1, <2>2
<1>2. Busy' = Slots
  BY DEF StartAccessPass, Busy
<1>5. TypeOK'
  BY <1>1, PoolFacts DEF StartAccessPass, IInv, TypeOK
<1>6. InFlightAccounting'
  BY <1>1, <1>2, PoolFacts DEF StartAccessPass, InFlightAccounting
<1>7. SavingArmed'
  BY DEF StartAccessPass, SavingArmed
<1>8. QED
  BY <1>5, <1>6, <1>7 DEF IInv

\* onLoadFinished of page i, for either status.
LEMMA PageLoadedInv ==
    ASSUME IInv, NEW i \in Slots, NEW ok \in BOOLEAN, PageLoaded(i, ok)
    PROVE  IInv'
<1> USE DEF IInv
<1>1. /\ phase = "running"
      /\ slot[i] = "loading"
      /\ pageFailed' \in BOOLEAN
      /\ resourceFailed' \in BOOLEAN
  BY DEF PageLoaded, TypeOK
<1>2. CASE ScreenshotDue(ok)
  <2>1. /\ slot' = [slot EXCEPT ![i] = "saving"]
        /\ checks' = [checks EXCEPT ![i] = SaveChecks]
        /\ UNCHANGED <<phase, isPreWarmUp, urlsStarted, urlsFinished,
                       totalURLs, numErrors, exitCode, saves>>
    BY <1>2 DEF PageLoaded
  <2>2. Busy' = Busy
    BY <1>1, <2>1 DEF Busy, TypeOK
  <2>3. TypeOK'
    BY <1>1, <2>1, ConstantsAssumption DEF TypeOK
  <2>4. InFlightAccounting'
    BY <2>1, <2>2 DEF InFlightAccounting
  <2>5. SavingArmed'
    BY <2>1, ConstantsAssumption DEF SavingArmed, TypeOK
  <2>6. QED
    BY <2>3, <2>4, <2>5
<1>3. CASE ~ScreenshotDue(ok) /\ ~ok /\ ExitIf \in {ER_MISSING_PAGE, ER_MISSING_RESOURCE}
  <2>1. /\ FinishPage(i, numErrors + 1,
                      ExitCodeOf(EC_MISSING_PAGE, numErrors), saves)
        /\ UNCHANGED checks
    BY <1>3 DEF PageLoaded
  <2>2. ExitCodeOf(EC_MISSING_PAGE, numErrors) \in ExitCodes
    BY ExitCodeOfType DEF TypeOK, ExitCodes, EC_MISSING_PAGE, EC_OK,
                          EC_MISSING_RESOURCE
  <2>3. QED
    BY <1>1, <2>1, <2>2, FinishPageInv DEF TypeOK
<1>4. CASE ~ScreenshotDue(ok) /\ ~(~ok /\ ExitIf \in {ER_MISSING_PAGE, ER_MISSING_RESOURCE})
  <2> DEFINE errs == IF ~ok /\ ExitIf = ER_RECORDED_ERRORS
                     THEN numErrors + 1 ELSE numErrors
  <2>1. FinishPage(i, errs, exitCode, saves) /\ UNCHANGED checks
    BY <1>4 DEF PageLoaded
  <2>2. errs \in Nat /\ exitCode \in ExitCodes
    BY DEF TypeOK, ExitCodes
  <2>3. QED
    BY <1>1, <2>1, <2>2, FinishPageInv DEF TypeOK
<1>5. QED
  BY <1>2, <1>3, <1>4

\* One tick of the saveImageAsync() interval of page i.
LEMMA SaveTickInv ==
    ASSUME IInv, NEW i \in Slots, NEW ready \in BOOLEAN, SaveTick(i, ready)
    PROVE  IInv'
<1> USE DEF IInv
<1>1. /\ phase = "running"
      /\ slot[i] = "saving"
      /\ checks[i] \in 1 .. SaveChecks
      /\ pageFailed' \in BOOLEAN
      /\ resourceFailed' \in BOOLEAN
  BY DEF SaveTick, TypeOK, SavingArmed
<1>2. CASE ready \/ checks[i] - 1 = 0
  <2>1. /\ checks' = [checks EXCEPT ![i] = 0]
        /\ FinishPage(i, numErrors, exitCode, saves + 1)
    BY <1>2 DEF SaveTick
  <2>2. /\ checks' \in [Slots -> 0 .. SaveChecks]
        /\ \A j \in Slots \ {i} : checks'[j] = checks[j]
    BY <2>1, ConstantsAssumption DEF TypeOK
  <2>3. /\ numErrors \in Nat
        /\ exitCode \in ExitCodes
        /\ saves + 1 \in Nat
    BY DEF TypeOK, ExitCodes
  <2>4. QED
    BY <1>1, <2>1, <2>2, <2>3, FinishPageInv DEF TypeOK
<1>3. CASE ~(ready \/ checks[i] - 1 = 0)
  <2>1. /\ checks' = [checks EXCEPT ![i] = checks[i] - 1]
        /\ UNCHANGED <<phase, isPreWarmUp, urlsStarted, urlsFinished,
                       totalURLs, numErrors, slot, exitCode, saves>>
    BY <1>3 DEF SaveTick
  <2>2. checks[i] - 1 \in 1 .. SaveChecks
    BY <1>1, <1>3, ConstantsAssumption
  <2>3. TypeOK'
    BY <1>1, <2>1, <2>2 DEF TypeOK
  <2>4. InFlightAccounting'
    BY <2>1 DEF InFlightAccounting, Busy
  <2>5. SavingArmed'
    BY <2>1, <2>2 DEF SavingArmed, TypeOK
  <2>6. QED
    BY <2>3, <2>4, <2>5
<1>4. QED
  BY <1>2, <1>3

-----------------------------------------------------------------------------
(* The invariant, type correctness and the accounting of passStatus.       *)

THEOREM IInvInductive == IInv /\ [Next]_vars => IInv'
<1> SUFFICES ASSUME IInv, [Next]_vars PROVE IInv'
  OBVIOUS
<1>1. CASE Run
  BY <1>1, StartPassInv DEF Run
<1>2. CASE \E i \in Slots, ok \in BOOLEAN : PageLoaded(i, ok)
  BY <1>2, PageLoadedInv
<1>3. CASE \E i \in Slots, ready \in BOOLEAN : SaveTick(i, ready)
  BY <1>3, SaveTickInv
<1>4. CASE WarmUpTimer
  BY <1>4, StartPassInv DEF WarmUpTimer
<1>5. CASE \E i \in Slots : ResourceFailed(i)
  BY <1>5 DEF ResourceFailed, IInv, TypeOK, InFlightAccounting, SavingArmed, Busy
<1>6. CASE Exited \/ UNCHANGED vars
  BY <1>6 DEF Exited, vars, IInv, TypeOK, InFlightAccounting, SavingArmed, Busy
<1>7. QED
  BY <1>1, <1>2, <1>3, <1>4, <1>5, <1>6 DEF Next

\* The scheduler's state is always well-typed.
THEOREM TypeCorrect == Spec => []TypeOK
<1>1. Spec => []IInv
  BY InitInv, IInvInductive, PTL DEF Spec
<1>2. QED
  BY <1>1, PTL DEF IInv

(* The pass never starts more URLs than it planned, never finishes more    *)
(* than it started, and the started-but-unfinished URLs are exactly the    *)
(* pages still loading or in their screenshot loop.                        *)
THEOREM Accounting == Spec => []InFlightAccounting
<1>1. Spec => []IInv
  BY InitInv, IInvInductive, PTL DEF Spec
<1>2. QED
  BY <1>1, PTL DEF IInv

====
