---------------------------- MODULE C3PassAbstract ----------------------------
(***************************************************************************)
(* What a run of the warmer/profiler promises, whatever the pool of pages, *)
(* the screenshots and the callbacks do (spec sections 4 and 8): an        *)
(* optional warm-up pass, a pause, then the measuring (or warming) pass.   *)
(* A pass keeps its pages busy: every finished hit starts the next planned *)
(* one while any is left, a hit is counted once and only after it was      *)
(* started, and no pass counts more hits than it planned.  The run ends    *)
(* with the last hit of its final pass, or earlier on a fatal error, and   *)
(* it reports success only in the first case.                              *)
(***************************************************************************)
EXTENDS Naturals

CONSTANTS
    WarmUp,       \* there is a warm-up pass before the measuring pass
    WarmUpHits,   \* hits planned for the warm-up pass
    MeasureHits   \* hits planned for the measuring (or warming) pass

VARIABLES
    stage,    \* "idle", "warmup", "pause", "measure" or "exited"
    started,  \* hits of the current pass started
    hits,     \* hits of the current pass finished
    clean     \* the run has exited with success

avars == <<stage, started, hits, clean>>

\* The hits a pass of stage s plans.
Plan(s) == IF s = "warmup" THEN WarmUpHits ELSE MeasureHits

Init ==
    /\ stage = "idle"
    /\ started = 0
    /\ hits = 0
    /\ clean = FALSE

\* A pass of stage s starts: every page of the pool takes a hit.
Begin(s) ==
    /\ stage' = s
    /\ started' \in 1 .. Plan(s)
    /\ hits' = 0
    /\ UNCHANGED clean

\* The run starts its first pass.
Start ==
    /\ stage = "idle"
    /\ Begin(IF WarmUp THEN "warmup" ELSE "measure")

\* The pause after the warm-up pass ends with the measuring pass.
Resume ==
    /\ stage = "pause"
    /\ Begin("measure")

(***************************************************************************)
(* A started hit finishes and its page takes the next planned hit, if any. *)
(* Then the pass goes on; or it is complete and the warm-up pass pauses or *)
(* the final pass exits (with success or with recorded errors); or a fatal *)
(* error ends the run, which is never a success.                          *)
(***************************************************************************)
Hit ==
    /\ stage \in {"warmup", "measure"}
    /\ hits < started
    /\ hits' = hits + 1
    /\ started' = IF started < Plan(stage) THEN started + 1 ELSE started
    /\ \/ /\ hits' < Plan(stage)
          /\ UNCHANGED <<stage, clean>>
       \/ /\ hits' = Plan(stage) /\ stage = "warmup"
          /\ stage' = "pause"
          /\ UNCHANGED clean
       \/ /\ hits' = Plan(stage) /\ stage = "measure"
          /\ stage' = "exited"
          /\ clean' \in BOOLEAN
       \/ /\ stage' = "exited"
          /\ clean' = FALSE

Next == Start \/ Resume \/ Hit

SafeSpec == Init /\ [][Next]_avars

(* The run is driven by callbacks the engine and the timers deliver: each  *)
(* step that stays possible is eventually taken.                           *)
Spec == SafeSpec /\ WF_avars(Start) /\ WF_avars(Resume) /\ WF_avars(Hit)

=============================================================================
