------------------------------- MODULE MC_C3Urls -------------------------------
(* Model-checking instance of C3Urls: three URLs, three priority levels.     *)
EXTENDS C3Urls, TLC

CONSTANTS a, b, c

URLSet == {a, b, c}

\* Priorities 0.0, 0.5 and 1.0, in tenths.
PrioritySet == {0, 5, 10}

\* Descending (the profiling default) cut at both ends by -b 1 -n 1, and
\* ascending with the defaults -b 0 -n 0, which keep everything.
BothSettings ==
    {[sortOrder |-> SO_HIGH_PRIORITY_FIRST, firstURL |-> 1, numURLs |-> 1],
     [sortOrder |-> SO_LOW_PRIORITY_FIRST, firstURL |-> 0, numURLs |-> 0]}

\* -s high-priority-first -b 1 -n 1 only.
CutSettings ==
    {[sortOrder |-> SO_HIGH_PRIORITY_FIRST, firstURL |-> 1, numURLs |-> 1]}

URLSymmetry == Permutations(URLSet)
=============================================================================
