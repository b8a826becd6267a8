--------------------------- MODULE MC_C3Processor ---------------------------
(* Small instances of the pass scheduler for TLC.  URLs are model values.  *)
EXTENDS C3Processor

CONSTANTS u1, u2, u3, u4

\* Two URLs, repeated by profiling runs.
CorpusTwo == <<u1, u2>>

\* Three URLs on two pages: a page takes a second URL while another loads.
CorpusThree == <<u1, u2, u3>>

\* Four URLs on three pages: three loads in flight at once.
CorpusFour == <<u1, u2, u3, u4>>

\* One URL: repeated hits are reloads of the same page.
CorpusOne == <<u1>>

====
