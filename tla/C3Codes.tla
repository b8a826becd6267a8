------------------------------- MODULE C3Codes -------------------------------
(***************************************************************************)
(* The numeric codes that the warmer's modules share, as c3options.js      *)
(* declares and exports them: process exit codes (EC_xxx), error-tolerance *)
(* levels of -e/--exit-if (ER_xxx) and URL sort orders of -s/--sort        *)
(* (SO_xxx).                                                               *)
(***************************************************************************)
EXTENDS Integers

EC_OK == 0
EC_NOTHING_TO_DO == 1
EC_ARGUMENT_ERROR == 2
EC_RECORDED_ERRORS == 3
EC_MISSING_PAGE == 4
EC_MISSING_RESOURCE == 5

SO_AS_IS == 0
SO_LOW_PRIORITY_FIRST == 1
SO_HIGH_PRIORITY_FIRST == 2

ER_USER_INTERRUPT == 0
ER_RECORDED_ERRORS == 1
ER_MISSING_PAGE == 2
ER_MISSING_RESOURCE == 3

\* The process has not called phantom.exit() yet.
NoExit == -1
=============================================================================
