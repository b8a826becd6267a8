------------------------------- MODULE C3Options -------------------------------
(***************************************************************************)
(* The option parser of the warmer (src/src/warmer/c3options.js):          *)
(* `options.parse()` walks the command-line arguments with                 *)
(* `parseOptions()`, reads option files named by `@path` recursively,      *)
(* applies the profile-mode defaults of `-p` to the options that were not  *)
(* set explicitly, then prints version/help as requested and validates the *)
(* result.                                                                 *)
(*                                                                         *)
(* Arguments are abstracted to tokens: the option an argument matches and  *)
(* the value its parser extracts, or "bad" for an argument the parser      *)
(* rejects.  An argument is read by the model as parsing reaches it (an    *)
(* input from a small set), and so is each line of an option file.         *)
(* `optionError()` prints and calls `phantom.exit(2)`, which does not stop *)
(* parsing: the rejected value is still stored.                            *)
(***************************************************************************)
EXTENDS Integers, Sequences, FiniteSets, C3Codes

CONSTANTS
    Tokens,          \* the arguments (and option-file lines) to choose from
    MaxTokens,       \* bound: arguments and option-file lines read in all
    MaxDepth,        \* bound: nesting of option files the model follows
    NestingLimit     \* the `level > 16` limit of nested option files

ASSUME OptionsAssumption ==
    /\ MaxTokens \in Nat
    /\ MaxDepth \in Nat \ {0}
    /\ NestingLimit \in Nat

\* The user agents of -a/--agent, as in c3options.js.
UA_UNKNOWN == 0
UA_BOT == 1
UA_WARMER == 2
UA_USER == 3

\* A value of -s, -a or -e that its parser's switch rejects.
Rejected == -1

\* The result of parseOptions(): PA_EXECUTE, PA_PRINT_VERSION, PA_PRINT_HELP,
\* or undefined when an option file could not be read.
Actions == {"execute", "version", "help", "undefined"}

(***************************************************************************)
(* What the parsers hand back, as a token carries it: -p and -q match     *)
(* `\d+` and go through parseInt() in parseNumber(); the priorities of -r *)
(* and -u are numbers (tenths here); parseSortOption, parseAgentOption and *)
(* parseExitIfOption map a name to a code or reject it (Rejected); -x      *)
(* matches its count with `all|\d+` and keeps a template string that is   *)
(* validated only at the end.                                              *)
(***************************************************************************)
ASSUME TokensAssumption ==
    \A t \in Tokens :
        /\ t.kind \in {"profile", "queue", "range", "sort", "agent", "exitif",
                       "warmup", "url", "export", "other", "source", "end",
                       "file", "version", "help"}
        /\ t.kind \in {"profile", "queue"} => t.arg \in Nat
        /\ t.kind = "range" => t.arg \in Int \X Int
        /\ t.kind \in {"url", "sort", "agent", "exitif"} => t.arg \in Int
        /\ t.kind = "export" => t.arg \in [num : Nat, template : {"ok", "bad"}]

\* `options` at load time, reduced to the values the later stages read.
DefaultOptions ==
    [profileRuns |-> 0, queueSize |-> 16, lowest |-> 0, highest |-> 10,
     sortOrder |-> SO_HIGH_PRIORITY_FIRST, userAgent |-> UA_WARMER,
     exitIf |-> ER_USER_INTERRUPT, warmUpPass |-> FALSE,
     numScreenshots |-> 0, template |-> "none"]

VARIABLES
    phase,      \* "parse" while parseOptions() runs, "done" after parse()
    frames,     \* one optionsEnded flag per active parseOptions() call
    read,       \* arguments and option-file lines read so far
    action,     \* the `action` threaded through parseOptions()
    opts,       \* options (the values above)
    optSet,     \* option_set: sortOrder, userAgent, exitIf set explicitly
    numSources, \* sources.length
    exitCode,   \* the code of the last phantom.exit() call, or NoExit
    \* history, read only by properties
    given,      \* the tokens parsed as options, in order
    sawError,   \* optionError() was called
    printed     \* what printInfo() printed: a subset of {"version", "help"}

vars == <<phase, frames, read, action, opts, optSet, numSources, exitCode,
          given, sawError, printed>>

\* optionError(message): print, then phantom.exit(EC_ARGUMENT_ERROR).
OptionError ==
    /\ exitCode' = EC_ARGUMENT_ERROR
    /\ sawError' = TRUE

\* An error, or none, followed by the assignments of an option's parser.
Report(error) ==
    IF error THEN OptionError ELSE UNCHANGED <<exitCode, sawError>>

\* parsePriority(): parseFloat() must give a number in 0..1 (tenths here).
BadPriority(p) == p < 0 \/ p > 10

\* Mutant: the defaults applied without looking at option_set.
ProfileDefaultsIgnoringSetFlags(n) ==
    [opts EXCEPT
        !.profileRuns = n,
        !.sortOrder = IF n > 0 THEN SO_HIGH_PRIORITY_FIRST ELSE SO_AS_IS,
        !.userAgent = IF n > 0 THEN UA_USER ELSE UA_WARMER,
        !.exitIf = IF n > 0 THEN ER_MISSING_PAGE ELSE ER_USER_INTERRUPT]

\* parseProfileOption(numRuns): the mode defaults of options not set explicitly.
ProfileDefaults(n) ==
    [opts EXCEPT
        !.profileRuns = n,
        !.sortOrder = IF optSet.sortOrder THEN @
                      ELSE IF n > 0 THEN SO_HIGH_PRIORITY_FIRST ELSE SO_AS_IS,
        !.userAgent = IF optSet.userAgent THEN @
                      ELSE IF n > 0 THEN UA_USER ELSE UA_WARMER,
        !.exitIf = IF optSet.exitIf THEN @
                   ELSE IF n > 0 THEN ER_MISSING_PAGE ELSE ER_USER_INTERRUPT]

(***************************************************************************)
(* One option of parseOptions(), with the parser it calls.  `v` is the     *)
(* value the parser extracted; "bad" or Rejected stands for one it        *)
(* rejects.                                                                *)
(***************************************************************************)
ApplyOption(t) ==
    LET v == t.arg IN
    CASE t.kind = "profile" ->
           /\ opts' = ProfileDefaults(v)
           /\ UNCHANGED <<optSet, numSources, exitCode, sawError>>
      [] t.kind = "queue" ->
           /\ opts' = [opts EXCEPT !.queueSize = v]
           /\ Report(v < 1 \/ v > 256)
           /\ UNCHANGED <<optSet, numSources>>
      [] t.kind = "range" ->
           /\ opts' = [opts EXCEPT !.lowest = v[1], !.highest = v[2]]
           /\ Report(BadPriority(v[1]) \/ BadPriority(v[2]) \/ v[1] > v[2])
           /\ UNCHANGED <<optSet, numSources>>
      [] t.kind = "sort" ->
           /\ opts' = IF v = Rejected THEN opts ELSE [opts EXCEPT !.sortOrder = v]
           /\ optSet' = [optSet EXCEPT !.sortOrder = TRUE]
           /\ Report(v = Rejected)
           /\ UNCHANGED numSources
      [] t.kind = "agent" ->
           /\ opts' = IF v = Rejected THEN opts ELSE [opts EXCEPT !.userAgent = v]
           /\ optSet' = [optSet EXCEPT !.userAgent = TRUE]
           /\ Report(v = Rejected)
           /\ UNCHANGED numSources
      [] t.kind = "exitif" ->
           /\ opts' = IF v = Rejected THEN opts ELSE [opts EXCEPT !.exitIf = v]
           /\ optSet' = [optSet EXCEPT !.exitIf = TRUE]
           /\ Report(v = Rejected)
           /\ UNCHANGED numSources
      [] t.kind = "warmup" ->
           \* a rejected timestamp still leaves a number (NaN or negative)
           /\ opts' = [opts EXCEPT !.warmUpPass = TRUE]
           /\ Report(v = "bad")
           /\ UNCHANGED <<optSet, numSources>>
      [] t.kind = "url" ->
           /\ numSources' = numSources + 1
           /\ Report(BadPriority(v))
           /\ UNCHANGED <<opts, optSet>>
      [] t.kind = "export" ->
           /\ opts' = [opts EXCEPT !.numScreenshots = v.num,
                                   !.template = v.template]
           /\ UNCHANGED <<optSet, numSources, exitCode, sawError>>
      [] t.kind = "other" ->
           \* -b -n -o -i -c -j -l -f -d -t, or an unrecognized argument
           /\ Report(v = "bad")
           /\ UNCHANGED <<opts, optSet, numSources>>

\* Options that must not be printed over: -v does not override -h.
NextAction(t) ==
    CASE t.kind = "version" -> IF action = "help" THEN action ELSE "version"
      [] t.kind = "help" -> "help"
      [] OTHER -> action

-----------------------------------------------------------------------------

Init ==
    /\ phase = "parse"
    /\ frames = <<FALSE>>
    /\ read = 0
    /\ action = "execute"
    /\ opts = DefaultOptions
    /\ optSet = [sortOrder |-> FALSE, userAgent |-> FALSE, exitIf |-> FALSE]
    /\ numSources = 0
    /\ exitCode = NoExit
    /\ given = <<>>
    /\ sawError = FALSE
    /\ printed = {}

Top == frames[Len(frames)]

(***************************************************************************)
(* One iteration of the loop of parseOptions() on the innermost call: a    *)
(* source (anything after the first source or `--` is one), `--`, -v, -h,  *)
(* or an option.  `@path` is ParseOptionFile.                              *)
(***************************************************************************)
ParseArg(t) ==
    /\ phase = "parse" /\ read < MaxTokens
    /\ t.kind # "file"
    /\ read' = read + 1
    /\ IF Top \/ t.kind = "source"
         THEN /\ numSources' = numSources + 1
              /\ frames' = [frames EXCEPT ![Len(frames)] = TRUE]
              /\ UNCHANGED <<action, opts, optSet, exitCode, given, sawError>>
         ELSE /\ frames' = IF t.kind = "end"
                           THEN [frames EXCEPT ![Len(frames)] = TRUE]
                           ELSE frames
              /\ action' = NextAction(t)
              /\ given' = Append(given, t)
              /\ IF t.kind \in {"end", "version", "help"}
                   THEN UNCHANGED <<opts, optSet, numSources, exitCode, sawError>>
                   ELSE ApplyOption(t)
    /\ UNCHANGED <<phase, printed>>

(***************************************************************************)
(* `@path` at nesting level Len(frames)-1: an error past the limit (the    *)
(* file is read all the same), then parseOptionFile(): a readable file is  *)
(* parsed by a new parseOptions() call; one that cannot be read is an      *)
(* error, and the catch returns undefined as the new action.               *)
(***************************************************************************)
ParseOptionFile(t, readable) ==
    /\ phase = "parse" /\ read < MaxTokens /\ ~Top
    /\ t.kind = "file"
    /\ readable => Len(frames) < MaxDepth
    /\ read' = read + 1
    /\ given' = Append(given, t)
    /\ IF readable
         THEN /\ frames' = Append(frames, FALSE)
              /\ action' = action
              /\ Report(Len(frames) - 1 > NestingLimit)
         ELSE /\ frames' = frames
              /\ action' = "undefined"
              /\ OptionError
    /\ UNCHANGED <<phase, opts, optSet, numSources, printed>>

\* An option file's lines are used up: its parseOptions() call returns.
EndOptionFile ==
    /\ phase = "parse" /\ Len(frames) > 1
    /\ frames' = SubSeq(frames, 1, Len(frames) - 1)
    /\ UNCHANGED <<phase, read, action, opts, optSet, numSources, exitCode,
                   given, sawError, printed>>

(***************************************************************************)
(* validateOptions(): a source is required; more than one screenshot is    *)
(* refused in profiling mode; the image template must be well-formed.      *)
(***************************************************************************)
\* Mutant: no check that some source was given.
InvalidOptionsWithoutSourceCheck ==
    \/ opts.numScreenshots > 0 /\ opts.numScreenshots > 1 /\ opts.profileRuns > 0
    \/ opts.numScreenshots > 0 /\ opts.template = "bad"

\* Mutant: more than one screenshot let through in profiling mode.
InvalidOptionsWithoutProfileLimit ==
    \/ numSources = 0
    \/ opts.numScreenshots > 0 /\ opts.template = "bad"

InvalidOptions ==
    \/ numSources = 0
    \/ opts.numScreenshots > 0 /\ opts.numScreenshots > 1 /\ opts.profileRuns > 0
    \/ opts.numScreenshots > 0 /\ opts.template = "bad"

(***************************************************************************)
(* What printInfo(full) prints, by the switch of exports.parse():          *)
(* PA_PRINT_VERSION calls printInfo(false) and falls through to            *)
(* printInfo(true), which prints the banner and the help text.             *)
(***************************************************************************)
Printed(act) ==
    CASE act = "version" -> {"version", "help"}
      [] act = "help" -> {"help"}
      [] OTHER -> {}

(***************************************************************************)
(* The rest of exports.parse(): the command-line arguments are used up.    *)
(* PA_PRINT_VERSION calls printInfo(false), then falls through to          *)
(* printInfo(true) and validateOptions(); PA_PRINT_HELP calls              *)
(* printInfo(true), then validateOptions(); printInfo() ends with          *)
(* phantom.exit(EC_NOTHING_TO_DO), which does not stop it.                 *)
(***************************************************************************)
Finish ==
    /\ phase = "parse" /\ Len(frames) = 1
    /\ LET info == action \in {"version", "help"} IN
         /\ printed' = Printed(action)
         \* validateOptions() runs last: its optionError() is the last exit
         /\ exitCode' = IF InvalidOptions THEN EC_ARGUMENT_ERROR
                         ELSE IF info THEN EC_NOTHING_TO_DO
                         ELSE exitCode
    /\ sawError' = (sawError \/ InvalidOptions)
    /\ phase' = "done"
    /\ UNCHANGED <<frames, read, action, opts, optSet, numSources, given>>

\* parse() has returned; the options no longer change.
Parsed ==
    /\ phase = "done"
    /\ UNCHANGED vars

Next ==
    \/ \E t \in Tokens : ParseArg(t)
    \/ \E t \in Tokens, readable \in BOOLEAN : ParseOptionFile(t, readable)
    \/ EndOptionFile
    \/ Finish
    \/ Parsed

Spec == Init /\ [][Next]_vars

-----------------------------------------------------------------------------
(* Properties *)

TypeOK ==
    /\ phase \in {"parse", "done"}
    /\ frames \in Seq(BOOLEAN) /\ Len(frames) \in 1 .. MaxDepth
    /\ read \in 0 .. MaxTokens
    /\ action \in Actions
    /\ numSources \in 0 .. MaxTokens
    /\ exitCode \in {NoExit, EC_NOTHING_TO_DO, EC_ARGUMENT_ERROR}
    /\ printed \subseteq {"version", "help"}

\* The index of the last token of `given` of kind k, or 0.
LastGiven(k) ==
    LET ks == {i \in DOMAIN given : given[i].kind = k}
    IN IF ks = {} THEN 0 ELSE CHOOSE i \in ks : \A j \in ks : j <= i

(***************************************************************************)
(* What an option is after parsing, as the comment on `option_set`        *)
(* describes it: the last explicit setting wherever it stands among the   *)
(* -p options; without one, the default parseProfileOption() gives the    *)
(* mode the last -p selected (profiling for a non-zero count); without -p, *)
(* the initial default.  These mode defaults are the code's; for the sort  *)
(* order they are the reverse of the help text (SortDefaultAsDocumented).  *)
(***************************************************************************)
Resolved(k, field, warming, profiling) ==
    LET e == LastGiven(k)
        p == LastGiven("profile")
    IN IF e > 0 THEN given[e].arg
       ELSE IF p > 0 THEN (IF given[p].arg > 0 THEN profiling ELSE warming)
       ELSE DefaultOptions[field]

(***************************************************************************)
(* A command line parse() accepts sets the sort order, the user agent and  *)
(* the error tolerance as above, whatever the order of -p and of -s, -a    *)
(* and -e (parseProfileOption and the `option_set` flags), and across      *)
(* option files.                                                           *)
(***************************************************************************)
ModeDefaultsHonoured ==
    (phase = "done" /\ ~sawError) =>
        /\ opts.sortOrder = Resolved("sort", "sortOrder",
                                     SO_AS_IS, SO_HIGH_PRIORITY_FIRST)
        /\ opts.userAgent = Resolved("agent", "userAgent", UA_WARMER, UA_USER)
        /\ opts.exitIf = Resolved("exitif", "exitIf",
                                  ER_USER_INTERRUPT, ER_MISSING_PAGE)

(***************************************************************************)
(* When parse() returns without having asked to exit, the options satisfy  *)
(* what urls.load() and processor.run() take for granted (spec 5: "validated *)
(* upstream"): a queue of 1..256 pages, a priority range inside [0, 1],   *)
(* at least one source, at most one screenshot in profiling mode and a    *)
(* well-formed image template, and no info request pending.              *)
(***************************************************************************)
ValidatedConfiguration ==
    (phase = "done" /\ exitCode = NoExit) =>
        /\ opts.queueSize \in 1 .. 256
        /\ 0 <= opts.lowest /\ opts.lowest <= opts.highest /\ opts.highest <= 10
        /\ numSources >= 1
        /\ opts.numScreenshots > 1 => opts.profileRuns = 0
        /\ opts.numScreenshots > 0 => opts.template = "ok"
        /\ action = "execute"

(***************************************************************************)
(* The help text of -s: `high-priority-first` is the default in cache      *)
(* warming mode and `as-is` in profiling mode, for a command line parse()  *)
(* accepts without an explicit -s.                                         *)
(***************************************************************************)
SortDefaultAsDocumented ==
    (phase = "done" /\ exitCode = NoExit /\ ~optSet.sortOrder) =>
        opts.sortOrder = IF opts.profileRuns > 0 THEN SO_AS_IS
                         ELSE SO_HIGH_PRIORITY_FIRST

(***************************************************************************)
(* The help text of -v and -h ("prints out ... and exits") and the comment *)
(* of exports.parse() ("printInfo() does not return"): -v prints the       *)
(* version only and -h the help only.  (The exit code is not parse()'s to  *)
(* promise: warmer.js goes on with urls.load(), whose exits come later.)   *)
(***************************************************************************)
InfoRequestPrinted ==
    (phase = "done" /\ action \in {"version", "help"}) => printed = {action}

=============================================================================
