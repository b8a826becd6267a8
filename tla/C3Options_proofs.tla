---------------------------- MODULE C3Options_proofs ----------------------------
(***************************************************************************)
(* Proofs about the option parser (C3Options) for every set of argument    *)
(* tokens the parsers can produce (TokensAssumption) and every bound.      *)
(* optionError() only records exit code 2 and lets parsing go on, so a     *)
(* rejected value is stored and may later be overwritten by a valid one:   *)
(* what parse() guarantees rests on the exit code, which no later call     *)
(* sets back to "no exit".                                                 *)
(***************************************************************************)
EXTENDS C3Options, SequenceTheorems, TLAPS

\* The shape of `options` as the parsers leave it.
OptsType ==
    [profileRuns : Nat, queueSize : Int, lowest : Int, highest : Int,
     sortOrder : Int, userAgent : Int, exitIf : Int, warmUpPass : BOOLEAN,
     numScreenshots : Nat, template : {"none", "ok", "bad"}]

\* option_set: one flag per option -p gives a default to.
OptSetType == [sortOrder : BOOLEAN, userAgent : BOOLEAN, exitIf : BOOLEAN]

\* The limits parseNumber() and parseRangeOption() enforce.
Limits(o) ==
    /\ o.queueSize \in 1 .. 256
    /\ 0 <= o.lowest /\ o.lowest <= o.highest /\ o.highest <= 10

(***************************************************************************)
(* The inductive invariant of ValidatedConfiguration: while no exit was    *)
(* requested, every value stored so far passed its parser's check and no   *)
(* option file failed to be read; -x always sets a template with its      *)
(* count; and parse() returns without an exit request only after           *)
(* validateOptions() found nothing to refuse and no info was requested.    *)
(***************************************************************************)
VInv ==
    /\ phase \in {"parse", "done"}
    /\ action \in Actions
    /\ numSources \in Nat
    /\ opts \in OptsType
    /\ opts.numScreenshots > 0 => opts.template # "none"
    /\ exitCode = NoExit => Limits(opts) /\ action # "undefined"
    /\ (phase = "done" /\ exitCode = NoExit) =>
          ~InvalidOptions /\ action = "execute"


\* The largest of a set of indices, as LastGiven chooses it.
MaxIndex(ks) == CHOOSE i \in ks : \A j \in ks : j <= i

\* The indices of the tokens of kind k in a sequence s of tokens.
IndicesOf(s, k) == {i \in DOMAIN s : s[i].kind = k}

\* The largest of a set of indices, or 0 for none.
LastIndex(ks) == IF ks = {} THEN 0 ELSE MaxIndex(ks)

\* LastGiven of a sequence s of tokens: the index of its last token of kind k, or 0.
LastOf(s, k) == LastIndex(IndicesOf(s, k))

(* The options -p gives defaults to: the token kind that sets one        *)
(* explicitly, its field in `options`, and its defaults in warming and in *)
(* profiling mode, as parseProfileOption() assigns them.                  *)
Settable ==
    {[kind |-> "sort", field |-> "sortOrder",
      warming |-> SO_AS_IS, profiling |-> SO_HIGH_PRIORITY_FIRST],
     [kind |-> "agent", field |-> "userAgent",
      warming |-> UA_WARMER, profiling |-> UA_USER],
     [kind |-> "exitif", field |-> "exitIf",
      warming |-> ER_USER_INTERRUPT, profiling |-> ER_MISSING_PAGE]}

\* Resolved, for a sequence s of tokens in place of `given`.
ResolvedOf(s, k, f, w, pr) ==
    LET e == LastOf(s, k)
        p == LastOf(s, "profile")
    IN IF e > 0 THEN s[e].arg
       ELSE IF p > 0 THEN (IF s[p].arg > 0 THEN pr ELSE w)
       ELSE DefaultOptions[f]

(***************************************************************************)
(* The inductive invariant of ModeDefaultsHonoured.  The option_set flag   *)
(* of an option is up exactly when an argument for it was parsed, whether  *)
(* its value was accepted or not; the last -s, -a, -e and -p arguments are *)
(* where LastGiven finds them; and until optionError() was called each of  *)
(* the three options already holds the value Resolved gives it.            *)
(***************************************************************************)
MInv ==
    /\ given \in Seq(Tokens)
    /\ optSet \in OptSetType
    /\ sawError \in BOOLEAN
    /\ \A k \in {"sort", "agent", "exitif", "profile"} :
          /\ LastGiven(k) \in 0 .. Len(given)
          /\ LastGiven(k) > 0 => given[LastGiven(k)].kind = k
    /\ \A o \in Settable : optSet[o.field] = (LastGiven(o.kind) > 0)
    /\ ~sawError =>
          \A o \in Settable :
             opts[o.field] = Resolved(o.kind, o.field, o.warming, o.profiling)


-----------------------------------------------------------------------------
(* LastGiven through the growth of `given`                                 *)

\* LastGiven is LastOf the history, before and after a step.
LEMMA LastGivenIsLastOf ==
    ASSUME NEW k
    PROVE  LastGiven(k) = LastOf(given, k) /\ LastGiven(k)' = LastOf(given', k)
  BY DEF LastGiven, LastOf, LastIndex, IndicesOf, MaxIndex

\* An empty history holds no token of any kind.
LEMMA LastOfEmpty ==
    ASSUME NEW k
    PROVE  LastOf(<<>>, k) = 0
  BY DEF LastOf, LastIndex, IndicesOf

(***************************************************************************)
(* Appending a token: it becomes the last of its kind, and the last of     *)
(* every other kind stays where it was.                                    *)
(***************************************************************************)
LEMMA LastOfAppend ==
    ASSUME NEW S, NEW s \in Seq(S), NEW t \in S, NEW k
    PROVE  LastOf(Append(s, t), k) = IF t.kind = k THEN Len(s) + 1 ELSE LastOf(s, k)
<1> DEFINE s2 == Append(s, t)
<1>1. /\ DOMAIN s2 = 1 .. Len(s) + 1 /\ DOMAIN s = 1 .. Len(s)
      /\ \A i \in 1 .. Len(s) : s2[i] = s[i]
      /\ s2[Len(s) + 1] = t
      /\ Len(s) \in Nat
  BY AppendProperties
<1>2. CASE t.kind = k
  <2>1. /\ Len(s) + 1 \in IndicesOf(s2, k)
        /\ \A j \in IndicesOf(s2, k) : j <= Len(s) + 1
    BY <1>1, <1>2 DEF IndicesOf
  <2>2. LastOf(s2, k) = MaxIndex(IndicesOf(s2, k))
    BY <2>1 DEF LastOf, LastIndex
  <2>3. /\ MaxIndex(IndicesOf(s2, k)) \in IndicesOf(s2, k)
        /\ \A j \in IndicesOf(s2, k) : j <= MaxIndex(IndicesOf(s2, k))
    BY <2>1 DEF MaxIndex
  <2>4. MaxIndex(IndicesOf(s2, k)) \in 1 .. Len(s) + 1
    BY <1>1, <2>3 DEF IndicesOf
  <2>5. MaxIndex(IndicesOf(s2, k)) = Len(s) + 1
    BY <1>1, <2>1, <2>3, <2>4
  <2>6. QED
    BY <1>2, <2>2, <2>5
<1>3. CASE t.kind # k
  <2>1. IndicesOf(s2, k) = IndicesOf(s, k)
    BY <1>1, <1>3 DEF IndicesOf
  <2>2. QED
    BY <1>3, <2>1 DEF LastOf
<1>4. QED
  BY <1>2, <1>3


\* Resolved is ResolvedOf the history, before and after a step.
LEMMA ResolvedIsResolvedOf ==
    ASSUME NEW k, NEW f, NEW w, NEW pr
    PROVE  /\ Resolved(k, f, w, pr) = ResolvedOf(given, k, f, w, pr)
           /\ Resolved(k, f, w, pr)' = ResolvedOf(given', k, f, w, pr)
<1>1. /\ LastGiven(k) = LastOf(given, k) /\ LastGiven(k)' = LastOf(given', k)
      /\ LastGiven("profile") = LastOf(given, "profile")
      /\ LastGiven("profile")' = LastOf(given', "profile")
  BY LastGivenIsLastOf
<1>2. QED
  BY <1>1 DEF Resolved, ResolvedOf

(***************************************************************************)
(* Appending a token to the history: an explicit setting of the option    *)
(* decides it; a -p decides it only when no explicit setting came before; *)
(* any other token leaves it as it was.                                    *)
(***************************************************************************)
LEMMA ResolvedAppend ==
    ASSUME NEW S, NEW s \in Seq(S), NEW t \in S,
           NEW k, NEW f, NEW w, NEW pr, k # "profile",
           LastOf(s, k) \in 0 .. Len(s), LastOf(s, "profile") \in 0 .. Len(s)
    PROVE  ResolvedOf(Append(s, t), k, f, w, pr) =
              IF t.kind = k THEN t.arg
              ELSE IF t.kind = "profile" /\ LastOf(s, k) = 0
                   THEN (IF t.arg > 0 THEN pr ELSE w)
              ELSE ResolvedOf(s, k, f, w, pr)
<1> DEFINE s2 == Append(s, t)
           e == LastOf(s, k)
           p == LastOf(s, "profile")
<1>1. /\ \A i \in 1 .. Len(s) : s2[i] = s[i]
      /\ s2[Len(s) + 1] = t
      /\ Len(s) \in Nat
  BY AppendProperties
<1>2. /\ LastOf(s2, k) = IF t.kind = k THEN Len(s) + 1 ELSE e
      /\ LastOf(s2, "profile") = IF t.kind = "profile" THEN Len(s) + 1 ELSE p
  BY LastOfAppend
<1>3. CASE t.kind = k
  BY <1>1, <1>2, <1>3 DEF ResolvedOf
<1>4. CASE t.kind = "profile"
  <2>1. LastOf(s2, k) = e /\ LastOf(s2, "profile") = Len(s) + 1
    BY <1>2, <1>4
  <2>2. CASE e > 0
    <3>1. s2[e] = s[e]
      BY <1>1, <2>2
    <3>2. QED
      BY <1>4, <2>1, <2>2, <3>1 DEF ResolvedOf
  <2>3. CASE e = 0
    BY <1>1, <1>4, <2>1, <2>3 DEF ResolvedOf
  <2>4. QED
    BY <2>2, <2>3
<1>5. CASE t.kind # k /\ t.kind # "profile"
  <2>1. LastOf(s2, k) = e /\ LastOf(s2, "profile") = p
    BY <1>2, <1>5
  <2>2. e > 0 => s2[e] = s[e]
    BY <1>1
  <2>3. p > 0 => s2[p] = s[p]
    BY <1>1
  <2>4. QED
    BY <1>5, <2>1, <2>2, <2>3 DEF ResolvedOf
<1>6. QED
  BY <1>3, <1>4, <1>5


\* What option o is after token t: set by its own option, defaulted by a -p
\* when it was not set explicitly, and otherwise as it was.
AfterOption(t, o) ==
    IF t.kind = o.kind THEN t.arg
    ELSE IF t.kind = "profile" /\ ~optSet[o.field]
         THEN (IF t.arg > 0 THEN o.profiling ELSE o.warming)
    ELSE opts[o.field]

\* The kinds of token whose last occurrence MInv tracks.
Tracked == {"sort", "agent", "exitif", "profile"}

(***************************************************************************)
(* A step that appends token t to the history keeps MInv when it raises    *)
(* exactly the option_set flag of t, calls optionError() or leaves         *)
(* sawError as it was, and, unless an error was reported, sets the three   *)
(* options as parseSortOption & co. and parseProfileOption() do.           *)
(***************************************************************************)
LEMMA AppendStep ==
    ASSUME MInv, NEW t \in Tokens, given' = Append(given, t),
           optSet' \in OptSetType,
           sawError' \in BOOLEAN,
           \A o \in Settable : optSet'[o.field] = (optSet[o.field] \/ t.kind = o.kind),
           ~sawError' => ~sawError,
           ~sawError' => \A o \in Settable : opts'[o.field] = AfterOption(t, o)
    PROVE  MInv'
<1>1. /\ given \in Seq(Tokens) /\ given' \in Seq(Tokens)
      /\ Len(given') = Len(given) + 1 /\ Len(given) \in Nat
      /\ given'[Len(given) + 1] = t
      /\ \A i \in 1 .. Len(given) : given'[i] = given[i]
  BY AppendProperties DEF MInv
<1>2. ASSUME NEW k \in Tracked
      PROVE  /\ LastGiven(k)' = IF t.kind = k THEN Len(given) + 1 ELSE LastGiven(k)
             /\ LastGiven(k) \in 0 .. Len(given)
             /\ LastGiven(k) > 0 => given[LastGiven(k)].kind = k
  <2>1. LastGiven(k)' = IF t.kind = k THEN Len(given) + 1 ELSE LastGiven(k)
    BY <1>1, LastGivenIsLastOf, LastOfAppend
  <2>2. QED
    BY <2>1 DEF MInv, Tracked
<1>3. \A k \in Tracked :
         /\ LastGiven(k)' \in 0 .. Len(given')
         /\ LastGiven(k)' > 0 => given'[LastGiven(k)'].kind = k
  BY <1>1, <1>2
<1>4. ASSUME NEW o \in Settable
      PROVE  o.kind \in Tracked \ {"profile"} /\ o.field \in {"sortOrder", "userAgent", "exitIf"}
  BY DEF Settable, Tracked
<1>5. \A o \in Settable : optSet'[o.field] = (LastGiven(o.kind)' > 0)
  <2> SUFFICES ASSUME NEW o \in Settable
               PROVE  optSet'[o.field] = (LastGiven(o.kind)' > 0)
    OBVIOUS
  <2>1. optSet[o.field] = (LastGiven(o.kind) > 0)
    BY DEF MInv
  <2>2. /\ LastGiven(o.kind)' = IF t.kind = o.kind THEN Len(given) + 1 ELSE LastGiven(o.kind)
        /\ LastGiven(o.kind) \in 0 .. Len(given)
    BY <1>2, <1>4
  <2>3. (LastGiven(o.kind)' > 0) = (LastGiven(o.kind) > 0 \/ t.kind = o.kind)
    BY <1>1, <2>2
  <2>4. optSet'[o.field] = (optSet[o.field] \/ t.kind = o.kind)
    OBVIOUS
  <2>5. QED
    BY <2>1, <2>3, <2>4, Zenon
<1>6. ~sawError' =>
        \A o \in Settable :
           opts'[o.field] = Resolved(o.kind, o.field, o.warming, o.profiling)'
  <2> SUFFICES ASSUME ~sawError', NEW o \in Settable
               PROVE  opts'[o.field] = Resolved(o.kind, o.field, o.warming, o.profiling)'
    OBVIOUS
  <2> DEFINE k == o.kind
             f == o.field
  <2>1. /\ Resolved(k, f, o.warming, o.profiling) = ResolvedOf(given, k, f, o.warming, o.profiling)
        /\ Resolved(k, f, o.warming, o.profiling)' = ResolvedOf(given', k, f, o.warming, o.profiling)
        /\ LastGiven(k) = LastOf(given, k)
        /\ LastGiven("profile") = LastOf(given, "profile")
    BY ResolvedIsResolvedOf, LastGivenIsLastOf
  <2>2. /\ LastOf(given, k) \in 0 .. Len(given)
        /\ LastOf(given, "profile") \in 0 .. Len(given)
        /\ k # "profile"
    BY <1>2, <1>4, <2>1 DEF Tracked
  <2>3. ResolvedOf(given', k, f, o.warming, o.profiling) =
           IF t.kind = k THEN t.arg
           ELSE IF t.kind = "profile" /\ LastOf(given, k) = 0
                THEN (IF t.arg > 0 THEN o.profiling ELSE o.warming)
           ELSE ResolvedOf(given, k, f, o.warming, o.profiling)
    BY <1>1, <2>2, ResolvedAppend
  <2>4. /\ opts[f] = Resolved(k, f, o.warming, o.profiling)
        /\ optSet[f] = (LastGiven(k) > 0)
    BY DEF MInv
  <2>5. opts'[f] = IF t.kind = k THEN t.arg
                   ELSE IF t.kind = "profile" /\ ~optSet[f]
                        THEN (IF t.arg > 0 THEN o.profiling ELSE o.warming)
                   ELSE opts[f]
    BY DEF AfterOption
  <2>6. ~optSet[f] <=> LastOf(given, k) = 0
    <3>1. optSet[f] = (LastOf(given, k) > 0)
      BY <2>1, <2>4
    <3>2. (LastOf(given, k) > 0) <=> LastOf(given, k) # 0
      BY <2>2
    <3>3. QED
      BY <3>1, <3>2, Zenon
  <2>7. QED
    BY <2>1, <2>3, <2>4, <2>5, <2>6
<1>7. QED
  BY <1>1, <1>3, <1>5, <1>6 DEF MInv, Tracked

-----------------------------------------------------------------------------

(* optionError() is the only way a parser sets an exit code: a parser that *)
(* leaves no exit request behind reported no error and found none.         *)
LEMMA ReportNoExit ==
    ASSUME NEW e \in BOOLEAN, Report(e), exitCode' = NoExit
    PROVE  ~e /\ exitCode' = exitCode
  BY DEF Report, OptionError, NoExit, EC_ARGUMENT_ERROR

\* The options at load time are within every limit and name no template.
LEMMA InitVInv == Init => VInv
  BY DEF Init, VInv, OptsType, Limits, DefaultOptions, Actions, SO_HIGH_PRIORITY_FIRST,
         UA_WARMER, ER_USER_INTERRUPT, NoExit

(***************************************************************************)
(* One option's parser keeps the shape of `options`, sets a template       *)
(* whenever it sets a screenshot count, and, unless it reports an error,   *)
(* stores only values within the limits it checks.                        *)
(***************************************************************************)
LEMMA ApplyOptionVInv ==
    ASSUME VInv, NEW t \in Tokens,
           t.kind \notin {"source", "end", "file", "version", "help"},
           ApplyOption(t)
    PROVE  /\ opts' \in OptsType
           /\ opts'.numScreenshots > 0 => opts'.template # "none"
           /\ numSources' \in Nat
           /\ exitCode' = NoExit => /\ exitCode = NoExit
                                    /\ Limits(opts) => Limits(opts')
<1> DEFINE v == t.arg
<1>1. t.kind \in {"profile", "queue", "range", "sort", "agent", "exitif",
                  "warmup", "url", "export", "other"}
  BY TokensAssumption
<1>2. /\ opts \in OptsType /\ numSources \in Nat
      /\ opts.numScreenshots > 0 => opts.template # "none"
  BY DEF VInv
<1>3. CASE t.kind = "profile"
  <2>1. opts' = ProfileDefaults(v) /\ UNCHANGED <<numSources, exitCode>>
    BY <1>3 DEF ApplyOption
  <2>2. v \in Nat
    BY <1>3, TokensAssumption
  <2>3. /\ opts'.sortOrder \in Int /\ opts'.userAgent \in Int /\ opts'.exitIf \in Int
    BY <1>2, <2>1 DEF ProfileDefaults, OptsType, SO_HIGH_PRIORITY_FIRST,
       SO_AS_IS, UA_USER, UA_WARMER, ER_MISSING_PAGE, ER_USER_INTERRUPT
  <2>4. opts' \in OptsType
    BY <1>2, <2>1, <2>2, <2>3 DEF ProfileDefaults, OptsType
  <2>5. QED
    BY <1>2, <2>1, <2>4 DEF ProfileDefaults, OptsType, Limits
<1>4. CASE t.kind = "queue"
  <2>1. /\ opts' = [opts EXCEPT !.queueSize = v]
        /\ Report(v < 1 \/ v > 256) /\ UNCHANGED numSources
    BY <1>4 DEF ApplyOption
  <2>2. v \in Nat
    BY <1>4, TokensAssumption
  <2>3. exitCode' = NoExit => ~(v < 1 \/ v > 256) /\ exitCode' = exitCode
    BY <2>1, <2>2, ReportNoExit
  <2>4. QED
    BY <1>2, <2>1, <2>2, <2>3 DEF OptsType, Limits
<1>5. CASE t.kind = "range"
  <2>1. /\ opts' = [opts EXCEPT !.lowest = v[1], !.highest = v[2]]
        /\ Report(BadPriority(v[1]) \/ BadPriority(v[2]) \/ v[1] > v[2])
        /\ UNCHANGED numSources
    BY <1>5 DEF ApplyOption
  <2>2. v \in Int \X Int
    BY <1>5, TokensAssumption
  <2>3. exitCode' = NoExit =>
          /\ ~(BadPriority(v[1]) \/ BadPriority(v[2]) \/ v[1] > v[2])
          /\ exitCode' = exitCode
    BY <2>1, <2>2, ReportNoExit DEF BadPriority
  <2>4. opts' \in OptsType /\ opts'.lowest = v[1] /\ opts'.highest = v[2]
    BY <1>2, <2>1, <2>2 DEF OptsType
  <2>5. QED
    BY <1>2, <2>1, <2>2, <2>3, <2>4 DEF OptsType, Limits, BadPriority
<1>6. CASE t.kind \in {"sort", "agent", "exitif"}
  <2>1. /\ \/ opts' = opts
           \/ opts' = [opts EXCEPT !.sortOrder = v]
           \/ opts' = [opts EXCEPT !.userAgent = v]
           \/ opts' = [opts EXCEPT !.exitIf = v]
        /\ Report(v = Rejected) /\ UNCHANGED numSources
    BY <1>6 DEF ApplyOption
  <2>2. v \in Int
    BY <1>6, TokensAssumption
  <2>3. exitCode' = NoExit => exitCode' = exitCode
    BY <2>1, ReportNoExit
  <2>4. QED
    BY <1>2, <2>1, <2>2, <2>3 DEF OptsType, Limits
<1>7. CASE t.kind = "warmup"
  <2>1. /\ opts' = [opts EXCEPT !.warmUpPass = TRUE]
        /\ Report(v = "bad") /\ UNCHANGED numSources
    BY <1>7 DEF ApplyOption
  <2>2. exitCode' = NoExit => exitCode' = exitCode
    BY <2>1, ReportNoExit
  <2>3. QED
    BY <1>2, <2>1, <2>2 DEF OptsType, Limits
<1>8. CASE t.kind = "url"
  <2>1. /\ numSources' = numSources + 1
        /\ Report(BadPriority(v)) /\ UNCHANGED opts
    BY <1>8 DEF ApplyOption
  <2>2. BadPriority(v) \in BOOLEAN
    BY DEF BadPriority
  <2>3. exitCode' = NoExit => exitCode' = exitCode
    BY <2>1, <2>2, ReportNoExit
  <2>4. QED
    BY <1>2, <2>1, <2>3
<1>9. CASE t.kind = "other"
  <2>1. Report(v = "bad") /\ UNCHANGED <<opts, numSources>>
    BY <1>9 DEF ApplyOption
  <2>2. exitCode' = NoExit => exitCode' = exitCode
    BY <2>1, ReportNoExit
  <2>3. QED
    BY <1>2, <2>1, <2>2
<1>10. CASE t.kind = "export"
  <2>1. /\ opts' = [opts EXCEPT !.numScreenshots = v.num, !.template = v.template]
        /\ UNCHANGED <<numSources, exitCode>>
    BY <1>10 DEF ApplyOption
  <2>2. v \in [num : Nat, template : {"ok", "bad"}]
    BY <1>10, TokensAssumption
  <2>3. QED
    BY <1>2, <2>1, <2>2 DEF OptsType, Limits
<1>11. QED
  BY <1>1, <1>3, <1>4, <1>5, <1>6, <1>7, <1>10, <1>8, <1>9

(* -v and -h only ever replace the action by a request for information.    *)
LEMMA NextActionRange ==
    ASSUME NEW t
    PROVE  NextAction(t) \in {action, "version", "help"}
  BY DEF NextAction

(* One argument of parseOptions(): a source, `--`, -v, -h or an option.    *)
LEMMA ParseArgVInv ==
    ASSUME VInv, NEW t \in Tokens, ParseArg(t)
    PROVE  VInv'
<1>1. phase' = "parse" /\ phase = "parse"
  BY DEF ParseArg
<1>2. CASE Top \/ t.kind = "source"
  <2>1. /\ numSources' = numSources + 1
        /\ UNCHANGED <<action, opts, exitCode>>
    BY <1>2 DEF ParseArg
  <2>2. QED
    BY <1>1, <2>1 DEF VInv
<1>3. CASE ~(Top \/ t.kind = "source")
  <2>1. action' \in {action, "version", "help"}
    BY <1>3, NextActionRange DEF ParseArg
  <2>2. action' \in Actions /\ (action # "undefined" => action' # "undefined")
    BY <2>1 DEF VInv, Actions
  <2>3. CASE t.kind \in {"end", "version", "help"}
    <3>1. UNCHANGED <<opts, numSources, exitCode>>
      BY <1>3, <2>3 DEF ParseArg
    <3>2. QED
      BY <1>1, <2>2, <3>1 DEF VInv
  <2>4. CASE t.kind \notin {"end", "version", "help"}
    <3>1. ApplyOption(t) /\ t.kind \notin {"source", "file"}
      BY <1>3, <2>4 DEF ParseArg
    <3>2. /\ opts' \in OptsType
          /\ opts'.numScreenshots > 0 => opts'.template # "none"
          /\ numSources' \in Nat
          /\ exitCode' = NoExit => /\ exitCode = NoExit
                                   /\ Limits(opts) => Limits(opts')
      <4>1. t.kind \notin {"source", "end", "file", "version", "help"}
        BY <2>4, <3>1
      <4>2. QED
        BY <3>1, <4>1, ApplyOptionVInv
    <3>3. exitCode = NoExit => Limits(opts) /\ action # "undefined"
      BY DEF VInv
    <3>5. exitCode' = NoExit => Limits(opts') /\ action' # "undefined"
      BY <2>2, <3>2, <3>3, Zenon
    <3>4. QED
      BY <1>1, <2>2, <3>2, <3>5 DEF VInv
  <2>5. QED
    BY <2>3, <2>4
<1>4. QED
  BY <1>2, <1>3

(* `@path`: a readable option file starts a nested parseOptions() call;    *)
(* one that cannot be read makes the action undefined, with an error.      *)
LEMMA ParseOptionFileVInv ==
    ASSUME VInv, NEW t \in Tokens, NEW readable \in BOOLEAN,
           ParseOptionFile(t, readable)
    PROVE  VInv'
<1>1. phase' = "parse" /\ UNCHANGED <<opts, numSources>>
  BY DEF ParseOptionFile
<1>2. CASE readable
  <2>1. action' = action /\ Report(Len(frames) - 1 > NestingLimit)
    BY <1>2 DEF ParseOptionFile
  <2>2. (Len(frames) - 1 > NestingLimit) \in BOOLEAN
    OBVIOUS
  <2>3. exitCode' = NoExit => exitCode' = exitCode
    BY <2>1, <2>2, ReportNoExit
  <2>4. QED
    BY <1>1, <2>1, <2>3 DEF VInv
<1>3. CASE ~readable
  <2>1. action' = "undefined" /\ exitCode' = EC_ARGUMENT_ERROR
    BY <1>3 DEF ParseOptionFile, OptionError
  <2>2. QED
    BY <1>1, <2>1 DEF VInv, Actions, NoExit, EC_ARGUMENT_ERROR
<1>4. QED
  BY <1>2, <1>3

(* The end of exports.parse(): validateOptions() and printInfo() leave no  *)
(* exit request only for a valid configuration and no info request.       *)
LEMMA FinishVInv ==
    ASSUME VInv, Finish
    PROVE  VInv'
<1> DEFINE info == action \in {"version", "help"}
<1>1. /\ phase' = "done"
      /\ UNCHANGED <<action, opts, numSources>>
      /\ exitCode' = IF InvalidOptions THEN EC_ARGUMENT_ERROR
                      ELSE IF info THEN EC_NOTHING_TO_DO
                      ELSE exitCode
  BY DEF Finish
<1>2. NoExit # EC_ARGUMENT_ERROR /\ NoExit # EC_NOTHING_TO_DO
  BY DEF NoExit, EC_ARGUMENT_ERROR, EC_NOTHING_TO_DO
<1>3. exitCode' = NoExit => ~InvalidOptions /\ ~info /\ exitCode = NoExit
  BY <1>1, <1>2, Zenon
<1>4. exitCode' = NoExit => action = "execute"
  BY <1>3 DEF VInv, Actions
<1>5. QED
  BY <1>1, <1>3, <1>4 DEF VInv, InvalidOptions


(* optionError() sets sawError for good; a parser that reports nothing     *)
(* leaves it alone.                                                        *)
LEMMA ReportSawError ==
    ASSUME NEW e \in BOOLEAN, Report(e), sawError \in BOOLEAN
    PROVE  sawError' \in BOOLEAN /\ (~sawError' => ~e /\ ~sawError)
  BY DEF Report, OptionError

(***************************************************************************)
(* parseSortOption, parseAgentOption and parseExitIfOption, for option r: *)
(* the flag goes up whatever the value, and an accepted value is stored.   *)
(***************************************************************************)
LEMMA ExplicitSetting ==
    ASSUME VInv, MInv, NEW t \in Tokens, NEW r \in Settable, t.kind = r.kind,
           opts' = IF t.arg = Rejected THEN opts ELSE [opts EXCEPT ![r.field] = t.arg],
           optSet' = [optSet EXCEPT ![r.field] = TRUE],
           Report(t.arg = Rejected)
    PROVE  /\ optSet' \in OptSetType
           /\ sawError' \in BOOLEAN
           /\ \A o \in Settable : optSet'[o.field] = (optSet[o.field] \/ t.kind = o.kind)
           /\ ~sawError' => ~sawError
           /\ ~sawError' => \A o \in Settable : opts'[o.field] = AfterOption(t, o)
<1>1. /\ opts \in OptsType
      /\ optSet \in OptSetType
      /\ sawError \in BOOLEAN
  BY DEF VInv, MInv
<1>2. \A o \in Settable : /\ o.field \in {"sortOrder", "userAgent", "exitIf"}
                          /\ o.kind # "profile"
                          /\ (o.kind = r.kind <=> o.field = r.field)
  BY DEF Settable
<1>3. sawError' \in BOOLEAN /\ (~sawError' => t.arg # Rejected /\ ~sawError)
  BY <1>1, ReportSawError
<1>4. ~sawError' => \A o \in Settable : opts'[o.field] = AfterOption(t, o)
  BY <1>1, <1>2, <1>3 DEF AfterOption, OptsType
<1>5. QED
  BY <1>1, <1>2, <1>3, <1>4 DEF OptSetType

(***************************************************************************)
(* One option's parser raises exactly its own option_set flag, and, unless *)
(* it reported an error, leaves the three options as AfterOption says.    *)
(***************************************************************************)
LEMMA ApplyOptionSettable ==
    ASSUME VInv, MInv, NEW t \in Tokens,
           t.kind \notin {"source", "end", "file", "version", "help"},
           ApplyOption(t)
    PROVE  /\ optSet' \in OptSetType
           /\ sawError' \in BOOLEAN
           /\ \A o \in Settable : optSet'[o.field] = (optSet[o.field] \/ t.kind = o.kind)
           /\ ~sawError' => ~sawError
           /\ ~sawError' => \A o \in Settable : opts'[o.field] = AfterOption(t, o)
<1> DEFINE v == t.arg
           SortR == [kind |-> "sort", field |-> "sortOrder",
                     warming |-> SO_AS_IS, profiling |-> SO_HIGH_PRIORITY_FIRST]
           AgentR == [kind |-> "agent", field |-> "userAgent",
                      warming |-> UA_WARMER, profiling |-> UA_USER]
           ExitR == [kind |-> "exitif", field |-> "exitIf",
                     warming |-> ER_USER_INTERRUPT, profiling |-> ER_MISSING_PAGE]
<1>1. t.kind \in {"profile", "queue", "range", "sort", "agent", "exitif",
                  "warmup", "url", "export", "other"}
  BY TokensAssumption
<1>2. /\ opts \in OptsType
      /\ optSet \in OptSetType
      /\ sawError \in BOOLEAN
  BY DEF VInv, MInv
<1>3. Settable = {SortR, AgentR, ExitR}
  BY DEF Settable
<1>4. CASE t.kind = "sort"
  <2>1. /\ opts' = IF v = Rejected THEN opts ELSE [opts EXCEPT !["sortOrder"] = v]
        /\ optSet' = [optSet EXCEPT !["sortOrder"] = TRUE]
        /\ Report(v = Rejected)
    BY <1>4 DEF ApplyOption
  <2>2. QED
    BY <1>3, <1>4, <2>1, ExplicitSetting
<1>5. CASE t.kind = "agent"
  <2>1. /\ opts' = IF v = Rejected THEN opts ELSE [opts EXCEPT !["userAgent"] = v]
        /\ optSet' = [optSet EXCEPT !["userAgent"] = TRUE]
        /\ Report(v = Rejected)
    BY <1>5 DEF ApplyOption
  <2>2. QED
    BY <1>3, <1>5, <2>1, ExplicitSetting
<1>6. CASE t.kind = "exitif"
  <2>1. /\ opts' = IF v = Rejected THEN opts ELSE [opts EXCEPT !["exitIf"] = v]
        /\ optSet' = [optSet EXCEPT !["exitIf"] = TRUE]
        /\ Report(v = Rejected)
    BY <1>6 DEF ApplyOption
  <2>2. QED
    BY <1>3, <1>6, <2>1, ExplicitSetting
<1>7. CASE t.kind = "profile"
  <2>1. opts' = ProfileDefaults(v) /\ UNCHANGED <<optSet, sawError>>
    BY <1>7 DEF ApplyOption
  <2>2. ASSUME NEW o \in Settable PROVE opts'[o.field] = AfterOption(t, o)
    <3>1. AfterOption(t, o) = IF optSet[o.field] THEN opts[o.field]
                              ELSE IF v > 0 THEN o.profiling ELSE o.warming
      BY <1>3, <1>7 DEF AfterOption
    <3>2. CASE o = SortR
      BY <1>2, <2>1, <3>1, <3>2 DEF ProfileDefaults, OptsType
    <3>3. CASE o = AgentR
      BY <1>2, <2>1, <3>1, <3>3 DEF ProfileDefaults, OptsType
    <3>4. CASE o = ExitR
      BY <1>2, <2>1, <3>1, <3>4 DEF ProfileDefaults, OptsType
    <3>5. QED
      BY <1>3, <3>2, <3>3, <3>4
  <2>3. QED
    BY <1>2, <1>3, <1>7, <2>1, <2>2 DEF OptSetType
<1>8. CASE t.kind \in {"queue", "range", "warmup", "url", "export", "other"}
  <2>1. /\ optSet' = optSet
        /\ sawError' \in BOOLEAN /\ (~sawError' => ~sawError)
        /\ \A f \in {"sortOrder", "userAgent", "exitIf"} : opts'[f] = opts[f]
    <3>1. CASE t.kind = "queue"
      <4>1. opts' = [opts EXCEPT !.queueSize = v] /\ Report(v < 1 \/ v > 256)
            /\ optSet' = optSet
        BY <3>1 DEF ApplyOption
      <4>2. v \in Nat
        BY <3>1, TokensAssumption
      <4>3. QED
        BY <1>2, <4>1, <4>2, ReportSawError DEF OptsType
    <3>2. CASE t.kind = "range"
      <4>1. /\ opts' = [opts EXCEPT !.lowest = v[1], !.highest = v[2]]
            /\ Report(BadPriority(v[1]) \/ BadPriority(v[2]) \/ v[1] > v[2])
            /\ optSet' = optSet
        BY <3>2 DEF ApplyOption
      <4>2. v \in Int \X Int
        BY <3>2, TokensAssumption
      <4>3. (BadPriority(v[1]) \/ BadPriority(v[2]) \/ v[1] > v[2]) \in BOOLEAN
        BY <4>2 DEF BadPriority
      <4>4. QED
        BY <1>2, <4>1, <4>3, ReportSawError DEF OptsType
    <3>3. CASE t.kind = "warmup"
      <4>1. opts' = [opts EXCEPT !.warmUpPass = TRUE] /\ Report(v = "bad")
            /\ optSet' = optSet
        BY <3>3 DEF ApplyOption
      <4>2. QED
        BY <1>2, <4>1, ReportSawError DEF OptsType
    <3>4. CASE t.kind = "url"
      <4>1. opts' = opts /\ Report(BadPriority(v)) /\ optSet' = optSet
        BY <3>4 DEF ApplyOption
      <4>2. BadPriority(v) \in BOOLEAN
        BY DEF BadPriority
      <4>3. QED
        BY <1>2, <4>1, <4>2, ReportSawError
    <3>5. CASE t.kind = "export"
      <4>1. /\ opts' = [opts EXCEPT !.numScreenshots = v.num, !.template = v.template]
            /\ UNCHANGED <<optSet, sawError>>
        BY <3>5 DEF ApplyOption
      <4>2. QED
        BY <1>2, <4>1 DEF OptsType
    <3>6. CASE t.kind = "other"
      <4>1. opts' = opts /\ Report(v = "bad") /\ optSet' = optSet
        BY <3>6 DEF ApplyOption
      <4>2. QED
        BY <1>2, <4>1, ReportSawError
    <3>7. QED
      BY <1>8, <3>1, <3>2, <3>3, <3>4, <3>5, <3>6
  <2>2. \A o \in Settable : t.kind # o.kind /\ o.field \in {"sortOrder", "userAgent", "exitIf"}
    BY <1>3, <1>8
  <2>3. QED
    BY <1>2, <1>8, <2>1, <2>2 DEF AfterOption, OptSetType
<1>9. QED
  BY <1>1, <1>4, <1>5, <1>6, <1>7, <1>8

-----------------------------------------------------------------------------

(* VInv is inductive: no step of the parser, nor the idle parsed state,    *)
(* breaks it.                                                              *)
THEOREM VInvInductive == VInv /\ [Next]_vars => VInv'
<1> SUFFICES ASSUME VInv, [Next]_vars PROVE VInv'
  OBVIOUS
<1>1. CASE \E t \in Tokens : ParseArg(t)
  BY <1>1, ParseArgVInv
<1>2. CASE \E t \in Tokens, readable \in BOOLEAN : ParseOptionFile(t, readable)
  BY <1>2, ParseOptionFileVInv
<1>3. CASE EndOptionFile
  BY <1>3 DEF EndOptionFile, VInv, InvalidOptions
<1>4. CASE Finish
  BY <1>4, FinishVInv
<1>5. CASE Parsed \/ UNCHANGED vars
  <2>1. UNCHANGED vars
    BY <1>5 DEF Parsed
  <2>2. QED
    BY <2>1 DEF vars, VInv, InvalidOptions
<1>6. QED
  BY <1>1, <1>2, <1>3, <1>4, <1>5 DEF Next

(* When parse() returns without having asked to exit, the options are what *)
(* urls.load() and processor.run() take for granted: a queue of 1..256    *)
(* pages, a priority range inside [0, 1], a source, at most one screenshot *)
(* in profiling mode, a well-formed template and no info request, for      *)
(* every command line and option file the parsers can read.               *)
THEOREM ValidatedConfigurationHolds == Spec => []ValidatedConfiguration
<1>1. VInv => ValidatedConfiguration
  <2> SUFFICES ASSUME VInv, phase = "done", exitCode = NoExit
               PROVE  ValidatedConfiguration
    BY DEF ValidatedConfiguration
  <2>1. /\ Limits(opts) /\ action = "execute" /\ ~InvalidOptions
        /\ opts \in OptsType /\ numSources \in Nat
        /\ opts.numScreenshots > 0 => opts.template # "none"
    BY DEF VInv
  <2>2. QED
    BY <2>1 DEF ValidatedConfiguration, Limits, InvalidOptions, OptsType
<1>2. QED
  BY <1>1, InitVInv, VInvInductive, PTL DEF Spec

-----------------------------------------------------------------------------
(* The steps of MInv                                                       *)

\* No token has been parsed: every option has its load-time value.
LEMMA InitMInv == Init => MInv
<1> SUFFICES ASSUME Init PROVE MInv
  OBVIOUS
<1>1. \A k : LastGiven(k) = 0
  BY LastGivenIsLastOf, LastOfEmpty DEF Init
<1>2. \A o \in Settable :
         Resolved(o.kind, o.field, o.warming, o.profiling) = DefaultOptions[o.field]
  BY <1>1 DEF Resolved
<1>3. given \in Seq(Tokens) /\ Len(given) = 0
  BY DEF Init
<1>4. ASSUME NEW o \in Settable
      PROVE  /\ optSet[o.field] = (LastGiven(o.kind) > 0)
             /\ opts[o.field] = Resolved(o.kind, o.field, o.warming, o.profiling)
  <2>1. LastGiven(o.kind) = 0
    BY <1>1
  <2>2. optSet[o.field] = FALSE /\ opts[o.field] = DefaultOptions[o.field]
    BY DEF Init, Settable
  <2>3. (LastGiven(o.kind) > 0) = FALSE
    BY <2>1
  <2>4. Resolved(o.kind, o.field, o.warming, o.profiling) = DefaultOptions[o.field]
    BY <1>2
  <2>5. QED
    BY <2>2, <2>3, <2>4, Zenon
<1>5. ASSUME NEW k \in Tracked
      PROVE  /\ LastGiven(k) \in 0 .. Len(given)
             /\ LastGiven(k) > 0 => given[LastGiven(k)].kind = k
  <2>1. LastGiven(k) = 0
    BY <1>1
  <2>2. QED
    BY <1>3, <2>1
<1>6. optSet \in OptSetType /\ sawError \in BOOLEAN
  BY DEF Init, OptSetType
<1>7. QED
  BY <1>3, <1>4, <1>5, <1>6 DEF MInv, Tracked

(* A step that leaves the history, the options and the flags alone and     *)
(* calls optionError() or nothing keeps MInv.                              *)
LEMMA QuietStep ==
    ASSUME MInv, UNCHANGED <<given, opts, optSet>>,
           sawError' \in BOOLEAN, ~sawError' => ~sawError
    PROVE  MInv'
<1>1. \A k : LastGiven(k)' = LastGiven(k)
  BY LastGivenIsLastOf
<1>2. \A k, f, w, pr : Resolved(k, f, w, pr)' = Resolved(k, f, w, pr)
  BY ResolvedIsResolvedOf
<1>3. QED
  BY <1>1, <1>2 DEF MInv

(* A token of none of the tracked kinds appended to the history, with the  *)
(* options and flags left alone: an option file, `--`, -v or -h.           *)
LEMMA ForeignToken ==
    ASSUME MInv, NEW t \in Tokens, t.kind \notin Tracked,
           given' = Append(given, t), UNCHANGED <<opts, optSet>>,
           sawError' \in BOOLEAN, ~sawError' => ~sawError
    PROVE  MInv'
<1>1. \A o \in Settable : t.kind # o.kind /\ t.kind # "profile"
  BY DEF Settable, Tracked
<1>2. \A o \in Settable : opts'[o.field] = AfterOption(t, o)
  BY <1>1 DEF AfterOption
<1>3. optSet' \in OptSetType
  BY DEF MInv
<1>4. \A o \in Settable : optSet'[o.field] = (optSet[o.field] \/ t.kind = o.kind)
  <2>1. \A o \in Settable : o.field \in {"sortOrder", "userAgent", "exitIf"}
    BY DEF Settable
  <2>2. QED
    BY <1>1, <1>3, <2>1 DEF OptSetType
<1>5. QED
  BY <1>2, <1>3, <1>4, AppendStep

(* One argument of parseOptions().                                         *)
LEMMA ParseArgMInv ==
    ASSUME VInv, MInv, NEW t \in Tokens, ParseArg(t)
    PROVE  MInv'
<1>1. CASE Top \/ t.kind = "source"
  <2>1. UNCHANGED <<given, opts, optSet, sawError>>
    BY <1>1 DEF ParseArg
  <2>2. QED
    BY <2>1, QuietStep DEF MInv
<1>2. CASE ~(Top \/ t.kind = "source")
  <2>1. given' = Append(given, t) /\ t.kind # "file"
    BY <1>2 DEF ParseArg
  <2>2. CASE t.kind \in {"end", "version", "help"}
    <3>1. UNCHANGED <<opts, optSet, sawError>>
      BY <1>2, <2>2 DEF ParseArg
    <3>2. t.kind \notin Tracked
      BY <2>2 DEF Tracked
    <3>3. QED
      BY <2>1, <3>1, <3>2, ForeignToken DEF MInv
  <2>3. CASE t.kind \notin {"end", "version", "help"}
    <3>1. ApplyOption(t)
      BY <1>2, <2>3 DEF ParseArg
    <3>2. t.kind \notin {"source", "end", "file", "version", "help"}
      BY <1>2, <2>1, <2>3
    <3>3. QED
      BY <2>1, <3>1, <3>2, ApplyOptionSettable, AppendStep
  <2>4. QED
    BY <2>2, <2>3
<1>3. QED
  BY <1>1, <1>2

(* `@path`: the file token enters the history; an unreadable file or one   *)
(* nested too deep is an error.                                            *)
LEMMA ParseOptionFileMInv ==
    ASSUME MInv, NEW t \in Tokens, NEW readable \in BOOLEAN,
           ParseOptionFile(t, readable)
    PROVE  MInv'
<1>1. /\ given' = Append(given, t) /\ t.kind = "file"
      /\ UNCHANGED <<opts, optSet>>
  BY DEF ParseOptionFile
<1>2. sawError \in BOOLEAN
  BY DEF MInv
<1>3. sawError' \in BOOLEAN /\ (~sawError' => ~sawError)
  <2>1. CASE readable
    <3>1. Report(Len(frames) - 1 > NestingLimit)
      BY <2>1 DEF ParseOptionFile
    <3>2. (Len(frames) - 1 > NestingLimit) \in BOOLEAN
      OBVIOUS
    <3>3. QED
      BY <1>2, <3>1, <3>2, ReportSawError
  <2>2. CASE ~readable
    BY <2>2 DEF ParseOptionFile, OptionError
  <2>3. QED
    BY <2>1, <2>2
<1>4. t.kind \notin Tracked
  BY <1>1 DEF Tracked
<1>5. QED
  BY <1>1, <1>3, <1>4, ForeignToken

(* MInv is inductive relative to VInv: whatever order the arguments and   *)
(* option files come in, no step of the parser breaks it.                  *)
THEOREM MInvInductive == VInv /\ MInv /\ [Next]_vars => MInv'
<1> SUFFICES ASSUME VInv, MInv, [Next]_vars PROVE MInv'
  OBVIOUS
<1>1. sawError \in BOOLEAN
  BY DEF MInv
<1>2. CASE \E t \in Tokens : ParseArg(t)
  BY <1>2, ParseArgMInv
<1>3. CASE \E t \in Tokens, readable \in BOOLEAN : ParseOptionFile(t, readable)
  BY <1>3, ParseOptionFileMInv
<1>4. CASE EndOptionFile
  BY <1>1, <1>4, QuietStep DEF EndOptionFile
<1>5. CASE Finish
  <2>1. UNCHANGED <<given, opts, optSet>> /\ sawError' = (sawError \/ InvalidOptions)
    BY <1>5 DEF Finish
  <2>2. InvalidOptions \in BOOLEAN
    BY DEF InvalidOptions
  <2>3. QED
    BY <1>1, <2>1, <2>2, QuietStep
<1>6. CASE Parsed \/ UNCHANGED vars
  <2>1. UNCHANGED vars
    BY <1>6 DEF Parsed
  <2>2. QED
    BY <1>1, <2>1, QuietStep DEF vars
<1>7. QED
  BY <1>2, <1>3, <1>4, <1>5, <1>6 DEF Next

(* A command line parse() accepts sets the sort order, the user agent and  *)
(* the error tolerance to the last explicit -s, -a and -e, or else to the  *)
(* default of the mode the last -p selected, or else to the load-time      *)
(* default: whatever the order of -p and of the explicit options, and      *)
(* across nested option files (parseProfileOption and `option_set`).       *)
THEOREM ModeDefaultsHonouredHolds == Spec => []ModeDefaultsHonoured
<1>1. Spec => [](VInv /\ MInv)
  <2>1. Init => VInv /\ MInv
    BY InitVInv, InitMInv
  <2>2. VInv /\ MInv /\ [Next]_vars => VInv' /\ MInv'
    BY VInvInductive, MInvInductive
  <2>3. QED
    BY <2>1, <2>2, PTL DEF Spec
<1>2. MInv => ModeDefaultsHonoured
  <2> SUFFICES ASSUME MInv, phase = "done", ~sawError
               PROVE  ModeDefaultsHonoured
    BY DEF ModeDefaultsHonoured
  <2>1. \A o \in Settable :
           opts[o.field] = Resolved(o.kind, o.field, o.warming, o.profiling)
    BY DEF MInv
  <2>2. QED
    BY <2>1 DEF ModeDefaultsHonoured, Settable
<1>3. QED
  BY <1>1, <1>2, PTL

-----------------------------------------------------------------------------
(* Type correctness                                                        *)

(* The inductive form of TypeOK: no argument is counted a source without   *)
(* having been read.                                                       *)
TInv ==
    /\ TypeOK
    /\ numSources <= read

\* Reporting, or not, an error leaves the exit code or requests exit code 2.
LEMMA ReportCode ==
    ASSUME NEW e, Report(e)
    PROVE  exitCode' \in {exitCode, EC_ARGUMENT_ERROR}
  BY DEF Report, OptionError

\* One option's parser counts at most one source and exits only with code 2.
LEMMA ApplyOptionCounts ==
    ASSUME NEW t \in Tokens,
           t.kind \notin {"source", "end", "file", "version", "help"},
           ApplyOption(t)
    PROVE  /\ numSources' \in {numSources, numSources + 1}
           /\ exitCode' \in {exitCode, EC_ARGUMENT_ERROR}
<1>1. t.kind \in {"profile", "queue", "range", "sort", "agent", "exitif",
                  "warmup", "url", "export", "other"}
  BY TokensAssumption
<1>2. CASE t.kind \in {"profile", "export"}
  BY <1>2 DEF ApplyOption
<1>3. CASE t.kind = "queue"
  BY <1>3, ReportCode DEF ApplyOption
<1>4. CASE t.kind = "range"
  BY <1>4, ReportCode DEF ApplyOption
<1>5. CASE t.kind = "sort"
  BY <1>5, ReportCode DEF ApplyOption
<1>6. CASE t.kind = "agent"
  BY <1>6, ReportCode DEF ApplyOption
<1>7. CASE t.kind = "exitif"
  BY <1>7, ReportCode DEF ApplyOption
<1>8. CASE t.kind = "warmup"
  BY <1>8, ReportCode DEF ApplyOption
<1>9. CASE t.kind = "url"
  BY <1>9, ReportCode DEF ApplyOption
<1>10. CASE t.kind = "other"
  BY <1>10, ReportCode DEF ApplyOption
<1> QED  BY <1>1, <1>2, <1>3, <1>4, <1>5, <1>6, <1>7, <1>8, <1>9, <1>10

\* parse() starts with one parseOptions() call, nothing read and no exit.
LEMMA InitTInv == Init => TInv
  BY OptionsAssumption DEF Init, TInv, TypeOK, Actions

\* The exit codes the parser can request.
ExitCodes == {NoExit, EC_NOTHING_TO_DO, EC_ARGUMENT_ERROR}

(* Marking the innermost parseOptions() call's options ended keeps the    *)
(* stack of calls as deep as it was.                                       *)
LEMMA EndTop ==
    ASSUME NEW f \in Seq(BOOLEAN), Len(f) >= 1
    PROVE  /\ [f EXCEPT ![Len(f)] = TRUE] \in Seq(BOOLEAN)
           /\ Len([f EXCEPT ![Len(f)] = TRUE]) = Len(f)
  BY ExceptSeq

(* One argument of parseOptions(): it is read, counted a source at most   *)
(* once, and changes the action only to an information request.           *)
LEMMA ParseArgTInv ==
    ASSUME TInv, NEW t \in Tokens, ParseArg(t)
    PROVE  TInv'
<1>1. /\ read' = read + 1 /\ read + 1 <= MaxTokens /\ read \in Nat
      /\ UNCHANGED <<phase, printed>>
      /\ t.kind # "file"
  BY OptionsAssumption DEF ParseArg, TInv, TypeOK
<1>2. /\ frames' \in Seq(BOOLEAN) /\ Len(frames') = Len(frames)
      /\ action' \in Actions
      /\ numSources' \in {numSources, numSources + 1}
      /\ exitCode' \in {exitCode, EC_ARGUMENT_ERROR}
  <2>1. frames \in Seq(BOOLEAN) /\ Len(frames) >= 1 /\ action \in Actions
    BY DEF TInv, TypeOK
  <2>2. CASE Top \/ t.kind = "source"
    <3>1. /\ numSources' = numSources + 1
          /\ frames' = [frames EXCEPT ![Len(frames)] = TRUE]
          /\ UNCHANGED <<action, exitCode>>
      BY <2>2 DEF ParseArg
    <3> QED  BY <2>1, <3>1, EndTop
  <2>3. CASE ~(Top \/ t.kind = "source")
    <3>1. /\ frames' \in {frames, [frames EXCEPT ![Len(frames)] = TRUE]}
          /\ action' = NextAction(t)
          /\ IF t.kind \in {"end", "version", "help"}
               THEN UNCHANGED <<numSources, exitCode>>
               ELSE ApplyOption(t)
      BY <2>3 DEF ParseArg
    <3>2. frames' \in Seq(BOOLEAN) /\ Len(frames') = Len(frames)
      BY <2>1, <3>1, EndTop
    <3>3. action' \in Actions
      BY <2>1, <3>1, NextActionRange DEF Actions
    <3>4. CASE t.kind \in {"end", "version", "help"}
      BY <3>1, <3>2, <3>3, <3>4
    <3>5. CASE t.kind \notin {"end", "version", "help"}
      <4>1. t.kind \notin {"source", "end", "file", "version", "help"}
        BY <1>1, <2>3, <3>5
      <4>2. ApplyOption(t)
        BY <3>1, <3>5
      <4> QED  BY <3>2, <3>3, <4>1, <4>2, ApplyOptionCounts
    <3> QED  BY <3>4, <3>5
  <2> QED  BY <2>2, <2>3
<1>3. numSources' \in 0 .. MaxTokens /\ numSources' <= read'
  BY <1>1, <1>2, OptionsAssumption DEF TInv, TypeOK
<1>4. exitCode' \in ExitCodes
  BY <1>2 DEF TInv, TypeOK, ExitCodes
<1>5. TypeOK'
  BY <1>1, <1>2, <1>3, <1>4 DEF TInv, TypeOK, ExitCodes
<1> QED  BY <1>3, <1>5 DEF TInv

(* `@path`: the file is read, one level deeper when it can be read and the *)
(* model follows it, with an error past the nesting limit.                 *)
LEMMA ParseOptionFileTInv ==
    ASSUME TInv, NEW t \in Tokens, NEW readable \in BOOLEAN,
           ParseOptionFile(t, readable)
    PROVE  TInv'
<1>1. /\ read' = read + 1 /\ read + 1 <= MaxTokens /\ read \in Nat
      /\ UNCHANGED <<phase, printed, numSources>>
      /\ frames \in Seq(BOOLEAN) /\ Len(frames) \in 1 .. MaxDepth
      /\ numSources \in Nat /\ numSources <= read
      /\ action \in Actions /\ exitCode \in ExitCodes
  BY OptionsAssumption DEF ParseOptionFile, TInv, TypeOK, ExitCodes
<1>2. CASE readable
  <2>1. /\ frames' = Append(frames, FALSE) /\ Len(frames) < MaxDepth
        /\ action' = action /\ Report(Len(frames) - 1 > NestingLimit)
    BY <1>2 DEF ParseOptionFile
  <2>2. frames' \in Seq(BOOLEAN) /\ Len(frames') = Len(frames) + 1
    BY <1>1, <2>1, AppendProperties
  <2>3. exitCode' \in {exitCode, EC_ARGUMENT_ERROR}
    BY <2>1, ReportCode
  <2> QED  BY <1>1, <2>1, <2>2, <2>3, OptionsAssumption
              DEF TInv, TypeOK, ExitCodes
<1>3. CASE ~readable
  <2>1. frames' = frames /\ action' = "undefined" /\ exitCode' = EC_ARGUMENT_ERROR
    BY <1>3 DEF ParseOptionFile, OptionError
  <2> QED  BY <1>1, <2>1 DEF TInv, TypeOK, ExitCodes, Actions
<1> QED  BY <1>2, <1>3

\* TInv is inductive.
THEOREM TInvInductive == TInv /\ [Next]_vars => TInv'
<1> SUFFICES ASSUME TInv, [Next]_vars PROVE TInv'
  OBVIOUS
<1>1. CASE \E t \in Tokens : ParseArg(t)
  BY <1>1, ParseArgTInv
<1>2. CASE \E t \in Tokens, readable \in BOOLEAN : ParseOptionFile(t, readable)
  BY <1>2, ParseOptionFileTInv
<1>3. CASE EndOptionFile
  <2>1. /\ frames' = SubSeq(frames, 1, Len(frames) - 1) /\ Len(frames) > 1
        /\ frames \in Seq(BOOLEAN) /\ Len(frames) \in 1 .. MaxDepth
        /\ UNCHANGED <<phase, read, action, numSources, exitCode, printed>>
    BY <1>3 DEF EndOptionFile, TInv, TypeOK
  <2>2. frames' \in Seq(BOOLEAN) /\ Len(frames') = Len(frames) - 1
    BY <2>1, SubSeqProperties
  <2>3. Len(frames') \in 1 .. MaxDepth
    BY <2>1, <2>2, OptionsAssumption
  <2>4. TypeOK'
    BY <2>1, <2>2, <2>3 DEF TInv, TypeOK
  <2> QED  BY <2>1, <2>4 DEF TInv
<1>4. CASE Finish
  <2>1. /\ phase' = "done"
        /\ printed' = Printed(action)
        /\ exitCode' \in {EC_ARGUMENT_ERROR, EC_NOTHING_TO_DO, exitCode}
        /\ UNCHANGED <<frames, read, action, numSources>>
    BY <1>4 DEF Finish
  <2>2. Printed(action) \subseteq {"version", "help"}
    BY DEF Printed
  <2> QED  BY <2>1, <2>2 DEF TInv, TypeOK
<1>5. CASE Parsed \/ UNCHANGED vars
  <2>1. UNCHANGED vars
    BY <1>5 DEF Parsed
  <2> QED  BY <2>1 DEF vars, TInv, TypeOK
<1> QED  BY <1>1, <1>2, <1>3, <1>4, <1>5 DEF Next

(* Every state of the parser is well-typed, for every set of tokens and    *)
(* bounds: at most MaxTokens arguments are read, option files are followed *)
(* at most MaxDepth - 1 levels deep, and the exit code is one that the     *)
(* parser can request (0 is never requested, since phantom.exit is called  *)
(* only by optionError() and printInfo()).                                 *)
THEOREM TypeCorrect == Spec => []TypeOK
<1>1. TInv => TypeOK
  BY DEF TInv
<1> QED  BY <1>1, InitTInv, TInvInductive, PTL DEF Spec
=============================================================================
