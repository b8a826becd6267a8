----------------------------- MODULE MC_C3Options -----------------------------
(* Model-checking instances of C3Options: small sets of argument tokens.   *)
EXTENDS C3Options

Tok(k, v) == [kind |-> k, arg |-> v]

\* -p:0 and -p:2 with -s, -a and -e set before or after them; sources, --
\* and option files (readable or not); a rejected value for each checked
\* parser; what validateOptions() refuses; -v and -h.
OptionTokens ==
    {Tok("profile", 0), Tok("profile", 2),
     Tok("sort", SO_LOW_PRIORITY_FIRST), Tok("sort", Rejected),
     Tok("agent", UA_BOT), Tok("exitif", ER_RECORDED_ERRORS),
     Tok("source", "none"), Tok("end", "none"), Tok("file", "none"),
     Tok("queue", 0), Tok("range", <<10, 5>>), Tok("url", 11),
     Tok("export", [num |-> 2, template |-> "ok"]),
     Tok("export", [num |-> 1, template |-> "bad"]),
     Tok("warmup", "bad"), Tok("other", "bad"),
     Tok("version", "none"), Tok("help", "none")}
=============================================================================
