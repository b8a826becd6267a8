-------------------------------- MODULE C3Urls --------------------------------
(***************************************************************************)
(* The URL corpus builder of the warmer (src/src/warmer/c3urls.js):        *)
(* `urls.load()` walks the sources that option parsing collected, feeds    *)
(* explicit URLs and the records of custom URL files and site maps to      *)
(* `addURL()` (priority-range filter, first-seen position, last priority   *)
(* wins), checks the result is not empty, sorts it by priority and slices  *)
(* it with -b/--begin and -n/--number.                                     *)
(*                                                                         *)
(* `load()` is synchronous and nothing runs beside it, so the model takes  *)
(* one step per source, per file record and for the final part of the      *)
(* function; the states in between are only points of observation.        *)
(* Files are read by the model as it goes: each record is an input chosen  *)
(* from a small set, because the program cannot know it in advance.        *)
(* `phantom.exit()` records the exit code and does not stop `load()`.      *)
(***************************************************************************)
EXTENDS Integers, Sequences, FiniteSets, C3Codes

CONSTANTS
    URLs,             \* the URLs that sources may name
    Priorities,       \* the priorities in [0.0..1.0], as a finite set of numbers
    LowestPriority,   \* options.values.lowestPriority (-r)
    HighestPriority,  \* options.values.highestPriority (-r)
    Settings,         \* choices of options.values: sortOrder (-s),
                      \* firstURL (-b/--begin), numURLs (-n; 0 = all)
    MaxSources,       \* bound: length of options.sources
    MaxRecords        \* bound: records read from one file

ASSUME UrlsAssumption ==
    /\ Priorities \subseteq Nat
    /\ {LowestPriority, HighestPriority} \subseteq Priorities
    /\ Settings \subseteq
         [sortOrder : {SO_AS_IS, SO_LOW_PRIORITY_FIRST, SO_HIGH_PRIORITY_FIRST},
          firstURL : Nat, numURLs : Nat]
    /\ MaxSources \in Nat \ {0}
    /\ MaxRecords \in Nat

(***************************************************************************)
(* A source, as c3options.js records it: `-u <priority> <url>` pushes the  *)
(* URL onto `sources` and stores `urls[url] = priority`                    *)
(* (parseURLOption); any other argument is a file path, a site map when it *)
(* ends in ".xml" and a custom URL file otherwise.                         *)
(***************************************************************************)
Source ==
    [type : {"url"}, url : URLs, prio : Priorities]
        \cup [type : {"custom", "sitemap"}]

SourceLists == UNION {[1 .. n -> Source] : n \in 1 .. MaxSources}

(***************************************************************************)
(* A record of a file: "ok" is a well-formed line or <url> element (for a  *)
(* site map, with <lastmod> not older than -o); "stale" is a site-map      *)
(* record older than -o; "bad" is any malformed line or record, a priority *)
(* outside [0.0..1.0] or an unparsable <lastmod>.                          *)
(***************************************************************************)
Records(type) ==
    [url : URLs, prio : Priorities,
     kind : IF type = "custom" THEN {"ok", "bad"} ELSE {"ok", "stale", "bad"}]

VARIABLES
    phase,       \* "collect" while the sources are walked, "done" after load()
    sources,     \* options.sources, with the priority each -u option gave
    values,      \* options.values: sortOrder, firstURL, numURLs (read only)
    next,        \* the loop index i of load(), 1-based
    reading,     \* the type of the file being read, or "none"
    records,     \* records read from that file so far
    urlList,     \* urlList
    prio,        \* urlPriorities, a function from its keys
    exitCode,    \* the code of the last phantom.exit() call, or NoExit
    \* history, read only by properties
    added,       \* the calls of addURL(url, priority), in order
    offered,     \* the URLs with the priority their source gave, in order
    collected,   \* urlList and urlPriorities when the collection ended
    sawError     \* urlError() was called

vars == <<phase, sources, values, next, reading, records, urlList, prio, exitCode,
          added, offered, collected, sawError>>

SortOrder == values.sortOrder
FirstURL == values.firstURL
NumURLs == values.numURLs

InRange(p) == LowestPriority <= p /\ p <= HighestPriority

(***************************************************************************)
(* The priority `load()` passes for an explicit URL: `options.urls[url]`,  *)
(* which the last -u option naming that URL wrote.                         *)
(***************************************************************************)
OptionPriority(u) ==
    LET k == CHOOSE k \in DOMAIN sources :
                /\ sources[k].type = "url" /\ sources[k].url = u
                /\ \A j \in DOMAIN sources :
                      (sources[j].type = "url" /\ sources[j].url = u) => j <= k
    IN sources[k].prio

\* Mutant: the hasOwnProperty() test dropped, so a URL is appended again.
AddURLAppendsAgain(u, p) ==
    /\ IF InRange(p)
         THEN /\ urlList' = Append(urlList, u)
              /\ prio' = [x \in DOMAIN prio \cup {u} |->
                            IF x = u THEN p ELSE prio[x]]
         ELSE UNCHANGED <<urlList, prio>>
    /\ added' = Append(added, [url |-> u, prio |-> p])

\* Mutant: the priority stored only when the URL is new (first wins).
AddURLKeepsFirstPriority(u, p) ==
    /\ IF InRange(p)
         THEN /\ urlList' = IF u \in DOMAIN prio THEN urlList
                            ELSE Append(urlList, u)
              /\ prio' = [x \in DOMAIN prio \cup {u} |->
                            IF x = u /\ u \notin DOMAIN prio THEN p ELSE prio[x]]
         ELSE UNCHANGED <<urlList, prio>>
    /\ added' = Append(added, [url |-> u, prio |-> p])

\* addURL(url, priority)
AddURL(u, p) ==
    /\ IF InRange(p)
         THEN /\ urlList' = IF u \in DOMAIN prio THEN urlList
                            ELSE Append(urlList, u)
              /\ prio' = [x \in DOMAIN prio \cup {u} |->
                            IF x = u THEN p ELSE prio[x]]
         ELSE UNCHANGED <<urlList, prio>>
    /\ added' = Append(added, [url |-> u, prio |-> p])

\* urlError(message): log, close the log and phantom.exit(EC_ARGUMENT_ERROR)
UrlError ==
    /\ exitCode' = EC_ARGUMENT_ERROR
    /\ sawError' = TRUE

(***************************************************************************)
(* The sort of `load()`: `urlList.sort(cmp)` with cmp returning            *)
(* priority1 - priority2 (ascending) or priority2 - priority1.  The        *)
(* JavaScriptCore of PhantomJS sorts with a comparator stably: an element  *)
(* goes after every element already placed that it does not precede.      *)
(* Here each element is inserted, in list order, after the elements of the *)
(* sorted prefix it is not strictly before.                                *)
(***************************************************************************)
Precedes(x, y, key, ascending) ==
    IF ascending THEN key[x] < key[y] ELSE key[y] < key[x]

\* Mutant: inserted before the elements of equal priority (an unstable sort).
InsertSortedBeforeEqual(x, s, key, ascending) ==
    LET k == Cardinality({i \in 1 .. Len(s) : Precedes(s[i], x, key, ascending)})
    IN SubSeq(s, 1, k) \o <<x>> \o SubSeq(s, k + 1, Len(s))

InsertSorted(x, s, key, ascending) ==
    LET k == Cardinality({i \in 1 .. Len(s) : ~Precedes(x, s[i], key, ascending)})
    IN SubSeq(s, 1, k) \o <<x>> \o SubSeq(s, k + 1, Len(s))

SortByPriority(list, key, ascending) ==
    LET sorted[n \in 0 .. Len(list)] ==
            IF n = 0 THEN <<>>
            ELSE InsertSorted(list[n], sorted[n - 1], key, ascending)
    IN sorted[Len(list)]

\* Mutant: -n 0 taken literally instead of as "all URLs".
SliceCountNoDefault(list) == NumURLs

\* load(), step 4: the number of URLs to keep; zero means all of them.
SliceCount(list) == IF NumURLs = 0 THEN Len(list) ELSE NumURLs

\* Array.prototype.slice(first, end): indices first .. end-1, clamped.
Slice(s, first, end) ==
    SubSeq(s, first + 1, IF end > Len(s) THEN Len(s) ELSE end)

-----------------------------------------------------------------------------

Init ==
    /\ phase = "collect"
    /\ sources \in SourceLists
    /\ values \in Settings
    /\ next = 1
    /\ reading = "none"
    /\ records = 0
    /\ urlList = <<>>
    /\ prio = [u \in {} |-> 0]
    /\ exitCode = NoExit
    /\ added = <<>>
    /\ offered = <<>>
    /\ collected = [list |-> <<>>, prio |-> [u \in {} |-> 0]]
    /\ sawError = FALSE

\* load(), step 1, for a source that is a key of options.urls.
AddListedURL ==
    /\ phase = "collect" /\ reading = "none" /\ next <= Len(sources)
    /\ sources[next].type = "url"
    /\ AddURL(sources[next].url, OptionPriority(sources[next].url))
    /\ offered' = Append(offered, [url |-> sources[next].url,
                                   prio |-> sources[next].prio])
    /\ next' = next + 1
    /\ UNCHANGED <<phase, sources, values, reading, records, exitCode, collected,
                   sawError>>

\* load(), step 1, for a file source: loadSiteMapFile() or loadCustomURLFile().
OpenFile ==
    /\ phase = "collect" /\ reading = "none" /\ next <= Len(sources)
    /\ sources[next].type \in {"custom", "sitemap"}
    /\ reading' = sources[next].type
    /\ records' = 0
    /\ next' = next + 1
    /\ UNCHANGED <<phase, sources, values, urlList, prio, exitCode, added, offered,
                   collected, sawError>>

(***************************************************************************)
(* fs.open()/readLine() or fs.read() throws: the catch calls urlError()    *)
(* and the file is abandoned.  fs.read() reads a site map whole before any *)
(* record is looked at.                                                    *)
(***************************************************************************)
ReadFailed ==
    /\ reading = "custom" \/ (reading = "sitemap" /\ records = 0)
    /\ UrlError
    /\ reading' = "none"
    /\ UNCHANGED <<phase, sources, values, next, records, urlList, prio, added,
                   offered, collected>>

\* One line of a custom URL file, or one <url> element of a site map.
ReadRecord(r) ==
    /\ reading # "none" /\ records < MaxRecords
    /\ CASE r.kind = "ok" ->
              /\ AddURL(r.url, r.prio)
              /\ offered' = Append(offered, [url |-> r.url, prio |-> r.prio])
              /\ UNCHANGED <<exitCode, sawError>>
         [] r.kind = "stale" ->
              UNCHANGED <<urlList, prio, added, offered, exitCode, sawError>>
         [] r.kind = "bad" ->
              /\ UrlError
              /\ UNCHANGED <<urlList, prio, added, offered>>
    /\ records' = records + 1
    /\ UNCHANGED <<phase, sources, values, next, reading, collected>>

\* The end of the file: file.atEnd(), or no further <url> match.
CloseFile ==
    /\ reading # "none"
    /\ reading' = "none"
    /\ UNCHANGED <<phase, sources, values, next, records, urlList, prio, exitCode,
                   added, offered, collected, sawError>>

(***************************************************************************)
(* load(), steps 2 to 5: exit with EC_NOTHING_TO_DO on an empty list (and  *)
(* go on), sort unless SO_AS_IS, slice when -b or -n cuts the list         *)
(* (exiting with EC_NOTHING_TO_DO, and going on, when -b is past its end), *)
(* and clear urlPriorities.                                                *)
(***************************************************************************)
Finish ==
    /\ phase = "collect" /\ reading = "none" /\ next > Len(sources)
    /\ LET sorted == IF SortOrder = SO_AS_IS THEN urlList
                     ELSE SortByPriority(urlList, prio,
                                         SortOrder = SO_LOW_PRIORITY_FIRST)
           num == SliceCount(urlList)
           cut == FirstURL > 0 \/ num < Len(urlList)
           beyond == cut /\ FirstURL >= Len(urlList)
       IN /\ urlList' = IF cut THEN Slice(sorted, FirstURL, FirstURL + num)
                        ELSE sorted
          /\ exitCode' = IF Len(urlList) = 0 \/ beyond THEN EC_NOTHING_TO_DO
                         ELSE exitCode
    /\ prio' = [u \in {} |-> 0]
    /\ collected' = [list |-> urlList, prio |-> prio]
    /\ phase' = "done"
    /\ UNCHANGED <<sources, values, next, reading, records, added, offered, sawError>>

\* load() has returned; the corpus no longer changes.
Loaded ==
    /\ phase = "done"
    /\ UNCHANGED vars

Next ==
    \/ AddListedURL
    \/ OpenFile
    \/ ReadFailed
    \/ \E r \in Records(reading) : ReadRecord(r)
    \/ CloseFile
    \/ Finish
    \/ Loaded

Spec == Init /\ [][Next]_vars


-----------------------------------------------------------------------------
(* Properties *)

TypeOK ==
    /\ phase \in {"collect", "done"}
    /\ sources \in SourceLists
    /\ values \in Settings
    /\ next \in 1 .. MaxSources + 1
    /\ reading \in {"none", "custom", "sitemap"}
    /\ records \in 0 .. MaxRecords
    /\ urlList \in Seq(URLs)
    /\ DOMAIN prio \subseteq URLs /\ \A u \in DOMAIN prio : prio[u] \in Priorities
    /\ exitCode \in {NoExit, EC_NOTHING_TO_DO, EC_ARGUMENT_ERROR}
    /\ sawError \in BOOLEAN

Elems(s) == {s[i] : i \in DOMAIN s}

IndexIn(s, x) == CHOOSE i \in DOMAIN s : s[i] = x

\* urlList and urlPriorities as the collection left them.
Collected == IF phase = "collect" THEN [list |-> urlList, prio |-> prio]
             ELSE collected

(***************************************************************************)
(* Reference for the collection: of a history h of (url, priority) pairs,  *)
(* the accepted ones are those in the priority range; the corpus has each *)
(* accepted URL once, in the order of their first acceptance, with the     *)
(* priority of their last acceptance.                                      *)
(***************************************************************************)
Accepted(h) == {k \in DOMAIN h : InRange(h[k].prio)}

AcceptedURLs(h) == {h[k].url : k \in Accepted(h)}

FirstAccepted(h, u) ==
    CHOOSE k \in Accepted(h) :
        h[k].url = u /\ \A j \in Accepted(h) : h[j].url = u => k <= j

LastAccepted(h, u) ==
    CHOOSE k \in Accepted(h) :
        h[k].url = u /\ \A j \in Accepted(h) : h[j].url = u => j <= k

IsCorpusOf(list, key, h) ==
    /\ Elems(list) = AcceptedURLs(h)
    /\ Len(list) = Cardinality(AcceptedURLs(h))
    /\ \A i, j \in 1 .. Len(list) :
          i < j => FirstAccepted(h, list[i]) < FirstAccepted(h, list[j])
    /\ DOMAIN key = AcceptedURLs(h)
    /\ \A u \in AcceptedURLs(h) : key[u] = h[LastAccepted(h, u)].prio

(***************************************************************************)
(* addURL() keeps one entry per URL, at the position of the first call     *)
(* that accepted it, with the priority of the last call that accepted it,  *)
(* however explicit URLs and file records of several sources interleave.   *)
(***************************************************************************)
DedupLastWins == IsCorpusOf(Collected.list, Collected.prio, added)

(***************************************************************************)
(* Reference for steps 3 and 4 of load(): v comes before u in the sorted   *)
(* list when its priority is lower (ascending) or higher (descending), or  *)
(* when the sort keeps their order (as-is, or equal priorities: stable).   *)
(***************************************************************************)
OrderedBefore(v, u, c, key) ==
    \/ SortOrder = SO_LOW_PRIORITY_FIRST /\ key[v] < key[u]
    \/ SortOrder = SO_HIGH_PRIORITY_FIRST /\ key[v] > key[u]
    \/ /\ SortOrder = SO_AS_IS \/ key[v] = key[u]
       /\ IndexIn(c, v) < IndexIn(c, u)

RankIn(u, c, key) == Cardinality({v \in Elems(c) : OrderedBefore(v, u, c, key)})

(***************************************************************************)
(* The corpus load() returns: when -b leaves something, the entries of     *)
(* ranks -b .. -b+n-1 of the stably sorted collection (all of it for n=0), *)
(* with the exit code the sources left; otherwise nothing, with exit code  *)
(* 1 (nothing to do), whatever error came before.                          *)
(***************************************************************************)
FinalCorpus ==
    phase = "done" =>
        LET c == collected.list
            num == IF NumURLs = 0 THEN Len(c) ELSE NumURLs
        IN IF FirstURL < Len(c)
           THEN /\ Len(urlList) = IF num < Len(c) - FirstURL
                                  THEN num ELSE Len(c) - FirstURL
                /\ \A i \in 1 .. Len(urlList) :
                      /\ urlList[i] \in Elems(c)
                      /\ RankIn(urlList[i], c, collected.prio) = FirstURL + i - 1
                /\ exitCode = IF sawError THEN EC_ARGUMENT_ERROR ELSE NoExit
           ELSE urlList = <<>> /\ exitCode = EC_NOTHING_TO_DO

(***************************************************************************)
(* Spec 4.1: of a URL given several times, the corpus load() collected    *)
(* keeps the first accepted occurrence's position and the last accepted    *)
(* priority, taking the priority each -u option wrote.  (parseURLOption    *)
(* keeps only the last -u priority of a URL, and load() uses it for every  *)
(* occurrence.)                                                            *)
(***************************************************************************)
ExplicitPriorityHonoured ==
    phase = "done" => IsCorpusOf(collected.list, collected.prio, offered)

(***************************************************************************)
(* Spec 7: a source that cannot be read, or a malformed record in one, is *)
(* a configuration error, fatal with exit code 2.  (Both call urlError(),  *)
(* which calls phantom.exit(2), but load() goes on.)                       *)
(***************************************************************************)
ConfigErrorExitCode == (phase = "done" /\ sawError) => exitCode = EC_ARGUMENT_ERROR


=============================================================================
