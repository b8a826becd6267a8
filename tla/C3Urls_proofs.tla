---------------------------- MODULE C3Urls_proofs ----------------------------
(***************************************************************************)
(* Proofs about the URL corpus builder (C3Urls.tla): addURL() keeps one    *)
(* entry per accepted URL, in first-accepted order, with the priority of   *)
(* its last acceptance (DedupLastWins), for every set of URLs and          *)
(* priorities, every priority range and every length of the sources.      *)
(***************************************************************************)
EXTENDS C3Urls, SequenceTheorems, FiniteSetTheorems, TLAPS

\* The (url, priority) pairs addURL() can be called with: a URL of a file
\* record or of a -u option, with a record's priority or options.urls[url].
ListedURLs == {sources[k].url : k \in {k \in DOMAIN sources : sources[k].type = "url"}}

AddRec == [url : URLs, prio : Priorities \cup {OptionPriority(v) : v \in ListedURLs}]

\* Every accepted URL has a first and a last accepted call.
FirstExists(h) ==
    \A u \in AcceptedURLs(h) :
        \E k \in Accepted(h) :
            h[k].url = u /\ \A j \in Accepted(h) : h[j].url = u => k <= j

LastExists(h) ==
    \A u \in AcceptedURLs(h) :
        \E k \in Accepted(h) :
            h[k].url = u /\ \A j \in Accepted(h) : h[j].url = u => j <= k

\* IsCorpusOf, with the facts about the history that its CHOOSEs rest on.
Corpus(list, key, h) ==
    /\ IsCorpusOf(list, key, h)
    /\ FirstExists(h)
    /\ LastExists(h)
    /\ IsFiniteSet(AcceptedURLs(h))

(***************************************************************************)
(* The inductive invariant: the types the steps rely on, that files are    *)
(* read only while collecting, and the corpus of the calls so far, in      *)
(* urlList while collecting and in `collected` after.                      *)
(***************************************************************************)
UInv ==
    /\ phase \in {"collect", "done"}
    /\ reading # "none" => phase = "collect"
    /\ sources \in SourceLists
    /\ next \in Nat \ {0}
    /\ phase = "collect" => urlList \in Seq(URLs)
    /\ added \in Seq(AddRec)
    /\ Corpus(Collected.list, Collected.prio, added)
-----------------------------------------------------------------------------
(* Lemmas about a history h of addURL() calls and its extension by a call e. *)

\* Appending a call keeps the earlier calls, and accepts the new one exactly
\* when its priority is in the range.
LEMMA AcceptedAppend ==
    ASSUME NEW R, NEW h \in Seq(R), NEW e \in R
    PROVE  LET g == Append(h, e) IN
           /\ Accepted(h) \subseteq 1 .. Len(h)
           /\ Len(g) = Len(h) + 1
           /\ \A k \in 1 .. Len(h) : g[k] = h[k]
           /\ g[Len(h) + 1] = e
           /\ Accepted(g) = IF InRange(e.prio) THEN Accepted(h) \cup {Len(h) + 1}
                            ELSE Accepted(h)
           /\ AcceptedURLs(g) = IF InRange(e.prio) THEN AcceptedURLs(h) \cup {e.url}
                                ELSE AcceptedURLs(h)
<1> DEFINE g == Append(h, e)
<1>1. /\ Len(g) = Len(h) + 1
      /\ \A k \in 1 .. Len(h) : g[k] = h[k]
      /\ g[Len(h) + 1] = e
      /\ DOMAIN g = 1 .. Len(h) + 1
      /\ DOMAIN h = 1 .. Len(h)
  BY AppendProperties
<1>2. Accepted(h) \subseteq 1 .. Len(h)
  BY <1>1 DEF Accepted
<1>3. Accepted(g) = IF InRange(e.prio) THEN Accepted(h) \cup {Len(h) + 1}
                   ELSE Accepted(h)
  BY <1>1 DEF Accepted
<1>4. AcceptedURLs(g) = IF InRange(e.prio) THEN AcceptedURLs(h) \cup {e.url}
                       ELSE AcceptedURLs(h)
  BY <1>1, <1>2, <1>3 DEF AcceptedURLs
<1> QED  BY <1>1, <1>2, <1>3, <1>4

\* A call that accepted u before every other accepted call of u is the one
\* FirstAccepted chooses.
LEMMA FirstAcceptedIs ==
    ASSUME NEW R, NEW h \in Seq(R), NEW u, NEW k \in Accepted(h),
           h[k].url = u, \A j \in Accepted(h) : h[j].url = u => k <= j
    PROVE  FirstAccepted(h, u) = k
<1>1. Accepted(h) \subseteq Nat
  BY DEF Accepted
<1>2. /\ FirstAccepted(h, u) \in Accepted(h)
      /\ h[FirstAccepted(h, u)].url = u
      /\ \A j \in Accepted(h) : h[j].url = u => FirstAccepted(h, u) <= j
  BY DEF FirstAccepted
<1> QED  BY <1>1, <1>2

\* Likewise for the last accepted call and LastAccepted.
LEMMA LastAcceptedIs ==
    ASSUME NEW R, NEW h \in Seq(R), NEW u, NEW k \in Accepted(h),
           h[k].url = u, \A j \in Accepted(h) : h[j].url = u => j <= k
    PROVE  LastAccepted(h, u) = k
<1>1. Accepted(h) \subseteq Nat
  BY DEF Accepted
<1>2. /\ LastAccepted(h, u) \in Accepted(h)
      /\ h[LastAccepted(h, u)].url = u
      /\ \A j \in Accepted(h) : h[j].url = u => j <= LastAccepted(h, u)
  BY DEF LastAccepted
<1> QED  BY <1>1, <1>2

\* A call appended to the history moves no URL's first acceptance, and is
\* the first acceptance of a URL accepted for the first time.
LEMMA FirstAppend ==
    ASSUME NEW R, NEW h \in Seq(R), NEW e \in R, FirstExists(h)
    PROVE  LET g == Append(h, e) IN
           /\ FirstExists(g)
           /\ \A v \in AcceptedURLs(h) :
                 /\ FirstAccepted(g, v) = FirstAccepted(h, v)
                 /\ FirstAccepted(h, v) \in 1 .. Len(h)
           /\ InRange(e.prio) /\ e.url \notin AcceptedURLs(h) =>
                 FirstAccepted(g, e.url) = Len(h) + 1
<1> DEFINE g == Append(h, e)
           n == Len(h) + 1
<1>1. /\ Accepted(h) \subseteq 1 .. Len(h)
      /\ \A k \in 1 .. Len(h) : g[k] = h[k]
      /\ g[n] = e
      /\ Accepted(g) = IF InRange(e.prio) THEN Accepted(h) \cup {n} ELSE Accepted(h)
      /\ AcceptedURLs(g) = IF InRange(e.prio) THEN AcceptedURLs(h) \cup {e.url}
                           ELSE AcceptedURLs(h)
  BY AcceptedAppend
<1>0. g \in Seq(R)
  BY AppendProperties
<1>2. ASSUME NEW v \in AcceptedURLs(h)
      PROVE  \E k \in Accepted(g) :
                /\ g[k].url = v
                /\ \A j \in Accepted(g) : g[j].url = v => k <= j
                /\ k \in 1 .. Len(h)
                /\ FirstAccepted(h, v) = k
                /\ FirstAccepted(g, v) = k
  <2>1. PICK k \in Accepted(h) :
           h[k].url = v /\ \A j \in Accepted(h) : h[j].url = v => k <= j
    BY <1>2 DEF FirstExists
  <2>2. FirstAccepted(h, v) = k
    BY <2>1, FirstAcceptedIs
  <2>3. k \in Accepted(g) /\ g[k].url = v /\ k \in 1 .. Len(h)
    BY <2>1, <1>1
  <2>4. \A j \in Accepted(g) : g[j].url = v => k <= j
    BY <2>1, <2>3, <1>1
  <2>5. FirstAccepted(g, v) = k
    BY <2>3, <2>4, <1>0, FirstAcceptedIs
  <2> QED  BY <2>2, <2>3, <2>4, <2>5
<1>3. ASSUME InRange(e.prio), e.url \notin AcceptedURLs(h)
      PROVE  /\ n \in Accepted(g)
             /\ g[n].url = e.url
             /\ \A j \in Accepted(g) : g[j].url = e.url => n <= j
             /\ FirstAccepted(g, e.url) = n
  <2>1. n \in Accepted(g) /\ g[n].url = e.url
    BY <1>1, <1>3
  <2>2. \A j \in Accepted(g) : g[j].url = e.url => n <= j
    <3> SUFFICES ASSUME NEW j \in Accepted(h), g[j].url = e.url PROVE FALSE
      BY <1>1, <1>3
    <3>1. h[j].url = e.url
      BY <1>1
    <3> QED  BY <3>1, <1>3 DEF AcceptedURLs
  <2> QED  BY <2>1, <2>2, <1>0, FirstAcceptedIs
<1>4. FirstExists(g)
  <2> SUFFICES ASSUME NEW u \in AcceptedURLs(g)
               PROVE  \E k \in Accepted(g) :
                         g[k].url = u /\ \A j \in Accepted(g) : g[j].url = u => k <= j
    BY DEF FirstExists
  <2>1. CASE u \in AcceptedURLs(h)
    BY <2>1, <1>2
  <2>2. CASE u \notin AcceptedURLs(h)
    <3>1. InRange(e.prio) /\ u = e.url
      BY <2>2, <1>1
    <3> QED  BY <3>1, <2>2, <1>3
  <2> QED  BY <2>1, <2>2
<1>5. \A v \in AcceptedURLs(h) :
         /\ FirstAccepted(g, v) = FirstAccepted(h, v)
         /\ FirstAccepted(h, v) \in 1 .. Len(h)
  BY <1>2
<1> QED  BY <1>3, <1>4, <1>5

\* A call appended to the history is the last acceptance of its URL when
\* accepted, and leaves every other URL's last acceptance where it was.
LEMMA LastAppend ==
    ASSUME NEW R, NEW h \in Seq(R), NEW e \in R, LastExists(h)
    PROVE  LET g == Append(h, e) IN
           /\ LastExists(g)
           /\ \A v \in AcceptedURLs(h) :
                 ~InRange(e.prio) \/ v # e.url =>
                    LastAccepted(g, v) = LastAccepted(h, v)
           /\ InRange(e.prio) => LastAccepted(g, e.url) = Len(h) + 1
           /\ \A v \in AcceptedURLs(h) : LastAccepted(h, v) \in 1 .. Len(h)
<1> DEFINE g == Append(h, e)
           n == Len(h) + 1
<1>1. /\ Accepted(h) \subseteq 1 .. Len(h)
      /\ \A k \in 1 .. Len(h) : g[k] = h[k]
      /\ g[n] = e
      /\ Accepted(g) = IF InRange(e.prio) THEN Accepted(h) \cup {n} ELSE Accepted(h)
      /\ AcceptedURLs(g) = IF InRange(e.prio) THEN AcceptedURLs(h) \cup {e.url}
                           ELSE AcceptedURLs(h)
  BY AcceptedAppend
<1>0. g \in Seq(R)
  BY AppendProperties
<1>2. ASSUME NEW v \in AcceptedURLs(h), ~InRange(e.prio) \/ v # e.url
      PROVE  \E k \in Accepted(g) :
                /\ g[k].url = v
                /\ \A j \in Accepted(g) : g[j].url = v => j <= k
                /\ k \in 1 .. Len(h)
                /\ LastAccepted(h, v) = k
                /\ LastAccepted(g, v) = k
  <2>1. PICK k \in Accepted(h) :
           h[k].url = v /\ \A j \in Accepted(h) : h[j].url = v => j <= k
    BY <1>2 DEF LastExists
  <2>2. LastAccepted(h, v) = k
    BY <2>1, LastAcceptedIs
  <2>3. k \in Accepted(g) /\ g[k].url = v /\ k \in 1 .. Len(h)
    BY <2>1, <1>1
  <2>4. \A j \in Accepted(g) : g[j].url = v => j <= k
    <3> SUFFICES ASSUME NEW j \in Accepted(g), g[j].url = v PROVE j <= k
      OBVIOUS
    <3>1. CASE j \in Accepted(h)
      BY <3>1, <2>1, <1>1
    <3>2. CASE j \notin Accepted(h)
      BY <3>2, <1>1, <1>2
    <3> QED  BY <3>1, <3>2
  <2>5. LastAccepted(g, v) = k
    BY <2>3, <2>4, <1>0, LastAcceptedIs
  <2> QED  BY <2>2, <2>3, <2>4, <2>5
<1>3. ASSUME InRange(e.prio)
      PROVE  /\ n \in Accepted(g)
             /\ g[n].url = e.url
             /\ \A j \in Accepted(g) : g[j].url = e.url => j <= n
             /\ LastAccepted(g, e.url) = n
  <2>1. n \in Accepted(g) /\ g[n].url = e.url /\ \A j \in Accepted(g) : j <= n
    BY <1>1, <1>3
  <2> QED  BY <2>1, <1>0, LastAcceptedIs
<1>4. LastExists(g)
  <2> SUFFICES ASSUME NEW u \in AcceptedURLs(g)
               PROVE  \E k \in Accepted(g) :
                         g[k].url = u /\ \A j \in Accepted(g) : g[j].url = u => j <= k
    BY DEF LastExists
  <2>1. CASE InRange(e.prio) /\ u = e.url
    BY <2>1, <1>3
  <2>2. CASE ~(InRange(e.prio) /\ u = e.url)
    <3>1. u \in AcceptedURLs(h)
      BY <2>2, <1>1
    <3> QED  BY <3>1, <2>2, <1>2
  <2> QED  BY <2>1, <2>2
<1>5. \A v \in AcceptedURLs(h) :
         ~InRange(e.prio) \/ v # e.url => LastAccepted(g, v) = LastAccepted(h, v)
  BY <1>2
<1>6. \A v \in AcceptedURLs(h) : LastAccepted(h, v) \in 1 .. Len(h)
  <2> SUFFICES ASSUME NEW v \in AcceptedURLs(h) PROVE LastAccepted(h, v) \in 1 .. Len(h)
    OBVIOUS
  <2>1. PICK k \in Accepted(h) :
           h[k].url = v /\ \A j \in Accepted(h) : h[j].url = v => j <= k
    BY DEF LastExists
  <2> QED  BY <2>1, <1>1, LastAcceptedIs
<1> QED  BY <1>3, <1>4, <1>5, <1>6

-----------------------------------------------------------------------------
(* addURL(url, priority) on urlList and urlPriorities, as functions.       *)

AddedList(list, key, u, p) ==
    IF InRange(p) /\ u \notin DOMAIN key THEN Append(list, u) ELSE list

AddedKey(key, u, p) ==
    IF InRange(p) THEN [x \in DOMAIN key \cup {u} |-> IF x = u THEN p ELSE key[x]]
    ELSE key

\* Elems of an appended sequence.
LEMMA ElemsAppend ==
    ASSUME NEW S, NEW s \in Seq(S), NEW x \in S
    PROVE  Elems(Append(s, x)) = Elems(s) \cup {x}
BY AppendProperties DEF Elems

(***************************************************************************)
(* One call of addURL() keeps urlList and urlPriorities the corpus of the  *)
(* calls made so far.                                                      *)
(***************************************************************************)
LEMMA AddURLCorpus ==
    ASSUME NEW R, NEW h \in Seq(R), NEW U, NEW list \in Seq(U), NEW key,
           NEW u \in U, NEW p, [url |-> u, prio |-> p] \in R,
           Corpus(list, key, h)
    PROVE  Corpus(AddedList(list, key, u, p), AddedKey(key, u, p),
                  Append(h, [url |-> u, prio |-> p]))
<1> DEFINE e == [url |-> u, prio |-> p]
           g == Append(h, e)
           n == Len(h) + 1
           list2 == AddedList(list, key, u, p)
           key2 == AddedKey(key, u, p)
           A == AcceptedURLs(h)
<1>0. e \in R /\ e.url = u /\ e.prio = p
  OBVIOUS
<1>1. /\ \A k \in 1 .. Len(h) : g[k] = h[k]
      /\ g[n] = e
      /\ AcceptedURLs(g) = IF InRange(p) THEN A \cup {u} ELSE A
  <2>1. AcceptedURLs(g) = IF InRange(e.prio) THEN A \cup {e.url} ELSE A
    BY <1>0, AcceptedAppend
  <2> QED  BY <2>1, <1>0, AcceptedAppend
<1>2. /\ Elems(list) = A
      /\ Len(list) = Cardinality(A)
      /\ \A i, j \in 1 .. Len(list) :
            i < j => FirstAccepted(h, list[i]) < FirstAccepted(h, list[j])
      /\ DOMAIN key = A
      /\ \A v \in A : key[v] = h[LastAccepted(h, v)].prio
      /\ FirstExists(h) /\ LastExists(h) /\ IsFiniteSet(A)
  BY DEF Corpus, IsCorpusOf
<1>3. /\ FirstExists(g)
      /\ \A v \in A : /\ FirstAccepted(g, v) = FirstAccepted(h, v)
                      /\ FirstAccepted(h, v) \in 1 .. Len(h)
      /\ InRange(p) /\ u \notin A => FirstAccepted(g, u) = n
  <2>1. InRange(e.prio) /\ e.url \notin A => FirstAccepted(g, e.url) = n
    BY <1>0, <1>2, FirstAppend
  <2> QED  BY <2>1, <1>0, <1>2, FirstAppend
<1>4. /\ LastExists(g)
      /\ \A v \in A : ~InRange(p) \/ v # u => LastAccepted(g, v) = LastAccepted(h, v)
      /\ InRange(p) => LastAccepted(g, u) = n
      /\ \A v \in A : LastAccepted(h, v) \in 1 .. Len(h)
  <2>1. /\ \A v \in A : ~InRange(e.prio) \/ v # e.url =>
                          LastAccepted(g, v) = LastAccepted(h, v)
        /\ InRange(e.prio) => LastAccepted(g, e.url) = n
    BY <1>0, <1>2, LastAppend
  <2> QED  BY <2>1, <1>0, <1>2, LastAppend
<1>5. IsFiniteSet(AcceptedURLs(g)) /\ Cardinality(A \cup {u}) = IF u \in A THEN Cardinality(A) ELSE Cardinality(A) + 1
  BY <1>1, <1>2, FS_AddElement
\* The keys of the URLs accepted before keep their last acceptance.
<1>6. ASSUME NEW v \in A, ~InRange(p) \/ v # u
      PROVE  key[v] = g[LastAccepted(g, v)].prio
  BY <1>6, <1>1, <1>2, <1>4
\* The order of the URLs already listed is kept.
<1>7. \A i, j \in 1 .. Len(list) :
         i < j => FirstAccepted(g, list[i]) < FirstAccepted(g, list[j])
  <2> SUFFICES ASSUME NEW i \in 1 .. Len(list), NEW j \in 1 .. Len(list), i < j
               PROVE  FirstAccepted(g, list[i]) < FirstAccepted(g, list[j])
    OBVIOUS
  <2>1. list[i] \in A /\ list[j] \in A
    BY <1>2 DEF Elems
  <2> QED  BY <2>1, <1>2, <1>3
<1>8. ASSUME InRange(p)
      PROVE  /\ DOMAIN key2 = A \cup {u}
             /\ \A v \in A \cup {u} : key2[v] = g[LastAccepted(g, v)].prio
  <2>1. key2 = [x \in A \cup {u} |-> IF x = u THEN p ELSE key[x]]
    BY <1>8, <1>2 DEF AddedKey
  <2>2. key2[u] = g[LastAccepted(g, u)].prio
    BY <2>1, <1>8, <1>4, <1>1
  <2>3. ASSUME NEW v \in A, v # u PROVE key2[v] = g[LastAccepted(g, v)].prio
    BY <2>3, <2>1, <1>6
  <2> QED  BY <2>1, <2>2, <2>3
<1>9. CASE ~InRange(p)
  <2>1. list2 = list /\ key2 = key /\ AcceptedURLs(g) = A
    BY <1>9, <1>1 DEF AddedList, AddedKey
  <2>2. \A v \in A : key[v] = g[LastAccepted(g, v)].prio
    BY <1>9, <1>6
  <2> QED  BY <2>1, <2>2, <1>2, <1>3, <1>4, <1>5, <1>7 DEF Corpus, IsCorpusOf
<1>10. CASE InRange(p) /\ u \in A
  <2>1. list2 = list /\ AcceptedURLs(g) = A /\ A \cup {u} = A
    BY <1>10, <1>1, <1>2 DEF AddedList
  <2> QED  BY <2>1, <1>2, <1>3, <1>4, <1>5, <1>7, <1>8, <1>10 DEF Corpus, IsCorpusOf
<1>11. CASE InRange(p) /\ u \notin A
  <2>1. list2 = Append(list, u) /\ AcceptedURLs(g) = A \cup {u}
    BY <1>11, <1>1, <1>2 DEF AddedList
  <2>2. Elems(list2) = A \cup {u}
    BY <2>1, <1>2, ElemsAppend
  <2>3. Len(list2) = Cardinality(A \cup {u})
    BY <2>1, <1>2, <1>5, <1>11, FS_CardinalityType
  <2>4. \A i, j \in 1 .. Len(list2) :
           i < j => FirstAccepted(g, list2[i]) < FirstAccepted(g, list2[j])
    <3> SUFFICES ASSUME NEW i \in 1 .. Len(list2), NEW j \in 1 .. Len(list2), i < j
                 PROVE  FirstAccepted(g, list2[i]) < FirstAccepted(g, list2[j])
      OBVIOUS
    <3>1. Len(list2) = Len(list) + 1 /\ list2[Len(list) + 1] = u
          /\ \A k \in 1 .. Len(list) : list2[k] = list[k]
      BY <2>1, AppendProperties
    <3>2. CASE j <= Len(list)
      BY <3>1, <3>2, <1>7
    <3>3. CASE j = Len(list) + 1
      <4>1. list[i] \in A
        BY <3>1, <3>3, <1>2 DEF Elems
      <4>2. FirstAccepted(g, list[i]) \in 1 .. Len(h)
        BY <4>1, <1>3
      <4> QED  BY <4>2, <3>1, <3>3, <1>3, <1>11
    <3> QED  BY <3>1, <3>2, <3>3
  <2> QED  BY <2>1, <2>2, <2>3, <2>4, <1>3, <1>4, <1>5, <1>8, <1>11 DEF Corpus, IsCorpusOf
<1> QED  BY <1>9, <1>10, <1>11
-----------------------------------------------------------------------------
(* The steps of load().                                                    *)

\* addURL(), as the model writes it, is AddedList and AddedKey.
LEMMA AddURLEffect ==
    ASSUME NEW u, NEW p, AddURL(u, p)
    PROVE  /\ urlList' = AddedList(urlList, prio, u, p)
           /\ prio' = AddedKey(prio, u, p)
           /\ added' = Append(added, [url |-> u, prio |-> p])
BY DEF AddURL, AddedList, AddedKey

\* options.sources is a sequence of sources.
LEMMA SourcesSeq ==
    ASSUME sources \in SourceLists
    PROVE  sources \in Seq(Source)
BY UrlsAssumption DEF SourceLists

\* load() starts with no URL, no priority and no call of addURL().
LEMMA InitUInv == Init => UInv
<1> SUFFICES ASSUME Init PROVE UInv
  OBVIOUS
<1>1. Accepted(<<>>) = {} /\ AcceptedURLs(<<>>) = {}
  BY DEF Accepted, AcceptedURLs
<1>2. Corpus(<<>>, [u \in {} |-> 0], <<>>)
  BY <1>1, FS_EmptySet DEF Corpus, IsCorpusOf, FirstExists, LastExists, Elems
<1>3. Collected = [list |-> <<>>, prio |-> [u \in {} |-> 0]]
  BY DEF Init, Collected
<1>4. <<>> \in Seq(AddRec) /\ <<>> \in Seq(URLs)
  OBVIOUS
<1>5. phase = "collect" /\ sources \in SourceLists /\ next = 1 /\ added = <<>>
      /\ urlList = <<>>
  BY DEF Init
<1> QED  BY <1>2, <1>3, <1>4, <1>5 DEF UInv

\* A call of addURL() while collecting keeps the invariant.
LEMMA AddStep ==
    ASSUME UInv, phase = "collect", NEW u \in URLs, NEW p,
           [url |-> u, prio |-> p] \in AddRec, AddURL(u, p),
           phase' = "collect", sources' = sources, next' \in Nat \ {0}
    PROVE  UInv'
<1>1. /\ urlList' = AddedList(urlList, prio, u, p)
      /\ prio' = AddedKey(prio, u, p)
      /\ added' = Append(added, [url |-> u, prio |-> p])
  BY AddURLEffect
<1>2. urlList \in Seq(URLs) /\ added \in Seq(AddRec) /\ Corpus(urlList, prio, added)
  BY DEF UInv, Collected
<1>3. Corpus(urlList', prio', added')
  BY <1>1, <1>2, AddURLCorpus
<1>4. urlList' \in Seq(URLs)
  BY <1>1, <1>2, AppendProperties DEF AddedList
<1>5. AddRec' = AddRec
  BY DEF AddRec, ListedURLs, OptionPriority
<1>6. added' \in Seq(AddRec')
  BY <1>1, <1>2, <1>5, AppendProperties
<1>7. Collected' = [list |-> urlList', prio |-> prio']
  BY DEF Collected
<1>8. sources' \in SourceLists
  BY DEF UInv
<1> QED  BY <1>3, <1>4, <1>6, <1>7, <1>8 DEF UInv
(***************************************************************************)
(* Every step of load() keeps the invariant: the two that call addURL()    *)
(* through AddStep, the others because they leave the history and the      *)
(* collection alone, or (Finish) move urlList into `collected`.            *)
(***************************************************************************)
THEOREM UInvInductive == UInv /\ [Next]_vars => UInv'
<1> SUFFICES ASSUME UInv, [Next]_vars PROVE UInv'
  OBVIOUS
<1>0. /\ sources \in Seq(Source)
      /\ next \in Nat \ {0}
      /\ reading # "none" => phase = "collect"
  BY SourcesSeq DEF UInv
<1>1. CASE AddListedURL
  <2> DEFINE u == sources[next].url
             p == OptionPriority(u)
  <2>1. /\ phase = "collect" /\ phase' = "collect" /\ sources' = sources
        /\ next \in 1 .. Len(sources) /\ next' = next + 1
        /\ sources[next].type = "url"
        /\ AddURL(u, p)
    BY <1>0, <1>1 DEF AddListedURL
  <2>2. u \in URLs /\ u \in ListedURLs
    <3>1. sources[next] \in Source
      BY <1>0, <2>1
    <3> QED  BY <3>1, <2>1 DEF Source, ListedURLs
  <2>3. [url |-> u, prio |-> p] \in AddRec
    BY <2>2 DEF AddRec
  <2> QED  BY <2>1, <2>2, <2>3, <1>0, AddStep
<1>2. CASE \E r \in Records(reading) : ReadRecord(r)
  <2>1. PICK r \in Records(reading) : ReadRecord(r)
    BY <1>2
  <2>2. /\ r.url \in URLs /\ r.prio \in Priorities /\ r.kind \in {"ok", "stale", "bad"}
        /\ phase = "collect" /\ phase' = phase /\ reading' = reading
        /\ sources' = sources /\ next' = next /\ collected' = collected
    BY <2>1, <1>0 DEF Records, ReadRecord
  <2>3. CASE r.kind = "ok"
    <3>1. AddURL(r.url, r.prio)
      BY <2>1, <2>3 DEF ReadRecord
    <3>2. [url |-> r.url, prio |-> r.prio] \in AddRec
      BY <2>2 DEF AddRec
    <3> QED  BY <3>1, <3>2, <2>2, <1>0, AddStep
  <2>4. CASE r.kind # "ok"
    <3>1. UNCHANGED <<urlList, prio, added>>
      BY <2>1, <2>2, <2>4 DEF ReadRecord
    <3>2. AddRec' = AddRec /\ Collected' = Collected
      BY <2>2, <3>1 DEF AddRec, ListedURLs, OptionPriority, Collected
    <3> QED  BY <3>1, <3>2, <2>2 DEF UInv
  <2> QED  BY <2>3, <2>4
<1>3. CASE OpenFile
  <2>1. /\ phase = "collect" /\ UNCHANGED <<phase, sources, urlList, prio, added, collected>>
        /\ next' = next + 1
    BY <1>3 DEF OpenFile
  <2>2. AddRec' = AddRec /\ Collected' = Collected
    BY <2>1 DEF AddRec, ListedURLs, OptionPriority, Collected
  <2> QED  BY <2>1, <2>2, <1>0 DEF UInv
<1>4. CASE ReadFailed \/ CloseFile
  <2>1. /\ reading' = "none"
        /\ UNCHANGED <<phase, sources, next, urlList, prio, added, collected>>
    BY <1>4 DEF ReadFailed, CloseFile, UrlError
  <2>2. AddRec' = AddRec /\ Collected' = Collected
    BY <2>1 DEF AddRec, ListedURLs, OptionPriority, Collected
  <2> QED  BY <2>1, <2>2 DEF UInv
<1>5. CASE Finish
  <2>1. /\ phase = "collect" /\ phase' = "done" /\ reading = "none"
        /\ UNCHANGED <<sources, next, reading, added>>
        /\ collected' = [list |-> urlList, prio |-> prio]
    BY <1>5 DEF Finish
  <2>2. AddRec' = AddRec /\ Collected' = Collected
    BY <2>1 DEF AddRec, ListedURLs, OptionPriority, Collected
  <2> QED  BY <2>1, <2>2 DEF UInv
<1>6. CASE Loaded \/ UNCHANGED vars
  <2>1. UNCHANGED vars
    BY <1>6 DEF Loaded
  <2>2. AddRec' = AddRec /\ Collected' = Collected
    BY <2>1 DEF vars, AddRec, ListedURLs, OptionPriority, Collected
  <2> QED  BY <2>1, <2>2 DEF vars, UInv
<1> QED  BY <1>1, <1>2, <1>3, <1>4, <1>5, <1>6 DEF Next

(***************************************************************************)
(* addURL() keeps one entry per URL, at the position of the first call     *)
(* that accepted it, with the priority of the last call that accepted it,  *)
(* however explicit URLs and file records of several sources interleave,  *)
(* for every value of the constants.                                       *)
(***************************************************************************)
THEOREM DedupLastWinsHolds == Spec => []DedupLastWins
<1>1. UInv => DedupLastWins
  BY DEF UInv, Corpus, DedupLastWins
<1> QED  BY InitUInv, UInvInductive, <1>1, PTL DEF Spec
=============================================================================
