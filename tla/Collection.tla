----------------------------- MODULE Collection -----------------------------
(***************************************************************************)
(* What a run of an agent collects: the sources, SemanticDeduplicator,     *)
(* relevance or ranking, summaries, the stored results and their digest,   *)
(* in ResearchPipeline.run and JobDiscoveryWorkflow.run of apps/agents.    *)
(* AgentRuns has the run around it: its rows, its delivery and its crashes.*)
(*                                                                         *)
(* An item is its URL and its title.  What a source, a model or the        *)
(* database answers is chosen freely, as is whether it fails; a source     *)
(* that fails keeps the items it has made so far.                          *)
(***************************************************************************)
EXTENDS Integers, Sequences, FiniteSets

CONSTANTS
  SourceLists,        \* the lists of sources an agent may have
  Urls, Titles,   \* of items, besides the empty ones
  MaxResults,     \* agent.max_results
  MaxAnswer,      \* bounds the items of one answer
  MaxSummaries,   \* results that are summarised
  MaxShown,       \* results in a digest
  Scores,         \* what the models may make of an item
  Relevant,       \* the score that the research pipeline asks for
  Matching,       \* and the one that the job discovery asks for
  Neutral         \* the score of a job that could not be ranked

ASSUME CollectionAssumption ==
  /\ MaxResults \in Nat /\ MaxAnswer \in Nat /\ MaxSummaries \in Nat /\ MaxShown \in Nat
  /\ Scores \subseteq Nat /\ {Relevant, Matching, Neutral} \subseteq Nat

VARIABLES
  pipeline,   \* which of the two
  step,       \* what it does next
  todo,       \* the sources it has not asked yet
  items,      \* what they have answered
  kept,       \* what deduplication has left of that
  scores,     \* what the models made of those it scored, or <<>>
  scored,     \* the items with their scores, the best first
  ranked,     \* the items to store
  summaries,  \* of the first of them
  stored,     \* the AgentResult rows
  digest      \* the results that the digest shows

collectionVars ==
  <<pipeline, step, todo, items, kept, scores, scored, ranked, summaries, stored, digest>>

-----------------------------------------------------------------------------
(* The sources.  JSON may have a null where a text is expected: get() has  *)
(* a default for what is missing only.                                     *)

Empty == ""
Null == "null"
Items(urls, titles) == [url : urls, title : titles]

AnyUrl == Urls \cup {Empty, Null}
AnyTitle == Titles \cup {Empty, Null}

\* A link is made up for a story without one.
HackerNews == Items(Urls, AnyTitle)
Reddit == Items(Urls, AnyTitle)
RemoteOK == Items(Urls, AnyTitle)
Greenhouse == Items(AnyUrl, AnyTitle)
Lever == Items(AnyUrl, AnyTitle)
Arxiv == Items(Urls, Titles \cup {Empty})
GitHubTrending == Items(Urls, Titles \cup {Empty})
\* An entry without a title is left out; one without a link has its feed's.
Rss == Items(Urls, Titles)
YCJobs == Items(Urls, AnyTitle)

SourceMap == [hackernews |-> HackerNews, reddit |-> Reddit, github_trending |-> GitHubTrending,
              arxiv |-> Arxiv, remoteok |-> RemoteOK, greenhouse |-> Greenhouse,
              lever |-> Lever, yc_jobs |-> YCJobs, rss |-> Rss]

\* max_results of each of five feeds; of the companies after some of the jobs.
AnswerLimit(source) ==
  MaxResults * CASE source = "rss" -> 5 [] source = "yc_jobs" -> 2 [] OTHER -> 1

Lesser(m, n) == IF m <= n THEN m ELSE n
Take(s, n) == SubSeq(s, 1, Lesser(n, Len(s)))

\* An unknown source is skipped, as is one that raises.
Answers(source) ==
  IF source \in DOMAIN SourceMap
    THEN UNION {[1..n -> SourceMap[source]] : n \in 0..Lesser(AnswerLimit(source), MaxAnswer)}
    ELSE {<<>>}

-----------------------------------------------------------------------------

Pipelines == {"research", "jobs"}

CollectionInit ==
  /\ pipeline \in Pipelines /\ step = "collect" /\ todo \in SourceLists
  /\ items = <<>> /\ kept = <<>> /\ scores = <<>> /\ scored = <<>> /\ ranked = <<>>
  /\ summaries = <<>> /\ stored = <<>> /\ digest = <<>>

Fetch ==
  /\ step = "collect" /\ todo # <<>>
  /\ \E answer \in Answers(Head(todo)) : items' = items \o answer
  /\ todo' = Tail(todo)
  /\ UNCHANGED <<pipeline, step, kept, scores, scored, ranked, summaries, stored, digest>>

\* Faulty variant of Sift: the titles are not compared.
SiftByUrl(sifted, item) ==
  IF sifted.raised \/ item.url = Null THEN [sifted EXCEPT !.raised = TRUE]
  ELSE IF item.url \in sifted.seen THEN sifted
  ELSE [sifted EXCEPT !.kept = Append(@, item), !.seen = @ \cup {item.url}]

(***************************************************************************)
(* is_duplicate, and the loop around it.  One set has the hashes of URLs   *)
(* and titles.  An item whose title has been seen leaves its URL there.  A *)
(* null has no encode(), which raises if it is reached.                    *)
(***************************************************************************)
Sift(sifted, item) ==
  LET urlSeen == item.url \in sifted.seen
      withUrl == sifted.seen \cup {item.url}
  IN  CASE sifted.raised \/ item.url = Null -> [sifted EXCEPT !.raised = TRUE]
        [] ~sifted.raised /\ item.url # Null /\ urlSeen -> sifted
        [] OTHER ->
             IF item.title = Null THEN [sifted EXCEPT !.raised = TRUE]
             ELSE IF item.title \in withUrl THEN [sifted EXCEPT !.seen = withUrl]
             ELSE [sifted EXCEPT !.kept = Append(@, item), !.seen = withUrl \cup {item.title}]

Sifted ==
  LET after[n \in 0..Len(items)] ==
        IF n = 0 THEN [kept |-> <<>>, seen |-> {}, raised |-> FALSE]
        ELSE Sift(after[n - 1], items[n])
  IN  after[Len(items)]

Deduplicate ==
  /\ step = "collect" /\ todo = <<>>
  /\ kept' = Sifted.kept
  /\ step' = IF Sifted.raised THEN "failed" ELSE "rank"
  /\ UNCHANGED <<pipeline, todo, items, scores, scored, ranked, summaries, stored, digest>>

-----------------------------------------------------------------------------
(* Scores.                                                                 *)

\* The members of S, each behind those that are before it by R.
InOrder(S, R) ==
  [n \in 1..Cardinality(S) |-> CHOOSE i \in S : Cardinality({j \in S : <<j, i>> \in R}) = n - 1]

\* list.sort(key=score, reverse=True): equals stay in order.
Better(given) ==
  {p \in (DOMAIN given) \X DOMAIN given :
     given[p[1]] > given[p[2]] \/ (given[p[1]] = given[p[2]] /\ p[1] < p[2])}

Order(given) == InOrder(DOMAIN given, Better(given))

BestFirst(given) ==
  LET order == Order(given)
  IN  [n \in DOMAIN order |-> [item |-> kept[order[n]], score |-> given[order[n]]]]

\* Those of s that are good enough, in the order of s.
Reaching(s, wanted) ==
  LET good == {n \in DOMAIN s : s[n].score >= wanted}
      order == InOrder(good, {p \in good \X good : p[1] < p[2]})
  IN  [n \in DOMAIN order |-> s[order[n]]]

ItemsOf(s) == [n \in DOMAIN s |-> s[n].item]

\* The relevant ones, or else the best.
Selected(best) ==
  LET relevant == Reaching(best, Relevant)
  IN  ItemsOf(Take(IF relevant = <<>> THEN Take(best, 1) ELSE relevant, MaxResults))

\* Faulty variant of Chosen: the results are limited before they are compared.
ChosenEarly(given) == Selected(BestFirst(Take(given, MaxResults)))

Chosen(given) == Selected(BestFirst(given))

(* An agent without instructions, or an embedding model that cannot be     *)
(* loaded, leaves everything as it was collected.                          *)
Relevance ==
  /\ step = "rank" /\ pipeline = "research"
  /\ \/ /\ kept # <<>>
        /\ scores' \in [1..Len(kept) -> Scores]
        /\ scored' = BestFirst(scores')
        /\ ranked' = Chosen(scores')
     \/ /\ ranked' = Take(kept, MaxResults)
        /\ UNCHANGED <<scores, scored>>
  /\ step' = "summarise"
  /\ UNCHANGED <<pipeline, todo, items, kept, summaries, stored, digest>>

(* rank_batch scores the first items only.  Should it raise, they all pass *)
(* with the same score.                                                    *)
Ranking ==
  LET first == 1..Lesser(Len(kept), MaxResults)
  IN  /\ step = "rank" /\ pipeline = "jobs"
      /\ \/ /\ scores' \in [first -> Scores]
            /\ scored' = Reaching(BestFirst(scores'), Matching)
         \/ /\ kept # <<>>
            /\ scored' = [n \in first |-> [item |-> kept[n], score |-> Neutral]]
            /\ UNCHANGED scores
      /\ ranked' = ItemsOf(scored')
      /\ step' = "store"
      /\ UNCHANGED <<pipeline, todo, items, kept, summaries, stored, digest>>

-----------------------------------------------------------------------------
(* A summary is the item that it sums up.                                  *)

NoSummary == [url |-> Empty, title |-> Empty]

\* Faulty variant of Summarise: one that fails is skipped.
SummariseOrSkip ==
  /\ step = "summarise"
  /\ \E failed \in SUBSET (1..Lesser(Len(ranked), MaxSummaries)) :
       summaries' = SelectSeq(Take(ranked, MaxSummaries),
                              LAMBDA item : \E n \in 1..Len(ranked) \ failed : ranked[n] = item)
  /\ step' = "store"
  /\ UNCHANGED <<pipeline, todo, items, kept, scores, scored, ranked, stored, digest>>

Summarise ==
  /\ step = "summarise"
  /\ \E failed \in SUBSET (1..Lesser(Len(ranked), MaxSummaries)) :
       summaries' = [n \in 1..Lesser(Len(ranked), MaxSummaries) |->
                       IF n \in failed THEN NoSummary ELSE ranked[n]]
  /\ step' = "store"
  /\ UNCHANGED <<pipeline, todo, items, kept, scores, scored, ranked, stored, digest>>

-----------------------------------------------------------------------------
(* Results.                                                                *)

\* url or title
Key(item) == IF item.url = Empty THEN item.title ELSE item.url

\* The score of the first item with this key.
ScoreByKey(item) ==
  LET found == {n \in DOMAIN scored : Key(scored[n].item) = Key(item)}
  IN  IF found = {} THEN 0 ELSE scored[CHOOSE n \in found : \A m \in found : n <= m].score

(* The research pipeline finds summary and score again, by position and by *)
(* key; the job discovery has both with the item.                          *)
Store ==
  LET n == Len(stored) + 1
      item == ranked[n]
      Row(score, summary) == [item |-> item, score |-> score, summary |-> summary]
  IN  /\ step = "store" /\ n <= Len(ranked)
      /\ \/ /\ pipeline = "research"
            /\ stored' = Append(stored, Row(ScoreByKey(item),
                                   IF n <= Len(summaries) THEN summaries[n] ELSE NoSummary))
         \/ /\ pipeline = "jobs"
            /\ \E summary \in {item, NoSummary} :
                 stored' = Append(stored, Row(scored[n].score, summary))
      /\ UNCHANGED <<pipeline, step, todo, items, kept, scores, scored, ranked, summaries, digest>>

StoreFails ==
  /\ step = "store" /\ Len(stored) < Len(ranked)
  /\ step' = "failed"
  /\ UNCHANGED <<pipeline, todo, items, kept, scores, scored, ranked, summaries, stored, digest>>

(* The template sorts the results again; the model is given them as they   *)
(* are; or there is no digest.                                             *)
Assemble ==
  LET order == Order([n \in DOMAIN stored |-> stored[n].score])
      template == Take([n \in DOMAIN order |-> stored[order[n]]], MaxShown)
  IN  /\ step = "store" /\ Len(stored) = Len(ranked)
      /\ digest' \in {template, Take(stored, MaxShown), <<>>}
      /\ step' = "done"
      /\ UNCHANGED <<pipeline, todo, items, kept, scores, scored, ranked, summaries, stored>>

CollectionNext ==
  \/ Fetch \/ Deduplicate \/ Relevance \/ Ranking \/ Summarise \/ Store \/ StoreFails \/ Assemble

CollectionSpec == CollectionInit /\ [][CollectionNext]_collectionVars

-----------------------------------------------------------------------------
(* Properties.                                                             *)

Texts(item) == {item.url, item.title}
Deduplicated == step \in {"rank", "summarise", "store", "done"}

(* Deduplication leaves no two items with a URL or a title in common, and  *)
(* drops none but those that share one with an item before them, be it     *)
(* kept or not, or that have neither (dedup/service.py:24-39).             *)
OnlyDuplicatesAreDropped ==
  Deduplicated =>
    /\ \A m, n \in DOMAIN kept : m # n => Texts(kept[m]) \cap Texts(kept[n]) = {}
    /\ \A n \in DOMAIN items :
         \/ \E m \in DOMAIN kept : kept[m] = items[n]
         \/ items[n].url = items[n].title
         \/ \E m \in 1..n-1 : Texts(items[m]) \cap Texts(items[n]) # {}

(* Whatever failed on the way, a result has the score that was given to    *)
(* its own item and a summary of its own item, or none; although both are  *)
(* found again by key and by position (research.py:166-175).               *)
ResultsCarryTheirOwn ==
  \A n \in DOMAIN stored :
    /\ stored[n].summary \in {stored[n].item, NoSummary}
    /\ \E m \in DOMAIN kept :
         /\ kept[m] = stored[n].item
         /\ stored[n].score = IF m \in DOMAIN scores THEN scores[m]
                               ELSE IF pipeline = "jobs" THEN Neutral ELSE 0

(* A run that ends has no more results than the agent asks for, the best   *)
(* first, and left out nothing that was scored and is better, nor anything *)
(* good enough while there was room; the digest shows the first of them,   *)
(* whoever wrote it (research.py:110-114; ranking/service.py:76-79;        *)
(* digest/service.py:36).                                                  *)
ResultsAreTheBest ==
  LET wanted == IF pipeline = "jobs" THEN Matching ELSE Relevant
      Left(m) == \A n \in DOMAIN stored : stored[n].item # kept[m]
  IN  step = "done" =>
        /\ Len(stored) <= MaxResults
        /\ \A m, n \in DOMAIN stored : m < n => stored[m].score >= stored[n].score
        /\ \A m \in DOMAIN scores : Left(m) =>
             /\ \A n \in DOMAIN stored : stored[n].score >= scores[m]
             /\ scores[m] < wanted \/ Len(stored) = MaxResults
        /\ digest \in {<<>>, Take(stored, MaxShown)}

=============================================================================
