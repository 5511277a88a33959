--------------------------------- MODULE News ---------------------------------
(* apps/sentiment: articles, their scores by the two tiers, and the sentiment  *)
(* per symbol and for the market that the sizing of orders reads.              *)
(*                                                                             *)
(* The tasks are periodic and overlap; each statement of theirs is a           *)
(* transaction of its own.  The models behind the two tiers are external.      *)
EXTENDS Integers, Sequences, FiniteSets, SequencesExt, Functions

CONSTANTS
    Stories,      \* what the sources offer: [key, symbols, symbols_text, material, poison, sure, pol];
                  \* symbols_text: the first 24 of the symbols, which is what is searched
    Impacts,      \* polarities the second tier may give, times ten
    Sweepers,     \* workers that run score_pending_articles
    MaxArticles,  \* bound: articles taken in
    Batch,        \* articles of one sweep
    MaxAge,       \* half-lives after which an article leaves the window
    MaxAggs,      \* bound: runs of aggregate_sentiment
    MaxCuts       \* bound: tasks that die

ASSUME NewsAssumption == {MaxArticles, Batch, MaxAge, MaxAggs, MaxCuts} \subseteq Nat

VARIABLES
    articles,  \* sentiment_news_article with their scores
    sweeps,    \* [Sweepers -> the articles still to score, and the step of the first]
    aggs,      \* the runs of aggregate_sentiment in the order of their `now`
    rows,      \* sentiment_score: scope, produced_at (the run) and polarity
    cuts       \* tasks that died

newsVars == <<articles, sweeps, aggs, rows, cuts>>

Symbols == UNION {s.symbols : s \in Stories}
NoScore == 99  \* no row of that tier

\* sentiment_score.scope tells the market's rows from those of a symbol.
ASSUME ScopesDiffer == "MARKET" \notin Symbols

NewsInit ==
    /\ articles = <<>>
    /\ sweeps = [w \in Sweepers |-> [todo |-> <<>>, pc |-> "tier1"]]
    /\ aggs = <<>> /\ rows = {}
    /\ cuts = 0

-----------------------------------------------------------------------------
(* Taking in and scoring *)

\* History of the properties: nothing has changed since the newest run began.
Disturbed == [k \in DOMAIN aggs |-> [aggs[k] EXCEPT !.clean = FALSE]]

\* The same address and title is the same article: what came first stays.
ingest_article(s) ==
    /\ Len(articles) < MaxArticles
    /\ \A i \in DOMAIN articles : articles[i].story.key # s.key
    /\ articles' = Append(articles, [story |-> s, finbert |-> NoScore, llama |-> NoScore,
                                     tier1_scored |-> FALSE, age |-> 0])
    /\ aggs' = Disturbed
    /\ UNCHANGED <<sweeps, rows, cuts>>

HalfLifePasses ==
    /\ \E i \in DOMAIN articles : articles[i].age < MaxAge
    /\ articles' = [i \in DOMAIN articles |->
                      [articles[i] EXCEPT !.age = IF @ < MaxAge THEN @ + 1 ELSE @]]
    /\ UNCHANGED <<sweeps, aggs, rows, cuts>>

Pending == SelectSeq([i \in DOMAIN articles |-> i], LAMBDA i : ~articles[i].tier1_scored)

\* The oldest first, up to the limit.
score_pending_articles(w) ==
    /\ sweeps[w].todo = <<>> /\ Pending # <<>>
    /\ sweeps' = [sweeps EXCEPT ![w].todo =
                    SubSeq(Pending, 1, IF Len(Pending) < Batch THEN Len(Pending) ELSE Batch)]
    /\ UNCHANGED <<articles, aggs, rows, cuts>>

SweepAt(w, pc) == sweeps[w].todo # <<>> /\ sweeps[w].pc = pc
SweepGoes(w, pc) == sweeps' = [sweeps EXCEPT ![w].pc = pc]
NextArticle(w) == sweeps' = [sweeps EXCEPT ![w] = [todo |-> Tail(@.todo), pc |-> "tier1"]]
Stored(w, r) == articles' = [articles EXCEPT ![Head(sweeps[w].todo)] = r]
Current(w) == articles[Head(sweeps[w].todo)]
ScoreSame == aggs' = Disturbed /\ UNCHANGED <<rows, cuts>>

PoisonKept(w) ==  \* mutant: logged, and tried again by the next sweep
    SweepAt(w, "tier1") /\ Current(w).story.poison /\ NextArticle(w) /\ UNCHANGED articles /\ ScoreSame
\* An article that cannot be scored is marked all the same.
PoisonMarked(w) ==
    /\ SweepAt(w, "tier1") /\ Current(w).story.poison
    /\ Stored(w, [Current(w) EXCEPT !.tier1_scored = TRUE])
    /\ NextArticle(w) /\ ScoreSame

ScoreTier1(w) ==
    /\ SweepAt(w, "tier1") /\ ~Current(w).story.poison
    /\ Stored(w, [Current(w) EXCEPT !.finbert = Current(w).story.pol])
    /\ SweepGoes(w, "mark") /\ ScoreSame

MarkTier1(w) ==
    /\ SweepAt(w, "mark")
    /\ Stored(w, [Current(w) EXCEPT !.tier1_scored = TRUE])
    /\ IF Current(w).story.material \/ ~Current(w).story.sure
         THEN SweepGoes(w, "tier2") ELSE NextArticle(w)
    /\ ScoreSame

\* The second tier is off, fails, or answers twice what does not parse: the first
\* one stands.
_score_tier2(w) ==
    /\ SweepAt(w, "tier2")
    /\ \/ UNCHANGED articles
       \/ \E p \in Impacts : Stored(w, [Current(w) EXCEPT !.llama = p])
    /\ NextArticle(w) /\ ScoreSame

SweepDies(w) ==
    /\ sweeps[w].todo # <<>> /\ cuts < MaxCuts /\ cuts' = cuts + 1
    /\ sweeps' = [sweeps EXCEPT ![w] = [todo |-> <<>>, pc |-> "tier1"]]
    /\ UNCHANGED <<articles, aggs, rows>>

-----------------------------------------------------------------------------
(* Aggregating *)

\* The articles in the window of a run that holds the ages of its start.
AgeIn(ages, i) == IF i \in DOMAIN ages THEN ages[i] ELSE 0
Window(ages) == {i \in DOMAIN articles : AgeIn(ages, i) < MaxAge}

\* One polarity per article: the second tier's when there is one.
Chosen(a) == IF a.llama # NoScore THEN a.llama ELSE a.finbert

\* Half the weight for each half-life; without a sample it is neutral.
AddedUp(f) == FoldFunction(LAMBDA x, y : x + y, 0, f)
ewma(samples, ages) ==
    LET w == [i \in samples |-> 2 ^ (MaxAge - AgeIn(ages, i))]
    IN  IF samples = {} THEN 0
        ELSE AddedUp([i \in samples |-> w[i] * Chosen(articles[i])]) \div AddedUp(w)

_symbol_samples(s, ages) ==
    {i \in Window(ages) : s \in articles[i].story.symbols_text /\ Chosen(articles[i]) # NoScore}

WindowSymbols(ages) == UNION {articles[i].story.symbols : i \in Window(ages)}

\* Every symbol with a sample weighs the same.
MarketOf(ages) ==
    LET heard == {s \in WindowSymbols(ages) : _symbol_samples(s, ages) # {}}
    IN  IF heard = {} THEN 0
        ELSE AddedUp([s \in heard |-> ewma(_symbol_samples(s, ages), ages)]) \div Cardinality(heard)

PolarityOf(scope, ages) ==
    IF scope = "MARKET" THEN MarketOf(ages) ELSE ewma(_symbol_samples(scope, ages), ages)

aggregate_sentiment ==
    /\ Len(aggs) < MaxAggs
    /\ LET now == [i \in DOMAIN articles |-> articles[i].age]
       IN  aggs' = Append(Disturbed, [pc |-> "run", todo |-> WindowSymbols(now) \union {"MARKET"},
                                      ages |-> now, clean |-> TRUE])
    /\ UNCHANGED <<articles, sweeps, rows, cuts>>

RowOfLastWrite(k) ==  \* mutant: produced_at is the moment of the write
    1 + Cardinality(rows)
\* produced_at is the `now` the run took when it began.
produced_at(k) == k

\* One symbol after the other in no order, the market last; each reads the
\* articles anew, with the ages of the run's `now`.
WriteScore(k, scope) ==
    /\ aggs[k].pc = "run" /\ scope \in aggs[k].todo
    /\ scope = "MARKET" => aggs[k].todo = {"MARKET"}
    /\ rows' = rows \union {[scope |-> scope, at |-> produced_at(k),
                             pol |-> PolarityOf(scope, aggs[k].ages)]}
    /\ aggs' = [aggs EXCEPT ![k].todo = @ \ {scope},
                            ![k].pc = IF scope = "MARKET" THEN "done" ELSE "run"]
    /\ UNCHANGED <<articles, sweeps, cuts>>

AggDies(k) ==
    /\ aggs[k].pc = "run" /\ cuts < MaxCuts /\ cuts' = cuts + 1
    /\ aggs' = [aggs EXCEPT ![k] = [pc |-> "dead", todo |-> {}, ages |-> <<>>, clean |-> FALSE]]
    /\ UNCHANGED <<articles, sweeps, rows>>

\* What the sizing of an order reads: the symbol's last row of any age, else the
\* market's, else neutral.
_latest_sentiment(s) ==
    LET of(scope) == {r \in rows : r.scope = scope}
        last(R) == CHOOSE r \in R : \A q \in R : q.at <= r.at
    IN  IF of(s) # {} THEN last(of(s)).pol
        ELSE IF of("MARKET") # {} THEN last(of("MARKET")).pol ELSE 0

Sweeping(w) ==
    score_pending_articles(w) \/ PoisonMarked(w) \/ ScoreTier1(w) \/ MarkTier1(w) \/ _score_tier2(w)

NewsNext ==
    \/ \E s \in Stories : ingest_article(s)
    \/ HalfLifePasses
    \/ \E w \in Sweepers : Sweeping(w) \/ SweepDies(w)
    \/ aggregate_sentiment
    \/ \E k \in DOMAIN aggs : AggDies(k) \/ \E s \in aggs[k].todo : WriteScore(k, s)

NewsSpec == NewsInit /\ [][NewsNext]_newsVars

-----------------------------------------------------------------------------
\* Sizing reads the newest news: when the run begun last has ended and nothing was
\* taken in or scored since it began, every symbol with an article in its window
\* reads the aggregate of that window (neutral, when no article's text names it), whatever older runs write meanwhile, and a
\* symbol no run ever saw reads the market's (the runs overlap; one row per run).
NewestNewsRead ==
    aggs # <<>> /\ Last(aggs).pc = "done" /\ Last(aggs).clean =>
      \A s \in Symbols :
        LET ages == Last(aggs).ages
        IN  \/ s \in WindowSymbols(ages) /\ _latest_sentiment(s) = ewma(_symbol_samples(s, ages), ages)
            \/ (~\E r \in rows : r.scope = s) /\ _latest_sentiment(s) = MarketOf(ages)
            \/ s \notin WindowSymbols(ages) /\ \E r \in rows : r.scope = s

\* Every article that is taken in comes to be scored or given up: one that cannot be
\* scored does not hold the sweeps for ever (the comment of score_pending_articles).
ArticlesEndScored == \A k \in 1..MaxArticles :
    k \in DOMAIN articles ~> k \in DOMAIN articles /\ articles[k].tier1_scored
=============================================================================
