------------------------------ MODULE Retrieval ------------------------------
(***************************************************************************)
(* A search of the learnings (internal/retrieval, and the two handlers     *)
(* that ask for one): the words of a query, what the index returns for     *)
(* them, the scores and the page.                                          *)
(*                                                                         *)
(* A word is one of a few values. "huge" stands for one longer than        *)
(* MaxTermLength and ".." for itself; the operators of the index's query   *)
(* language ("AND") are words like any other, since every term is quoted.  *)
(* The rank of the index (FTS5's bm25, lower for a better match) is the    *)
(* negative of "strength". Scores are in units of 1/100000, rounded down.  *)
(***************************************************************************)
EXTENDS Integers, Sequences, FiniteSets, SequencesExt, FiniteSetsExt

CONSTANTS
    Shelf,          \* learnings that may be captured: [id, fp, words, title, terms, strength,
                    \*   evidence, born, status]
    Queries,        \* sequences of words
    StatusFilters,       \* what the --status of the command line may be
    Engram,         \* what Engram answers: a sequence of hits, <<>> when off or away
    VolatileWords,       \* words that NormalizeRetrievalTerms drops
    DefaultLimit, MaxLimit, MaxTermsPerQuery,
    overfetchMultiplier,
    Limits,         \* page sizes callers ask for
    LastDay

\* A learning in what a search looks at.
Books == [id : Nat, fp : Nat, words : {l.words : l \in Shelf}, title : {l.title : l \in Shelf},
          terms : {l.terms : l \in Shelf}, strength : Nat, evidence : {l.evidence : l \in Shelf},
          born : Nat, status : {l.status : l \in Shelf}]

ASSUME RetrievalAssumption ==
    /\ {DefaultLimit, MaxLimit, MaxTermsPerQuery, overfetchMultiplier} \subseteq Nat \ {0}
    /\ DefaultLimit <= MaxLimit
    /\ Shelf \subseteq Books /\ Limits \subseteq Int

VARIABLES
    library,        \* the learnings captured, with the index, which triggers keep with them
    date,           \* the clock, in steps of a week
    reply           \* the last search: what was asked, found and answered

retVars == <<library, date, reply>>

Unasked == [to |-> "nobody"]
RetrievalInit == library = {} /\ date = 0 /\ reply = Unasked

-----------------------------------------------------------------------------
(* The words. *)

Rejected(word) == word \in {"..", "huge"}

\* The limit is on the words as they come: the rejected and the repeated count.
TooMany(query) == Len(query) > MaxTermsPerQuery

Sanitize(query) ==
    LET first(i) == ~Rejected(query[i]) /\ \A j \in 1..(i - 1) : query[j] # query[i]
    IN {query[i] : i \in {k \in DOMAIN query : first(k)}}

\* What the index returns: learnings that hold every term, the strongest first
\* and those of one strength in any order, cut at the limit.
Matches(terms) == {l \in library : terms # {} /\ terms \subseteq l.words}
Candidates(terms, limit) ==
    {p \in SetToSeqs(Matches(terms)) : \A i, j \in DOMAIN p : i < j => p[i].strength >= p[j].strength}
Pools(terms, limit) ==
    {SubSeq(p, 1, IF Len(p) < limit THEN Len(p) ELSE limit) : p \in Candidates(terms, limit)}

-----------------------------------------------------------------------------
(* The scores. *)

\* 1 / (1 + |raw| / max): the strongest of the pool has one half and a weaker
\* one more.
BM25(l, best) == IF best = 0 THEN 0 ELSE (1000 * best) \div (best + l.strength)

RetrievalTerms(l, terms) ==
    IF (terms \cap l.terms) \ VolatileWords # {} THEN 1000 ELSE 0

TitleExact(l, query) == IF l.title = query THEN 1000 ELSE 0

EvidenceLevel(l) ==
    CASE l.evidence = "strong" -> 1000 [] l.evidence = "moderate" -> 700
      [] l.evidence = "weak" -> 400 [] l.evidence = "insufficient" -> 100 [] OTHER -> 500

\* A year of linear decay, from the eighth day on.
Recency(l) ==
    LET days == date - l.born
    IN IF days < 7 THEN 1000 ELSE 1000 - (1000 * (IF days < 365 THEN days ELSE 365)) \div 365

\* DefaultWeights.
Score(l, pool, terms, query) ==
    LET best == Max({0} \cup {x.strength : x \in ToSet(pool)})
    IN 50 * BM25(l, best) + 20 * RetrievalTerms(l, terms) + 15 * TitleExact(l, query)
       + 10 * EvidenceLevel(l) + 5 * Recency(l)

\* Mutant: without the last tie-break, a stable sort keeps the order of the index.
PrecedesByContent(x, y) ==
    \/ x.score > y.score
    \/ x.score = y.score /\ x.learning.fp < y.learning.fp

\* sortHitsDeterministic: by score, then by fingerprint, then by id.
Precedes(x, y) ==
    \/ x.score > y.score
    \/ x.score = y.score /\ x.learning.fp < y.learning.fp
    \/ x.score = y.score /\ x.learning.fp = y.learning.fp /\ x.learning.id < y.learning.id

\* A stable sort of the pool.
Place(scored, i) ==
    Cardinality({j \in DOMAIN scored : \/ Precedes(scored[j], scored[i])
                                       \/ j < i /\ ~Precedes(scored[i], scored[j])}) + 1
Ordered(scored) ==
    [n \in DOMAIN scored |-> scored[CHOOSE i \in DOMAIN scored : Place(scored, i) = n]]

PageSize(limit) == IF limit <= 0 THEN DefaultLimit ELSE IF limit > MaxLimit THEN MaxLimit ELSE limit

\* Every page the service may answer with: one for each pool of the index.
Scored(pool, terms, query) ==
    [i \in DOMAIN pool |-> [learning |-> pool[i], score |-> Score(pool[i], pool, terms, query)]]
BestOf(pool, terms, query, size) ==
    SubSeq(Ordered(Scored(pool, terms, query)), 1, IF Len(pool) < size THEN Len(pool) ELSE size)
Search(query, limit) ==
    LET size == PageSize(limit)
        terms == Sanitize(query)
    IN {BestOf(pool, terms, query, size) : pool \in Pools(terms, size * overfetchMultiplier)}

-----------------------------------------------------------------------------
(* The handlers. *)

\* A search changes nothing that another sees, so that one is asked of each state
\* of the library and the clock.
TurnAway(to, query) ==
    /\ reply = Unasked
    /\ query = <<>> \/ TooMany(query)
    /\ reply' = [to |-> to, refused |-> TRUE]
    /\ UNCHANGED <<library, date>>

Asked(query) == query # <<>> /\ ~TooMany(query)

AskServer(query, limit) ==
    /\ reply = Unasked /\ Asked(query)
    /\ \E page \in Search(query, limit) :
          reply' = [to |-> "server", refused |-> FALSE, query |-> query, size |-> PageSize(limit), hits |-> page]
    /\ UNCHANGED <<library, date>>

\* The status is looked at in the page, after the service has cut it; what Engram
\* answers comes after it and is cut with it.
AskCommand(query, limit, statuses, remote) ==
    /\ reply = Unasked /\ Asked(query)
    /\ \E page \in Search(query, limit) :
          LET local == SelectSeq(page, LAMBDA h : h.learning.status \in statuses)
              all == local \o [i \in DOMAIN remote |-> [learning |-> remote[i], score |-> 0]]
          IN reply' = [to |-> "command", refused |-> FALSE, query |-> query, size |-> PageSize(limit),
                       hits |-> IF limit > 0 /\ limit < Len(all) THEN SubSeq(all, 1, limit) ELSE all]
    /\ UNCHANGED <<library, date>>

Capture(l) ==
    /\ \A x \in library : x.id # l.id
    /\ library' = library \cup {[l EXCEPT !.born = date]}
    /\ reply' = Unasked
    /\ UNCHANGED date

DaysPass ==
    /\ date < LastDay
    /\ date' = date + 7
    /\ reply' = Unasked
    /\ UNCHANGED library

RetrievalNext ==
    \/ \E l \in Shelf : Capture(l)
    \/ DaysPass
    \/ \E query \in Queries :
          \/ \E to \in {"server", "command"} : TurnAway(to, query)
          \/ \E limit \in Limits :
                \/ AskServer(query, limit)
                \/ \E statuses \in StatusFilters, remote \in Engram : AskCommand(query, limit, statuses, remote)

-----------------------------------------------------------------------------
(* Properties. *)

\* The same query of the same database has the same answer: whenever the pool
\* holds all that matches, the order in which the index returns equals does not
\* show, and the page is the best of them, each once and none of them hiding a
\* better one.
SearchRepeats ==
    reply.to = "server" /\ ~reply.refused =>
        LET terms == Sanitize(reply.query)
            found == {h.learning : h \in ToSet(reply.hits)}
        IN /\ found \subseteq Matches(terms)
           /\ Cardinality(found) = Len(reply.hits)
           /\ Cardinality(Matches(terms)) <= reply.size * overfetchMultiplier =>
                 /\ Cardinality(Search(reply.query, reply.size)) = 1
                 /\ Len(reply.hits) = Min({reply.size, Cardinality(Matches(terms))})
                 /\ \A i \in DOMAIN reply.hits, l \in Matches(terms) \ found :
                       Score(l, SetToSeq(Matches(terms)), terms, reply.query) <= reply.hits[i].score

\* The comment of Candidate (repository.go:42): FTS5 ranks lower as the document
\* is more relevant, so the service normalizes to [0,1] where 1 is the most relevant.
StrongerScoresHigher ==
    reply.to = "server" /\ ~reply.refused =>
        \A x, y \in {h.learning : h \in ToSet(reply.hits)} :
            LET best == Max({z.strength : z \in Matches(Sanitize(reply.query))})
            IN x.strength > y.strength => BM25(x, best) >= BM25(y, best)
=============================================================================
