------------------------------ MODULE Retrieval ------------------------------
(***************************************************************************)
(* Answering a question from the corpus (backend/src/rag/retrieve.py,      *)
(* visibility.py, reranker.py).  Three search legs per query are fused by  *)
(* reciprocal rank, a cross-encoder may reorder the pool, and a shadow     *)
(* search without the visibility filter tells which classes were hidden.   *)
(* Every leg is a statement of its own: a document may be loaded again     *)
(* between two of them, which gives its chunk a new id.                    *)
(***************************************************************************)
EXTENDS Integers, Sequences, FiniteSets, SequencesExt, Lists

CONSTANTS Documents,      \* one chunk each
          UNRESTRICTED,   \* the sentinel object of visibility.py: no filter
          LookAlike,      \* another object of its type
          NoRole,         \* None: the caller lost its role
          ClassMaps,      \* DOC_VISIBILITY: the visibility class of each document
          Matchings,      \* what may match: [query -> [leg -> the documents, best first]]
          Scores,         \* what the cross-encoder may say: the pool's places, best first
          RRF_K, TOP_N, TOP_K, HIDDEN_TOP_K,
          FoldEnabled, RerankEnabled,   \* RAG_FOLD_ENABLED, RAG_RERANK_ENABLED
          MaxReloads      \* bound: documents loaded again

Classes == {"all", "commercial"}
Queries == {"question", "before"}
LegNames == IF FoldEnabled THEN <<"dense", "sparse", "fold">> ELSE <<"dense", "sparse">>

ASSUME RetrievalAssumption ==
  /\ RRF_K \in Nat /\ {TOP_N, TOP_K, HIDDEN_TOP_K} \subseteq Nat \ {0} /\ MaxReloads \in Nat
  /\ TOP_K <= TOP_N
  /\ {FoldEnabled, RerankEnabled} \subseteq BOOLEAN
  /\ ClassMaps \subseteq [Documents -> Classes]
  /\ Matchings \subseteq [Queries -> [{"dense", "sparse", "fold"} -> Seq(Documents)]]
  /\ \A s \in Scores : s \in Seq(Nat) /\ ToSet(s) = 1..Len(s)
  \* three objects, none of them a set of classes
  /\ UNRESTRICTED \notin {LookAlike, NoRole}
  /\ \A classes \in SUBSET Classes : classes \notin {UNRESTRICTED, LookAlike, NoRole}

VARIABLES class,    \* the visibility class of each document
          gen,      \* how often it was loaded: the id of its chunk
          match,    \* what the question and the one before it match
          model,    \* the reranker's _state["model"]
          override, \* RAG_RERANK_MODE = override
          ask,      \* the retrieval under way
          answer    \* the last RetrievalResult, or [state |-> "none" / "error"]

rtVars == <<class, gen, match, model, override, ask, answer>>

\* What callers hand over: the sentinel, a look-alike instance, nothing, a set of classes.
Callers == {UNRESTRICTED, LookAlike, NoRole} \cup SUBSET Classes
resolve(arg) ==
  IF arg \in {LookAlike, NoRole, {}} THEN {"all"} ELSE arg

Sees(visibility, doc) == visibility = UNRESTRICTED \/ class[doc] \in visibility

\* One leg: the filter stands in WHERE, before ORDER BY and LIMIT; c.id breaks ties, so the
\* order of a leg is a function of the corpus.
InForce(docs) == [i \in DOMAIN docs |-> <<docs[i], gen[docs[i]]>>]
Leg_LimitFirst(query, leg, visibility) ==
  InForce(Within(First(TOP_N, match[query][leg]), {d \in Documents : Sees(visibility, d)}))
Leg(query, leg, visibility) ==
  InForce(First(TOP_N, Within(match[query][leg], {d \in Documents : Sees(visibility, d)})))

\* 1 / (RRF_K + rank + 1), over a common denominator.
Vote(rank, size) ==
  LET upto[r \in 0..size] ==
        IF r = 0 THEN 1 ELSE IF r = rank THEN upto[r - 1] ELSE upto[r - 1] * (RRF_K + r)
  IN  upto[size]

\* The pool is a dict: [chunk, rrf] in order of arrival, one entry per chunk id.
Add(pool, chunk, vote) ==
  IF \E e \in DOMAIN pool : pool[e].chunk = chunk
  THEN [e \in DOMAIN pool |->
          IF pool[e].chunk = chunk THEN [pool[e] EXCEPT !.rrf = @ + vote] ELSE pool[e]]
  ELSE Append(pool, [chunk |-> chunk, rrf |-> vote])
Fuse(pool, rows) ==
  LET upto[i \in 0..Len(rows)] ==
        IF i = 0 THEN pool ELSE Add(upto[i - 1], rows[i], Vote(i, TOP_N))
  IN  upto[Len(rows)]

\* sorted(..., reverse=True) is stable: equals stay in order of arrival.
Ahead(pool) ==
  {p \in (DOMAIN pool) \X (DOMAIN pool) :
     pool[p[1]].rrf > pool[p[2]].rrf \/ (pool[p[1]].rrf = pool[p[2]].rrf /\ p[1] < p[2])}
Ordered(pool) ==
  LET order == ByOrder(Len(pool), Ahead(pool)) IN [p \in DOMAIN pool |-> pool[order[p]].chunk]

\* _prepare_queries: an earlier turn equal to the question is not searched twice.
LegsOf(query) == [l \in DOMAIN LegNames |-> <<query, LegNames[l]>>]
Plan(aux) ==
  IF aux \in {"question", "none"} THEN LegsOf("question") ELSE LegsOf("question") \o LegsOf(aux)
ShadowPlan == LegsOf("question")

NoAsk == [at |-> "idle", arg |-> NoRole, visibility |-> {"all"}, aux |-> "none", left |-> <<>>,
          pool |-> <<>>, chunks |-> <<>>, ce |-> <<>>, total |-> 0, reloads |-> 0]
Nothing == [state |-> "none"]

RtTypeOK ==
  /\ class \in [Documents -> Classes] /\ gen \in [Documents -> Nat]
  /\ model \in {"unloaded", "ready", "dead"} /\ override \in BOOLEAN
  /\ ask.at \in {"idle", "legs", "rerank", "shadow", "signal"}
  /\ answer.state \in {"none", "error", "result"}
  \* a pool has one entry per chunk
  /\ \A i, j \in DOMAIN ask.pool : ask.pool[i].chunk = ask.pool[j].chunk => i = j

RtInit ==
  /\ class \in ClassMaps /\ gen = [d \in Documents |-> 0]
  /\ match \in Matchings /\ override \in BOOLEAN
  /\ model \in {"unloaded", "ready"}     \* lifespan warms it up, or could not
  /\ ask = NoAsk /\ answer = Nothing

Still == UNCHANGED <<class, match, override>>

Ask(arg, aux) ==
  /\ ask.at = "idle"
  /\ ask' = [NoAsk EXCEPT !.at = "legs", !.arg = arg, !.visibility = resolve(arg), !.aux = aux,
                          !.left = Plan(aux)]
  /\ gen' = [d \in Documents |-> 0]     \* ids are told apart within one retrieval only
  /\ answer' = Nothing /\ UNCHANGED model /\ Still

\* One statement of the search; after the last the pool is cut to TOP_N.
Search ==
  /\ ask.at = "legs"
  /\ LET pool == Fuse(ask.pool, Leg(Head(ask.left)[1], Head(ask.left)[2], ask.visibility))
         last == Len(ask.left) = 1
     IN ask' = [ask EXCEPT !.pool = pool, !.left = Tail(@), !.at = IF last THEN "rerank" ELSE @,
                           !.total = IF last THEN Len(pool) ELSE 0,
                           !.chunks = IF last THEN First(TOP_N, Ordered(pool)) ELSE <<>>]
  /\ UNCHANGED <<gen, model, answer>> /\ Still

\* Blend: the cross-encoder is one more leg.  ce is the order it gives, by index.
Rank(ce, i) == CHOOSE p \in DOMAIN ce : ce[p] = i
Blend(ce) ==
  LET n == Len(ce)
      sum(i) == Vote(i, n) + Vote(Rank(ce, i), n)
  IN ByOrder(n, {p \in (1..n) \X (1..n) :
                   sum(p[1]) > sum(p[2]) \/ (sum(p[1]) = sum(p[2]) /\ p[1] < p[2])})

\* Then the filter is off for the shadow search, unless nothing was filtered.
Scored(chunks, ce) ==
  ask' = [ask EXCEPT !.chunks = First(TOP_K, chunks), !.ce = ce, !.pool = <<>>,
            !.at = IF ask.visibility = UNRESTRICTED THEN "signal" ELSE "shadow",
            !.left = IF ask.visibility = UNRESTRICTED THEN <<>> ELSE ShadowPlan]

\* rerank: the model is loaded on the first call; a failure switches it off for the life of
\* the process and leaves the RRF order.
Rerank ==
  /\ ask.at = "rerank" /\ ask.chunks # <<>> /\ RerankEnabled /\ model # "dead"
  /\ \/ \E ce \in {s \in Scores : Len(s) = Len(ask.chunks)} :
          LET order == IF override THEN ce ELSE Blend(ce) IN
          /\ model' = "ready"
          /\ Scored([p \in DOMAIN order |-> ask.chunks[order[p]]], ce)
     \/ model' = "dead" /\ Scored(ask.chunks, <<>>)
  /\ UNCHANGED <<gen, answer>> /\ Still

NoRerank ==
  /\ ask.at = "rerank" /\ (ask.chunks = <<>> \/ ~RerankEnabled \/ model = "dead")
  /\ Scored(ask.chunks, <<>>)
  /\ UNCHANGED <<gen, model, answer>> /\ Still

\* The shadow search, its result thrown away but for the names of classes.
Shadow ==
  /\ ask.at = "shadow"
  /\ ask' = [ask EXCEPT !.pool = Fuse(@, Leg(Head(ask.left)[1], Head(ask.left)[2], UNRESTRICTED)),
                        !.left = Tail(@), !.at = IF Len(ask.left) = 1 THEN "signal" ELSE @]
  /\ UNCHANGED <<gen, model, answer>> /\ Still

_hidden_in_top_k(pool, visibility) ==
  LET top == First(HIDDEN_TOP_K, Ordered(pool))
  IN IF visibility = UNRESTRICTED THEN {}
     ELSE {class[top[i][1]] : i \in DOMAIN top} \ visibility

Respond(pool) ==
  /\ answer' = [state |-> "result", arg |-> ask.arg, aux |-> ask.aux, chunks |-> ask.chunks,
                ce |-> ask.ce, total |-> ask.total, whole |-> ask.reloads = 0,
                hidden |-> _hidden_in_top_k(pool, ask.visibility)]
  /\ ask' = NoAsk /\ UNCHANGED <<gen, model>> /\ Still
Signal == ask.at = "signal" /\ Respond(ask.pool)

\* The shadow's database error costs the signal and nothing else; any other one the answer.
ShadowFails == ask.at = "shadow" /\ Respond(<<>>)
SearchFails ==
  /\ ask.at = "legs" /\ ask' = NoAsk /\ answer' = [state |-> "error"]
  /\ UNCHANGED <<gen, model>> /\ Still

\* Ingest replaces a document between two statements.
Reload(d) ==
  /\ ask.at \in {"legs", "shadow"} /\ ask.reloads < MaxReloads
  /\ gen' = [gen EXCEPT ![d] = 1 - @]     \* a new id: old chunks are gone
  /\ ask' = [ask EXCEPT !.reloads = @ + 1]
  /\ UNCHANGED <<model, answer>> /\ Still

RtNext ==
  \/ \E arg \in Callers, aux \in {"none", "question", "before"} : Ask(arg, aux)
  \/ Search \/ Rerank \/ NoRerank \/ Shadow \/ Signal \/ ShadowFails \/ SearchFails
  \/ \E d \in Documents : Reload(d)

RtSpec == RtInit /\ [][RtNext]_rtVars
-----------------------------------------------------------------------------
(* Properties *)

Granted(arg) == IF arg \in {{c} : c \in Classes} \cup {Classes} THEN arg ELSE {"all"}
HasResult == answer.state = "result"
IndexOf(seq, e) == CHOOSE p \in DOMAIN seq : seq[p] = e

\* Whatever a caller passed, only the sentinel itself opens the classes a role does not
\* have; a caller that lost its role gets the least (visibility.py:48-54, retrieve.py:352).
OnlyVisible ==
  HasResult /\ answer.arg # UNRESTRICTED =>
    \A i \in DOMAIN answer.chunks :
      class[answer.chunks[i][1]] \in Granted(answer.arg)

\* The documents a role does not see cost it nothing: it gets what the same search gives on a
\* corpus that never had them, and the count of candidates says nothing of them
\* (retrieve.py:56-63, the filter before LIMIT).
Visible(arg) == {d \in Documents : arg = UNRESTRICTED \/ class[d] \in Granted(arg)}
Without(arg, query, leg) == InForce(First(TOP_N, Within(match[query][leg], Visible(arg))))
Pools(rows) ==
  LET upto[n \in 0..Len(rows)] == IF n = 0 THEN <<>> ELSE Fuse(upto[n - 1], rows[n]) IN upto
Pooled(rows) == Pools(rows)[Len(rows)]
OwnRows(arg, aux) == [l \in DOMAIN Plan(aux) |-> Without(arg, Plan(aux)[l][1], Plan(aux)[l][2])]
SeesNoHidden ==
  HasResult /\ answer.whole =>
    LET pool == Pooled(OwnRows(answer.arg, answer.aux))
    IN /\ answer.total = Len(pool)
       /\ answer.ce = <<>> => answer.chunks = First(TOP_K, Ordered(pool))

\* A refusal for hidden documents is about the question asked now: the earlier turn, which
\* the search itself uses, does not change it; no class the role sees is ever named
\* (retrieve.py:330-349 and :431).
Unfiltered == [l \in DOMAIN LegNames |-> InForce(First(TOP_N, match["question"][LegNames[l]]))]
HiddenIsPresent ==
  HasResult =>
    LET top == First(HIDDEN_TOP_K, Ordered(Pooled(Unfiltered)))
    IN /\ \A d \in Visible(answer.arg) : class[d] \notin answer.hidden
       /\ answer.whole => answer.hidden \subseteq {class[top[i][1]] : i \in DOMAIN top}

\* Blend counts votes: of two chunks of the answer the one that both the fused search and the
\* cross-encoder put first comes first (retrieve.py:283-296).
BlendIsVote ==
  (ask.at = "rerank" /\ ask'.ce # <<>> /\ ~override) =>
    \A i, j \in DOMAIN ask'.chunks :
      LET rrf(k) == IndexOf(ask.chunks, ask'.chunks[k])
      IN i < j => ~(rrf(j) < rrf(i) /\ IndexOf(ask'.ce, rrf(j)) < IndexOf(ask'.ce, rrf(i)))

\* A role is answered from what it may see, in the order its own documents give, and told of
\* hidden ones only when its present question is about them (retrieve.py:352).
AnsweredByRole ==
  /\ [](RtTypeOK /\ OnlyVisible /\ SeesNoHidden /\ HiddenIsPresent)
  /\ [][BlendIsVote]_rtVars
=============================================================================
