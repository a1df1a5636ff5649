----------------------------- MODULE MCKnowledge -----------------------------
(* What a turn reads and how it gets there, and the jobs that measure it, part *)
(* by part: the reading turn, the ingest of documents and of their pages, the  *)
(* arithmetic of a page, the retrieval, the calls of language models, the      *)
(* evaluation jobs.  The parts share no state; `part` says which of them a     *)
(* behaviour is about, and the others keep one initial state.                  *)
EXTENDS MCEvalJob, Ingest, Retrieval, PageReader, MCPageArithmetic, Turn, MCLlmRouter, TLC

VARIABLE part

knVars == <<part, ev_vars, inVars, rtVars, pgVars, arVars, vars, tnVars>>

\* "a" .. "d": the user's question finds them by meaning and "d", "c", "b" perhaps
\* without their marks; the question before it finds others.
MCMatchings ==
  {("question" :> ("dense" :> <<"a","b","c","d">> @@ "sparse" :> <<>> @@ "fold" :> fold)) @@
   ("before" :> ("dense" :> before @@ "sparse" :> <<"d">> @@ "fold" :> <<>>)) :
     fold \in {<<>>, <<"d","c","b">>}, before \in {<<"d","c","b","a">>, <<"c">>}}
MCClassMaps ==
  {[d \in Documents |-> IF d \in secret THEN "commercial" ELSE "all"] : secret \in {{"a"}, {"d"}}}
MCScores == {<<1>>, <<1,2>>, <<2,1>>, <<1,2,3>>, <<2,3,1>>, <<3,1,2>>}

ArAsleep == paper = CHOOSE p \in Papers : TRUE
InAsleep == target = CHOOSE t \in CommandLines : TRUE
RtAsleep == class = (CHOOSE c \in ClassMaps : TRUE) /\ match = (CHOOSE q \in Matchings : TRUE)
              /\ ~override /\ model = "ready"

KnInit ==
  /\ part \in {"turn", "evals", "ingest", "retrieval", "pages", "arithmetic", "calls"}
  /\ TnInit /\ EvInit /\ PgInit /\ Init
  /\ ArInit /\ (part = "arithmetic" \/ ArAsleep)
  /\ InInit /\ (part = "ingest" \/ InAsleep)
  /\ RtInit /\ (part = "retrieval" \/ RtAsleep)

KnNext ==
  /\ UNCHANGED part
  /\ \/ part = "turn" /\ TnNext /\ UNCHANGED <<ev_vars, inVars, rtVars, pgVars, arVars, vars>>
     \/ part = "evals" /\ EvNext /\ UNCHANGED <<inVars, rtVars, pgVars, arVars, vars, tnVars>>
     \/ part = "ingest" /\ InNext /\ UNCHANGED <<ev_vars, rtVars, pgVars, arVars, vars, tnVars>>
     \/ part = "retrieval" /\ RtNext /\ UNCHANGED <<ev_vars, inVars, pgVars, arVars, vars, tnVars>>
     \/ part = "pages" /\ PgNext /\ UNCHANGED <<ev_vars, inVars, rtVars, arVars, vars, tnVars>>
     \/ part = "arithmetic" /\ ArNext /\ UNCHANGED <<ev_vars, inVars, rtVars, pgVars, vars, tnVars>>
     \/ part = "calls" /\ Next /\ UNCHANGED <<ev_vars, inVars, rtVars, pgVars, arVars, tnVars>>

KnSpec == KnInit /\ [][KnNext]_knVars
=============================================================================
