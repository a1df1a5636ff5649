------------------------------- MODULE EvalJob -------------------------------
(***************************************************************************)
(* Measuring the assistant: the resilient loop over a case list            *)
(* (backend/jobs/resilience.py), the evaluations of run_eval.py, the       *)
(* nightly gate over them (jobs/eval_gate.py) and the command line that    *)
(* saves baselines.  A model's reply is a record of what the score looks   *)
(* at; a call may also raise, and a process may be killed anywhere.        *)
(***************************************************************************)
EXTENDS Routing, Integers, Sequences, FiniteSets, SequencesExt

CONSTANTS Cases,            \* the case list of every set
          SetChoices,          \* the values --set may have for the job
          Options(_),       \* the command lines tried for a set
          Roles,            \* the roles a job may be run for
          Modes,            \* values of RAG_RERANK_MODE
          MaxRetries, BreakerThreshold, CheckpointEvery,
          MaxRuns           \* bound: processes started

ASSUME LoopAssumption ==
  /\ MaxRetries \in Nat /\ MaxRuns \in Nat
  /\ BreakerThreshold \in Nat \ {0} /\ CheckpointEvery \in Nat \ {0}

VARIABLES base,     \* the baseline files
          ckpt,     \* the checkpoint file of every set
          prog,     \* the process that runs, or None
          replies,  \* history: the last reply to each case of the set being measured
          past      \* history: how the last process and each measurement ended; left counts
             \* the sets not measured to the end

ev_vars == <<base, ckpt, prog, replies, past>>

EVAL_FN == <<"intent", "confirm", "chitchat", "planner", "read", "synthesis",
             "multi_source", "sop_select", "gather", "multi_source_gather",
             "localize", "language", "memory", "multiturn", "retrieval">>
\* The sets of the nightly job: all but those whose gate is always open.
GATED_FN == <<"intent", "confirm", "chitchat", "planner", "read", "synthesis",
              "multi_source", "sop_select", "language", "memory", "multiturn", "retrieval">>
EvalSets == Range(EVAL_FN) \cup {"synthesis_live", "write_suggest"}
BASELINE_SETS == {"intent", "confirm", "planner", "read", "synthesis",
                  "multi_source", "sop_select", "retrieval"}
ROLE_SENSITIVE_SETS == {"intent", "sop_select", "planner"}
VISIBILITY_SENSITIVE_SETS == {"retrieval", "synthesis_live", "multiturn"}
MEMORY_SETS == {"synthesis_live", "memory", "multi_source", "write_suggest",
                "read", "chitchat"}

POOL_N == 20
FINAL_K == 6

(***************************************************************************)
(* One call of each evaluation: the tags of the fail record, {} when the   *)
(* case passed.  c is the case, r what the model answered.                 *)
(***************************************************************************)
When(b, tag) == IF b THEN {tag} ELSE {}

eval_intent(c, r) == When(parse_proposal(r).intent # c.intent, "wrong")

NON_WORK_EXPECTATIONS == {"rag", "erp_read", "mixed", "unknown"}
_is_hijack(expected, sop) == expected \in NON_WORK_EXPECTATIONS /\ sop # None

eval_sop_select(c, r) ==
  LET proposal == parse_proposal(r)
      depth_ok == proposal.depth = c.depth
  IN IF decide_route(c.asks, proposal, FALSE) = c.route /\ depth_ok THEN {}
     ELSE {"wrong"} \cup When(~depth_ok, "depth_wrong")
                    \cup When(_is_hijack(c.route, proposal.sop), "hijack")

eval_planner(c, r) ==
  IF r.tool = "garbled" THEN {"parse_fail"}
  ELSE IF r.tool = c.tool THEN When(~r.args, "args_wrong")
  ELSE {"tool_wrong"} \cup When(r.tool = "another write", "dangerous_misroute")

eval_read(c, r) ==
  IF r.tool = None THEN {"tool_wrong"}
  ELSE When(r.tool # c.tool, "tool_wrong")
         \cup When(r.invented, "fabricated_param")
         \cup When(~r.args, "params_wrong")

Verdict_CancelFirst(says) == IF "CANCEL" \in says THEN "cancel"
                             ELSE IF "CONFIRM" \in says THEN "confirm" ELSE "unclear"

\* CONFIRM anywhere in the reply wins over CANCEL.
Verdict(says) == IF "CONFIRM" \in says THEN "confirm"
                 ELSE IF "CANCEL" \in says THEN "cancel" ELSE "unclear"
eval_confirm(c, r) ==
  IF Verdict(r.says) = c.want THEN {}
  ELSE {"wrong"} \cup When(Verdict(r.says) = "confirm", "false_confirm")

eval_chitchat(c, r) == When(r.claims, "violation")

eval_localize(c, r) == When(r.same, "fact_loss")

\* One Vietnamese function word makes a reply Vietnamese; English needs
\* evidence of its own.
Language(words) == IF "vi" \in words THEN "vi"
                   ELSE IF "en" \in words THEN "en" ELSE "INCONCLUSIVE"
eval_language(c, r) == When(Language(r.words) # c.want, "wrong")

eval_memory(c, r) ==
  LET stored == r.saves \ {"code"} IN
  IF c.want = "none" /\ (r.saves # {} \/ r.forgets \/ r.cut) THEN {"false_injection"}
  ELSE IF c.want = "fact" /\ stored = {} THEN {"missed"}
  ELSE IF c.want = "blocked" /\ stored # {} THEN {"leaked_doc_code"}
  ELSE When(r.cut, "truncated_answer")

eval_synthesis(c, r) ==
  IF c.want = "insufficient" THEN When(~r.refused, "false_answer")
  ELSE IF r.refused THEN {"false_insufficient"}
  ELSE When(~r.grounded, "wrong")

\* A number of the answer must come from a source; extra sources are those
\* the caller allows besides the documents and the ERP text.
_score_fusion(c, r, extra) ==
  When(~(r.doc /\ r.erp), "no_both")
    \cup When(\E i \in r.cited : i \notin 1 .. c.chunks, "bad_cite")
    \cup When(~(r.numbers \subseteq {"erp", "doc"} \cup c.derived \cup extra), "fabricated_number")
eval_multi_source(c, r) == _score_fusion(c, r, {})
eval_multi_source_gather(c, r) == _score_fusion(c, r, {"question"})

_score_gather(c, r) ==
  When(~(c.tools \subseteq r.called), "tool_recall") \cup When(~r.facts, "fact_coverage")
eval_gather(c, r) == _score_gather(c, r)

\* r is the rank of the first right chunk (beyond POOL_N: not found).
eval_retrieval(c, r) == When(r.rank > POOL_N, "wrong")
eval_multiturn(c, r) == When(r.with_ctx > FINAL_K, "wrong")
eval_synthesis_live(c, r) == When(FALSE \in {r.fact, r.refusal, r.citation}, "wrong")

\* A reply the oracle could not judge passes.
eval_write_suggest(c, r) == When(r.oracle # None /\ r.marker # r.oracle, "wrong")

Call(s, c, r) ==
  CASE s = "intent" -> eval_intent(c, r)
    [] s = "sop_select" -> eval_sop_select(c, r)
    [] s = "planner" -> eval_planner(c, r)
    [] s = "read" -> eval_read(c, r)
    [] s = "confirm" -> eval_confirm(c, r)
    [] s = "chitchat" -> eval_chitchat(c, r)
    [] s = "localize" -> eval_localize(c, r)
    [] s = "language" -> eval_language(c, r)
    [] s = "memory" -> eval_memory(c, r)
    [] s = "synthesis" -> eval_synthesis(c, r)
    [] s = "multi_source" -> eval_multi_source(c, r)
    [] s = "multi_source_gather" -> eval_multi_source_gather(c, r)
    [] s = "gather" -> eval_gather(c, r)
    [] s = "retrieval" -> eval_retrieval(c, r)
    [] s = "multiturn" -> eval_multiturn(c, r)
    [] s = "synthesis_live" -> eval_synthesis_live(c, r)
    [] s = "write_suggest" -> eval_write_suggest(c, r)

\* What a per-case row adds for the sets whose figures are averages of rows.
Row(s, c, r) ==
  CASE s = "retrieval" -> When(r.rank <= POOL_N, "pool") \cup When(r.rank <= FINAL_K, "final")
    [] s = "multiturn" -> {c.kind} \cup When(r.no_ctx <= FINAL_K, "no_ctx")
                                   \cup When(r.with_ctx <= FINAL_K, "with_ctx")
    [] OTHER -> {}

(***************************************************************************)
(* The figures of a finished measurement m and the verdict over them.      *)
(***************************************************************************)
size(s) == Len(Cases[s])
Tagged(seq, tags) == Cardinality({i \in DOMAIN seq : tags \subseteq seq[i]})

\* The cases right by the set's own measure; a case that was never measured
\* is not among them.
Headline(s, m) ==
  size(s) - Len(m.errors)
    - CASE s = "planner" -> Tagged(m.fails, {"tool_wrong"}) + Tagged(m.fails, {"parse_fail"})
        [] s = "read" -> Tagged(m.fails, {"tool_wrong"})
        [] s = "multi_source" -> Tagged(m.fails, {"no_both"})
        [] OTHER -> Len(m.fails)

SENSITIVE == ROLE_SENSITIVE_SETS \cup VISIBILITY_SENSITIVE_SETS
baseline_path_NoForm(s, role, dang_go) == <<s, IF s \in SENSITIVE THEN role ELSE "admin", "co_dau">>
baseline_path(s, role, dang_go) == <<s, IF s \in SENSITIVE THEN role ELSE "admin", dang_go>>

Result(s, m) ==
  [n |-> size(s), right |-> Headline(s, m), pool |-> Tagged(m.rows, {"pool"}),
   final |-> Tagged(m.rows, {"final"}), errors |-> Len(m.errors),
   role |-> m.opts.role, dang_go |-> m.opts.dang_go, rerank |-> m.opts.rerank,
   mode |-> m.opts.mode, memory |-> m.opts.memory]

NotBelow(res, b) == res.right * b.n >= b.right * res.n
Comparable(res, b) == /\ res.dang_go = b.dang_go /\ res.rerank = b.rerank /\ res.n = b.n
                      /\ res.mode = b.mode /\ res.role = b.role
Passing(b) == IF b THEN "pass" ELSE "fail"

_gate(s, m, b) ==
  LET res == Result(s, m)
      none(tag) == Tagged(m.fails, {tag}) = 0
      found(tags) == Tagged(m.rows, tags)
  IN CASE s = "chitchat" -> Passing(Len(m.fails) = 0)
       [] s = "sop_select" -> Passing(none("hijack") /\ NotBelow(res, b))
       [] s = "multiturn" ->
            Passing(/\ found({"independent", "with_ctx"}) >= found({"independent", "no_ctx"})
                    /\ \/ found({"elliptical", "with_ctx"}) > found({"elliptical", "no_ctx"})
                       \/ found({"elliptical", "with_ctx"}) = found({"elliptical"}))
       [] s = "planner" -> Passing(none("dangerous_misroute") /\ NotBelow(res, b))
       [] s = "read" -> Passing(none("fabricated_param") /\ NotBelow(res, b))
       [] s = "synthesis" -> Passing(none("false_answer") /\ NotBelow(res, b))
       [] s = "multi_source" -> Passing(/\ none("bad_cite") /\ none("fabricated_number")
                                        /\ NotBelow(res, b))
       [] s \in {"multi_source_gather", "gather", "localize"} -> "pass"
       [] s = "language" -> Passing(res.right = res.n)
       [] s = "memory" -> Passing(/\ none("false_injection") /\ none("leaked_doc_code")
                                  /\ none("truncated_answer"))
       [] s = "intent" -> Passing(NotBelow(res, b))
       [] s = "retrieval" -> IF ~Comparable(res, b) THEN "raise"
                             ELSE Passing(res.pool >= b.pool /\ res.final + 1 >= b.final)
       [] s = "confirm" -> Passing(/\ none("false_confirm")
                                   /\ (res.right + 1) * b.n >= b.right * res.n)
       [] OTHER -> "raise"      \* no such figure in the result

(***************************************************************************)
(* What a reply is worth, said without the scores: the reply the case asks *)
(* for, and the reply the gate must never let pass.                        *)
(***************************************************************************)
Ideal(s, c, r) ==
  CASE s = "intent" -> r.intent = c.intent
    [] s = "sop_select" -> r.sop = c.sop /\ r.depth = c.depth /\ r.intent = c.intent
    [] s = "planner" -> r.tool = c.tool /\ r.args
    [] s = "read" -> r.tool = c.tool /\ r.args /\ ~r.invented
    [] s = "confirm" -> r.says = c.ideal
    [] s = "chitchat" -> ~r.claims
    [] s = "language" -> r.words = {c.want}
    [] s = "memory" -> /\ ~r.cut /\ ~r.forgets
                       /\ r.saves = CASE c.want = "fact" -> {"fact"}
                                      [] c.want = "blocked" -> {"code"}
                                      [] OTHER -> {}
    [] s = "synthesis" -> IF c.want = "insufficient" THEN r.refused ELSE ~r.refused /\ r.grounded
    [] s = "multi_source" -> r.doc /\ r.erp /\ r.cited = {1} /\ r.numbers = {"erp", "doc"}
    [] s = "retrieval" -> r.rank = 1
    [] s = "multiturn" -> r.no_ctx = 1 /\ r.with_ctx = 1
    [] OTHER -> TRUE

Harmful(s, c, r) ==
  CASE s = "sop_select" -> c.sop = None /\ c.intent # "erp_write" /\ r.sop \in Sops
    [] s = "planner" -> r.tool = "another write"
    [] s = "read" -> r.tool # None /\ r.invented
    [] s = "confirm" -> c.want # "confirm" /\ "CONFIRM" \in r.says
    [] s = "chitchat" -> r.claims
    [] s = "language" -> IF c.want = "vi" THEN "vi" \notin r.words
                         ELSE "vi" \in r.words \/ "en" \notin r.words
    [] s = "memory" -> \/ c.want = "none" /\ (r.saves # {} \/ r.forgets \/ r.cut)
                       \/ c.want = "blocked" /\ "fact" \in r.saves
                       \/ r.cut /\ "fact" \in r.saves
    [] s = "synthesis" -> c.want = "insufficient" /\ ~r.refused
    [] s = "multi_source" -> "own" \in r.numbers \/ \E i \in r.cited : i > c.chunks
    [] OTHER -> FALSE

(***************************************************************************)
(* What the case lists and the command lines are.                          *)
(***************************************************************************)
\* A case asks for something its set can score: the wanted route is the one of
\* the wanted proposal, the wanted verdict that of the wanted words.
IsCase(s, c) ==
  /\ None \notin c.replies
  /\ CASE s = "intent" -> c.intent \in VALID_INTENTS
       [] s = "sop_select" ->
            LET want == [intent |-> c.intent, sop |-> c.sop, depth |-> c.depth]
            IN parse_proposal(want) = want /\ decide_route(c.asks, want, FALSE) = c.route
       [] s = "planner" -> c.tool \notin {"garbled", "another write"}
       [] s = "read" -> c.tool # None
       [] s = "confirm" -> Verdict(c.ideal) = c.want
       [] s = "language" -> c.want \in {"vi", "en"}
       [] s = "memory" -> c.want \in {"none", "fact", "blocked"}
       [] s = "multi_source" -> c.chunks \in Nat \ {0} /\ "own" \notin c.derived
       [] s = "multiturn" -> c.kind \in {"independent", "elliptical"}
       [] OTHER -> TRUE

ASSUME CaseAssumption ==
  /\ DOMAIN Cases = EvalSets
  /\ \A s \in EvalSets :
       /\ size(s) \in Nat /\ DOMAIN Cases[s] = 1 .. size(s)
       /\ \A i \in 1 .. size(s) : IsCase(s, Cases[s][i])

Commands ==
  [role : Roles, dang_go : {"co_dau", "khong_dau"}, rerank : BOOLEAN,
   mode : Modes \cup {"blend"}, memory : {None, "block"}, save : BOOLEAN, compare : BOOLEAN]

ASSUME CommandAssumption ==
  /\ SetChoices \subseteq EvalSets \cup {"both", "all"}
  /\ \A s \in EvalSets : Options(s) \subseteq Commands

(***************************************************************************)
(* Processes.  past.ends says how the job's last measurement of a set      *)
(* ended: "clean", or stopped before or after a checkpoint was due.        *)
(***************************************************************************)
Baseline(p) == IF p \in DOMAIN base THEN base[p] ELSE None

JobOptions(role) ==
  [role |-> role, dang_go |-> "co_dau", rerank |-> TRUE, mode |-> "blend", memory |-> None,
   save |-> FALSE, compare |-> TRUE]

SetsOf(choice) ==
  CASE choice = "both" -> <<"intent", "confirm">>
    [] choice = "all" -> GATED_FN
    [] OTHER -> <<choice>>

\* A record names what was wrong with a reply, a row what it scored.
Tags == {"wrong", "depth_wrong", "hijack", "parse_fail", "args_wrong", "tool_wrong",
         "dangerous_misroute", "fabricated_param", "params_wrong", "false_confirm",
         "violation", "fact_loss", "false_injection", "missed", "leaked_doc_code",
         "truncated_answer", "false_answer", "false_insufficient", "no_both", "bad_cite",
         "fabricated_number", "tool_recall", "fact_coverage",
         "pool", "final", "no_ctx", "with_ctx", "independent", "elliptical"}
Records == SUBSET Tags
Results == [n : Nat, right : Int, pool : Nat, final : Nat, errors : Nat,
            role : Roles \cup {"admin"}, dang_go : {"co_dau", "khong_dau"}, rerank : BOOLEAN,
            mode : Modes \cup {"blend"}, memory : {None, "block"}]
Processes ==
  [who : {"job", "cli"}, todo : Seq(EvalSets), set : EvalSets \cup {None}, opts : Commands,
   any_fail : BOOLEAN, against : Results \cup {None}, attempt : Nat, item : Nat,
   consecutive : Nat, fails : Seq(Records), errors : Seq(Nat), rows : Seq(Records)]

\* None is nothing else.
ASSUME NoneIsNothing ==
  /\ None \notin Nat /\ None \notin EvalSets /\ None \notin Sops
  /\ None \notin Results /\ None \notin Processes

Anew(p) == [p EXCEPT !.attempt = 1, !.item = 1, !.consecutive = 0,
                     !.fails = <<>>, !.errors = <<>>, !.rows = <<>>]

Process(who, todo, opts) ==
  [who |-> who, todo |-> todo, set |-> None, opts |-> opts,
   any_fail |-> FALSE, against |-> None, attempt |-> 1, item |-> 1, consecutive |-> 0,
   fails |-> <<>>, errors |-> <<>>, rows |-> <<>>]

Ends(code) ==
  /\ prog' = None
  /\ past' = [past EXCEPT !.exit = code, !.count = past.count + 1]

Measures(p, s, b) ==
  /\ prog' = [Anew(p) EXCEPT !.set = s, !.against = b]
  /\ replies' = [i \in 1 .. size(s) |-> None]

\* python -m jobs run eval-gate: a job that crashes is an infrastructure
\* error, and every run writes its result.
RunJob(choice, role) ==
  /\ prog = None /\ past.count < MaxRuns
  /\ prog' = Process("job", SetsOf(choice), JobOptions(role))
  /\ past' = [past EXCEPT !.who = "job", !.left = Len(SetsOf(choice)),
                          !.exit = None, !.harmed = FALSE, !.flawed = FALSE,
                          !.broke = FALSE]
  /\ UNCHANGED <<base, ckpt, replies>>

\* The job's next set: the baseline is read before anything is measured.  Only
\* the retrieval set depends on the re-ranking mode of the environment.
NextSet ==
  /\ prog # None /\ prog.set = None
  /\ IF prog.todo = <<>>
     THEN Ends(IF prog.any_fail THEN 1 ELSE 0) /\ UNCHANGED replies
     ELSE LET s == Head(prog.todo)
              b == IF s \in BASELINE_SETS
                   THEN Baseline(baseline_path(s, prog.opts.role, "co_dau")) ELSE None
          IN IF s \in BASELINE_SETS /\ b = None
             THEN Ends(2) /\ UNCHANGED replies
             ELSE /\ \E mode \in IF s = "retrieval" THEN Modes ELSE {"blend"} :
                       Measures([prog EXCEPT !.todo = Tail(prog.todo), !.opts.mode = mode], s, b)
                  /\ UNCHANGED past
  /\ UNCHANGED <<base, ckpt>>

\* run_eval.py --set s ...: the argument check lets a memory block through
\* for any set that takes one, with --save-baseline or without.
RunEval(s, opts) ==
  /\ prog = None /\ past.count < MaxRuns
  /\ s \notin {"gather", "multi_source_gather"}
  /\ opts.memory = None \/ s \in MEMORY_SETS
  /\ Measures(Process("cli", <<>>, opts), s,
              IF opts.compare THEN Baseline(baseline_path(s, opts.role, opts.dang_go)) ELSE None)
  /\ past' = [past EXCEPT !.who = "cli", !.left = 1, !.exit = None, !.harmed = FALSE,
                          !.flawed = FALSE, !.broke = FALSE]
  /\ UNCHANGED <<base, ckpt>>

(***************************************************************************)
(* run_resilient: one attempt at one case.                                 *)
(***************************************************************************)
Looping == prog # None /\ prog.set # None /\ prog.item <= size(prog.set)

_write_checkpoint(p) ==
  IF p.who = "job"
  THEN ckpt' = [ckpt EXCEPT ![p.set] = p.item]
  ELSE UNCHANGED ckpt

\* p has its record of the case; every CheckpointEvery cases are written down.
Done(p) ==
  /\ prog' = [p EXCEPT !.item = p.item + 1, !.attempt = 1]
  /\ IF p.item % CheckpointEvery = 0 THEN _write_checkpoint(p) ELSE UNCHANGED ckpt

CaseAnswered(r) ==
  /\ Looping
  /\ LET c == Cases[prog.set][prog.item]
         record == Call(prog.set, c, r)
     IN Done([prog EXCEPT !.consecutive = 0,
                          !.fails = IF record = {} THEN @ ELSE Append(@, record),
                          !.rows = IF prog.set \in {"retrieval", "multiturn"}
                                   THEN Append(@, Row(prog.set, c, r)) ELSE @])
  /\ replies' = [replies EXCEPT ![prog.item] = r]
  /\ UNCHANGED <<base, past>>

Retry ==
  /\ Looping /\ prog.attempt <= MaxRetries
  /\ prog' = [prog EXCEPT !.attempt = @ + 1]
  /\ UNCHANGED <<base, ckpt, replies, past>>

Errored(p) == [p EXCEPT !.errors = Append(@, p.item), !.consecutive = @ + 1]

GiveUp ==
  /\ Looping /\ prog.attempt = MaxRetries + 1
  /\ Errored(prog).consecutive < BreakerThreshold
  /\ Done(Errored(prog))
  /\ UNCHANGED <<base, replies, past>>

\* CircuitBreakerOpen leaves its checkpoint behind and ends the whole run.
Break ==
  /\ Looping /\ prog.attempt = MaxRetries + 1
  /\ Errored(prog).consecutive >= BreakerThreshold
  /\ _write_checkpoint(Errored(prog))
  /\ prog' = None
  /\ past' = [past EXCEPT !.exit = 2, !.count = @ + 1, !.broke = TRUE,
                          !.ends = IF prog.who = "job" THEN [@ EXCEPT ![prog.set] = "late"] ELSE @]
  /\ replies' = <<>>
  /\ UNCHANGED base

\* What the history keeps of a set whose loop is over.
Judged(s) ==
  LET answered == {i \in 1 .. size(s) : replies[i] # None}
  IN [past EXCEPT
        !.left = IF answered = 1 .. size(s) THEN @ - 1 ELSE @,
        !.harmed = @ \/ \E i \in answered : Harmful(s, Cases[s][i], replies[i]),
        !.flawed = @ \/ ~ \A i \in 1 .. size(s) : i \in answered /\ Ideal(s, Cases[s][i], replies[i]),
        !.ends = IF prog.who = "job" THEN [@ EXCEPT ![s] = "clean"] ELSE @]

LoopOver == prog # None /\ prog.set # None /\ prog.item > size(prog.set)

Unlink(s) == [ckpt EXCEPT ![s] = None]

\* The job's own end of a set: an unmeasured case outranks every verdict.
FinishSet ==
  /\ LoopOver /\ prog.who = "job"
  /\ ckpt' = Unlink(prog.set)
  /\ LET verdict == _gate(prog.set, prog, prog.against)
         judged == Judged(prog.set)
     IN IF prog.errors # <<>> \/ verdict = "raise"
        THEN prog' = None /\ past' = [judged EXCEPT !.exit = 2, !.count = @ + 1]
        ELSE /\ prog' = [Anew(prog) EXCEPT !.set = None, !.against = None,
                                          !.any_fail = @ \/ verdict = "fail"]
             /\ past' = judged
  /\ replies' = <<>>
  /\ UNCHANGED base

\* The command line's: errors, then --save-baseline, then --baseline.  A
\* missing file or figure ends in a traceback, which Python exits with 1.
FinishEval ==
  /\ LoopOver /\ prog.who = "cli"
  /\ LET s == prog.set
         saves == prog.errors = <<>> /\ prog.opts.save
         code == IF prog.errors # <<>> THEN 2
                 ELSE IF prog.opts.save \/ ~prog.opts.compare THEN 0
                 ELSE IF prog.against = None \/ s \in {"chitchat", "multiturn", "memory"} THEN 1
                 ELSE IF _gate(s, prog, prog.against) = "pass" THEN 0 ELSE 1
         path == baseline_path(s, prog.opts.role, prog.opts.dang_go)
     IN /\ base' = IF saves
                   THEN [p \in DOMAIN base \cup {path} |->
                           IF p = path THEN Result(s, prog) ELSE base[p]]
                   ELSE base
        /\ past' = [Judged(s) EXCEPT !.exit = code, !.count = @ + 1]
  /\ prog' = None
  /\ replies' = <<>>
  /\ UNCHANGED ckpt

\* The process is killed.
Killed ==
  /\ prog # None
  /\ prog' = None
  /\ past' = [past EXCEPT !.exit = None, !.count = @ + 1,
                !.ends = IF prog.who = "job" /\ prog.set # None
                         THEN [@ EXCEPT ![prog.set] =
                                 IF prog.item > CheckpointEvery \/ past.ends[prog.set] = "late"
                                 THEN "late" ELSE "early"]
                         ELSE @]
  /\ replies' = <<>>
  /\ UNCHANGED <<base, ckpt>>

Committed(s) ==
  [n |-> size(s), right |-> size(s), pool |-> size(s), final |-> size(s), errors |-> 0, role |-> "admin",
   dang_go |-> "co_dau", rerank |-> TRUE, mode |-> "blend", memory |-> None]

EvInit ==
  /\ base = [p \in {<<s, "admin", "co_dau">> : s \in BASELINE_SETS} |-> Committed(p[1])]
  /\ ckpt = [s \in EvalSets |-> None]
  /\ prog = None
  /\ replies = <<>>
  /\ past = [who |-> None, exit |-> None, left |-> 0, harmed |-> FALSE,
             flawed |-> FALSE, broke |-> FALSE, count |-> 0, ends |-> [s \in EvalSets |-> "clean"]]

EvNext ==
  \/ \E c \in SetChoices, role \in Roles : RunJob(c, role)
  \/ \E s \in EvalSets : \E o \in Options(s) : RunEval(s, o)
  \/ NextSet \/ Retry \/ GiveUp \/ Break \/ FinishSet \/ FinishEval \/ Killed
  \/ Looping /\ \E r \in Cases[prog.set][prog.item].replies : CaseAnswered(r)

EvSpec == EvInit /\ [][EvNext]_ev_vars

-----------------------------------------------------------------------------
\* The files and the counters are what the code writes: nobody is measured
\* past the end of the list or tried more often than the retries allow.
EvTypeOK ==
  /\ \A s \in EvalSets : ckpt[s] \in {None} \cup 1 .. size(s)
  /\ prog # None /\ prog.set # None =>
       /\ prog.attempt \in 1 .. MaxRetries + 1
       /\ prog.item \in 1 .. size(prog.set) + 1
       /\ Len(prog.fails) + Len(prog.errors) < prog.item
       /\ prog.consecutive <= Len(prog.errors)
       /\ prog.consecutive < BreakerThreshold
  /\ past.exit \in {None, 0, 1, 2}

\* A verdict of the nightly gate is earned: it passes or fails the model only
\* when every case of every set it was asked for has been answered, and a model
\* that gave the reply each case asks for is never failed.
VerdictEarned ==
  prog = None /\ past.who = "job" /\ past.exit \in {0, 1} =>
    /\ past.left = 0
    /\ past.exit = 1 => past.flawed

\* One reply in the dangerous direction anywhere in the run is enough: the
\* gate does not pass, whatever the retries, errors and other cases did.
HarmIsGated ==
  prog = None /\ past.who = "job" /\ past.exit = 0 => ~past.harmed

\* A checkpoint is evidence: it is on disk between runs exactly for the sets
\* whose last measurement by the job died or broke after one was due.
CheckpointIsEvidence ==
  \A s \in EvalSets : (prog = None \/ prog.set # s)
                        => (ckpt[s] # None <=> past.ends[s] = "late")

\* The breaker opens for a failure of the whole service only: the last
\* BreakerThreshold cases got no answer at all.
BreakerIsSystemic ==
  past'.broke /\ ~past.broke =>
    \A i \in prog.item + 1 - BreakerThreshold .. prog.item : replies[i] = None

\* A baseline file holds what its name says, measured to the end: every case of its set,
\* its spelling of the queries and, where the set depends on it, its role.  The name says
\* nothing of the memory block, the re-ranker and its mode: see BaselineIsPlain.
BaselineMatchesName ==
  \A p \in DOMAIN base :
    /\ base[p].errors = 0 /\ base[p].n = size(p[1])
    /\ base[p].dang_go = p[3]
    /\ p[1] \in SENSITIVE => base[p].role = p[2]

\* No baseline is overwritten by a measurement with a memory block (run_eval.py:1483: a
\* hard block, not left to the discipline of whoever runs it).  Refuted: the line that
\* refuses the pair stands behind another refusal and is never reached.
BaselineIsPlain == \A p \in DOMAIN base : base[p].memory = None

\* The gate judges the model, by every case and never in favour of a dangerous
\* reply (eval_gate.py:94).
VerdictIsJust == EvTypeOK /\ VerdictEarned /\ HarmIsGated

\* What a run leaves behind tells what it did: its checkpoints, its breaker and
\* its baselines (resilience.py:39, run_eval.py:102).
FilesAreEvidence ==
  [][(CheckpointIsEvidence /\ BaselineMatchesName)' /\ BreakerIsSystemic]_ev_vars
=============================================================================
