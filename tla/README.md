# Verification of the YOUdoo assistant

The repository is an assistant that answers questions about an Odoo ERP and
writes to it after the user confirmed: a FastAPI backend (`backend/src`) runs a
LangGraph graph per conversation, calls language models through a router, reads
the ERP directly and writes through MCP processes (`mcp-servers/odoo`, one per
role). Postgres holds what is left over: user memory, the documents of the RAG
index, the mirror of Odoo's names, the usage ledger of the models, the audit
table, the log of vision calls.

This directory holds TLA+ modules of it, the TLC runs that check them and
TLAPS proofs of what matters most.

## 1. Inventory

| Part | State | Operations | Interacts with | Hard behaviour | Correct when |
|---|---|---|---|---|---|
| **Conversation thread** `agents/erp_agent.py` | checkpoint of a thread (channels, next node, pending question, answers) | `chat`: fresh turn, reply, expiry, re-ask | graph, checkpointer | two requests of one thread; stop between checkpoints; an exception leaves the thread half-way | a reply answers the question the user saw; every request ends |
| **Planner, executor** `nodes.py` | `pending_action`, `confirmed`, `auto_chain` | plan with an LLM, gates, ask, call the tool | registry, gate, MCP tools | the node re-runs at resume and asks the LLM again | only what was confirmed is written |
| **Write coordinators** `create_order.py`, `invoice_write.py`, ... | none between runs (interrupt answers only) | look up, disambiguate, draft, confirm, write | ERP reads, MCP tools | replay over an ERP that changed; optional interrupts | the draft shown is the draft written |
| **Continuation** `continuation.py` | `last_write`, `auto_chain` | go on with the declared chain or end it | registry | stale handle, partial failure in a chain | a step runs once, on the record just written; money steps ask again |
| **Write registry** `write_registry.py` | constant tables | `expand_chain` | planner, continuation | steps that bring steps of their own | the chain shown is the chain that runs |
| **Write gate, rate limit** `write_gate.py`, `odoo_call.py`, `rate_limit.py` | two 5 s caches of the toggle, the window of a tool | read the toggle, fail closed, count | Odoo, Postgres | slow and overlapping reads fill the caches | a flip is obeyed once the TTL of what is cached is over, and by every read begun after it |
| **MCP write tools** `mcp-servers/odoo/tools/` | none; a document in Odoo | some thirty tools, each a fixed sequence of Odoo calls | Odoo | any call faults, loses its answer or asks for a wizard; no transaction | what the answer says happened, a retry repeats nothing |
| **Mail flow** `mail_write.py`, `tools/mail.py` | a draft in Odoo | preview, send, discard | coordinator, Odoo's queue | draft left behind, second draft at replay, a stop in the node that sends | sent only what was agreed to, once; the answer says what became of it |
| **LLM router** `llm/` | ledger rows, cool-downs, key ring | `invoke`, `ainvoke`, `resolve`, `record`, `rotate` | providers, Postgres | concurrent calls between check and record; time-outs | no answer lost, quota kept, tokens accounted |
| **Audit chain** `event_log.py`, `audit_chain.py`, `verify_audit_chain.py`, `erp_query/audit.py` | `mcp_call_log`, two locks | append a chained row, append a read row, verify | three MCP processes and the backend | interleaving, death inside the transaction | verify accepts exactly the untouched table |
| **User memory** `user_memory.py` | versioned facts | save, forget, list | chat, Postgres | concurrent saves: unseen inserts, lock order, the cap | one active fact per key, a sound audit trail |
| **Routing, reading turn, fan-out** `routing.py`, `fanout.py`, `synthesis.py`, `main.py` | the thread's channels, the anchor of a write suggestion | propose and veto a route, run two legs, join them | LLM, RAG, ERP, client | a turn dies between legs and join; histories that are edited | the join speaks of this turn; a yes agrees to the answer before it |
| **RAG ingest** `rag/ingest.py`, `convert.py`, `embed.py` | documents, chunks, converted copies | hash, convert, read, embed, replace | soffice, embedder, Postgres | files saved meanwhile, overlapping and killed runs | an unchanged hash means unchanged chunks; nothing is lost |
| **RAG retrieval** `rag/retrieve.py`, `visibility.py`, `reranker.py` | none; the reranker's model | legs, fusion, re-rank, shadow search | Postgres, cross-encoder | re-ingest between two statements, a dying reranker | a role is answered from its documents as if there were no others |
| **Page reading, vision** `rag/parse.py`, `ocr/vision.py`, `call_log.py` | call counter, key ring, log | read pages, ask the vision model, log | provider, Postgres | cap checked before a loop of calls; a store that fails | no page silent, every call logged |
| **Arithmetic gate** `ocr/so_hoc.py` | none | derive, match and evaluate sums; judge rows | page reading | absent, unreadable and misread cells | a misread row is not verified, a true one not thrown away |
| **Index of names** `erp_query/sync_index.py`, `semantic.py`, `resolve.py` | index rows | sync, delete vanished, resolve a name | Odoo, Postgres | products change during a sync and during a resolution | the index mirrors Odoo; two fits are asked about (section 4 has the exception) |
| **Jobs, evaluations** `backend/jobs`, `evals/run_eval.py` | checkpoints, baselines | retry, breaker, resume, score, gate, save a baseline | models | killed and resumed runs; options that share a file | the verdict is about the model, files are about what their names say |
| **Skills** `skill_loader.py`, `agentic_gate.py` | tool loop of a procedure | run a procedure, ask before its writes | planner | stops between question and answer, look-ups that are replayed | a yes writes the call it was given to, once |
| **Roles, handoff** | role of a thread | gate a tool, hand over | planner | gates in different places | a role never runs what it may not |
| OCR engine, ERP reads and transport, access checks, prompts, tracing, scripts | -- | -- | -- | -- | left to their tests |

`PROJECT.json` lists the parts with their files and what of each is modelled,
and under `hazards` the lines where this code is hard to test.

## 2. Plan

Order: what writes to the ERP first, then what every request depends on, then
what is stored and read, then what measures it.

Done:

1. `WriteRegistry`, `WriteFlow`, `ConfirmedWrites`, `WriteFlowRefinement`;
2. `LlmRouter`, `AuditChain`, `UserMemory`;
3. `Coordinators`, `MailFlow`, `Gateway`, `OdooTools`, `EntityIndex`: what
   surrounds a write;
4. `SkillLoop`: the second way to a write, through a procedure;
5. `Routing`, `Turn`, `Ingest`, `Retrieval`, `PageReader`, `PageArithmetic`,
   `EvalJob`: what a turn reads, and the jobs;
6. proofs about all of these but `WriteRegistry`, `Routing` and
   `PageArithmetic` (section 6).

Left:

1. `Roles` (the gates of a role in the planner, the executor, the procedures and
   the MCP process), composed with `WriteFlow` and `SkillLoop`;
2. the coordinators of `Coordinators` inside the conversation of `WriteFlow`,
   as a refinement of its one coordinator.

## 3. Modules

### ConfirmedWrites, WriteFlow, WriteFlowRefinement

`ConfirmedWrites` says what the write flow promises in two actions: the user
agrees to a question, and the ERP then receives something that question showed.
`WriteFlow` is the code. Its state:

| variable | code |
|---|---|
| `ckpt` | latest checkpoint of the thread: `next`, the four write channels of `ERPAgentState`, the pending interrupt with its answers; `late` is the question's `expires_at` in the past |
| `run[r]` | one `ERPAgent.chat` call: where it is (`pc`, `node`), its copy of the channels, the value it resumes with |
| `erp` | what a coordinator's look-ups return now: several candidates or one, and a price |
| `gate` | the write toggle |
| `log`, `said` | writes received by Odoo; replies taken as a yes or a pick, with the question they were read against |

| action | code |
|---|---|
| `ChatFresh`, `ChatNotParked`, `ChatExpired`, `ChatReply`, `ChatReask` | the branches of `_chat_inner` (erp_agent.py:396-489) with `_is_parked` and `_decide_resume` |
| `Resume`, `Finish`, `Invoke`, `Commit`, `Park` | `graph.ainvoke(Command(resume=...))` and what LangGraph does around a node: checkpoint at its end, an interrupt that parks it, replay from the first line with the stored answers |
| `Router`, `Planner*` | `make_intent_router_node`, `erp_write_planner` |
| `Executor*` | `erp_write_executor`, split at the tool call |
| `Coordinator*` | `order_node` of `create_order.py`, the pattern all coordinators share |
| `Continuation*` | `write_continuation` and the edge after it |
| `Expire`, `ToggleGate`, `ErpChanges`, `Raise`, `Die` | time, the administrator, other ERP users, an exception, a restart |

`Resume` reads the checkpoint *again*: `chat` classifies the reply against the
snapshot it read before, with an LLM call in between and no lock per thread.

`Faults` names what the environment may do wrong, so that each run says under
what its properties hold: `replan` (the LLM answers differently when the parked
planner is re-run), `raise`, `die`, `overlap` (a second request of the thread
while one runs), `drift` (the ERP changes while a question is pending).

### WriteRegistry

The real tables, and `expand_chain` as a recursive function of the number of
steps. `MCWriteRegistry` compares it with reachability over the graph of
follow-up steps for every pair of tools. The excerpts of the registry used by
`MCWriteFlow` are cut from it, so a change of the registry changes those runs.

### LlmRouter

Concurrent `Router.invoke` / `ainvoke` calls (`call[c]`), each a loop
resolve - send - response - record, over the shared ledger (`rows`), cool-downs
(`rest`) and key ring (`key`). Each `await` or blocking call of the code is a
boundary between actions. `chain_for` is the preference order of catalog.py.
`tried`, `paid`,
`began` and `when` are history.

### AuditChain

`log_mcp_event` as five steps between its two locks (`Enter` takes `_db_lock`,
`TakeLock` the advisory lock, `ReadTip`, `Insert`, `Commit`), `Fail` for every
exception path (rollback, connection dropped), `Die` for a process. `LogRead`
and `CommitRead` are the backend's unchained insert. `verify` is
`verify_audit_chain.verify`, and `Hash` is any function; the runs use the pair
of its arguments, which no two different rows share. A row's `event` stands for
all hashed fields, its `chained` for `entry_hash IS NOT NULL`.

### UserMemory

`save_fact` and `forget_fact` of one user, statement by statement: `Insert`,
then for each UPDATE a scan (`ScanOlder`, `ScanBeyondCap`, `ScanKey`) that fixes
the candidates in the statement's snapshot, `Rewrite` once per candidate, and
for forget_fact the second UPDATE, `Retire`. `rows` is what is committed,
`tx[s].mine` what session `s` has locked and written. The module states what
READ COMMITTED does, since the code relies on it: an uncommitted insert is
invisible, a held row is waited for, a row that changed is tested again against
the WHERE -- which for the trim is a test on the id, so that it always holds --
and Postgres aborts one of several deadlocked transactions. `Fail` is every
exception: rolled back, and swallowed by `_apply_memory_markers`. A save and a
forget of one answer are separate transactions, so a session is a sequence of
them. Users do not share rows; one user is modelled.

### Lists

What the code does with lists again and again, written so that one can reason
about it (a recursive function instead of a RECURSIVE operator, a count instead
of a comparator): `Within` is a comprehension with an `if`, `Sum` is `sum`,
`First` is `[:k]`, `ByOrder` is `sorted`, which puts at a place the member with
that many ahead of it. `LlmRouter`, `EntityIndex` and `Retrieval` use them.

### Coordinators

All the write coordinators, each by its look-ups in order (`LookUp` with a mode:
several candidates are asked about, refused, or the exact name decides), what
must hold before it shows a draft, and what it writes. A node is an operator
(`OrderNode`, `CloseActivityNode`, `CreateMoNode`, ...) that walks its look-ups
with the stored answers by position, exactly what LangGraph's replay does;
`Stops`, `AsksPick`, `AsksConfirm` and `WritesDraft` are the four ways a run can
end. `Replies` is the resume of `_decide_resume`, `Drifts` another user of the
ERP, `Toggles` the administrator. `WriteFlow` has one generic coordinator inside
the conversation; this module has all of them inside one turn.

### MailFlow

The two nodes of `mail_write.py` and the three tools of `tools/mail.py`, one
Odoo call per action: `Preview` makes the record in the state `cancel` or fails
after it, `AskToSend` parks, `AnswerMail` runs the second node again from its
first line, `Flip`, `SendCall` and `ReadBack` send. `MailCron` is Odoo's queue,
`MailAsked` a new request, also over an abandoned question. `MailStops` is a stop
of the process inside a node: the checkpoint still has that node scheduled with
the pending action it began with (`MailHalts`), the thread counts as parked, and
the next answer, whatever it was meant for, runs the node again (`Parked`). A
question that was recorded counts as shown; a tool call whose caller died is over
by the time the user answers again; requests of a thread do not overlap here
(`WriteFlow` has that).

### Gateway

The way of one write through the toggle's cache in the backend, its second cache
in the MCP process, the rate limit and the call. A read of the toggle begins,
is answered by Odoo (or fails) and ends in three actions, and the cache keeps
what it saw for `TTL` from the moment the read *began*. Reads take any time: the
backend's transport waits 30 s (transport.py:17), the MCP process has no time-out
(odoo_call.py:85). `flipped`, `failed` and `sent` are history. `check_rate_limit`
reads the clock just before it takes its lock (rate_limit.py:14); the model does
both in one step.

### OdooTools

Every write tool as its program: the sequence of the steps its lines make
(`Find` a document by number and state, `Resolve` a name, `Do` an effect, `Ask`
for one that may answer with a wizard, `Check`, `Tell`, `Restore`, `Validate`).
Two calls of different or equal tools run on one document, one Odoo call per
action; `Fault` refuses, `Lost` carries out and loses the answer, `Others` are
people in Odoo. What an Odoo method does to a document is external and as weak
as the code's own gates assume, but no method takes a document back to a state
before the one it is in (`Advance`). `Answers` is the envelope: `ok`, a plain refusal,
a wizard, "left behind", "may be unfinished".

### EntityIndex

The mirror of Odoo's products (`StartSync`, `FetchPage`, `EmbedAll`, `Upsert`,
`DeleteVanished`, `SyncDies`) and the resolution of a name in front of a write:
Odoo's own search, the index, verification of the extra candidates in Odoo, the
cross-encoder's ranking and the decision whether to ask (`ResolveName`,
`Semantic`, `Verify`, `Rank_names`, `Answer_with`). Products are edited between
any two steps.

### SkillLoop

A procedure (SKILL.md) runs as a graph inside the graph: a loop of model and
tool steps with its own checkpoint (`loop`), while the outer checkpoint keeps
the question asked last (`asked`) until the node is done. `request` is one
`ERPAgent.chat` call: the value it resumes with waits for the first interrupt
the loop reaches (`Consumed` hands it out once), in whichever tool that is.
`ModelCalls` picks any tool of the procedure; `GateAsks`, `GateRefuses`,
`GateWrites` and `GateRaises` are the gate around a write tool, `GateMissed` the
look-ups of `create_discount_quote`, which are made again on every replay;
`OutOfSteps` and `LoopFails` leave loop and question where they are. `ContextSync`
is the node behind the loop. `saved` is history.

### Routing, Turn

`Routing` has the two layers of the router as operators: what a proposal parses
to, and the deterministic veto. `Turn` is the turn that reads: which thread the
client's history leads to (`Say`, `OpenAgain`, `Rewrite`, `TaskPrompt`), whether
a parked question is resumed, the route, the nodes that answer, and `mixed` with
its two legs, the join and the four cases of `fuse_answer`. A thread remembers
the channels of its checkpoint; each is modelled by the turn it was filled in.
Turns fail, die between any two nodes, and answers get lost on the way.

### EvalJob

`run_resilient` (retries, breaker, checkpoint), every evaluation of
`run_eval.py` that the nightly job or a baseline uses, the gates of
`eval_gate.py`, baselines and their file names, exit codes. A reply is a record
of what its score looks at: `eval_confirm` is the order of two tests on a string
that may contain both words. `Ideal` and `Harmful` say of a case which replies
are wanted and which are dangerous; properties use them, the job does not.
`IsCase` says what a case list is taken to be: each case asks for something its
own set can score.

### Ingest

A run of `ingest_path`, line by line (`Take`, `Convert`, `Soffice`, `Hash`,
`Select`, `Read`, `Embed`, `Replace`, `Commit`, `Finish`); `Woken` is Postgres
letting a waiting transaction go on, `Exit` a kill. `disk` counts a file's
versions and a hash tells versions apart; `docs[f]` keeps the version its hash
is of and the version its chunks are of.

### Retrieval

`retrieve` with its statements one by one: each leg of each query (`Search`),
the cross-encoder in both modes (`Rerank`, `NoRerank`), the shadow search
without the filter (`Shadow`) and the signal. What matches a query, in which
order, is an input; the votes of reciprocal rank are computed over a common
denominator. `Reload` is an ingest between two statements.

### PageReader

`parse_pdf` as a walk over the pages of several documents, with the text layer,
OCR, the trigger's decision and the vector tables of a page as inputs, and the
`VisionReader` behind it: cap, keys, outcomes, the call log whose store may fail
at any moment.

### PageArithmetic

The gate of `so_hoc.py`: constraints from form tables, printed formulas and the
hierarchy of row labels, their evaluation with absent and unreadable parts, the
structure check, `classify_rows`, `select_form`, `assess_page`, and the
note pages of `rag/parse.py`. Actions read a printed page row by row and make
mistakes (`Misread`, `LeaveOut`, `ReadTwice`, `Misplace`, `Ragged`); `Assess`
judges. The walk over rows is a fold, checked against a definition by position.

### MCShared, MCWriting, MCKnowledge

Three runs that put several of these modules side by side. The parts share no
state in the code either (they meet in Odoo and Postgres, which each module has
as its environment), so `part` chooses one of them and the others keep one
initial state: the state space is the sum of the parts, not their product, and
each property speaks of one part. A property of such a run is the conjunction of
the named definitions above it in its module.

## 4. Runs

Passing runs:

| run | what it shows | bounds |
|---|---|---|
| `calm` | Types; every write was shown and agreed to; `WriteFlow` implements `ConfirmedWrites`; every request is answered | five tools of the sale chain, one request at a time, three turns, two prices |
| `unsteady` | A no or a late reply writes nothing, and `last_write` never outlives the continuation that reads it, even when the LLM changes its mind and nodes raise | two tools, four turns |
| `hostile` | Nothing is written before the user agreed to something; money steps come from a draft | two overlapping requests and all faults, three turns |
| `shared` | Model calls: an answer that came is never dropped for an exception; reported tokens are the charged ones; every call ends. Audit chain: it never forks; verify accepts what the MCP processes alone wrote and rejects it after an edit or a removal; no thread waits for ever on the two locks | two calls that meet on one model with a ring of two keys, a chain of two models, ledger may be down, answers may be empty, one tick; three threads, two processes, one backend thread, four rows |
| `memory` | The audit trail stays sound; versions of a key and facts beyond the cap are overrun by the number of concurrent chats at most; a transaction alone on its key does what it announces; every transaction ends | two sessions, two keys, cap 2, four inserts |
| `writing` | `DraftIsWritten`, `RepliesKeepPlace`: drafts and replays of every coordinator. `MailKeepsWord`: only a mail agreed to leaves, and what the user is told of it is true. `ChainIsDeclared`: `expand_chain` over the whole registry. `ToggleTakesHold`, `WindowsHold`: toggle and rate. `AnswersAreTrue`, `GatedOnce`: what a tool answers, and retries. `MirrorHolds`, `NamesAreSafe`: index and resolution. `SkillsKeepGate`: the writes of a procedure and what the next turn is told | two records, one change of the ERP; two mails, two flips, any number of stops; two writes, TTL and window 2, three ticks, reads of any length; every pair of tools on one document with one change by others; three products, pages of one, at most three candidates for a name; three procedures, two orders, three requests of three steps, one change of prices |
| `knowledge` | `JoinIsThisTurns`, `AgreementIsMeant`: the join and the yes. `CorpusIsTrue`: ingest. `AnsweredByRole`: retrieval. `CallsAccounted`, `PagesTold`: pages and vision calls. `SumsDecide`: the arithmetic gate. `ChainIsWalked`: a model is asked again only after a cool-down, ChainExhausted leaves out no more models than were asked again, overdraft of one request per concurrent call. `VerdictIsJust`, `FilesAreEvidence`: jobs and baselines | three messages; two ingests of a file with two versions; four documents, pools of three, one re-ingest; two documents of two pages, two keys, cap 1; five printed pages, two mistakes; two calls, time-outs of two ticks, cool-downs of one (error) and two (429), two ticks, day quota 1; two processes, two or three cases a set |

The bounds let every branch happen. Two replies to two different questions need
three turns, a fault between two questions a fourth; a chain needs a middle step
that runs unasked and an end that asks, which five tools of the sale chain have;
an overdraft needs two calls and a quota of one; a fork needs two writers in two
processes, a third thread to queue behind `_db_lock`, and a row after it; in the
user memory, three versions of a key exceed the bound for two sessions, and the
cap of 2 with four inserts lets both transactions trim the same row. A cached
toggle is stale only if a read began before a flip and ended after it; with a TTL
of two, three ticks allow that, another write's read in between, and a read that
lasts longer than the TTL. A key ring is reset under a call only if another call
is on the same model's ring, which needs two keys: the second call is pinned to
the last model of the first one's chain. A model is asked again only if its
cool-down ends before the next link has failed: with time-outs of two ticks and
an error cool-down of one, two ticks are enough, also for a call that then leaves
a link out. A stop is told from a turn that was abandoned by what the next answer
does with the old mail; a second mail is the one it must not touch. Two
calls of a tool on a document with one foreign change are what a retry needs. A
page-wise fetch misses or meets a product only if there is more than one page.
A yes that meets another
call's gate needs a step before it and one after it in the same request, which
three steps allow. A join with leftovers needs a turn that died and one after it; an edited history
a third message. An ingest that stores an old hash needs a save between two of
its lines, and a second run for the unique key. `Leg` and the shadow search
differ only when hidden documents would fill a pool: three places, four
documents. The cap is passed only with a second key. In `knowledge` a command
line names one file, so that the product of files does not grow; two runs still
meet on it.

`MaxTurns`, `MaxWrites`, `MaxChain`, `MaxTime`, `MaxId`, `MaxDrift`, `MaxMails`,
`MaxToggles`, `MaxOthers`, `MaxEdits`, `MaxLooks`, `MaxRuns`, `MaxVersion`, `MaxSteps`, `MaxRequests`, `MaxShifts`,
`MaxReloads`, `MaxPages`, `MaxDocuments` and `MaxFaults` are the named bounds;
`MaxWrites` is never reached in the liveness run. Deadlock is not checked where
a bound ends a behaviour.

Runs that find a disagreement between the code and what it says of itself
(`findings` in `PROJECT.json` quotes both):

| run | what happens |
|---|---|
| `drift` | The candidates of a question shrink to one while the confirm is pending: the replayed coordinator reads the stored pick as the yes, and writes after a no |
| `overlap` | A yes is stored as the answer of a money question that is only asked later |
| `untried` | A failed link is affordable again before its successors timed out: it is asked twice, and the last link never |
| `readers` | A read row becomes the newest row, the next write restarts the chain, verify says "broken" |
| `overwrite` | `run_eval` of a set with `--memory` and `--save-baseline` is accepted: the refusal behind it is never reached, and the baseline the nightly job compares with is replaced by figures measured with a memory block |

The same modules show more. With the `Return*` definitions of `MCWriteFlow`,
`ApprovedWrites` fails without any fault: the question of `return_order`
(returns_write.py:96) does not show `validate_picking`, which then runs unasked.
`OneActive` of `UserMemory` fails in the configuration of `memory` (two
overlapping saves of a key leave two active versions until its next save;
save_fact's docstring says it supersedes every older version), and so does
`TrailKept` (a trim rewrites the `superseded_by` that an overlapping save has
just set). With other values of `Faults` in the `drift` configuration:

- `{"replan"}` and two `Args`, `ApprovedWrites`: the parked planner asks the LLM
  again (nodes.py:405), and the yes to one plan executes another;
- `{"raise"}`, `ApprovedWrites`: a node raised, the thread counts as parked
  (erp_agent.py:114), the next yes answers a question nobody saw;
- `{"die"}`, `NoMeansNo`: the process stops after the yes was stored and before
  the executor ran; the next no resumes the executor, which writes;
- `{"drift"}`, `ApprovedWrites`: a price changed while the draft was on screen.

What the properties of the other modules had to leave out, because the code does
not give it (each is visible in the guard or the comment of the property named):

- `DraftIsWritten` holds while nobody else changes the ERP; with a change, the
  replayed coordinator writes the new draft (as in `drift`).
- `RepliesKeepPlace` has a pick not taken for a yes for `close_activity` only,
  which wants a `True`; every other coordinator
  takes any stored answer that is not a no (the finding of `drift`).
- `MailKeepsWord` leaves out mails over which the process stopped, since the
  checkpoint then runs the second node again on a mail it has worked on
  (erp_agent.py:447-473). TLC finds three ways without that exception. The stop
  comes after the record was made `outgoing`: the next reply is a no, the discard
  fails or finds the mail gone out through the queue, and the user is told that it
  is cancelled. It comes after `send()`: a yes sets the sent record `outgoing`
  and sends it again, a no deletes it. It comes between the checkpoint of the
  preview and the question: the thread is parked, and a yes meant for anything
  else sends a mail nobody was shown. What holds without exception is that no mail
  leaves before somebody said yes to its thread, and what `ReadBack` reports.
  "Sent" is also said of a mail left in the queue (mail.py:179-183).
- `ToggleTakesHold` does not bound a write whose own read was slow: Odoo may have
  answered "on" before the flip, and the answer arrive any time later; the
  docstring speaks of a value "đọc được trong TTL" (read within the TTL,
  write_gate.py:38). What a cache lets through is at most `TTL` old however long
  the read that filled it took, since the entry's time runs from the read's start.
- `ChainIsWalked` says of a repeated link what is true of the code, not that none
  is: that is `RaisedTriedAll`, refuted by `untried`.
- `AnswersAreTrue`: converting a lead wipes its customer; a failure between the
  conversion and the write that puts it back is told, but a retry cannot heal it
  (crm.py:83-95). `create_bill_from_po` can leave a bill without its date.
- `SkillsKeepGate`: the gate says that a write is reached only past its own
  confirm (agentic_gate.py:3). Two ways lead around that. When the loop is
  stopped by the recursion limit or an exception, the question asked last stays
  with the thread although the loop has gone on; the next yes answers it and is
  read by the next gate the loop reaches, whose question nobody saw. And when the
  replay of a quotation drops the call (a name that matches two products by now,
  a failed look-up), the yes is still waiting and the next call takes it. The
  property leaves out these two (`left`, `missed`), and a quotation whose price
  was read as 0 or changed between question and answer.
- `GatedOnce` does not speak of tools without a state gate: `create_credit_memo`
  makes a second refund when asked again, overlapping calls of
  `update_vendor_pricing` make two price rows. `register_payment` lets
  `in_payment` through its own gate; Odoo's wizard stops it.
- `MirrorHolds`: a sync that fetches nothing keeps rows of products that are gone
  (by design, sync_index.py:59); a page that comes back empty in the middle would
  delete live rows, and the runs take pages to be true.
- `NamesAreSafe` leaves out one case of two products with the very name the user
  said. When a third product leads the cross-encoder's order by the gap,
  `needs_disambiguation` is false (resolve.py:112-122), and the caller takes the
  first exact name (resolve.py:156, create_order.py:41): neither the product that
  led nor a question. The property is also about the names of writes only: a
  recipe question takes the first match (mrp.py:36).
- `AgreementIsMeant` holds for a client that sends all it was shown: the anchor
  of a suggestion is a length, which an edited history can have too.
- `CorpusIsTrue` leaves converted files out of `UnchangedIsTrue`: such a file is
  hashed before soffice reads it and again after (ingest.py:129 and :147), so a
  save in between stores the old text under the new hash and it is not read
  again. Two overlapping runs may also put an older version back until the next
  run. Nothing in the running program reads `rag_embedding_marker`: a change of
  the provider is noticed by tests only.
- `AnsweredByRole`: a re-ingest between two legs puts one document twice in the
  pool.
- `CallsAccounted`: the cap is per document, though its name says per ingest
  (vision.py:44 and :239), and the keys after the first may pass it.
- `SumsDecide`: a misread code, or a number misread as a dash while a part of its
  sum is left out, can still end verified (so_hoc.py:425); a sum derived from the
  hierarchy may reject true rows when a part is left out, and `assess_page`
  derives it for every page without a form table, though its docstring speaks of
  one form only.
- `FilesAreEvidence` asks of a baseline what its name says: the set to the end,
  the spelling of the queries and, where the set depends on it, the role. The name
  says nothing of the memory block, the re-ranker and its mode (run_eval.py:102),
  and the runs save baselines with and without them; `BaselineIsPlain`, that
  no block is behind a baseline, is what `overwrite` refutes. `--baseline` with chitchat, multiturn or memory ends in
  a KeyError; the runs leave these out.

## 5. Fairness

`WriteFlow` and `LlmRouter` assume weak fairness of the steps of a run or call
that was taken: the event loop runs its tasks, every client has a time-out, and
a response step is always one of the three outcomes. Nothing is assumed of the
user, the ERP, faults or the clock. `AuditChain` assumes weak fairness of the
statements inside the transaction and strong fairness of the two lock
acquisitions: Postgres queues lock waiters, and CPython's lock wakes one of
them; a thread is not assumed to fail. `UserMemory` is the same: weak fairness
of the statements and of the deadlock detector, strong fairness of taking a row
lock, nothing about new transactions or failures. `writing` and `knowledge` have
safety and action properties only: their parts have no loop that could go on for
ever without a bound of the code itself (retries, keys, pages, questions), and
those bounds are safety properties (`QuestionsBounded`, `CapHolds`).

## 6. Proofs

TLAPS checks the theorems for all values of the constants, the runs one
instance each. The theorems of a component extend its module:

| module | about |
|---|---|
| `WriteFlow_proofs` | types of the write flow, money steps, the uninvited write: all faults; then one request at a time: handle, no, refinement, approval |
| `Writing_proofs` | `Gateway`, `SkillLoop`, `MailFlow`, `Coordinators` |
| `OdooTools_proofs` | `OdooTools` |
| `Turn_proofs` | `Turn`, `EvalJob` |
| `Choices_proofs` | `LlmRouter`, `EntityIndex`, `Retrieval`, and lemmas about `Lists` |
| `AuditChain_proofs`, `UserMemory_proofs` | the module they are named after |
| `Documents_proofs` | `Ingest`, `PageReader` |

### The write flow, all faults

`TypeInvariant` is inductive for any registry, number of requests and all
faults. It is `TypeOK` strengthened by what the nodes rely on (a writing node is
only scheduled with a pending action, `Handle` reads it). `TypeCorrect`,
`MoneyNeedsDraft` and `NothingUninvitedHolds` follow with one strengthening
each: for the money steps, that a plain executor's pending tool is never one of
them unless it is a coordinator's; for the uninvited write, that a truthy value
in any channel, answer list or resume value implies that `said` is not empty.
They use `ToolAssumption` (money steps have a coordinator), `NoneAssumption` and
`AnswerAssumption` (a pick is not a yes).

### The promise of the confirmation gate

Each level of this part of `WriteFlow_proofs` assumes less of the environment than the one
before it and adds a layer to the invariant:

| theorem | under | adds |
|---|---|---|
| `HandleAlwaysConsumed` | no overlapping requests; every other fault | `Serial`: one run at a time, standing on the latest checkpoint; a stored `last_write` has the continuation next |
| `NoAlwaysMeansNo` | also no death, no drift | `Certain`: where a run is says which answers it has (`Placed`); after a no nothing truthy is left to resume with (`Denied`) |
| `ProtocolSound` | no fault, `ChainsShown` | `Sound`: the question of a parked node is the one it would ask now, and the chain behind it is the shown one or stops at another question |
| `PromiseAlwaysKept` | the same | every step of the graph is a step or a stutter of `ConfirmedWrites` (`KeepsPromise`), for any registry, options and prices, and any length of chain |
| `WritesAlwaysApproved` | the same | every write on the log was in a question that got a yes (`ApprovedWrites`) |

The faults that are left out are those under which the property is false, as
the runs and counterexamples of section 4 show. `ChainsShown` says of the
registry that a step which runs unasked follows one whose question spells it
out. One row breaks it, `return_order`, which is a finding of section 4;
`RegistryShown` of `MCWriteFlow` has TLC check all other rows. The proof of the
refinement computes the abstract `agreed` step by step: what an answered
question leaves to do, minus what is done.

### Coordinators

`DraftAlwaysWritten` and `RepliesAlwaysKeepPlace`, for any candidates, figures
and number of changes by others. A run of any of the nodes is a function
`Outcome` of the plan, the ERP and the stored answers (`RunIs`), and what
follows is shown of that function. `OutcomeSound`: a run asks only while
there are answers to come, shows and writes records its look-ups offer, and
writes only on an answer its tool takes for a yes. `OutcomeFollows`: with one
answer more, a run that asked for a pick does not write, and one that asked to
confirm writes the draft it showed or nothing. With these `CoInv` is inductive:
while nobody changes the ERP, the open question is the one a run would ask now
and a run that is about to write has its draft agreed (`AgreedStands`); and
whatever they do, there is a question per reply and a yes leaves its trace
(`Counted`). The walk over look-ups is at most `MaxLooks` long and unfolded, not
recursive, which is what makes it provable. `CoordinatorAssumption`: no question
is the value that stands for none.

### Procedures, toggle, mail

`SkillsAlwaysKeepGate`, for any orders, prices, steps and requests. `SkInv` adds
to the property: types; a value waits only inside a request, and no write of
that request has used it (`Waiting`); it fits the question the thread holds
(`Classified`); unless the loop was stopped or the call dropped, the loop stands
at the call of that question (`Standing`); and its figure is the quotation's
until prices change (`Figured`). Lemmas say what the ways to end a step (`Goes`,
`LeftBehind`, `Ends`) and to begin a request (`NewRequest`) leave of it.

`ToggleAlwaysTakesHold`, for any number of concurrent writes, any TTL and reads
of any length. `GwInv` has four parts: shapes; that no read under way began ahead
of the clock and no entry is kept beyond `TTL` (`Paced`); that what a read has seen
was true of the toggle at some moment since it began, or the read failed
(`ReadsTrue`); and the same for a cached value since the read that filled it began
(`CachesTrue`). The last two are what makes it inductive: without the start of a
read the age of a cached value says nothing about when it was true. A check that
ends then used a cached value at most `TTL` old, or a read of its own
(`ChecksAreRecent`).

`WindowsAlwaysHold`, for any callers, window and limit: no interval of the
window's length holds more calls than the limit. `RateInv` adds that the list the
tool keeps has every call of the last window on it, whatever was thrown out on
the way. A call that is let through is one more than that list had, and every
interval that call lies in is part of the list as it is then.

`MailAlwaysKeepsWord`, for any number of mails, turns, stops and flips
(`MailAssumption`). `MlInv` adds `MailInHand`: for every step of the flow which
states the mail in hand can be in, that it was agreed to from the answer on, and
that a thread parked before its question has a mail the process stopped over. A
stop adds the mail to `mailStopped`, and it stays there when the node runs again,
which is what lets one invariant cover both runs of the node.

### Tools behind the gate

`OdooTools_proofs` is about the programs of all 31 write tools. `ToolsFit` is
what they have in common, shown program by program: an effect behind a state
gate comes after that gate, a check reads what was looked at before, a refusal
comes before any effect or reads it back, and everything a success names has a
step that does it. The invariants then speak of programs, not of tools:

- `GatedAlwaysOnce`: `OnceInv` says which calls have met (`MetOK`), what an
  effect leaves in the document for good (`Spent`), and that a call past its gate
  has met everyone who did the same effect (`Cleared`).
- `AnswersAlwaysTrue`: `TrueInv` says that each entry of the log is from a step
  its call has passed (`FromStep`), what the document witnesses about the log
  (`Witness`), and that the steps a call has passed did what they are there for,
  or may be excused (`Passed`).

The first attempt failed for a good reason: the model let the second of two
overlapping calls set an order back that a third had already completed, which no
Odoo method does and which two calls cannot show. `Advance` is the correction.
`OdooAssumption`: `MaxOthers` is a number.

### Reading turn

`TurnInvariant`, `JoinAlwaysThisTurns` and `AgreementAlwaysMeant`, for any
workers, procedures and number of turns. `TnInv` adds to the shapes that the
channels are empty while the legs of a fan-out run and hold just this turn's
findings at the join (`JoinFresh`), and that the anchor of a suggestion, a
length, points at the message that made it (`FlagPlace`). `TurnAssumption` keeps the names of procedures apart from
those of the nodes.

### Choices from ordered lists

`Choices_proofs` is about the three parts that walk a list in order: the chain of
models, the candidates of a name, the pools of a search. What a recursive
function over places computes cannot be proved by induction over an operator, so
the lemmas argue with a least number: where two lists built place by place differ
there is a first such place, and there they do not (`PlaceByPlace`). With it,
`Within` and `Sum` follow their lists (what an append adds, what a smaller set
leaves), and a sort by counting puts every member at one place (`SortedOnce`).

*Router.* For every chain, limits, number of keys and calls:

- `AnswerAlwaysKept`: the history of charged answers is tied to the list of
  dropped ones at every program counter (`ChargeInv`), and `GiveUp` raises only
  when that list is empty.
- `TokensAlwaysAccounted`: `AccountInv` says at every program counter which
  answers are charged by now, so that what is reported at the end is their sum.
- `ChainAlwaysWalked`, for any time-outs and cool-downs, also those under which a
  call asks a model again. `WalkInv` ties every attempt that is over to the clock:
  the model answered nothing, or rests until a cool-down after the attempt at least
  (`Over`), so that a second attempt comes a cool-down after the first (`AgainLate`).
  `ExcusalInv` says of a call that raised which models it did not ask: each was at
  rest or at a quota, or they are just as many as the attempts spent on models
  asked before. The first is what the ledger and the cool-downs keep true, the
  second a count: attempts are as many as links.
- `WalletsAlwaysBounded`: a wallet takes fewer
  requests beyond its day quota than there are calls. `OverdraftInv` counts the
  calls still able to charge it (`Pending`) together with the rows, so that a check
  made before others were recorded is paid for in advance.

The last two assume `LedgerKept`: the ledger answers (when it is down
the code lets every call through, budget.py:73), calls are finitely many, and a
day quota is positive and the same for all models of a wallet, where catalog.py
declares it.

*Index of names.* `MirrorAlwaysHolds` and `NamesAlwaysSafe`, for any products,
edits, page size, rankings and thresholds. `SyncInv` says of a sync under way what
has been fetched: every product that was there throughout, up to the last id read
(`Paged`), and all of them when the pages are through (`Read`); hence deleting the
rest deletes nothing that is still sold under that row. `NameInv` says that a
match was in Odoo under its name since the question (`OffersLive`), that one
product is one match (`Once`), and that the index's proposals are no matches yet
and fit in the candidates (`Proposed`). `EntityIndexAssumption` has Odoo's limit
within `MAX_CANDIDATES`, as in the code.

*Retrieval.* `AnsweredAlwaysByRole`, for any documents, classes, roles, queries,
rankings and switches. `RtInv` says at each statement what it has so far: after
`n` legs the pools are what those legs of the caller's own documents give, unless
an ingest came between (`SearchingAt`, `AfterLegs`); what is given comes from
these, in the order they alone give (`GivenAt`); and the shadow pool is the
unfiltered search of the present question (`ShadowedAt`). Lemmas: a leg with the
filter is the leg over own documents (the filter comes before the limit), fusion
keeps one entry per chunk, votes fall with the rank (`VoteFalls`), and so the blend puts
the chunk first that both its rankings put first (`VoteCounts`). `RetrievalAssumption` has
`TOP_K <= TOP_N`, scores that order the places, and the value for "no
restriction" different from a missing role.

### Evaluations

`VerdictAlwaysJust` and `FilesAlwaysEvidence`, for any case lists, command lines,
roles, retries, thresholds and kills. `EvInv` has these parts:

- `Placed`: where the loop stands in its list, and that the last `consecutive`
  cases, like those to come, have no reply; the breaker rests on it.
- `Kept`: the fail records are exactly the non-empty records of the answered
  cases, and sets of averages have a row for each of them. Figures are then
  counts of cases, and one bad reply cannot get lost behind retries or errors.
- `Owed`: the sets not measured to the end are those to come and the one under
  way; once a reply has harmed, `any_fail` is set; `any_fail` implies a reply
  that was not the one asked for.
- `CkptOK` and `BaseOK`: which checkpoints are on disk, and that a baseline
  counts its own cases under its own name.

Four lemmas go through the evaluations set by set: the reply a case asks for
leaves no record (`IdealIsClean`), a dangerous one leaves a tag its gate looks for
(`HarmIsTagged`), a measurement of ideal replies only is never failed whatever
the baseline (`IdealNeverFails`), one fatal tag is never passed
(`HarmNeverPasses`). `CaseAssumption` is what they need of the cases; without it
a case could ask for a reply that its set calls wrong, say a procedure no
proposal can name. `CommandAssumption` says which options exist, `NoneIsNothing`
that the missing value is no other, `LoopAssumption` that the limits are numbers,
threshold and interval not zero.

### Audit chain

`ChainInvariant` says that ids are handed out once, that only the holder of the
advisory lock is inside the transaction, that what a writer is about to commit
points to the head of the chain (or, after an unchained row, to genesis) and
comes after every chained row. `NeverForks` and `OwnRowsAlwaysVerify` follow.
The second holds as long as no row of the backend is in the table; the run
`readers` shows that this is necessary. Neither needs anything of the hash.
`ChangeAlwaysDetected` does, and has it as its hypothesis: `CollisionFree`, equal
hashes have equal arguments. The newest row may be removed unnoticed, and the
theorem says so. Its core is that a removed or edited row has a successor, the
chained row of least id above it (`LeastNumber`), whose link gives it away.

### User memory

`Inv` adds to `TypeOK` what a transaction may assume of the table while others
commit: the rows it holds keep their key, each points to nothing, to itself, to
its own uncommitted insert or to a committed version of its key, and its
candidates are rows of its key. Commits of others only add rows and never touch
held ones, hence `TrailAlwaysSound` and `TypeCorrect` (with one writer per row),
for any number of sessions and rows; the run leaves `TypeOK` to the theorem.

`OverrunsAlwaysBounded` is the count. What a snapshot of a session cannot see
are the facts that sessions committed after it, one each. `OverInv` has a set
`P[s]` of sessions for each session `s` that has chosen its victims: those that
committed since. What `s` will leave active is within the bound but for one fact
per member (`Overrun`); `s` itself is no member, so that the total stays below
the number of sessions. A session that starts again sees what was committed
before, hence counts once. It needs `SessionsAssumption` (the chats of a user
are finitely many). `AnnouncedAlwaysTrue` uses that a transaction alone on its
key sees all its versions from first to last statement, and that a row the trim
takes has `Cap` newer ones in the same snapshot.

### Documents

`CorpusAlwaysTrue`, for any files, versions and number of overlapping runs.
`InInv` relates for each run what it hashed, read and is about to store with the
disk, which only grows newer (`Ordered`), with the copies (`HasCopy`), with its
own three lists (`Split`) and with the table (`Current`); `OneHolder` says that
one transaction is open per document, and `AloneIsTrue` that a run no other
overlapped was alone. `NothingIsLost` follows from the transaction, the report
from `Current`.

`CallsAlwaysAccounted` and `PagesAlwaysTold`, for any number of keys, pages and
documents. `PgInv` adds to the properties what the page at hand may hold at each
place of the walk (`PageInv`), what a finished page holds (`PagesInv`), and that
an open call has a key and stands below the cap plus the keys used so far
(`CallInv`).

### Only model-checked

- All liveness, and every property of the runs that expect a violation.
- `ChainIsDeclared`: it is about the tables of `WriteRegistry`, which are
  constants, so that TLC's comparison of `expand_chain` with reachability for
  every pair of tools is complete.
- `SumsDecide`: the walk over the printed rows is a fold, and what it leaves of
  labels, codes and open groups after rows of any number is an induction over
  data. Five printed pages with two mistakes each are what the run covers.

## 7. What is not modelled

Within the modelled parts:
- `Raise` happens before a node's first interrupt consumes an answer; it also
  stands for LangGraph's recursion limit. A checkpoint is taken to be saved when
  the next node starts.
- The planner's deterministic gates (role, registry, grounding) are folded into
  "the plan after its gates"; chain steps carry the record they are about, not
  its fields. A coordinator inside `WriteFlow` has at most one pick before the
  confirm. A tool unknown to the executor is a call that reached nothing.
- Procedures, clarifying questions and their interrupts are not in `WriteFlow`; in
  `Turn` a procedure is a node that answers or parks. In `SkillLoop` the model
  calls one tool per message, and manifests are taken to be valid.
- `WriteFlow` reads the toggle without its caches, which are `Gateway`'s.
- In `LlmRouter` a tick is 15 s, in the part `calls` the cool-down after a 429 is
  cut from four ticks to two, the day window is
  longer than the run, and the token multiplier is part of `Need`.
- In `AuditChain` the loss of a commit's reply is the pair `Commit` (the row is
  in) and `Fail` (it is not): nobody reads the difference.
- In `Coordinators` the figures of a draft (price, stock, amount, quantity) are
  one value; in `OdooTools` an order has at most two transfers, and the fields of
  what a tool creates are left out.
- In `Retrieval` a document is one chunk, in `EntityIndex` the records are
  products, in `Ingest` an embedding is its length.
- In `Turn` a disconnected client of a stream leaves its turn running, as in the
  code; what the progress queue of that stream holds is left out.

Parts without a module, and why:
- OCR engine and table recognition: image processing with thresholds measured on
  scans, no state; `PageReader` takes its result as an input.
- ERP read tools and transport: stateless queries, formatting and I/O.
- MCP access checks: pure functions of a token and a table.
- Prompts, language, localisation: wording and text matching, which their tests
  compare string by string; tracing and token estimates likewise.
- Word, Excel and Markdown parsing, chunk boundaries, headers: functions of page
  layout, without a reference to check them against other than themselves.
- Roles and handoff have rules worth a module; section 2 has them next.
- Scripts, seeds, case texts: data.
