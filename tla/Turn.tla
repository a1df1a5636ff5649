--------------------------------- MODULE Turn ---------------------------------
(***************************************************************************)
(* One turn of a conversation on the way that reads: main.py hands over    *)
(* the history the client sent, ERPAgent._chat_inner picks a fresh run or  *)
(* the resumption of a parked one, the router chooses a node and the node  *)
(* answers.  `mixed` asks the documents and the ERP side by side and joins *)
(* the two in one answer (agents/fanout.py).  What a thread remembers from *)
(* turn to turn is the channels of its checkpoint; its messages are those  *)
(* the client sends again each time.                                       *)
(***************************************************************************)
EXTENDS Routing, Sequences

CONSTANT MaxTurns  \* bound: messages a user sends

\* The graph refuses a worker that has the name of another node; None is no length.
ASSUME TurnAssumption ==
  /\ MaxTurns \in Nat /\ None \notin Nat
  /\ Sops \cap (VALID_INTENTS \cup {"clarify_depth", "idle", "resume", "router", "legs",
                                    "fuse_answer"}) = {}

VARIABLES history,  \* what the client shows: user messages and answers
          thread,   \* the checkpoint's channels
          turn,      \* the turn under way and what came of it
          loose     \* history: the client once sent a history that was not all it was shown

tnVars == <<history, thread, turn, loose>>

\* confirm: the user's whole message is a yes; suggests: the answer proposed a write.
User(reply) == [who |-> "user", reply |-> reply, suggests |-> FALSE]
Ai(suggests) == [who |-> "ai", reply |-> "other", suggests |-> suggests]
Replies == {"confirm", "other"}
Messages == [who : {"user"}, reply : Replies, suggests : {FALSE}]
              \cup [who : {"ai"}, reply : {"other"}, suggests : BOOLEAN]

\* doc_context, erp_facts and doc_denied, each with the turn it was gathered in; 0 is None
\* or empty.
Channels == [doc_context : 0..MaxTurns, erp_facts : 0..MaxTurns, doc_denied : 0..MaxTurns]
Cleared == [doc_context |-> 0, erp_facts |-> 0, doc_denied |-> 0]
NewThread == [suggested_write |-> FALSE, suggested_write_at |-> None, parked |-> FALSE,
              join |-> Cleared]

\* what an answer rests on, whether it says that documents are withheld, and whether it
\* says that there was nothing.
Nothing_said == [uses |-> {}, denied |-> FALSE, safe |-> FALSE]
Idle == [n |-> 0, at |-> "idle", agreed |-> FALSE, docs |-> "not yet", erp |-> "not yet",
         said |-> Nothing_said]

TnTypeOK ==
  /\ history \in Seq(Messages) /\ Len(history) <= 2 * MaxTurns
  /\ thread.join \in Channels /\ {thread.suggested_write, thread.parked, loose} \subseteq BOOLEAN
  /\ thread.suggested_write_at \in {None} \cup 1..(2 * MaxTurns)
  /\ turn.at \in Targets \cup {"idle", "resume", "router", "legs", "fuse_answer"}
  \* an answer that suggests a write carries the anchor of its own length
  /\ thread.suggested_write => thread.suggested_write_at # None

TnInit == history = <<>> /\ thread = NewThread /\ turn = Idle /\ loose = FALSE

\* chat: a derived thread with one user message is a new conversation, what an older one
\* left under the same id is deleted; a parked thread takes the message as its answer.
Begin(messages) ==
  LET fresh == Len(messages) = 1
      kept == IF fresh THEN NewThread ELSE thread
  IN /\ turn.at = "idle" /\ turn.n < MaxTurns
     /\ history' = messages /\ thread' = kept
     /\ turn' = [Idle EXCEPT !.n = turn.n + 1, !.at = IF kept.parked THEN "resume" ELSE "router"]

Say(reply) == Begin(Append(history, User(reply))) /\ UNCHANGED loose
\* The user opens a chat with the words that opened this one: the same hash, the same thread.
OpenAgain(reply) == Begin(<<User(reply)>>) /\ loose' = FALSE
\* The user edits or regenerates a turn: the client sends the history up to it.
Rewrite(i, reply) ==
  /\ history[i].who = "user" /\ loose' = TRUE
  /\ Begin(Append(SubSeq(history, 1, i - 1), User(reply)))

\* Open WebUI asks for a title or tags under the same headers: answered without a thread.
TaskPrompt ==
  /\ turn.at = "idle" /\ turn.n > 0 /\ turn.said # Nothing_said
  /\ turn' = [turn EXCEPT !.said = Nothing_said] /\ UNCHANGED <<history, thread, loose>>

\* The answer goes out and the client appends it.
Answered_with(said, suggests) ==
  /\ history' = Append(history, Ai(suggests))
  /\ turn' = [turn EXCEPT !.at = "idle", !.docs = "not yet", !.erp = "not yet", !.said = said]
  /\ UNCHANGED loose
Flagged(suggests) ==
  [thread EXCEPT !.suggested_write = suggests, !.suggested_write_at = Len(history) + 1,
                 !.join = IF turn.at = "fuse_answer" THEN Cleared ELSE @]

\* The answer to a parked question: asked again, decided (and perhaps asked for more), or
\* found out of date, which drops the question and runs the message as a fresh turn.
Resume(outcome) ==
  /\ turn.at = "resume"
  /\ \/ outcome = "again" /\ Answered_with(Nothing_said, FALSE) /\ UNCHANGED thread
     \/ outcome = "decided" /\ \E more \in BOOLEAN : thread' = [thread EXCEPT !.parked = more]
                            /\ Answered_with(Nothing_said, FALSE)
     \/ outcome = "expired" /\ thread' = [thread EXCEPT !.parked = FALSE]
                            /\ turn' = [turn EXCEPT !.at = "router"] /\ UNCHANGED <<history, loose>>

Asked == history[Len(history)]
Route(asks, proposal) ==
  /\ turn.at = "router"
  /\ LET agreed == replying_to_write_suggestion(thread.suggested_write, thread.suggested_write_at,
                                                Len(history), Asked.reply)
     IN turn' = [turn EXCEPT !.at = decide_route(asks, proposal, agreed), !.agreed = agreed]
  /\ UNCHANGED <<history, thread, loose>>

\* rag and respond_unknown: the flag of an earlier turn is left alone, its anchor is to
\* make it expire.  rag says so when the best documents are withheld from the role.
Tell(denied) ==
  /\ turn.at \in {"rag", "unknown"} /\ (denied => turn.at = "rag")
  /\ Answered_with([Nothing_said EXCEPT !.denied = denied], FALSE) /\ UNCHANGED thread

\* erp_read: the flag and its anchor are written on every answer.
ErpRead(suggests) ==
  /\ turn.at = "erp_read" /\ thread' = Flagged(suggests)
  /\ Answered_with([Nothing_said EXCEPT !.uses = {turn.n}], suggests)

\* The ways that write, or that ask how deep to go: they end, or park a question.
Work(parks) ==
  /\ turn.at \in {"erp_write", "clarify_depth"} \cup Sops
  /\ thread' = [thread EXCEPT !.parked = parks] /\ Answered_with(Nothing_said, FALSE)

\* An exception of any node but those of mixed: main.py answers ERROR_MSG, and the node
\* wrote nothing.
TurnFails ==
  /\ turn.at \in {"router", "erp_read", "unknown", "erp_write"} \cup Sops
  /\ Answered_with([Nothing_said EXCEPT !.safe = TRUE], FALSE) /\ UNCHANGED thread

\* The three channels are cleared before the legs run.
Mixed_Empty ==
  /\ turn.at = "mixed" /\ turn' = [turn EXCEPT !.at = "legs"] /\ UNCHANGED <<history, thread, loose>>
Mixed ==
  /\ turn.at = "mixed" /\ thread' = [thread EXCEPT !.join = Cleared]
  /\ turn' = [turn EXCEPT !.at = "legs"] /\ UNCHANGED <<history, loose>>
\* The legs run in either order; a failure is an empty result.
GatherDocs(found) ==
  /\ turn.at = "legs" /\ turn.docs = "not yet"
  /\ turn' = [turn EXCEPT !.docs = found] /\ UNCHANGED <<history, thread, loose>>
GatherErp(found) ==
  /\ turn.at = "legs" /\ turn.erp = "not yet"
  /\ turn' = [turn EXCEPT !.erp = found] /\ UNCHANGED <<history, thread, loose>>
\* The superstep ends: what the legs returned goes to the channels, doc_denied only when a
\* leg names it.
Join ==
  /\ turn.at = "legs" /\ "not yet" \notin {turn.docs, turn.erp}
  /\ thread' = [thread EXCEPT
       !.join = [doc_context |-> IF turn.docs = "found" THEN turn.n ELSE 0,
                 erp_facts |-> IF turn.erp = "found" THEN turn.n ELSE 0,
                 doc_denied |-> IF turn.docs = "denied" THEN turn.n ELSE @.doc_denied]]
  /\ turn' = [turn EXCEPT !.at = "fuse_answer"] /\ UNCHANGED <<history, loose>>

\* fuse_answer: what is said for one reply of the model (or its exception).
Fused(c, model) ==
  LET denied == c.doc_denied # 0
      refusal == [Nothing_said EXCEPT !.denied = denied, !.safe = ~denied, !.uses = {c.doc_denied} \ {0}]
  IN IF denied /\ c.erp_facts = 0 THEN refusal
     ELSE IF c.doc_context = 0 /\ c.erp_facts = 0 THEN refusal
     ELSE IF model \in {"raises", "empty"} THEN refusal
     ELSE [uses |-> {c.doc_context, c.erp_facts, c.doc_denied} \ {0}, denied |-> denied,
           safe |-> FALSE]
Spoke(c) == c.erp_facts # 0 \/ (c.doc_context # 0 /\ c.doc_denied = 0)
FuseAnswer(model, suggests) ==
  /\ turn.at = "fuse_answer"
  /\ LET said == Fused(thread.join, model)
     IN /\ suggests => model = "text" /\ Spoke(thread.join)
        /\ thread' = Flagged(suggests) /\ Answered_with(said, suggests)

\* The process dies before the turn's answer is in the checkpoint; the client has no
\* answer to append.
Die ==
  /\ turn.at # "idle"
  /\ turn' = [Idle EXCEPT !.n = turn.n] /\ UNCHANGED <<history, thread, loose>>

\* An answer is in the checkpoint and never reaches the client.
LoseAnswer ==
  /\ turn.at = "idle" /\ history # <<>> /\ history[Len(history)].who = "ai"
  /\ history' = SubSeq(history, 1, Len(history) - 1) /\ loose' = TRUE /\ UNCHANGED <<thread, turn>>

TnNext ==
  \/ \E reply \in Replies : Say(reply) \/ OpenAgain(reply) \/ \E i \in DOMAIN history : Rewrite(i, reply)
  \/ TaskPrompt \/ TurnFails \/ Mixed \/ Join \/ Die \/ LoseAnswer
  \/ \E outcome \in {"again", "decided", "expired"} : Resume(outcome)
  \/ \E asks \in BOOLEAN, proposal \in Proposals : Route(asks, proposal)
  \/ \E b \in BOOLEAN : Tell(b) \/ ErpRead(b) \/ Work(b)
  \/ \E found \in {"found", "denied", "empty"} : GatherDocs(found)
  \/ \E found \in {"found", "empty"} : GatherErp(found)
  \/ \E model \in {"text", "empty", "raises"}, suggests \in BOOLEAN : FuseAnswer(model, suggests)

TnSpec == TnInit /\ [][TnNext]_tnVars
-----------------------------------------------------------------------------
(* Properties *)

\* An answer rests on what was gathered in its own turn, also after a turn that died between
\* the legs and the join (fanout.py:80: the channels outlive the turn).
AnswersThisTurn == turn.said.uses \subseteq {turn.n}

\* When the documents are withheld the answer says so, whatever the model did with the rest,
\* and it never says so of a turn where they were not (fanout.py:216-271).
DeniedIsSaid ==
  turn.at = "fuse_answer" /\ turn'.at = "idle" /\ Len(history') > Len(history) =>
    /\ turn'.said.denied <=> turn.docs = "denied"
    /\ turn'.said.denied => ~turn'.said.safe

\* The join speaks of its own turn, of what was found and of what was withheld.
JoinIsThisTurns == [][(TnTypeOK /\ AnswersThisTurn)' /\ DeniedIsSaid]_tnVars

\* A yes is taken as agreement only to the answer right before it, and only if that one
\* suggested a write, for a client that sends all it was shown and nothing else
\* (routing.py:197: the anchor is a length, an edited history can have it too).
Before == history[Len(history) - 1]
AgreedToTheLast ==
  turn.agreed /\ turn.at # "idle" /\ ~loose =>
    Len(history) > 1 /\ Asked.reply = "confirm" /\ Before.who = "ai" /\ Before.suggests

\* The yes to a suggestion is never taken for small talk: neither the number of messages of
\* the node that suggested it, nor a title asked for meanwhile, loses the flag.
AgreementCounts ==
  turn.at = "router" /\ turn'.at \in Targets /\ ~loose /\ Len(history) > 1
    /\ Asked.reply = "confirm" /\ Before.suggests => turn'.at = "erp_write"

\* A yes agrees to the suggestion it follows, always and to nothing else (routing.py:197).
AgreementIsMeant == [][AgreedToTheLast' /\ AgreementCounts]_tnVars
=============================================================================
