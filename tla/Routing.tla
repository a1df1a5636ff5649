------------------------------- MODULE Routing -------------------------------
(***************************************************************************)
(* The two layers that decide where a user's turn goes                     *)
(* (backend/src/agents/routing.py).  Layer one is a language model that    *)
(* proposes an intent, a business domain (sop) and a depth; layer two is   *)
(* deterministic and may veto the proposal.  A question is reduced to what *)
(* the veto sees of it: whether it carries a question marker.              *)
(***************************************************************************)
EXTENDS Naturals

CONSTANTS None,          \* Python's None
          Sops,          \* the skills this role has (worker nodes of the graph)
          SkillsEnabled  \* skill_gate.skills_enabled()

ASSUME SkillsEnabledAssumption == SkillsEnabled \in BOOLEAN

VALID_INTENTS == {"erp_read", "erp_write", "rag", "mixed", "unknown"}
VALID_DEPTHS == {"full_sop", "one_step", "unsure", "none"}
DEPTH_ABANDONED == "abandoned"

\* What a proposal may be once it is parsed, and where a turn may go.
Proposals == [intent : VALID_INTENTS, sop : Sops \cup {None}, depth : VALID_DEPTHS]
Targets == VALID_INTENTS \cup Sops \cup {"clarify_depth"}

\* text is what the model wrote on its three lines; a word the parser does
\* not know stands for any garbage.  No sop means no depth, an unreadable
\* depth of a valid sop means the whole procedure.
parse_proposal(text) ==
  LET sop == IF text.sop \in Sops THEN text.sop ELSE None
  IN [intent |-> IF text.intent \in VALID_INTENTS THEN text.intent ELSE "unknown",
      sop    |-> sop,
      depth  |-> IF sop = None THEN "none"
                 ELSE IF text.depth \in VALID_DEPTHS \ {"none"} THEN text.depth
                 ELSE "full_sop"]

replying_NoAnchor(suggested, at, length, reply) ==
  suggested /\ at # None /\ reply = "confirm"
\* The user's whole reply agrees to the write the last answer suggested: the
\* flag counts only when exactly one message came since it was set.
replying_to_write_suggestion(suggested, at, length, reply) ==
  suggested /\ at # None /\ length = at + 1 /\ reply = "confirm"

\* A question is never handed to a procedure, whatever the model proposes,
\* unless the model also reads it as a write.
decide_route(asks, proposal, agreed) ==
  IF agreed THEN "erp_write"
  ELSE IF /\ proposal.sop # None
          /\ SkillsEnabled
          /\ proposal.intent = "erp_write" \/ ~asks
       THEN CASE proposal.depth = "one_step" -> "erp_write"
              [] proposal.depth = "unsure" -> "clarify_depth"
              [] OTHER -> proposal.sop
       ELSE proposal.intent

\* Where the turn goes once the user has chosen the depth.
route_after_clarify(sop, depth) ==
  IF depth = DEPTH_ABANDONED THEN "end"
  ELSE IF sop = None \/ depth = "one_step" THEN "erp_write"
  ELSE sop
=============================================================================
