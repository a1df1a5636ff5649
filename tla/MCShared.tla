------------------------------ MODULE MCShared ------------------------------
(* What the threads of a process share, part by part: the key rings, the     *)
(* cool-downs and the ledger of the calls of language models, and the audit  *)
(* chain of the tool calls with its two locks.  The parts share no state:    *)
(* `part` says which of them a behaviour is about, the other stays as it     *)
(* began.                                                                    *)
EXTENDS MCAuditChain, MCLlmRouter

VARIABLE part

ShInit == part \in {"calls", "audit"} /\ Init /\ AcInit

ShNext ==
    /\ UNCHANGED part
    /\ \/ part = "calls" /\ Next /\ UNCHANGED acVars
       \/ part = "audit" /\ AcNext /\ UNCHANGED vars

ShFairSpec == ShInit /\ [][ShNext]_<<part, vars, acVars>> /\ Fairness /\ AcFairness
=============================================================================
