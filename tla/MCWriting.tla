------------------------------ MODULE MCWriting ------------------------------
(* What runs before and around a write, part by part: the registry's chains,   *)
(* the single coordinators, the mail flow with its two nodes, the way of a     *)
(* write through the toggle's two caches and the rate limit, what the tools    *)
(* behind it do to Odoo, the index that resolves the names a user gives, and   *)
(* the loop of a procedure with the gate inside its tools.                     *)
(* The parts share no state; `part` says which of them a behaviour is about,   *)
(* and the others keep one initial state.                                      *)
EXTENDS Coordinators, MailFlow, MCWriteRegistry, Gateway, OdooTools, EntityIndex,
        SkillLoop, TLC

VARIABLE part

allVars == <<part, coVars, mlVars, vars, gwVars, otVars, exVars, skVars>>

\* Decided apart, too near, and above the floor or below it.
MCRankings == {"bolt" :> 9 @@ "nut" :> 3, "bolt" :> 5 @@ "nut" :> 9, "bolt" :> 7 @@ "nut" :> 6}

Alike == Permutations(Callers) \cup Permutations(Calls)

CoAsleep ==
    /\ plan = [tool |-> "create_lead", by |-> "name"]
    /\ erp = [found |-> [i \in 1..MaxLooks |-> {}], fit |-> FALSE,
              figure |-> CHOOSE f \in Figures : TRUE]
    /\ ~enabled

MlAsleep == ~mailGate

WrAsleep == first = "create_lead" /\ until = None

GwAsleep == ~toggle

ExAsleep == odoo = [id \in ProductIds |-> NoProduct]

OtAsleep == kind = "activity" /\ doc.st = "done"

SkAsleep == skill = "giao_hang"

WritingInit ==
    /\ part \in {"coordinator", "mail", "registry", "gate", "tools", "names", "skill"}
    /\ CoInit /\ (part = "coordinator" \/ CoAsleep)
    /\ MlInit /\ (part = "mail" \/ MlAsleep)
    /\ Init /\ (part = "registry" \/ WrAsleep)
    /\ GwInit /\ (part = "gate" \/ GwAsleep)
    /\ OtInit /\ (part = "tools" \/ OtAsleep)
    /\ ExInit /\ (part = "names" \/ ExAsleep)
    /\ SkInit /\ (part = "skill" \/ SkAsleep)

WritingNext ==
    /\ UNCHANGED part
    /\ \/ part = "coordinator" /\ CoNext /\ UNCHANGED <<mlVars, vars, gwVars, otVars, exVars, skVars>>
       \/ part = "mail" /\ MlNext /\ UNCHANGED <<coVars, vars, gwVars, otVars, exVars, skVars>>
       \/ part = "registry" /\ Expand /\ UNCHANGED <<coVars, mlVars, gwVars, otVars, exVars, skVars>>
       \/ part = "gate" /\ GwNext /\ UNCHANGED <<coVars, mlVars, vars, otVars, exVars, skVars>>
       \/ part = "tools" /\ OtNext /\ UNCHANGED <<coVars, mlVars, vars, gwVars, exVars, skVars>>
       \/ part = "names" /\ ExNext /\ UNCHANGED <<coVars, mlVars, vars, gwVars, otVars, skVars>>
       \/ part = "skill" /\ SkNext /\ UNCHANGED <<coVars, mlVars, vars, gwVars, otVars, exVars>>

WritingSpec == WritingInit /\ [][WritingNext]_allVars
=============================================================================
