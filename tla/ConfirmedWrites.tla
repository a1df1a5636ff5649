--------------------------- MODULE ConfirmedWrites ---------------------------
(***************************************************************************)
(* What the confirmation gate promises a user, whatever the graph behind   *)
(* it does: the ERP receives the writes a question has shown, after a yes  *)
(* to that question, in the order shown and each at most once.             *)
(***************************************************************************)
EXTENDS Naturals, Sequences

CONSTANTS Questions,      \* what can be shown
          ConfirmInChain, \* tools that need a question of their own
          None

VARIABLES question,  \* the question on screen, or None
          agreed,    \* the writes agreed to and still to come
          done       \* the writes the ERP has received

vars == <<question, agreed, done>>

\* The declared steps that run without another question: those before the
\* first one that always asks again.
AutoSteps(note, args) ==
    LET stops == {i \in 1..Len(note) : note[i] \in ConfirmInChain}
        n == IF stops = {} THEN Len(note)
             ELSE (CHOOSE i \in stops : \A j \in stops : i <= j) - 1
    IN  [i \in 1..n |-> [tool |-> note[i], args |-> args, draft |-> None]]

Promised(q) == <<[tool |-> q.tool, args |-> q.args, draft |-> q.draft]>>
               \o AutoSteps(q.note, q.args)

Init == question = None /\ agreed = <<>> /\ done = <<>>

Ask == /\ question = None /\ agreed = <<>>
       /\ question' \in Questions
       /\ UNCHANGED <<agreed, done>>

Agree == /\ question # None /\ question.kind = "confirm"
         /\ question' = None
         /\ agreed' = Promised(question)
         /\ UNCHANGED done

\* A no, an expired question, a picked candidate, a deleted thread.
Withdraw == /\ question # None
            /\ question' = None
            /\ UNCHANGED <<agreed, done>>

Perform == /\ agreed # <<>>
           /\ done' = Append(done, Head(agreed))
           /\ agreed' \in {Tail(agreed), <<>>}
           /\ UNCHANGED question

\* The write fails, the writes are switched off, or the chain stops.
Abandon == /\ agreed' = <<>>
           /\ UNCHANGED <<question, done>>

Next == Ask \/ Agree \/ Withdraw \/ Perform \/ Abandon

Spec == Init /\ [][Next]_vars
=============================================================================
