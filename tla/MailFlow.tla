------------------------------- MODULE MailFlow -------------------------------
(***************************************************************************)
(* Sending a mail from a template.  Odoo renders a template only by making *)
(* a mail record, so the preview is itself a write: it runs in a node of   *)
(* its own, whose result is checkpointed, and the record is made in the    *)
(* state 'cancel', which neither Odoo's mail queue nor send() touches.     *)
(* The second node asks, and only after a yes turns that record over to    *)
(* 'outgoing' and sends it.                                                *)
(*                                                                         *)
(* The queue job of Odoo runs at any time and sends every 'outgoing' mail. *)
(***************************************************************************)
EXTENDS Naturals, Sequences, FiniteSets

CONSTANTS
    MaxMails,     \* bound: mail records made
    MaxToggles    \* bound: changes of the write toggle

ASSUME MailAssumption == {MaxMails, MaxToggles} \subseteq Nat

VARIABLES
    mailGate,     \* the write toggle
    mails,        \* the mail records in Odoo, by number: their state
    mailId,       \* pending_action.args.mail_id, 0 when there is none
    mailStep,     \* where the turn stands, or what its checkpoint has scheduled
    mailShown,    \* the mails whose question the checkpoint has held
    mailReply,    \* what the user was told last
    mailYes,      \* history: mails whose question was answered with yes
    mailStopped,  \* history: mails the process stopped over
    mailDropped,  \* history: mails the user was told are not sent
    mailToggles

mlVars == <<mailGate, mails, mailId, mailStep, mailShown, mailReply, mailYes, mailStopped,
            mailDropped, mailToggles>>

MailStates == {"cancel", "outgoing", "sent", "exception", "deleted"}

-----------------------------------------------------------------------------
(* The two nodes; an exception of a tool becomes "unfinished". *)

MailSays(r) == mailReply' = r /\ mailStep' = "idle" /\ mailId' = 0

\* The process stops: the turn is not told anything, and the checkpoint still
\* has its node to run, with the pending action the node began with.
MailHalts(at) == mailReply' = "nothing" /\ mailStep' = at /\ UNCHANGED mailId

\* Where a stop in the second node leaves the thread: at the question, when it
\* was recorded, and otherwise before it.
Parked == IF mailId \in mailShown THEN "asking" ELSE "to_ask"

\* A new request, which leaves a parked thread behind; or any answer to a thread
\* parked before the first node, which runs it from its first line.
MailAsked ==
    /\ mailStep \in {"idle", "to_compose", "asking", "to_ask"}
    /\ IF mailGate THEN mailStep' = "compose" /\ UNCHANGED mailReply
       ELSE mailStep' = "idle" /\ mailReply' = "disabled"
    /\ mailId' = 0
    /\ UNCHANGED <<mailGate, mails, mailShown, mailYes, mailStopped, mailDropped, mailToggles>>

DraftState_Default == "outgoing"

\* email_values sets the state in the same call that makes the record.
DraftState == "cancel"

\* preview_template_email: checks of role, template and record end the turn
\* before send_mail; the reads after it may fail and leave the draft behind, and
\* so does a stop before the checkpoint has the number.
Preview ==
    /\ mailStep = "compose"
    /\ \/ MailSays("refused") /\ UNCHANGED mails
       \/ /\ mailGate
          /\ Len(mails) < MaxMails
          /\ mails' = Append(mails, DraftState)
          /\ \/ /\ mailId' = Len(mails')
                /\ mailStep' = "composed"
                /\ UNCHANGED mailReply
             \/ MailSays("unfinished")
             \/ MailHalts("to_compose")
    /\ UNCHANGED <<mailGate, mailShown, mailYes, mailStopped, mailDropped, mailToggles>>

\* _discard_draft: best effort, the toggle stops the unlink as well.
Discards(m) ==
    \/ UNCHANGED mails
    \/ /\ mailGate
       /\ m # 0
       /\ mails' = [mails EXCEPT ![m] = "deleted"]

\* The draft is thrown away and the user told so, or the process stops between.
Drops(r) ==
    /\ Discards(mailId)
    /\ \/ MailSays(r) /\ mailDropped' = mailDropped \cup {mailId} /\ UNCHANGED mailStopped
       \/ MailHalts(Parked) /\ mailStopped' = mailStopped \cup {mailId} /\ UNCHANGED mailDropped

\* The first run of the second node: the toggle again, then the question.
AskToSend ==
    /\ mailStep = "composed"
    /\ IF mailGate
       THEN /\ mailStep' = "asking"
            /\ mailShown' = mailShown \cup {mailId}
            /\ UNCHANGED <<mails, mailId, mailReply, mailStopped, mailDropped>>
       ELSE Drops("disabled") /\ UNCHANGED mailShown
    /\ UNCHANGED <<mailGate, mailYes, mailToggles>>

\* Resuming replays the second node only: the mail is the one in the state.
Approved == UNCHANGED <<mails, mailId, mailReply, mailStopped, mailDropped>>

\* The answer: the second node runs again from its first line, and its interrupt
\* takes the answer, whether or not the question was ever recorded and whatever a
\* run of the node that stopped has done to the mail (erp_agent.py:447).
AnswerMail ==
    /\ mailStep \in {"asking", "to_ask"}
    /\ \E yes \in BOOLEAN :
         /\ mailYes' = IF yes THEN mailYes \cup {mailId} ELSE mailYes
         /\ IF ~mailGate THEN Drops("disabled")
            ELSE IF ~yes THEN Drops("cancelled")
            ELSE mailStep' = "flip" /\ Approved
    /\ UNCHANGED <<mailGate, mailShown, mailToggles>>

\* Without this write send() passes over the record and says nothing.  A record
\* that is gone cannot be written.
Flipped(m) ==
    /\ mails[m] # "deleted"
    /\ mails' = [mails EXCEPT ![m] = "outgoing"]

\* send_prepared_email: a mail of another role's model is refused.
Flip ==
    /\ mailStep = "flip"
    /\ \/ MailSays("refused") /\ UNCHANGED mails
       \/ mailGate /\ Flipped(mailId)
                   /\ \/ mailStep' = "send" /\ UNCHANGED <<mailId, mailReply>>
                      \/ MailSays("unfinished")
       \/ MailSays("unfinished") /\ UNCHANGED mails
    /\ UNCHANGED <<mailGate, mailShown, mailYes, mailStopped, mailDropped, mailToggles>>

\* What sending makes of the records: the mail went out, or SMTP refused it, or
\* it was left in the queue.
SentOrNot(ms, m) ==
    IF ms[m] = "outgoing" THEN {[ms EXCEPT ![m] = st] : st \in {"sent", "exception", "outgoing"}}
    ELSE {ms}

SendCall ==
    /\ mailStep = "send"
    /\ \/ /\ mailGate
          /\ mails' \in SentOrNot(mails, mailId)
          /\ \/ mailStep' = "reread" /\ UNCHANGED <<mailId, mailReply>>
             \/ MailSays("unfinished")
       \/ MailSays("unfinished") /\ UNCHANGED mails
    /\ UNCHANGED <<mailGate, mailShown, mailYes, mailStopped, mailDropped, mailToggles>>

\* No record any more means sent (auto_delete); only 'exception' is a failure.
ReadBack ==
    /\ mailStep = "reread"
    /\ \/ MailSays(IF mails[mailId] = "exception" THEN "failed" ELSE "sent")
       \/ MailSays("unfinished")
    /\ UNCHANGED <<mailGate, mails, mailShown, mailYes, mailStopped, mailDropped, mailToggles>>

\* The process stops inside a node, before or after any of its calls; Odoo keeps
\* what it has.
MailStops ==
    /\ \/ mailStep = "compose" /\ MailHalts("to_compose") /\ UNCHANGED mailStopped
       \/ /\ mailStep \in {"composed", "flip", "send", "reread"}
          /\ MailHalts(Parked)
          /\ mailStopped' = mailStopped \cup {mailId}
    /\ UNCHANGED <<mailGate, mails, mailShown, mailYes, mailDropped, mailToggles>>

\* Odoo's mail queue.
MailCron ==
    /\ \E m \in 1..Len(mails) : mails[m] = "outgoing" /\ mails' \in SentOrNot(mails, m)
    /\ UNCHANGED <<mailGate, mailId, mailStep, mailShown, mailReply, mailYes, mailStopped,
                   mailDropped, mailToggles>>

MailToggle ==
    /\ mailToggles < MaxToggles
    /\ mailToggles' = mailToggles + 1
    /\ mailGate' = ~mailGate
    /\ UNCHANGED <<mails, mailId, mailStep, mailShown, mailReply, mailYes, mailStopped, mailDropped>>

MlInit ==
    /\ mailGate \in BOOLEAN
    /\ mails = <<>>
    /\ mailId = 0
    /\ mailStep = "idle"
    /\ mailReply = "nothing"
    /\ mailShown = {} /\ mailYes = {} /\ mailStopped = {} /\ mailDropped = {}
    /\ mailToggles = 0

MlNext ==
    \/ MailAsked \/ Preview \/ AskToSend \/ AnswerMail \/ Flip \/ SendCall \/ ReadBack
    \/ MailStops \/ MailCron \/ MailToggle

MlSpec == MlInit /\ [][MlNext]_mlVars

-----------------------------------------------------------------------------
(* Properties. *)

\* Types: the mail in hand is one that was made.
MlTypeOK ==
    /\ mailGate \in BOOLEAN
    /\ Len(mails) <= MaxMails /\ \A m \in 1..Len(mails) : mails[m] \in MailStates
    /\ mailId \in 0..Len(mails)
    /\ mailStep \in {"idle", "to_compose", "compose", "composed", "to_ask", "asking",
                     "flip", "send", "reread"}
    /\ mailReply \in {"nothing", "refused", "disabled", "unfinished", "cancelled",
                      "failed", "sent"}
    /\ mailToggles \in 0..MaxToggles

\* Only a mail that was agreed to can leave, and only one that was shown: whatever
\* fails or is abandoned, a draft nobody said yes to stays out of the queue.  A stop
\* before the question was recorded makes the one exception: the next answer is
\* taken for the answer to it.
OnlyApproved ==
    \A m \in 1..Len(mails) :
        mails[m] \in {"outgoing", "sent", "exception"} =>
            m \in mailYes /\ m \in mailShown \cup mailStopped

\* A mail the user was told is not sent does not leave, then or later, unless a
\* stop came over it.
DroppedStays ==
    \A m \in mailDropped \ mailStopped : mails[m] \in {"cancel", "deleted"}

\* What went out is not sent again nor thrown away, unless a stop came over it.
SentOnce ==
    \A m \in 1..Len(mails) : mails[m] = "sent" => mails'[m] = "sent" \/ m \in mailStopped

\* "Sent" is said only of a mail that went out or is still in the queue, and
\* "failed" only of one that was refused: the read-back is not fooled by a send()
\* that passed over the record.
ReadBackIsTrue ==
    mailStep = "reread" /\ mailStep' = "idle" =>
        /\ mailReply' = "sent" => mails[mailId] \in {"sent", "outgoing"}
        /\ mailReply' = "failed" => mails[mailId] = "exception"

\* What the user is told and agrees to is what happens to the mail, whatever
\* fails, is abandoned or is sent by the queue in between (mail_write.py:176);
\* of a mail the process stopped over it only says that somebody said yes.
MailKeepsWord ==
    [][(MlTypeOK /\ OnlyApproved /\ DroppedStays)' /\ SentOnce /\ ReadBackIsTrue]_mlVars
=============================================================================
