------------------------------ MODULE Turn_proofs ------------------------------
(* What a reading turn says rests on its own turn, and a yes agrees to the      *)
(* suggestion right before it: for every number of turns and every procedure.   *)
(* The jobs that measure the assistant judge it by every case and leave files   *)
(* that say what they did.                                                      *)
EXTENDS Turn, EvalJob, FiniteSetTheorems, TLAPS

Ats == Targets \cup {"idle", "resume", "router", "legs", "fuse_answer"}

Saids == [uses : SUBSET (0..MaxTurns), denied : BOOLEAN, safe : BOOLEAN]

Threads == [suggested_write : BOOLEAN, suggested_write_at : {None} \cup 1..(2 * MaxTurns),
            parked : BOOLEAN, join : Channels]

Turns == [n : 0..MaxTurns, at : Ats, agreed : BOOLEAN,
          docs : {"not yet", "found", "denied", "empty"}, erp : {"not yet", "found", "empty"},
          said : Saids]

Shapes ==
  /\ history \in Seq(Messages) /\ loose \in BOOLEAN
  /\ thread \in Threads /\ turn \in Turns

\* A turn under way has one message of the user more than answers are due.
Paced ==
  /\ Len(history) <= 2 * turn.n
  /\ turn.at # "idle" => /\ 0 < Len(history) /\ Len(history) < 2 * turn.n
                         /\ history[Len(history)].who = "user"

Anchored == thread.suggested_write => thread.suggested_write_at # None

\* The channels are empty while the legs run; at the join they hold what this
\* turn's legs found, and nothing else.
JoinFresh ==
  /\ turn.at = "legs" => thread.join = Cleared
  /\ turn.at = "fuse_answer" =>
       /\ turn.docs # "not yet" /\ turn.erp # "not yet" /\ turn.n > 0
       /\ thread.join = [doc_context |-> IF turn.docs = "found" THEN turn.n ELSE 0,
                         erp_facts |-> IF turn.erp = "found" THEN turn.n ELSE 0,
                         doc_denied |-> IF turn.docs = "denied" THEN turn.n ELSE 0]

\* The anchor points at the answer that set the flag.
FlagPlace ==
  ~loose /\ thread.suggested_write_at # None =>
    LET at == thread.suggested_write_at
    IN /\ at <= Len(history) /\ history[at].who = "ai"
       /\ history[at].suggests = thread.suggested_write

\* A suggestion the user has just seen has the flag, with its own length.
FlaggedAt(i) ==
  0 < i /\ i <= Len(history) /\ history[i].suggests =>
    thread.suggested_write /\ thread.suggested_write_at = i

LastFlagged ==
  ~loose => FlaggedAt(IF turn.at = "idle" THEN Len(history) ELSE Len(history) - 1)

TnInv ==
  /\ Shapes /\ Paced /\ Anchored /\ JoinFresh /\ AnswersThisTurn
  /\ FlagPlace /\ LastFlagged /\ AgreedToTheLast

LEMMA IdleShape ==
  /\ Nothing_said \in Saids /\ Nothing_said.uses = {}
  /\ Idle \in Turns /\ Idle.n = 0 /\ Idle.at = "idle" /\ Idle.agreed = FALSE /\ Idle.said = Nothing_said
  /\ NewThread \in Threads /\ NewThread.suggested_write = FALSE
  /\ NewThread.suggested_write_at = None /\ NewThread.join = Cleared /\ Cleared \in Channels
BY TurnAssumption DEF Nothing_said, Saids, Idle, Turns, Ats, NewThread, Threads, Cleared, Channels

LEMMA MessageShape ==
  /\ \A reply \in Replies : User(reply) \in Messages /\ User(reply).who = "user"
                              /\ User(reply).suggests = FALSE
  /\ \A suggests \in BOOLEAN : Ai(suggests) \in Messages /\ Ai(suggests).who = "ai"
                              /\ Ai(suggests).suggests = suggests
  /\ \A m \in Messages : m.suggests \in BOOLEAN /\ (m.who = "user" => m.suggests = FALSE)
BY DEF User, Ai, Messages, Replies

\* A skill is no station of the turn.
LEMMA Stations ==
  \A s \in Targets : s \notin {"idle", "resume", "router", "legs", "fuse_answer"}
BY TurnAssumption DEF Targets, VALID_INTENTS

\* The numbers of a state are numbers.
LEMMA Numbers ==
  ASSUME TnInv
  PROVE  /\ Len(history) \in Nat /\ turn.n \in 0..MaxTurns /\ turn.n \in Nat
         /\ MaxTurns \in Nat /\ None \notin Nat
<1>1. MaxTurns \in Nat /\ None \notin Nat
    BY TurnAssumption
<1>2. turn.n \in 0..MaxTurns
    BY DEF TnInv, Shapes, Turns
<1>3. Len(history) \in Nat
    BY DEF TnInv, Shapes
<1> QED BY <1>1, <1>2, <1>3

LEMMA TnInvInit == TnInit => TnInv
<1> SUFFICES ASSUME TnInit PROVE TnInv
    OBVIOUS
<1>0. history = <<>> /\ turn.n = 0 /\ turn.at = "idle"
    BY IdleShape DEF TnInit
<1>5. <<>> \in Seq(Messages)
    OBVIOUS
<1>4. Shapes
    BY <1>0, <1>5, IdleShape DEF TnInit, Shapes
<1>1. Shapes /\ Paced
    BY <1>0, <1>4 DEF Paced
<1>3. Anchored /\ JoinFresh /\ AnswersThisTurn
    BY IdleShape DEF TnInit, Anchored, JoinFresh, AnswersThisTurn
<1>2. FlagPlace /\ LastFlagged /\ AgreedToTheLast
    BY IdleShape DEF TnInit, FlagPlace, LastFlagged, FlaggedAt, AgreedToTheLast
<1> QED BY <1>1, <1>2, <1>3 DEF TnInv

\* A message comes in.
LEMMA BeginStep ==
  ASSUME TnInv, NEW messages \in Seq(Messages), Begin(messages), loose' \in BOOLEAN,
         0 < Len(messages), Len(messages) <= 2 * turn.n + 1,
         messages[Len(messages)].who = "user",
         \/ loose'
         \/ Len(messages) = 1
         \/ ~loose /\ \E m \in Messages : messages = Append(history, m)
  PROVE  TnInv'
<1> DEFINE kept == IF Len(messages) = 1 THEN NewThread ELSE thread
<1>1. /\ history' = messages /\ thread' = kept /\ turn.at = "idle" /\ turn.n + 1 \in 0..MaxTurns
      /\ turn' = [Idle EXCEPT !.n = turn.n + 1, !.at = IF kept.parked THEN "resume" ELSE "router"]
    BY Numbers DEF Begin
<1> DEFINE n == turn.n + 1
<1> DEFINE at == IF kept.parked THEN "resume" ELSE "router"
<1>n. n \in Nat /\ n = turn.n + 1
    BY Numbers
<1> HIDE DEF n, at
<1>2. /\ turn' \in Turns /\ turn'.n = n /\ turn'.at \in {"resume", "router"}
      /\ turn'.agreed = FALSE /\ turn'.said = Nothing_said
    <2>1. turn' = [Idle EXCEPT !.n = n, !.at = at]
        BY <1>1 DEF n, at
    <2>2. at \in {"resume", "router"} /\ n \in 0..MaxTurns
        BY <1>1 DEF at, n
    <2> QED BY <2>1, <2>2, IdleShape DEF Turns, Ats, Idle
<1>3. thread' \in Threads /\ Anchored' /\ JoinFresh'
    BY <1>1, <1>2, IdleShape DEF TnInv, Shapes, Anchored, JoinFresh
<1>4. Shapes' /\ AnswersThisTurn'
    BY <1>1, <1>2, <1>3, IdleShape DEF Shapes, AnswersThisTurn
<1>p. Paced'
  <2>1. Len(messages) \in Nat /\ turn.n \in Nat
      BY Numbers
  <2>2. Len(messages) < 2 * n
      BY <1>n, <2>1
  <2> QED BY <1>1, <1>2, <2>1, <2>2 DEF Paced
<1>5. CASE loose'
    BY <1>2, <1>3, <1>4, <1>p, <1>5 DEF TnInv, FlagPlace, LastFlagged, AgreedToTheLast
<1>6. CASE Len(messages) = 1
    BY <1>1, <1>2, <1>3, <1>4, <1>p, <1>6, IdleShape
    DEF TnInv, FlagPlace, LastFlagged, FlaggedAt, AgreedToTheLast
<1>7. CASE Len(messages) # 1 /\ ~loose /\ \E m \in Messages : messages = Append(history, m)
  <2>1. PICK m \in Messages : messages = Append(history, m)
      BY <1>7
  <2>2. /\ Len(messages) = Len(history) + 1
        /\ \A i \in 1..Len(history) : messages[i] = history[i]
      BY <2>1 DEF TnInv, Shapes
  <2>3. thread' = thread
      BY <1>1, <1>7
  <2>4. FlagPlace'
    <3>1. thread.suggested_write_at # None => thread.suggested_write_at \in 1..Len(history)
        BY <1>7 DEF TnInv, Shapes, Threads, FlagPlace
    <3> QED BY <1>1, <1>7, <2>2, <2>3, <3>1 DEF TnInv, FlagPlace
  <2>5. LastFlagged'
      BY <1>1, <1>2, <1>7, <2>2, <2>3 DEF TnInv, Shapes, LastFlagged, FlaggedAt
  <2>6. AgreedToTheLast'
      BY <1>2 DEF AgreedToTheLast
  <2> QED BY <1>3, <1>4, <1>p, <2>4, <2>5, <2>6 DEF TnInv
<1> QED BY <1>5, <1>6, <1>7

\* An answer goes out.  The flag is left as it was and the answer suggests
\* nothing, or the flag says what the answer does, at its length.
LEMMA AnswerStep ==
  ASSUME TnInv, turn.at # "idle", NEW said \in Saids, said.uses \subseteq {turn.n},
         NEW suggests \in BOOLEAN, Answered_with(said, suggests), thread' \in Threads,
         \/ /\ ~suggests
            /\ thread'.suggested_write = thread.suggested_write
            /\ thread'.suggested_write_at = thread.suggested_write_at
         \/ /\ thread'.suggested_write = suggests
            /\ thread'.suggested_write_at = Len(history) + 1
  PROVE  TnInv'
<1>1. /\ history' = Append(history, Ai(suggests)) /\ loose' = loose
      /\ turn' = [turn EXCEPT !.at = "idle", !.docs = "not yet", !.erp = "not yet", !.said = said]
    BY DEF Answered_with
<1>2. /\ turn' \in Turns /\ turn'.n = turn.n /\ turn'.at = "idle" /\ turn'.said = said
    BY <1>1 DEF TnInv, Shapes, Turns, Ats
<1>3. /\ history' \in Seq(Messages) /\ Len(history') = Len(history) + 1
      /\ \A i \in 1..Len(history) : history'[i] = history[i]
      /\ history'[Len(history) + 1] = Ai(suggests)
    BY <1>1, MessageShape DEF TnInv, Shapes
<1>4. Shapes' /\ AnswersThisTurn' /\ JoinFresh' /\ AgreedToTheLast'
    BY <1>1, <1>2, <1>3 DEF TnInv, Shapes, AnswersThisTurn, JoinFresh, AgreedToTheLast
<1>7. Len(history) \in Nat /\ turn.n \in Nat
    BY Numbers
<1>5. Paced'
    BY <1>2, <1>3, <1>7 DEF TnInv, Paced
<1>6. Anchored'
  <2>1. Len(history) + 1 # None
      BY <1>7, Numbers
  <2>2. CASE thread'.suggested_write_at = Len(history) + 1
      BY <2>1, <2>2 DEF Anchored
  <2>3. CASE /\ thread'.suggested_write = thread.suggested_write
             /\ thread'.suggested_write_at = thread.suggested_write_at
      BY <2>3 DEF TnInv, Anchored
  <2> QED BY <2>2, <2>3
<1>8. FlagPlace'
  <2>1. CASE thread'.suggested_write = suggests /\ thread'.suggested_write_at = Len(history) + 1
      BY <1>3, <1>7, <2>1, MessageShape DEF FlagPlace
  <2>2. CASE thread'.suggested_write = thread.suggested_write
             /\ thread'.suggested_write_at = thread.suggested_write_at
    <3>1. ~loose /\ thread.suggested_write_at # None => thread.suggested_write_at \in 1..Len(history)
        BY DEF TnInv, Shapes, Threads, FlagPlace
    <3> QED BY <1>1, <1>3, <1>7, <2>2, <3>1 DEF TnInv, FlagPlace
  <2> QED BY <2>1, <2>2
<1>9. LastFlagged'
    BY <1>1, <1>2, <1>3, <1>7, MessageShape DEF LastFlagged, FlaggedAt
<1> QED BY <1>4, <1>5, <1>6, <1>8, <1>9 DEF TnInv

\* Inside a turn: neither the messages nor the flag change.
LEMMA InnerStep ==
  ASSUME TnInv, UNCHANGED <<history, loose>>, thread' \in Threads, turn' \in Turns,
         turn.at # "idle", turn'.n = turn.n, turn'.said.uses = {} \/ turn'.said = turn.said,
         thread'.suggested_write = thread.suggested_write,
         thread'.suggested_write_at = thread.suggested_write_at,
         JoinFresh', turn'.at # "idle", AgreedToTheLast'
  PROVE  TnInv'
<1>1. Shapes' /\ Paced' /\ Anchored' /\ AnswersThisTurn'
    BY DEF TnInv, Shapes, Paced, Anchored, AnswersThisTurn
<1>2. FlagPlace' /\ LastFlagged'
    BY DEF TnInv, FlagPlace, LastFlagged, FlaggedAt
<1> QED BY <1>1, <1>2 DEF TnInv

\* The user speaks, opens the chat again or rewrites a message.
LEMMA MessageStep ==
  ASSUME TnInv, NEW reply \in Replies,
         \/ Say(reply) \/ OpenAgain(reply) \/ \E i \in DOMAIN history : Rewrite(i, reply)
  PROVE  TnInv'
<1>0. Paced /\ history \in Seq(Messages) /\ loose \in BOOLEAN /\ User(reply) \in Messages
      /\ User(reply).who = "user" /\ Len(history) \in Nat /\ turn.n \in Nat
    BY MessageShape, Numbers DEF TnInv, Shapes
<1>1. CASE Say(reply)
  <2> DEFINE messages == Append(history, User(reply))
  <2>1. /\ messages \in Seq(Messages) /\ Len(messages) = Len(history) + 1
        /\ messages[Len(messages)] = User(reply)
      BY <1>0
  <2>2. Len(messages) <= 2 * turn.n + 1
      BY <1>0, <2>1 DEF Paced
  <2>3. Begin(messages) /\ loose' = loose
      BY <1>1 DEF Say
  <2>5. loose' \in BOOLEAN /\ 0 < Len(messages) /\ messages[Len(messages)].who = "user"
      BY <1>0, <2>1, <2>3
  <2>4. \E m \in Messages : messages = Append(history, m)
      BY <1>0
  <2> HIDE DEF messages
  <2> QED BY <2>1, <2>2, <2>3, <2>4, <2>5, <1>0, BeginStep
<1>2. CASE OpenAgain(reply)
  <2> DEFINE messages == <<User(reply)>>
  <2>1. /\ messages \in Seq(Messages) /\ Len(messages) = 1 /\ messages[1] = User(reply)
      BY <1>0
  <2>3. Len(messages) <= 2 * turn.n + 1
      BY <1>0, <2>1
  <2>2. Begin(messages) /\ loose' = FALSE
      BY <1>2 DEF OpenAgain
  <2> HIDE DEF messages
  <2>4. messages[Len(messages)].who = "user" /\ loose' \in BOOLEAN
      BY <1>0, <2>1, <2>2
  <2>5. 0 < Len(messages)
      BY <2>1
  <2> QED BY <2>1, <2>2, <2>3, <2>4, <2>5, BeginStep
<1>3. ASSUME NEW i \in DOMAIN history, Rewrite(i, reply) PROVE TnInv'
  <2> DEFINE messages == Append(SubSeq(history, 1, i - 1), User(reply))
  <2>0. i \in 1..Len(history)
      BY <1>0
  <2>1. SubSeq(history, 1, i - 1) \in Seq(Messages) /\ Len(SubSeq(history, 1, i - 1)) = i - 1
      BY <1>0, <2>0
  <2>2. /\ messages \in Seq(Messages) /\ Len(messages) = i /\ messages[i] = User(reply)
      BY <1>0, <2>0, <2>1
  <2>3. Len(messages) <= 2 * turn.n + 1
      BY <1>0, <2>0, <2>2 DEF Paced
  <2>4. Begin(messages) /\ loose' = TRUE
      BY <1>3 DEF Rewrite
  <2> HIDE DEF messages
  <2>5. messages[Len(messages)].who = "user" /\ 0 < Len(messages)
      BY <1>0, <2>0, <2>2
  <2> QED BY <2>2, <2>3, <2>4, <2>5, BeginStep
<1> QED BY <1>1, <1>2, <1>3

\* The nodes that answer: what they say, and what they do to the flag.
LEMMA FlaggedIs ==
  ASSUME TnInv, turn.at # "idle", NEW suggests \in BOOLEAN, thread' = Flagged(suggests)
  PROVE  /\ thread' \in Threads /\ thread'.suggested_write = suggests
         /\ thread'.suggested_write_at = Len(history) + 1
<1>1. Len(history) + 1 \in 1..(2 * MaxTurns)
    BY Numbers DEF TnInv, Paced
<1> DEFINE k == Len(history) + 1
<1>2. thread' = [thread EXCEPT !.suggested_write = suggests, !.suggested_write_at = k,
                               !.join = IF turn.at = "fuse_answer" THEN Cleared ELSE @]
    BY DEF Flagged
<1> HIDE DEF k
<1>3. thread' \in Threads /\ thread'.suggested_write = suggests /\ thread'.suggested_write_at = k
    BY <1>1, <1>2, IdleShape DEF TnInv, Shapes, Threads, k
<1> QED BY <1>3 DEF k

LEMMA SaidIs ==
  ASSUME TnInv
  PROVE  /\ \A denied \in BOOLEAN : [Nothing_said EXCEPT !.denied = denied] \in Saids
                                   /\ [Nothing_said EXCEPT !.denied = denied].uses = {}
         /\ [Nothing_said EXCEPT !.safe = TRUE] \in Saids
         /\ [Nothing_said EXCEPT !.safe = TRUE].uses = {}
         /\ [Nothing_said EXCEPT !.uses = {turn.n}] \in Saids
         /\ [Nothing_said EXCEPT !.uses = {turn.n}].uses = {turn.n}
BY Numbers DEF Nothing_said, Saids

\* What the join makes of its channels: of this turn, and withheld documents
\* are told whatever the model does.
LEMMA FusedIs ==
  ASSUME TnInv, turn.at = "fuse_answer", NEW model
  PROVE  /\ Fused(thread.join, model) \in Saids
         /\ Fused(thread.join, model).uses \subseteq {turn.n}
         /\ Fused(thread.join, model).denied <=> turn.docs = "denied"
         /\ Fused(thread.join, model).denied => ~Fused(thread.join, model).safe
<1>1. /\ thread.join.doc_context \in {0, turn.n} /\ thread.join.erp_facts \in {0, turn.n}
      /\ thread.join.doc_denied \in {0, turn.n} /\ turn.n \in 0..MaxTurns
      /\ thread.join.doc_denied # 0 <=> turn.docs = "denied"
  <2>1. /\ turn.n > 0
        /\ thread.join = [doc_context |-> IF turn.docs = "found" THEN turn.n ELSE 0,
                erp_facts |-> IF turn.erp = "found" THEN turn.n ELSE 0,
                doc_denied |-> IF turn.docs = "denied" THEN turn.n ELSE 0]
      BY DEF TnInv, JoinFresh
  <2>2. /\ thread.join.doc_context = IF turn.docs = "found" THEN turn.n ELSE 0
        /\ thread.join.erp_facts = IF turn.erp = "found" THEN turn.n ELSE 0
        /\ thread.join.doc_denied = IF turn.docs = "denied" THEN turn.n ELSE 0
      BY <2>1
  <2> QED BY <2>1, <2>2, Numbers
<1> DEFINE denied == thread.join.doc_denied # 0
<1> DEFINE refusal == [Nothing_said EXCEPT !.denied = denied, !.safe = ~denied,
                                           !.uses = {thread.join.doc_denied} \ {0}]
<1> DEFINE answer == [uses |-> {thread.join.doc_context, thread.join.erp_facts, thread.join.doc_denied} \ {0},
                      denied |-> denied, safe |-> FALSE]
<1>2. /\ refusal \in Saids /\ refusal.uses \subseteq {turn.n}
      /\ refusal.denied = denied /\ refusal.safe = ~denied
    BY <1>1 DEF Nothing_said, Saids
<1>3. CASE Fused(thread.join, model) = refusal
    BY <1>1, <1>2, <1>3
<1>4. CASE Fused(thread.join, model) = answer /\ ~(denied /\ thread.join.erp_facts = 0)
  <2>1. answer \in Saids /\ answer.uses \subseteq {turn.n}
      BY <1>1 DEF Saids
  <2>2. answer.denied = denied /\ answer.safe = FALSE
      OBVIOUS
  <2> HIDE DEF answer
  <2> QED BY <1>1, <1>4, <2>1, <2>2
<1>5. Fused(thread.join, model) =
        IF denied /\ thread.join.erp_facts = 0 THEN refusal
        ELSE IF thread.join.doc_context = 0 /\ thread.join.erp_facts = 0 THEN refusal
        ELSE IF model \in {"raises", "empty"} THEN refusal
        ELSE answer
    BY DEF Fused
<1> HIDE DEF refusal, answer
<1>6. Fused(thread.join, model) = refusal \/ (Fused(thread.join, model) = answer /\ ~(denied /\ thread.join.erp_facts = 0))
    BY <1>5
<1> QED BY <1>3, <1>4, <1>6

LEMMA TnInvStep == TnInv /\ [TnNext]_tnVars => TnInv'
<1> SUFFICES ASSUME TnInv, [TnNext]_tnVars PROVE TnInv'
    OBVIOUS
<1>s. Shapes /\ Paced /\ Anchored /\ JoinFresh /\ FlagPlace /\ LastFlagged /\ AgreedToTheLast
      /\ AnswersThisTurn
    BY DEF TnInv
<1>0. CASE UNCHANGED tnVars
    BY <1>0 DEF tnVars, TnInv, Shapes, Paced, Anchored, JoinFresh, AnswersThisTurn, FlagPlace,
       LastFlagged, FlaggedAt, AgreedToTheLast, Asked, Before
<1>1. CASE \E reply \in Replies :
             Say(reply) \/ OpenAgain(reply) \/ \E i \in DOMAIN history : Rewrite(i, reply)
    BY <1>1, MessageStep
<1>2. CASE TaskPrompt
  <2>1. turn' \in Turns /\ turn'.n = turn.n /\ turn'.at = "idle" /\ turn'.said.uses = {}
      BY <1>2, <1>s, IdleShape DEF TaskPrompt, Shapes, Turns
  <2>2. UNCHANGED <<history, thread, loose>> /\ turn.at = "idle"
      BY <1>2 DEF TaskPrompt
  <2> QED BY <1>s, <2>1, <2>2 DEF TnInv, Shapes, Paced, Anchored, JoinFresh, AnswersThisTurn,
             FlagPlace, LastFlagged, FlaggedAt, AgreedToTheLast
<1>3. CASE TurnFails
  <2>1. turn.at # "idle"
      BY <1>3, TurnAssumption DEF TurnFails
  <2> QED BY <1>3, <1>s, <2>1, SaidIs, AnswerStep DEF TurnFails, Shapes
<1>4. CASE Mixed
  <2>1. /\ turn' \in Turns /\ turn'.n = turn.n /\ turn'.at = "legs" /\ turn'.said = turn.said
        /\ turn'.agreed = turn.agreed /\ turn.at = "mixed"
      BY <1>4, <1>s DEF Mixed, Shapes, Turns, Ats
  <2>2. /\ thread' \in Threads /\ thread'.join = Cleared
        /\ thread'.suggested_write = thread.suggested_write
        /\ thread'.suggested_write_at = thread.suggested_write_at
      BY <1>4, <1>s, IdleShape DEF Mixed, Shapes, Threads
  <2>3. UNCHANGED <<history, loose>>
      BY <1>4 DEF Mixed
  <2>4. JoinFresh' /\ AgreedToTheLast'
      BY <1>s, <2>1, <2>2, <2>3 DEF JoinFresh, AgreedToTheLast, Asked, Before
  <2> QED BY <2>1, <2>2, <2>3, <2>4, InnerStep
<1>5. CASE Join
  <2>1. /\ turn' \in Turns /\ turn'.n = turn.n /\ turn'.at = "fuse_answer"
        /\ turn'.said = turn.said /\ turn'.agreed = turn.agreed /\ turn.at = "legs"
        /\ turn'.docs = turn.docs /\ turn'.erp = turn.erp
        /\ turn.docs # "not yet" /\ turn.erp # "not yet"
      BY <1>5, <1>s DEF Join, Shapes, Turns, Ats
  <2>2. turn.n > 0
    <3>1. Len(history) \in Nat /\ 0 < Len(history) /\ Len(history) < 2 * turn.n /\ turn.n \in Nat
        BY <1>s, <2>1, Numbers DEF Paced
    <3> QED BY <3>1
  <2> DEFINE found == [doc_context |-> IF turn.docs = "found" THEN turn.n ELSE 0,
                       erp_facts |-> IF turn.erp = "found" THEN turn.n ELSE 0,
                       doc_denied |-> IF turn.docs = "denied" THEN turn.n ELSE 0]
  <2>3. thread.join = Cleared
      BY <1>s, <2>1 DEF JoinFresh
  <2>4. thread' = [thread EXCEPT !.join = found]
    <3>1. thread.join.doc_denied = 0
        BY <2>3 DEF Cleared
    <3> QED BY <1>5, <3>1 DEF Join
  <2>5. found \in Channels
      BY Numbers DEF Channels
  <2>6. /\ thread' \in Threads /\ thread'.join = found
        /\ thread'.suggested_write = thread.suggested_write
        /\ thread'.suggested_write_at = thread.suggested_write_at
    <3> HIDE DEF found
    <3> QED BY <1>s, <2>4, <2>5 DEF Shapes, Threads
  <2>7. UNCHANGED <<history, loose>>
      BY <1>5 DEF Join
  <2>8. JoinFresh' /\ AgreedToTheLast'
      BY <1>s, <2>1, <2>2, <2>6, <2>7 DEF JoinFresh, AgreedToTheLast, Asked, Before
  <2> QED BY <2>1, <2>6, <2>7, <2>8, InnerStep
<1>6. CASE Die
  <2>1. turn' \in Turns /\ turn'.n = turn.n /\ turn'.at = "idle" /\ turn'.said.uses = {}
      BY <1>6, <1>s, IdleShape DEF Die, Shapes, Turns
  <2>2. UNCHANGED <<history, thread, loose>> /\ turn.at # "idle"
      BY <1>6 DEF Die
  <2>3. LastFlagged'
    <3>1. Len(history) > 0 /\ Len(history) \in Nat /\ history[Len(history)].suggests = FALSE
        BY <1>s, <2>2, MessageShape, Numbers DEF Paced, Shapes
    <3> QED BY <2>1, <2>2, <3>1 DEF LastFlagged, FlaggedAt
  <2> QED BY <1>s, <2>1, <2>2, <2>3 DEF TnInv, Shapes, Paced, Anchored, JoinFresh,
             AnswersThisTurn, FlagPlace, AgreedToTheLast
<1>7. CASE LoseAnswer
  <2>1. history' = SubSeq(history, 1, Len(history) - 1) /\ loose' = TRUE /\ turn.at = "idle"
        /\ UNCHANGED <<thread, turn>> /\ history # <<>>
      BY <1>7 DEF LoseAnswer
  <2>2. Len(history) \in Nat /\ Len(history) > 0
      BY <1>s, <2>1, Numbers DEF Shapes
  <2>3. history' \in Seq(Messages) /\ Len(history') = Len(history) - 1
    <3>1. history \in Seq(Messages)
        BY <1>s DEF Shapes
    <3>2. \A i \in 1..Len(history) :
            SubSeq(history, 1, i - 1) \in Seq(Messages) /\ Len(SubSeq(history, 1, i - 1)) = i - 1
        BY <3>1
    <3>3. Len(history) \in 1..Len(history)
        BY <2>2
    <3> QED BY <2>1, <3>2, <3>3
  <2>4. Shapes' /\ Paced'
      BY <1>s, <2>1, <2>2, <2>3, Numbers DEF Shapes, Paced
  <2>5. Anchored' /\ JoinFresh' /\ AnswersThisTurn' /\ FlagPlace' /\ LastFlagged' /\ AgreedToTheLast'
      BY <1>s, <2>1 DEF Anchored, JoinFresh, AnswersThisTurn, FlagPlace, LastFlagged,
         AgreedToTheLast
  <2> QED BY <2>4, <2>5 DEF TnInv
<1>8. ASSUME NEW outcome \in {"again", "decided", "expired"}, Resume(outcome) PROVE TnInv'
  <2>0. turn.at = "resume"
      BY <1>8 DEF Resume
  <2>1. CASE outcome \in {"again", "decided"}
    <3>1. /\ thread' \in Threads /\ Answered_with(Nothing_said, FALSE)
          /\ thread'.suggested_write = thread.suggested_write
          /\ thread'.suggested_write_at = thread.suggested_write_at
        BY <1>8, <1>s, <2>1 DEF Resume, Shapes, Threads
    <3> QED BY <2>0, <3>1, IdleShape, AnswerStep
  <2>2. CASE outcome = "expired"
    <3>1. /\ turn' \in Turns /\ turn'.n = turn.n /\ turn'.at = "router"
          /\ turn'.said = turn.said /\ turn'.agreed = turn.agreed
        BY <1>8, <1>s, <2>2 DEF Resume, Shapes, Turns, Ats
    <3>2. /\ thread' \in Threads
          /\ thread'.suggested_write = thread.suggested_write
          /\ thread'.suggested_write_at = thread.suggested_write_at
        BY <1>8, <1>s, <2>2 DEF Resume, Shapes, Threads
    <3>3. UNCHANGED <<history, loose>>
        BY <1>8, <2>2 DEF Resume
    <3>4. JoinFresh' /\ AgreedToTheLast'
        BY <1>s, <2>0, <3>1, <3>3 DEF JoinFresh, AgreedToTheLast, Asked, Before
    <3> QED BY <2>0, <3>1, <3>2, <3>3, <3>4, InnerStep
  <2> QED BY <2>1, <2>2
<1>9. ASSUME NEW asks \in BOOLEAN, NEW proposal \in Proposals, Route(asks, proposal) PROVE TnInv'
  <2> DEFINE agreed == replying_to_write_suggestion(thread.suggested_write,
                         thread.suggested_write_at, Len(history), Asked.reply)
  <2>1. /\ turn.at = "router" /\ UNCHANGED <<history, thread, loose>>
        /\ turn' = [turn EXCEPT !.at = decide_route(asks, proposal, agreed), !.agreed = agreed]
      BY <1>9 DEF Route
  <2>2. decide_route(asks, proposal, agreed) \in Targets
      BY DEF decide_route, Targets, Proposals, VALID_INTENTS
  <2>3. agreed \in BOOLEAN
      BY <1>s DEF replying_to_write_suggestion, Shapes, Threads
  <2>4. agreed /\ ~loose => /\ Len(history) > 1 /\ Asked.reply = "confirm"
                            /\ Before.who = "ai" /\ Before.suggests
    <3> SUFFICES ASSUME agreed, ~loose
                 PROVE  /\ Len(history) > 1 /\ Asked.reply = "confirm"
                        /\ Before.who = "ai" /\ Before.suggests
        OBVIOUS
    <3>1. /\ thread.suggested_write /\ thread.suggested_write_at # None
          /\ Len(history) = thread.suggested_write_at + 1 /\ Asked.reply = "confirm"
        BY DEF replying_to_write_suggestion
    <3>2. thread.suggested_write_at \in Nat /\ thread.suggested_write_at >= 1
        BY <1>s, <3>1, Numbers DEF Shapes, Threads
    <3>3. thread.suggested_write_at = Len(history) - 1 /\ Len(history) > 1
        BY <3>1, <3>2, Numbers
    <3> QED BY <1>s, <3>1, <3>3 DEF FlagPlace, Before
  <2> HIDE DEF agreed
  <2>5. turn' \in Turns /\ turn'.n = turn.n /\ turn'.at \in Targets /\ turn'.said = turn.said
        /\ turn'.agreed = agreed
      BY <1>s, <2>1, <2>2, <2>3 DEF Shapes, Turns, Ats
  <2>6. JoinFresh' /\ turn'.at # "idle"
      BY <2>5, Stations DEF JoinFresh
  <2>7. AgreedToTheLast'
      BY <2>1, <2>4, <2>5 DEF AgreedToTheLast, Asked, Before
  <2> QED BY <1>s, <2>1, <2>5, <2>6, <2>7, InnerStep DEF Shapes
<1>10. ASSUME NEW denied \in BOOLEAN, Tell(denied) PROVE TnInv'
    BY <1>10, <1>s, SaidIs, AnswerStep DEF Tell, Shapes
<1>11. ASSUME NEW suggests \in BOOLEAN, ErpRead(suggests) PROVE TnInv'
    BY <1>11, FlaggedIs, SaidIs, AnswerStep DEF ErpRead
<1>12. ASSUME NEW parks \in BOOLEAN, Work(parks) PROVE TnInv'
  <2>1. turn.at # "idle"
      BY <1>12, TurnAssumption DEF Work
  <2>2. /\ thread' \in Threads /\ Answered_with(Nothing_said, FALSE)
        /\ thread'.suggested_write = thread.suggested_write
        /\ thread'.suggested_write_at = thread.suggested_write_at
      BY <1>12, <1>s DEF Work, Shapes, Threads
  <2> QED BY <2>1, <2>2, IdleShape, AnswerStep
<1>13. ASSUME NEW found \in {"found", "denied", "empty"},
              GatherDocs(found) \/ (found # "denied" /\ GatherErp(found))
       PROVE  TnInv'
  <2>1. /\ turn' \in Turns /\ turn'.n = turn.n /\ turn'.at = "legs" /\ turn'.said = turn.said
        /\ turn'.agreed = turn.agreed /\ turn.at = "legs"
      BY <1>13, <1>s DEF GatherDocs, GatherErp, Shapes, Turns, Ats
  <2>2. UNCHANGED <<history, thread, loose>>
      BY <1>13 DEF GatherDocs, GatherErp
  <2>3. JoinFresh' /\ AgreedToTheLast'
      BY <1>s, <2>1, <2>2 DEF JoinFresh, AgreedToTheLast, Asked, Before
  <2> QED BY <1>s, <2>1, <2>2, <2>3, InnerStep DEF Shapes
<1>14. ASSUME NEW model \in {"text", "empty", "raises"}, NEW suggests \in BOOLEAN,
              FuseAnswer(model, suggests)
       PROVE  TnInv'
    BY <1>14, FlaggedIs, FusedIs, AnswerStep DEF FuseAnswer
<1> QED BY <1>0, <1>1, <1>2, <1>3, <1>4, <1>5, <1>6, <1>7, <1>8, <1>9, <1>10, <1>11, <1>12,
           <1>13, <1>14 DEF TnNext

\* Of a document withheld from the role the answer says so, and of no other.
LEMMA DeniedStep == TnInv /\ [TnNext]_tnVars => DeniedIsSaid
<1> SUFFICES ASSUME TnInv, [TnNext]_tnVars, turn.at = "fuse_answer", turn'.at = "idle",
                    Len(history') > Len(history)
             PROVE  /\ turn'.said.denied <=> turn.docs = "denied"
                    /\ turn'.said.denied => ~turn'.said.safe
    BY DEF DeniedIsSaid
<1>1. history' # history
    BY Numbers
<1>2. "fuse_answer" \notin Targets
    BY Stations
<1>3. PICK model \in {"text", "empty", "raises"}, suggests \in BOOLEAN : FuseAnswer(model, suggests)
    BY <1>1, <1>2, TurnAssumption DEF TnNext, tnVars, Say, OpenAgain, Rewrite, Begin, TaskPrompt, TurnFails, Mixed,
       Join, Die, LoseAnswer, Resume, Route, Tell, ErpRead, Work, GatherDocs, GatherErp, Targets,
       VALID_INTENTS
<1>4. turn'.said = Fused(thread.join, model)
    BY <1>3 DEF FuseAnswer, Answered_with, TnInv, Shapes, Turns
<1> QED BY <1>4, FusedIs

\* The router takes the yes for agreement.
LEMMA CountsStep == TnInv /\ [TnNext]_tnVars => AgreementCounts
<1> SUFFICES ASSUME TnInv, [TnNext]_tnVars, turn.at = "router", turn'.at \in Targets, ~loose,
                    Len(history) > 1, Asked.reply = "confirm", Before.suggests
             PROVE  turn'.at = "erp_write"
    BY DEF AgreementCounts
<1>1. turn'.at \notin {"idle", "router", "legs", "resume", "fuse_answer"}
    BY Stations
<1>2. "router" \notin Sops
    BY TurnAssumption
<1>3. PICK asks \in BOOLEAN, proposal \in Proposals : Route(asks, proposal)
    BY <1>1, <1>2 DEF TnNext, tnVars, Say, OpenAgain, Rewrite, Begin, TaskPrompt,
       TurnFails, Mixed, Join, Die, LoseAnswer, Resume, Answered_with, Tell, ErpRead, Work,
       GatherDocs, GatherErp, FuseAnswer, TnInv, Shapes, Turns, Idle
<1>4. thread.suggested_write /\ thread.suggested_write_at = Len(history) - 1
    BY Numbers DEF TnInv, LastFlagged, FlaggedAt, Before
<1>5. /\ thread.suggested_write_at # None /\ Len(history) = thread.suggested_write_at + 1
    BY <1>4, Numbers
<1> DEFINE agreed == replying_to_write_suggestion(thread.suggested_write,
                       thread.suggested_write_at, Len(history), Asked.reply)
<1>6. agreed
    BY <1>4, <1>5 DEF replying_to_write_suggestion
<1>7. decide_route(asks, proposal, agreed) = "erp_write"
    BY <1>6 DEF decide_route
<1>8. turn' = [turn EXCEPT !.at = decide_route(asks, proposal, agreed), !.agreed = agreed]
    BY <1>3 DEF Route
<1> HIDE DEF agreed
<1> QED BY <1>7, <1>8 DEF TnInv, Shapes, Turns

\* For any workers, channels and number of turns: the fan-out's answers are of the
\* turn under way, and a suggested write sits at the end of the history, with the
\* place the thread remembers (graph.py, fanout.py, nodes.py).
THEOREM TurnInvariant == TnSpec => []TnInv
BY TnInvInit, TnInvStep, PTL DEF TnSpec

LEMMA ShapesAreTypes == TnInv => TnTypeOK
<1> SUFFICES ASSUME TnInv PROVE TnTypeOK
    OBVIOUS
<1>1. history \in Seq(Messages) /\ loose \in BOOLEAN /\ turn.at \in Ats
    BY DEF TnInv, Shapes, Turns
<1>2. Len(history) <= 2 * MaxTurns
    BY Numbers DEF TnInv, Paced
<1>3. /\ thread.join \in Channels /\ thread.suggested_write \in BOOLEAN /\ thread.parked \in BOOLEAN
      /\ thread.suggested_write_at \in {None} \cup 1..(2 * MaxTurns)
    BY DEF TnInv, Shapes, Threads
<1> QED BY <1>1, <1>2, <1>3 DEF TnInv, Anchored, Ats, TnTypeOK

\* The answer joined from the legs of a fan-out is made of this turn's answers and
\* no earlier one's, and a leg the role may not ask is said to be refused
\* (fanout.py: mixed, gather_docs, gather_erp, fuse_answer).
THEOREM JoinAlwaysThisTurns == TnSpec => JoinIsThisTurns
<1>1. TnInv /\ [TnNext]_tnVars => [(TnTypeOK /\ AnswersThisTurn)' /\ DeniedIsSaid]_tnVars
  <2>1. TnInv => TnTypeOK /\ AnswersThisTurn
      BY ShapesAreTypes DEF TnInv
  <2>2. TnInv' => (TnTypeOK /\ AnswersThisTurn)'
      BY <2>1, PTL
  <2> QED BY <2>2, TnInvStep, DeniedStep
<1> QED BY <1>1, TurnInvariant, PTL DEF TnSpec, JoinIsThisTurns

\* A bare "yes" goes to the write path only when the message it answers is the
\* suggestion the thread remembers (routing.py, replying_to_write_suggestion).
THEOREM AgreementAlwaysMeant == TnSpec => AgreementIsMeant
<1>1. TnInv /\ [TnNext]_tnVars => [AgreedToTheLast' /\ AgreementCounts]_tnVars
    BY TnInvStep, CountsStep DEF TnInv
<1> QED BY <1>1, TurnInvariant, PTL DEF TnSpec, AgreementIsMeant

-----------------------------------------------------------------------------
(* The evaluations: their scores, their gate, the loop that measures a set.    *)
\* The sets by name: the fifteen of the nightly table and the two beside it.
LEMMA SetsListed ==
  EvalSets = {"intent", "confirm", "chitchat", "planner", "read", "synthesis",
              "multi_source", "sop_select", "gather", "multi_source_gather",
              "localize", "language", "memory", "multiturn", "retrieval",
              "synthesis_live", "write_suggest"}
PROOF
  <1>1. DOMAIN EVAL_FN = 1 .. 15
    BY DEF EVAL_FN
  <1>2. Range(EVAL_FN) = {EVAL_FN[i] : i \in 1 .. 15}
    BY <1>1 DEF Range
  <1>3. 1 .. 15 = {1, 2, 3, 4, 5, 6, 7, 8, 9, 10, 11, 12, 13, 14, 15}
    OBVIOUS
  <1> QED
    BY <1>2, <1>3 DEF EvalSets, EVAL_FN

LEMMA WhenIsRecord ==
  ASSUME NEW b, NEW tag \in Tags
  PROVE  When(b, tag) \in Records
PROOF BY DEF When, Records

LEMMA RecordsJoin ==
  /\ {} \in Records
  /\ \A tag \in Tags : {tag} \in Records
  /\ \A x, y \in Records : x \cup y \in Records
PROOF BY DEF Records

\* What a set writes of a reply is a set of tags.
LEMMA CallIsRecord ==
  ASSUME NEW s \in EvalSets, NEW c, NEW r
  PROVE  Call(s, c, r) \in Records
PROOF
  <1>1. CASE s = "intent"
    BY <1>1, WhenIsRecord, RecordsJoin DEF Call, eval_intent, Tags
  <1>10. CASE s = "chitchat"
    BY <1>10, WhenIsRecord, RecordsJoin DEF Call, eval_chitchat, Tags
  <1>11. CASE s = "localize"
    BY <1>11, WhenIsRecord, RecordsJoin DEF Call, eval_localize, Tags
  <1>12. CASE s = "language"
    BY <1>12, WhenIsRecord, RecordsJoin DEF Call, eval_language, Tags
  <1>13. CASE s = "retrieval"
    BY <1>13, WhenIsRecord, RecordsJoin DEF Call, eval_retrieval, Tags
  <1>14. CASE s = "multiturn"
    BY <1>14, WhenIsRecord, RecordsJoin DEF Call, eval_multiturn, Tags
  <1>15. CASE s = "synthesis_live"
    BY <1>15, WhenIsRecord, RecordsJoin DEF Call, eval_synthesis_live, Tags
  <1>16. CASE s = "write_suggest"
    BY <1>16, WhenIsRecord, RecordsJoin DEF Call, eval_write_suggest, Tags
  <1>2. CASE s = "sop_select"
    <2>1. \A b, h : {"wrong"} \cup When(b, "depth_wrong") \cup When(h, "hijack") \in Records
      BY WhenIsRecord, RecordsJoin DEF Tags
    <2> QED
      BY <1>2, <2>1, RecordsJoin DEF Call, eval_sop_select
  <1>3. CASE s = "planner"
    <2>1. eval_planner(c, r) \in Records
      BY WhenIsRecord, RecordsJoin DEF eval_planner, Tags
    <2> QED
      BY <1>3, <2>1 DEF Call
  <1>4. CASE s = "read"
    BY <1>4, WhenIsRecord, RecordsJoin DEF Call, eval_read, Tags
  <1>5. CASE s = "confirm"
    BY <1>5, WhenIsRecord, RecordsJoin DEF Call, eval_confirm, Tags
  <1>6. CASE s = "memory"
    BY <1>6, WhenIsRecord, RecordsJoin DEF Call, eval_memory, Tags
  <1>7. CASE s = "synthesis"
    BY <1>7, WhenIsRecord, RecordsJoin DEF Call, eval_synthesis, Tags
  <1>8. CASE s \in {"multi_source", "multi_source_gather"}
    <2>1. \A extra : _score_fusion(c, r, extra) \in Records
      BY WhenIsRecord, RecordsJoin DEF _score_fusion, Tags
    <2> QED
      BY <1>8, <2>1 DEF Call, eval_multi_source, eval_multi_source_gather
  <1>9. CASE s = "gather"
    BY <1>9, WhenIsRecord, RecordsJoin DEF Call, eval_gather, _score_gather, Tags
  <1> QED
    BY <1>1, <1>2, <1>3, <1>4, <1>5, <1>6, <1>7, <1>8, <1>9, <1>10, <1>11, <1>12, <1>13, <1>14,
       <1>15, <1>16, SetsListed

LEMMA RowIsRecord ==
  ASSUME NEW s \in EvalSets, NEW i \in 1 .. size(s), NEW r
  PROVE  Row(s, Cases[s][i], r) \in Records
PROOF
  <1>1. IsCase(s, Cases[s][i])
    BY CaseAssumption
  <1>2. CASE s = "retrieval"
    BY <1>2, WhenIsRecord, RecordsJoin DEF Row, Tags
  <1>3. CASE s = "multiturn"
    <2>1. Cases[s][i].kind \in Tags
      BY <1>1, <1>3 DEF IsCase, Tags
    <2> QED
      BY <2>1, <1>3, WhenIsRecord, RecordsJoin DEF Row, Tags
  <1>4. CASE s \notin {"retrieval", "multiturn"}
    BY <1>4, RecordsJoin DEF Row
  <1> QED
    BY <1>2, <1>3, <1>4

\* The reply a case asks for has nothing to record, where the set has such a reply.
Asking == {"intent", "sop_select", "planner", "read", "confirm", "chitchat", "language",
           "memory", "synthesis", "multi_source", "retrieval", "multiturn"}
LEMMA IdealIsClean ==
  ASSUME NEW s \in Asking, NEW c, NEW r, IsCase(s, c), Ideal(s, c, r)
  PROVE  Call(s, c, r) = {}
PROOF
  <1>1. CASE s = "intent"
    BY <1>1 DEF Call, Ideal, IsCase, eval_intent, parse_proposal, When
  <1>2. CASE s = "sop_select"
    <2> DEFINE want == [intent |-> c.intent, sop |-> c.sop, depth |-> c.depth]
    <2>1. /\ r.sop = c.sop /\ r.depth = c.depth /\ r.intent = c.intent
      BY <1>2 DEF Ideal
    <2>2. /\ parse_proposal(want) = want
          /\ decide_route(c.asks, want, FALSE) = c.route
      BY <1>2 DEF IsCase
    <2>3. parse_proposal(r) = parse_proposal(want)
      BY <2>1 DEF parse_proposal
    <2>4. Call(s, c, r) = eval_sop_select(c, r)
      BY <1>2 DEF Call
    <2> QED
      BY <2>2, <2>3, <2>4 DEF eval_sop_select
  <1>3. CASE s = "planner"
    BY <1>3 DEF Call, Ideal, IsCase, eval_planner, When
  <1>4. CASE s = "read"
    BY <1>4 DEF Call, Ideal, IsCase, eval_read, When
  <1>5. CASE s = "confirm"
    BY <1>5 DEF Call, Ideal, IsCase, eval_confirm
  <1>6. CASE s = "chitchat"
    BY <1>6 DEF Call, Ideal, eval_chitchat, When
  <1>7. CASE s = "language"
    BY <1>7 DEF Call, Ideal, IsCase, eval_language, Language, When
  <1>8. CASE s = "memory"
    BY <1>8 DEF Call, Ideal, IsCase, eval_memory, When
  <1>9. CASE s = "synthesis"
    BY <1>9 DEF Call, Ideal, eval_synthesis, When
  <1>10. CASE s = "multi_source"
    BY <1>10 DEF Call, Ideal, IsCase, eval_multi_source, _score_fusion, When
  <1>11. CASE s = "retrieval"
    BY <1>11 DEF Call, Ideal, eval_retrieval, When, POOL_N
  <1>12. CASE s = "multiturn"
    BY <1>12 DEF Call, Ideal, eval_multiturn, When, FINAL_K
  <1> QED
    BY <1>1, <1>2, <1>3, <1>4, <1>5, <1>6, <1>7, <1>8, <1>9, <1>10, <1>11, <1>12 DEF Asking

\* The tags on which the gate of a set fails whatever the baseline says; a set
\* without one fails on any record.
Fatal(s) ==
  CASE s = "sop_select" -> {"hijack"}
    [] s = "planner" -> {"dangerous_misroute"}
    [] s = "read" -> {"fabricated_param"}
    [] s = "confirm" -> {"false_confirm"}
    [] s = "memory" -> {"false_injection", "leaked_doc_code", "truncated_answer"}
    [] s = "synthesis" -> {"false_answer"}
    [] s = "multi_source" -> {"bad_cite", "fabricated_number"}
    [] s = "chitchat" -> {"violation"}
    [] OTHER -> {"wrong"}
Harming == {"sop_select", "planner", "read", "confirm", "memory", "synthesis", "multi_source",
            "chitchat", "language"}

\* A reply in the dangerous direction leaves a tag its gate looks for.
LEMMA HarmIsTagged ==
  ASSUME NEW s \in EvalSets, NEW c, NEW r, IsCase(s, c), Harmful(s, c, r)
  PROVE  s \in Harming /\ \E tag \in Fatal(s) : tag \in Call(s, c, r)
PROOF
  <1>1. CASE s = "sop_select"
    <2> DEFINE want == [intent |-> c.intent, sop |-> c.sop, depth |-> c.depth]
               got == parse_proposal(r)
    <2>1. c.sop = None /\ c.intent # "erp_write" /\ r.sop \in Sops
      BY <1>1 DEF Harmful
    <2>2. /\ parse_proposal(want) = want
          /\ decide_route(c.asks, want, FALSE) = c.route
      BY <1>1 DEF IsCase
    <2>3. c.depth = "none" /\ c.intent \in VALID_INTENTS
      BY <2>1, <2>2, NoneIsNothing DEF parse_proposal, VALID_INTENTS
    <2>4. c.route = c.intent
      BY <2>1, <2>2 DEF decide_route
    <2>5. got.sop # None /\ got.depth # "none"
      BY <2>1, NoneIsNothing DEF parse_proposal
    <2>6. _is_hijack(c.route, got.sop)
      BY <2>1, <2>3, <2>4, <2>5 DEF _is_hijack, NON_WORK_EXPECTATIONS, VALID_INTENTS
    <2>7. Call(s, c, r) = eval_sop_select(c, r)
      BY <1>1 DEF Call
    <2>8. "hijack" \in eval_sop_select(c, r)
      BY <2>3, <2>5, <2>6 DEF eval_sop_select, When
    <2> QED
      BY <1>1, <2>7, <2>8 DEF Fatal, Harming
  <1>2. CASE s = "planner"
    BY <1>2 DEF Call, Harmful, IsCase, eval_planner, When, Fatal, Harming
  <1>3. CASE s = "read"
    BY <1>3 DEF Call, Harmful, IsCase, eval_read, When, Fatal, Harming
  <1>4. CASE s = "confirm"
    BY <1>4 DEF Call, Harmful, IsCase, eval_confirm, Verdict, When, Fatal, Harming
  <1>5. CASE s = "memory"
    BY <1>5 DEF Call, Harmful, IsCase, eval_memory, When, Fatal, Harming
  <1>6. CASE s = "synthesis"
    BY <1>6 DEF Call, Harmful, eval_synthesis, When, Fatal, Harming
  <1>7. CASE s = "multi_source"
    BY <1>7 DEF Call, Harmful, IsCase, eval_multi_source, _score_fusion, When, Fatal, Harming
  <1>8. CASE s = "chitchat"
    BY <1>8 DEF Call, Harmful, eval_chitchat, When, Fatal, Harming
  <1>9. CASE s = "language"
    BY <1>9 DEF Call, Harmful, IsCase, eval_language, Language, When, Fatal, Harming
  <1>10. CASE s \notin Harming
    BY <1>10 DEF Harmful, Harming
  <1> QED
    BY <1>1, <1>2, <1>3, <1>4, <1>5, <1>6, <1>7, <1>8, <1>9, <1>10 DEF Harming

-----------------------------------------------------------------------------
\* How many records of a sequence carry all of some tags.
LEMMA TaggedFacts ==
  ASSUME NEW q \in Seq(Records), NEW tags
  PROVE  /\ Tagged(q, tags) \in Nat /\ Tagged(q, tags) <= Len(q)
         /\ Tagged(q, tags) = 0 => \A i \in DOMAIN q : ~(tags \subseteq q[i])
         /\ (\A i \in DOMAIN q : tags \subseteq q[i]) => Tagged(q, tags) = Len(q)
PROOF
  <1> DEFINE with == {i \in DOMAIN q : tags \subseteq q[i]}
  <1>1. DOMAIN q = 1 .. Len(q) /\ Len(q) \in Nat
    OBVIOUS
  <1>2. IsFiniteSet(DOMAIN q) /\ Cardinality(DOMAIN q) = Len(q)
    BY <1>1, FS_Interval
  <1>3. with \subseteq DOMAIN q
    OBVIOUS
  <1>4. IsFiniteSet(with) /\ Cardinality(with) <= Cardinality(DOMAIN q)
    BY <1>2, <1>3, FS_Subset
  <1>5. Cardinality(with) \in Nat
    BY <1>4, FS_CardinalityType
  <1>6. Cardinality(with) = 0 => with = {}
    BY <1>4, FS_EmptySet
  <1>7. Tagged(q, tags) = Cardinality(with)
    BY DEF Tagged
  <1>8. (\A i \in DOMAIN q : tags \subseteq q[i]) => with = DOMAIN q
    OBVIOUS
  <1> HIDE DEF with
  <1>9. Tagged(q, tags) = 0 => \A i \in DOMAIN q : ~(tags \subseteq q[i])
    BY <1>6, <1>7 DEF with
  <1> QED
    BY <1>2, <1>4, <1>5, <1>7, <1>8, <1>9

LEMMA SizeIsNat == \A s \in EvalSets : size(s) \in Nat
PROOF BY CaseAssumption

\* The figures are counts of cases; only the headline could go below zero.
LEMMA HeadlineBound ==
  ASSUME NEW s \in EvalSets, NEW m \in Processes
  PROVE  /\ Headline(s, m) \in Int /\ Headline(s, m) <= size(s)
         /\ m.fails = <<>> /\ m.errors = <<>> => Headline(s, m) = size(s)
         /\ s = "language" => Headline(s, m) = size(s) - Len(m.errors) - Len(m.fails)
PROOF
  <1>1. m.fails \in Seq(Records) /\ Len(m.errors) \in Nat /\ Len(m.fails) \in Nat
    BY DEF Processes
  <1>2. \A tags : Tagged(m.fails, tags) \in Nat /\ Tagged(m.fails, tags) <= Len(m.fails)
    BY <1>1, TaggedFacts
  <1>3. PICK k \in Nat : /\ Headline(s, m) = size(s) - Len(m.errors) - k
                         /\ m.fails = <<>> => k = 0
                         /\ s = "language" => k = Len(m.fails)
    <2>1. CASE s = "planner"
      BY <1>1, <1>2, <2>1 DEF Headline
    <2>2. CASE s = "read"
      BY <1>1, <1>2, <2>2 DEF Headline
    <2>3. CASE s = "multi_source"
      BY <1>1, <1>2, <2>3 DEF Headline
    <2>4. CASE s \notin {"planner", "read", "multi_source"}
      BY <1>1, <2>4 DEF Headline
    <2> QED
      BY <2>1, <2>2, <2>3, <2>4
  <1> QED
    BY <1>1, <1>3, SizeIsNat

\* A baseline is a result whose figures are counts of its own cases.
Fits(b) == b \in Results /\ b.right <= b.n /\ b.pool <= b.n /\ b.final <= b.n

LEMMA MoreOfMore ==
  \A n, k \in Nat, r \in Int : r <= k => n * k >= r * n
PROOF
  OBVIOUS

\* The result of any measurement is such a baseline.
LEMMA ResultFits ==
  ASSUME NEW s \in EvalSets, NEW m \in Processes, Len(m.rows) <= size(s)
  PROVE  Fits(Result(s, m))
PROOF
  <1>1. m.rows \in Seq(Records) /\ Len(m.errors) \in Nat /\ m.opts \in Commands /\ Len(m.rows) \in Nat
    BY DEF Processes
  <1>2. \A tags : Tagged(m.rows, tags) \in Nat /\ Tagged(m.rows, tags) <= size(s)
    BY <1>1, TaggedFacts, SizeIsNat
  <1>3. Result(s, m) \in Results
    BY <1>1, <1>2, HeadlineBound, SizeIsNat DEF Result, Results, Commands
  <1> QED
    BY <1>2, <1>3, HeadlineBound DEF Result, Fits

\* The row of a reply at rank one counts for every figure its set averages.
RowSets == {"retrieval", "multiturn"}
Best(s) == IF s = "retrieval" THEN {"pool", "final"} ELSE {"no_ctx", "with_ctx"}

LEMMA IdealIsBest ==
  ASSUME NEW s \in RowSets, NEW c, NEW r, Ideal(s, c, r)
  PROVE  Best(s) \subseteq Row(s, c, r)
PROOF
  <1>1. CASE s = "retrieval"
    BY <1>1 DEF Ideal, Row, Best, When, POOL_N, FINAL_K
  <1>2. CASE s = "multiturn"
    BY <1>2 DEF Ideal, Row, Best, When, FINAL_K
  <1> QED
    BY <1>1, <1>2 DEF RowSets

\* A measurement of ideal replies only is never failed, whatever the baseline holds.
LEMMA IdealNeverFails ==
  ASSUME NEW s \in EvalSets, NEW m \in Processes, NEW b,
         s \in BASELINE_SETS => Fits(b),
         m.errors = <<>>,
         s \in Asking => m.fails = <<>>,
         s \in RowSets => /\ Len(m.rows) = size(s)
                         /\ \A i \in DOMAIN m.rows : Best(s) \subseteq m.rows[i]
  PROVE  _gate(s, m, b) # "fail"
PROOF
  <1> DEFINE res == Result(s, m)
  <1>1. m.rows \in Seq(Records) /\ m.fails \in Seq(Records)
    BY DEF Processes
  <1>2. size(s) \in Nat /\ res.n = size(s)
    BY SizeIsNat DEF Result
  <1>3. s \in Asking => res.right = size(s)
    BY HeadlineBound DEF Result
  <1>4. s \in BASELINE_SETS => /\ b.n \in Nat /\ b.right \in Int /\ b.right <= b.n
                              /\ b.pool \in Nat /\ b.pool <= b.n /\ b.final \in Nat /\ b.final <= b.n
    BY DEF Fits, Results
  <1>5. s \in Asking /\ s \in BASELINE_SETS => NotBelow(res, b)
    BY <1>2, <1>3, <1>4, MoreOfMore DEF NotBelow
  <1>6. s \in Asking => \A tag : Tagged(m.fails, {tag}) = 0
    <2> SUFFICES ASSUME s \in Asking, NEW tag PROVE Tagged(m.fails, {tag}) = 0
      OBVIOUS
    <2>1. Tagged(m.fails, {tag}) \in Nat /\ Tagged(m.fails, {tag}) <= Len(m.fails)
      BY <1>1, TaggedFacts
    <2> QED
      BY <2>1
  <1>7. CASE s \in {"multi_source_gather", "gather", "localize"}
    BY <1>7 DEF _gate
  <1>8. CASE s \in {"synthesis_live", "write_suggest"}
    BY <1>8 DEF _gate
  <1>9. CASE s = "chitchat"
    BY <1>9 DEF _gate, Passing, Asking
  <1>10. CASE s = "intent"
    BY <1>5, <1>10 DEF _gate, Passing, Asking, BASELINE_SETS
  <1>11. CASE s = "language"
    BY <1>2, <1>3, <1>11 DEF _gate, Passing, Asking
  <1>12. CASE s = "memory"
    <2>1. /\ Tagged(m.fails, {"false_injection"}) = 0 /\ Tagged(m.fails, {"leaked_doc_code"}) = 0
          /\ Tagged(m.fails, {"truncated_answer"}) = 0
      BY <1>6, <1>12 DEF Asking
    <2> QED
      BY <2>1, <1>12 DEF _gate, Passing
  <1>13. CASE s = "sop_select"
    <2>1. NotBelow(res, b) /\ Tagged(m.fails, {"hijack"}) = 0
      BY <1>5, <1>6, <1>13 DEF Asking, BASELINE_SETS
    <2> QED
      BY <2>1, <1>13 DEF _gate, Passing
  <1>17. CASE s = "planner"
    <2>1. NotBelow(res, b) /\ Tagged(m.fails, {"dangerous_misroute"}) = 0
      BY <1>5, <1>6, <1>17 DEF Asking, BASELINE_SETS
    <2> QED
      BY <2>1, <1>17 DEF _gate, Passing
  <1>18. CASE s = "read"
    <2>1. NotBelow(res, b) /\ Tagged(m.fails, {"fabricated_param"}) = 0
      BY <1>5, <1>6, <1>18 DEF Asking, BASELINE_SETS
    <2> QED
      BY <2>1, <1>18 DEF _gate, Passing
  <1>19. CASE s = "synthesis"
    <2>1. NotBelow(res, b) /\ Tagged(m.fails, {"false_answer"}) = 0
      BY <1>5, <1>6, <1>19 DEF Asking, BASELINE_SETS
    <2> QED
      BY <2>1, <1>19 DEF _gate, Passing
  <1>20. CASE s = "multi_source"
    <2>1. NotBelow(res, b) /\ Tagged(m.fails, {"bad_cite"}) = 0 /\ Tagged(m.fails, {"fabricated_number"}) = 0
      BY <1>5, <1>6, <1>20 DEF Asking, BASELINE_SETS
    <2> QED
      BY <2>1, <1>20 DEF _gate, Passing
  <1>14. CASE s = "confirm"
    <2>1. (res.right + 1) * b.n >= b.right * res.n
      <3>1. (size(s) + 1) * b.n = size(s) * b.n + b.n /\ size(s) * b.n \in Nat
        BY <1>2, <1>4, <1>14 DEF BASELINE_SETS
      <3>2. size(s) * b.n >= b.right * size(s) /\ b.right * size(s) \in Int
        BY <1>2, <1>4, <1>14, MoreOfMore DEF BASELINE_SETS
      <3> QED
        BY <1>2, <1>3, <1>4, <1>14, <3>1, <3>2 DEF BASELINE_SETS, Asking
    <2> QED
      BY <1>6, <2>1, <1>14 DEF _gate, Passing, Asking
  <1>15. CASE s = "retrieval"
    <2>1. \A tags \in {{"pool"}, {"final"}} : Tagged(m.rows, tags) = size(s)
      BY <1>1, <1>15, TaggedFacts DEF RowSets, Best
    <2>2. res.pool = size(s) /\ res.final = size(s)
      BY <2>1 DEF Result
    <2>3. Comparable(res, b) => res.pool >= b.pool /\ res.final + 1 >= b.final
      BY <1>2, <1>4, <1>15, <2>2 DEF Comparable, BASELINE_SETS
    <2> QED
      BY <2>3, <1>15 DEF _gate, Passing
  <1>16. CASE s = "multiturn"
    <2>1. \A i \in DOMAIN m.rows : "no_ctx" \in m.rows[i] /\ "with_ctx" \in m.rows[i]
      BY <1>16 DEF RowSets, Best
    <2>2. \A kind : /\ Tagged(m.rows, {kind, "with_ctx"}) = Tagged(m.rows, {kind})
                    /\ Tagged(m.rows, {kind, "no_ctx"}) = Tagged(m.rows, {kind})
      <3> TAKE kind
      <3>1. \A i \in DOMAIN m.rows : /\ {kind, "with_ctx"} \subseteq m.rows[i] <=> {kind} \subseteq m.rows[i]
                                    /\ {kind, "no_ctx"} \subseteq m.rows[i] <=> {kind} \subseteq m.rows[i]
        BY <2>1
      <3>2. /\ {i \in DOMAIN m.rows : {kind, "with_ctx"} \subseteq m.rows[i]}
                  = {i \in DOMAIN m.rows : {kind} \subseteq m.rows[i]}
            /\ {i \in DOMAIN m.rows : {kind, "no_ctx"} \subseteq m.rows[i]}
                  = {i \in DOMAIN m.rows : {kind} \subseteq m.rows[i]}
        BY <3>1
      <3> QED
        BY <3>2 DEF Tagged
    <2>3. /\ Tagged(m.rows, {"independent", "with_ctx"}) = Tagged(m.rows, {"independent", "no_ctx"})
          /\ Tagged(m.rows, {"independent", "no_ctx"}) \in Nat
          /\ Tagged(m.rows, {"elliptical", "with_ctx"}) = Tagged(m.rows, {"elliptical"})
      BY <1>1, <2>2, TaggedFacts
    <2> QED
      BY <2>3, <1>16 DEF _gate, Passing
  <1> QED
    BY <1>7, <1>8, <1>9, <1>10, <1>11, <1>12, <1>13, <1>14, <1>15, <1>16,
       <1>17, <1>18, <1>19, <1>20, SetsListed

\* A measurement that holds one fatal tag is never passed.
LEMMA HarmNeverPasses ==
  ASSUME NEW s \in Harming, NEW m \in Processes, NEW b, m.errors = <<>>,
         NEW j \in DOMAIN m.fails, NEW tag \in Fatal(s), tag \in m.fails[j]
  PROVE  _gate(s, m, b) # "pass"
PROOF
  <1>1. m.fails \in Seq(Records) /\ Len(m.fails) \in Nat /\ Len(m.fails) > 0
    BY DEF Processes
  <1>2. Tagged(m.fails, {tag}) # 0
    BY <1>1, TaggedFacts
  <1>3. CASE s = "chitchat"
    BY <1>1, <1>3 DEF _gate, Passing
  <1>4. CASE s = "language"
    <2>1. Result(s, m).n = size(s) /\ Result(s, m).right = size(s) - Len(m.errors) - Len(m.fails)
      BY <1>4, HeadlineBound, SetsListed DEF Result
    <2>2. size(s) \in Nat /\ Len(m.errors) = 0
      BY <1>4, SizeIsNat, SetsListed
    <2> QED
      BY <1>1, <1>4, <2>1, <2>2 DEF _gate, Passing
  <1>5. CASE s = "sop_select"
    BY <1>2, <1>5 DEF _gate, Passing, Fatal
  <1>6. CASE s = "planner"
    BY <1>2, <1>6 DEF _gate, Passing, Fatal
  <1>7. CASE s = "read"
    BY <1>2, <1>7 DEF _gate, Passing, Fatal
  <1>8. CASE s = "confirm"
    BY <1>2, <1>8 DEF _gate, Passing, Fatal
  <1>9. CASE s = "memory"
    BY <1>2, <1>9 DEF _gate, Passing, Fatal
  <1>10. CASE s = "synthesis"
    BY <1>2, <1>10 DEF _gate, Passing, Fatal
  <1>11. CASE s = "multi_source"
    BY <1>2, <1>11 DEF _gate, Passing, Fatal
  <1> QED
    BY <1>3, <1>4, <1>5, <1>6, <1>7, <1>8, <1>9, <1>10, <1>11 DEF Harming

-----------------------------------------------------------------------------
(* The invariant: the loop's bookkeeping against the replies it has seen, the  *)
(* job's verdict so far against what its sets were like, and the files.        *)
Pasts == [who : {None, "job", "cli"}, exit : {None, 0, 1, 2}, left : Int, harmed : BOOLEAN,
          flawed : BOOLEAN, broke : BOOLEAN, count : Nat,
          ends : [EvalSets -> {"clean", "early", "late"}]]

RecordOf(s, rs, i) == Call(s, Cases[s][i], rs[i])
Seen(s, rs) == {i \in 1 .. size(s) : rs[i] # None}

\* The loop stands in its list, and the last consecutive cases, like those to
\* come, have no answer.
Placed(m, rs) ==
  /\ m.set \in EvalSets
  /\ m.attempt \in 1 .. MaxRetries + 1 /\ m.item \in 1 .. size(m.set) + 1
  /\ m.consecutive <= Len(m.errors) /\ m.consecutive < BreakerThreshold
  /\ Len(m.fails) + Len(m.errors) < m.item
  /\ DOMAIN rs = 1 .. size(m.set)
  /\ \A i \in 1 .. size(m.set) : i >= m.item - m.consecutive => rs[i] = None
  /\ m.errors = <<>> => \A i \in 1 .. size(m.set) : i < m.item => rs[i] # None

\* The fails are the records of the answered cases that have one; a set of rows
\* has a row of every answered case.
Kept(m, rs) ==
  /\ \A j \in DOMAIN m.fails : \E i \in Seen(m.set, rs) :
        m.fails[j] = RecordOf(m.set, rs, i) /\ m.fails[j] # {}
  /\ \A i \in Seen(m.set, rs) : RecordOf(m.set, rs, i) # {} =>
        \E j \in DOMAIN m.fails : m.fails[j] = RecordOf(m.set, rs, i)
  /\ m.set \in RowSets => Len(m.rows) + Len(m.errors) = m.item - 1
  /\ m.set \notin RowSets => m.rows = <<>>
  /\ \A j \in DOMAIN m.rows : \E i \in Seen(m.set, rs) :
        m.rows[j] = Row(m.set, Cases[m.set][i], rs[i])

\* What the job may still answer: its sets to go, and a verdict that is never
\* better than the replies so far nor worse than ideal ones.
Owed ==
  /\ past.left = Len(prog.todo) + (IF prog.set = None THEN 0 ELSE 1)
  /\ past.harmed => prog.any_fail
  /\ prog.any_fail => past.flawed
  /\ prog.set # None /\ prog.set \in BASELINE_SETS => Fits(prog.against)

ProgOK ==
  prog # None =>
    /\ prog \in Processes /\ past.who = prog.who
    /\ prog.set = None => prog.who = "job"
    /\ prog.who = "job" => Owed
    /\ prog.set # None => Placed(prog, replies) /\ Kept(prog, replies)

\* A checkpoint is there when the last measurement left one, or the one under
\* way has come to write one.
CkptOK ==
  /\ \A s \in EvalSets : ckpt[s] \in {None} \cup 1 .. size(s)
  /\ DOMAIN ckpt = EvalSets
  /\ \A s \in EvalSets :
       ckpt[s] # None <=>
         \/ past.ends[s] = "late"
         \/ prog # None /\ prog.set = s /\ prog.who = "job" /\ prog.item > CheckpointEvery

BaseOK ==
  /\ \A p \in DOMAIN base : Fits(base[p])
  /\ BaselineMatchesName

EvInv ==
  /\ past \in Pasts
  /\ ProgOK /\ CkptOK /\ BaseOK
  /\ VerdictEarned /\ HarmIsGated

LEMMA Unanswered ==
  ASSUME NEW m \in Processes, NEW rs, Placed(m, rs), m.item <= size(m.set)
  PROVE  /\ m.item \in 1 .. size(m.set) /\ rs[m.item] = None /\ m.item \notin Seen(m.set, rs)
         /\ size(m.set) \in Nat
PROOF
  <1>1. m.consecutive \in Nat /\ m.item \in Nat
    BY DEF Processes
  <1>2. size(m.set) \in Nat /\ m.item \in 1 .. size(m.set)
    BY SizeIsNat DEF Placed
  <1>3. rs[m.item] = None
    BY <1>1, <1>2 DEF Placed
  <1> QED
    BY <1>2, <1>3 DEF Seen

\* The process after the answer r to its case, and after the case was given up.
AnsweredBy(m, r) ==
  LET c == Cases[m.set][m.item]
      record == Call(m.set, c, r)
  IN [m EXCEPT !.consecutive = 0,
               !.fails = IF record = {} THEN @ ELSE Append(@, record),
               !.rows = IF m.set \in {"retrieval", "multiturn"}
                        THEN Append(@, Row(m.set, c, r)) ELSE @]
Onward(p) == [p EXCEPT !.item = p.item + 1, !.attempt = 1]

Moved(m, c, i, f, e, w) == [m EXCEPT !.consecutive = c, !.item = i, !.attempt = 1,
                                    !.fails = f, !.errors = e, !.rows = w]
MovedTo(q, m, c, i, f, e, w) ==
  /\ q \in Processes /\ q.set = m.set /\ q.consecutive = c /\ q.item = i
  /\ q.attempt = 1 /\ q.fails = f /\ q.errors = e /\ q.rows = w
LEMMA MovedIsProcess ==
  ASSUME NEW m \in Processes, NEW c \in Nat, NEW i \in Nat, NEW f \in Seq(Records),
         NEW e \in Seq(Nat), NEW w \in Seq(Records)
  PROVE  MovedTo(Moved(m, c, i, f, e, w), m, c, i, f, e, w)
PROOF BY DEF Moved, MovedTo, Processes

\* An answer moves the loop on by one case, with the record and the row it left.
LEMMA AnswerKeeps ==
  ASSUME NEW m \in Processes, NEW rs, Placed(m, rs), Kept(m, rs), m.item <= size(m.set),
         NEW r \in Cases[m.set][m.item].replies
  PROVE  LET q == Onward(AnsweredBy(m, r))
             ss == [rs EXCEPT ![m.item] = r]
         IN q \in Processes /\ Placed(q, ss) /\ Kept(q, ss)
PROOF
  <1> DEFINE s == m.set
             k == m.item
             record == Call(s, Cases[s][k], r)
             row == Row(s, Cases[s][k], r)
             q == Onward(AnsweredBy(m, r))
             ss == [rs EXCEPT ![k] = r]
  <1>1. /\ s \in EvalSets /\ k \in 1 .. size(s) /\ size(s) \in Nat
        /\ rs[k] = None /\ k \notin Seen(s, rs)
    BY Unanswered DEF Placed
  <1>2. record \in Records /\ row \in Records
    BY <1>1, CallIsRecord, RowIsRecord
  <1>3. r # None
    <2>1. IsCase(s, Cases[s][k])
      BY <1>1, CaseAssumption
    <2> QED
      BY <2>1 DEF IsCase
  <1>4. DOMAIN rs = 1 .. size(s)
    BY DEF Placed
  <1>5. /\ DOMAIN ss = 1 .. size(s) /\ ss[k] = r
        /\ \A i \in 1 .. size(s) : i # k => ss[i] = rs[i]
    BY <1>1, <1>4
  <1>6. Seen(s, ss) = Seen(s, rs) \cup {k}
    BY <1>1, <1>3, <1>5 DEF Seen
  <1>7. /\ m.fails \in Seq(Records) /\ m.rows \in Seq(Records) /\ m.errors \in Seq(Nat)
        /\ m.item \in Nat /\ m.consecutive \in Nat
        /\ Len(m.fails) \in Nat /\ Len(m.rows) \in Nat /\ Len(m.errors) \in Nat
    BY DEF Processes
  <1>8. /\ q.set = s /\ q.item = k + 1 /\ q.attempt = 1 /\ q.consecutive = 0
        /\ q.errors = m.errors
        /\ q.fails = IF record = {} THEN m.fails ELSE Append(m.fails, record)
        /\ q.rows = IF s \in RowSets THEN Append(m.rows, row) ELSE m.rows
        /\ q \in Processes
    <2> DEFINE f == IF record = {} THEN m.fails ELSE Append(m.fails, record)
               w == IF s \in RowSets THEN Append(m.rows, row) ELSE m.rows
    <2>1. f \in Seq(Records) /\ w \in Seq(Records)
      BY <1>2, <1>7
    <2>2. q = Moved(m, 0, k + 1, f, m.errors, w)
      BY DEF Onward, AnsweredBy, RowSets, Moved, Processes
    <2>3. k + 1 \in Nat /\ 0 \in Nat
      BY <1>7
    <2> HIDE DEF q, f, w
    <2>4. MovedTo(q, m, 0, k + 1, f, m.errors, w)
      BY <1>7, <2>1, <2>2, <2>3, MovedIsProcess
    <2> QED
      BY <2>4 DEF MovedTo, f, w
  <1> HIDE DEF q, ss
  <1>9. Placed(q, ss)
    <2>1. q.consecutive <= Len(q.errors) /\ q.consecutive < BreakerThreshold
      <3>1. 0 < BreakerThreshold
        BY LoopAssumption
      <3> QED
        BY <1>7, <1>8, <3>1
    <2>2. Len(q.fails) + Len(q.errors) < q.item
      <3> DEFINE mf == Len(m.fails)
                 me == Len(m.errors)
                 qf == Len(q.fails)
                 qe == Len(q.errors)
      <3>1. k \in Nat /\ mf \in Nat /\ me \in Nat /\ mf + me < k
        BY <1>7 DEF Placed
      <3>2. qf = mf \/ qf = mf + 1
        BY <1>2, <1>7, <1>8
      <3>3. qe = me /\ q.item = k + 1
        BY <1>8
      <3> HIDE DEF mf, me, qf, qe
      <3>4. qf + qe < q.item
        BY <3>1, <3>2, <3>3
      <3> QED
        BY <3>4 DEF qf, qe
    <2>3. \A i \in 1 .. size(s) : i >= q.item - q.consecutive => ss[i] = None
      <3> SUFFICES ASSUME NEW i \in 1 .. size(s), i >= k + 1 PROVE ss[i] = None
        BY <1>7, <1>8
      <3>1. i # k /\ i >= k - m.consecutive
        BY <1>1, <1>7
      <3> QED
        BY <1>5, <3>1 DEF Placed
    <2>4. q.errors = <<>> => \A i \in 1 .. size(s) : i < q.item => ss[i] # None
      BY <1>1, <1>3, <1>5, <1>7, <1>8 DEF Placed
    <2>5. q.attempt \in 1 .. MaxRetries + 1 /\ q.item \in 1 .. size(s) + 1
      BY <1>1, <1>8, LoopAssumption
    <2> QED
      BY <1>1, <1>5, <1>8, <2>1, <2>2, <2>3, <2>4, <2>5 DEF Placed
  <1>10. \A i \in Seen(s, rs) : i \in 1 .. size(s) /\ i # k /\ ss[i] = rs[i]
    BY <1>1, <1>5 DEF Seen
  <1>11. /\ DOMAIN m.fails = 1 .. Len(m.fails) /\ DOMAIN m.rows = 1 .. Len(m.rows)
         /\ \A j \in 1 .. Len(m.fails) : Append(m.fails, record)[j] = m.fails[j]
         /\ \A j \in 1 .. Len(m.rows) : Append(m.rows, row)[j] = m.rows[j]
         /\ Append(m.fails, record)[Len(m.fails) + 1] = record
         /\ Append(m.rows, row)[Len(m.rows) + 1] = row
         /\ DOMAIN Append(m.fails, record) = 1 .. Len(m.fails) + 1
         /\ DOMAIN Append(m.rows, row) = 1 .. Len(m.rows) + 1
         /\ Len(Append(m.rows, row)) = Len(m.rows) + 1
    BY <1>2, <1>7
  <1>12. \A j \in DOMAIN q.fails : \E i \in Seen(s, ss) :
            q.fails[j] = RecordOf(s, ss, i) /\ q.fails[j] # {}
    <2> SUFFICES ASSUME NEW j \in DOMAIN q.fails
                 PROVE  \E i \in Seen(s, ss) : q.fails[j] = RecordOf(s, ss, i) /\ q.fails[j] # {}
      OBVIOUS
    <2>1. CASE j \in DOMAIN m.fails /\ q.fails[j] = m.fails[j]
      <3>1. PICK i \in Seen(s, rs) : m.fails[j] = RecordOf(s, rs, i) /\ m.fails[j] # {}
        BY <2>1 DEF Kept
      <3>2. RecordOf(s, ss, i) = RecordOf(s, rs, i)
        BY <1>10, <3>1 DEF RecordOf
      <3> QED
        BY <1>6, <2>1, <3>1, <3>2
    <2>2. CASE record # {} /\ j = Len(m.fails) + 1 /\ q.fails[j] = record
      <3>1. RecordOf(s, ss, k) = record
        BY <1>5 DEF RecordOf
      <3> QED
        BY <1>6, <2>2, <3>1
    <2>3. \/ q.fails = m.fails
          \/ record # {} /\ q.fails = Append(m.fails, record)
      BY <1>8
    <2>4. \/ j \in DOMAIN m.fails /\ q.fails[j] = m.fails[j]
          \/ record # {} /\ j = Len(m.fails) + 1 /\ q.fails[j] = record
      <3>1. CASE q.fails = m.fails
        BY <3>1
      <3>2. CASE record # {} /\ q.fails = Append(m.fails, record)
        <4>1. j \in 1 .. Len(m.fails) + 1
          BY <1>11, <3>2
        <4>2. CASE j = Len(m.fails) + 1
          BY <1>11, <3>2, <4>2
        <4>3. CASE j # Len(m.fails) + 1
          <5>1. j \in 1 .. Len(m.fails)
            BY <1>7, <4>1, <4>3
          <5> QED
            BY <1>11, <3>2, <5>1
        <4> QED
          BY <4>2, <4>3
      <3> QED
        BY <2>3, <3>1, <3>2
    <2> QED
      BY <2>1, <2>2, <2>4
  <1>13. \A i \in Seen(s, ss) : RecordOf(s, ss, i) # {} =>
            \E j \in DOMAIN q.fails : q.fails[j] = RecordOf(s, ss, i)
    <2> SUFFICES ASSUME NEW i \in Seen(s, ss), RecordOf(s, ss, i) # {}
                 PROVE  \E j \in DOMAIN q.fails : q.fails[j] = RecordOf(s, ss, i)
      OBVIOUS
    <2>1. CASE i = k
      <3>1. RecordOf(s, ss, i) = record
        BY <1>5, <2>1 DEF RecordOf
      <3>2. Len(m.fails) + 1 \in 1 .. Len(m.fails) + 1
        BY <1>7
      <3> QED
        BY <1>8, <1>11, <3>1, <3>2
    <2>2. CASE i \in Seen(s, rs)
      <3>1. RecordOf(s, ss, i) = RecordOf(s, rs, i)
        BY <1>10, <2>2 DEF RecordOf
      <3>2. PICK j \in DOMAIN m.fails : m.fails[j] = RecordOf(s, rs, i)
        BY <2>2, <3>1 DEF Kept
      <3>3. j \in DOMAIN q.fails /\ q.fails[j] = m.fails[j]
        BY <1>7, <1>8, <1>11, <3>2
      <3> QED
        BY <3>1, <3>2, <3>3
    <2> QED
      BY <1>6, <2>1, <2>2
  <1>14. /\ s \in RowSets => Len(q.rows) + Len(q.errors) = q.item - 1
         /\ s \notin RowSets => q.rows = <<>>
    <2> DEFINE mr == Len(m.rows)
               me == Len(m.errors)
               qr == Len(q.rows)
               qe == Len(q.errors)
    <2>1. s \in RowSets => mr + me = k - 1 /\ qr = mr + 1
      BY <1>8, <1>11 DEF Kept
    <2>2. s \notin RowSets => q.rows = <<>>
      BY <1>8 DEF Kept
    <2>3. qe = me /\ q.item = k + 1 /\ k \in Nat /\ mr \in Nat /\ me \in Nat
      BY <1>7, <1>8
    <2> HIDE DEF mr, me, qr, qe
    <2>4. s \in RowSets => qr + qe = q.item - 1
      BY <2>1, <2>3
    <2> QED
      BY <2>2, <2>4 DEF qr, qe
  <1>15. \A j \in DOMAIN q.rows : \E i \in Seen(s, ss) : q.rows[j] = Row(s, Cases[s][i], ss[i])
    <2> SUFFICES ASSUME NEW j \in DOMAIN q.rows
                 PROVE  \E i \in Seen(s, ss) : q.rows[j] = Row(s, Cases[s][i], ss[i])
      OBVIOUS
    <2>1. CASE j \in DOMAIN m.rows /\ q.rows[j] = m.rows[j]
      <3>1. PICK i \in Seen(s, rs) : m.rows[j] = Row(s, Cases[s][i], rs[i])
        BY <2>1 DEF Kept
      <3> QED
        BY <1>6, <1>10, <2>1, <3>1
    <2>2. CASE j = Len(m.rows) + 1 /\ q.rows[j] = row
      BY <1>5, <1>6, <2>2
    <2> QED
      BY <1>7, <1>8, <1>11, <2>1, <2>2
  <1>16. Kept(q, ss)
    BY <1>8, <1>12, <1>13, <1>14, <1>15 DEF Kept
  <1> QED
    BY <1>8, <1>9, <1>16 DEF q, ss

\* A case that was given up leaves the replies and the records as they were.
LEMMA GivingUpKeeps ==
  ASSUME NEW m \in Processes, NEW rs, Placed(m, rs), Kept(m, rs), m.item <= size(m.set),
         Errored(m).consecutive < BreakerThreshold
  PROVE  LET q == Onward(Errored(m)) IN q \in Processes /\ Placed(q, rs) /\ Kept(q, rs)
PROOF
  <1> DEFINE q == Onward(Errored(m))
  <1>1. /\ m.set \in EvalSets /\ m.item \in 1 .. size(m.set) /\ size(m.set) \in Nat
        /\ rs[m.item] = None
    BY Unanswered DEF Placed
  <1>2. /\ m.errors \in Seq(Nat) /\ m.item \in Nat /\ m.consecutive \in Nat
        /\ Len(m.fails) \in Nat /\ Len(m.rows) \in Nat /\ Len(m.errors) \in Nat
    BY DEF Processes
  <1>3. Append(m.errors, m.item) \in Seq(Nat) /\ Len(Append(m.errors, m.item)) = Len(m.errors) + 1
    BY <1>2
  <1>4. /\ q.set = m.set /\ q.item = m.item + 1 /\ q.attempt = 1
        /\ q.consecutive = m.consecutive + 1 /\ q.errors = Append(m.errors, m.item)
        /\ q.fails = m.fails /\ q.rows = m.rows /\ q \in Processes
        /\ Errored(m).consecutive = m.consecutive + 1
    <2>1. q = Moved(m, m.consecutive + 1, m.item + 1, m.fails, Append(m.errors, m.item), m.rows)
      BY DEF Onward, Errored, Moved, Processes
    <2>2. m.fails \in Seq(Records) /\ m.rows \in Seq(Records)
      BY DEF Processes
    <2>3. Errored(m).consecutive = m.consecutive + 1
      BY DEF Errored, Processes
    <2>4. m.item + 1 \in Nat /\ m.consecutive + 1 \in Nat
      BY <1>2
    <2> HIDE DEF q
    <2>5. MovedTo(q, m, m.consecutive + 1, m.item + 1, m.fails, Append(m.errors, m.item), m.rows)
      BY <1>2, <1>3, <2>1, <2>2, <2>4, MovedIsProcess
    <2> QED
      BY <2>3, <2>5 DEF MovedTo
  <1> HIDE DEF q
  <1>5. Placed(q, rs)
    <2>1. q.consecutive <= Len(q.errors) /\ q.consecutive < BreakerThreshold
      BY <1>2, <1>3, <1>4 DEF Placed
    <2>2. Len(q.fails) + Len(q.errors) < q.item
      <3> DEFINE mf == Len(m.fails)
                 me == Len(m.errors)
                 qf == Len(q.fails)
                 qe == Len(q.errors)
      <3>1. m.item \in Nat /\ mf \in Nat /\ me \in Nat /\ mf + me < m.item
        BY <1>2 DEF Placed
      <3>2. qf = mf /\ qe = me + 1 /\ q.item = m.item + 1
        BY <1>3, <1>4
      <3> HIDE DEF mf, me, qf, qe
      <3>3. qf + qe < q.item
        BY <3>1, <3>2
      <3> QED
        BY <3>3 DEF qf, qe
    <2>3. \A i \in 1 .. size(m.set) : i >= q.item - q.consecutive => rs[i] = None
      BY <1>1, <1>2, <1>4 DEF Placed
    <2>4. q.errors # <<>>
      BY <1>2, <1>3, <1>4
    <2>5. q.attempt \in 1 .. MaxRetries + 1 /\ q.item \in 1 .. size(m.set) + 1
      BY <1>1, <1>4, LoopAssumption
    <2> QED
      BY <1>1, <1>4, <2>1, <2>2, <2>3, <2>4, <2>5 DEF Placed
  <1>6. Kept(q, rs)
    <2>1. m.set \in RowSets => Len(q.rows) + Len(q.errors) = q.item - 1
      <3> DEFINE mr == Len(m.rows)
                 me == Len(m.errors)
                 qr == Len(q.rows)
                 qe == Len(q.errors)
      <3>1. m.set \in RowSets => mr + me = m.item - 1
        BY DEF Kept
      <3>2. /\ qe = me + 1 /\ qr = mr /\ q.item = m.item + 1
            /\ m.item \in Nat /\ mr \in Nat /\ me \in Nat
        BY <1>2, <1>3, <1>4
      <3> HIDE DEF mr, me, qr, qe
      <3>3. m.set \in RowSets => qr + qe = q.item - 1
        BY <3>1, <3>2
      <3> QED
        BY <3>3 DEF qr, qe
    <2>2. m.set \notin RowSets => q.rows = <<>>
      BY <1>4 DEF Kept
    <2>3. \A j \in DOMAIN q.fails : \E i \in Seen(m.set, rs) :
             q.fails[j] = RecordOf(m.set, rs, i) /\ q.fails[j] # {}
      BY <1>4 DEF Kept
    <2>4. \A i \in Seen(m.set, rs) : RecordOf(m.set, rs, i) # {} =>
             \E j \in DOMAIN q.fails : q.fails[j] = RecordOf(m.set, rs, i)
      BY <1>4 DEF Kept
    <2>5. \A j \in DOMAIN q.rows : \E i \in Seen(m.set, rs) :
             q.rows[j] = Row(m.set, Cases[m.set][i], rs[i])
      BY <1>4 DEF Kept
    <2> QED
      BY <1>4, <2>1, <2>2, <2>3, <2>4, <2>5 DEF Kept
  <1> QED
    BY <1>4, <1>5, <1>6 DEF q

LEMMA GateRange ==
  ASSUME NEW s, NEW m, NEW b
  PROVE  _gate(s, m, b) \in {"pass", "fail", "raise"}
PROOF BY DEF _gate, Passing

\* Over a list that was answered to the end the gate fails no ideal replies and
\* passes no harmful one.
LEMMA GateIsFair ==
  ASSUME NEW m \in Processes, NEW rs, NEW b, Placed(m, rs), Kept(m, rs), m.item > size(m.set),
         m.errors = <<>>, m.set \in BASELINE_SETS => Fits(b)
  PROVE  /\ Seen(m.set, rs) = 1 .. size(m.set)
         /\ (\A i \in 1 .. size(m.set) : Ideal(m.set, Cases[m.set][i], rs[i]))
              => _gate(m.set, m, b) # "fail"
         /\ (\E i \in 1 .. size(m.set) : Harmful(m.set, Cases[m.set][i], rs[i]))
              => _gate(m.set, m, b) # "pass"
PROOF
  <1> DEFINE s == m.set
  <1>1. s \in EvalSets /\ size(s) \in Nat /\ m.item = size(s) + 1
    BY SizeIsNat DEF Placed, Processes
  <1>2. Seen(s, rs) = 1 .. size(s)
    BY <1>1 DEF Seen, Placed
  <1>3. \A i \in 1 .. size(s) : IsCase(s, Cases[s][i])
    BY <1>1, CaseAssumption
  <1>4. /\ m.fails \in Seq(Records) /\ m.rows \in Seq(Records) /\ Len(m.rows) \in Nat
        /\ Len(m.fails) \in Nat
    BY DEF Processes
  <1>5. ASSUME \A i \in 1 .. size(s) : Ideal(s, Cases[s][i], rs[i])
        PROVE  _gate(s, m, b) # "fail"
    <2>1. s \in Asking => m.fails = <<>>
      <3> SUFFICES ASSUME s \in Asking, m.fails # <<>> PROVE FALSE
        OBVIOUS
      <3>1. 1 \in DOMAIN m.fails
        BY <1>4
      <3>2. PICK i \in Seen(s, rs) : m.fails[1] = RecordOf(s, rs, i) /\ m.fails[1] # {}
        BY <3>1 DEF Kept
      <3>3. RecordOf(s, rs, i) = {}
        BY <1>2, <1>3, <1>5, IdealIsClean DEF RecordOf
      <3> QED
        BY <3>2, <3>3
    <2>2. s \in RowSets => Len(m.rows) = size(s)
      BY <1>1, <1>4 DEF Kept
    <2>3. s \in RowSets => \A j \in DOMAIN m.rows : Best(s) \subseteq m.rows[j]
      <3> SUFFICES ASSUME s \in RowSets, NEW j \in DOMAIN m.rows
                   PROVE  Best(s) \subseteq m.rows[j]
        OBVIOUS
      <3>1. PICK i \in Seen(s, rs) : m.rows[j] = Row(s, Cases[s][i], rs[i])
        BY DEF Kept
      <3> QED
        BY <1>2, <1>5, <3>1, IdealIsBest
    <2> QED
      BY <1>1, <2>1, <2>2, <2>3, IdealNeverFails
  <1>6. ASSUME NEW i \in 1 .. size(s), Harmful(s, Cases[s][i], rs[i])
        PROVE  _gate(s, m, b) # "pass"
    <2>1. s \in Harming
      BY <1>1, <1>3, <1>6, HarmIsTagged
    <2>2. PICK tag \in Fatal(s) : tag \in Call(s, Cases[s][i], rs[i])
      BY <1>1, <1>3, <1>6, HarmIsTagged
    <2>3. PICK j \in DOMAIN m.fails : m.fails[j] = RecordOf(s, rs, i)
      BY <1>2, <2>2 DEF Kept, RecordOf
    <2>4. tag \in m.fails[j]
      BY <2>2, <2>3 DEF RecordOf
    <2> QED
      BY <2>1, <2>4, HarmNeverPasses
  <1> QED
    BY <1>2, <1>5, <1>6

-----------------------------------------------------------------------------
\* The job's list of sets is one of sets, whatever --set was.
LEMMA SetsOfIsSets ==
  ASSUME NEW choice \in SetChoices
  PROVE  SetsOf(choice) \in Seq(EvalSets)
PROOF
  <1>1. {"intent", "confirm", "chitchat", "planner", "read", "synthesis", "multi_source",
         "sop_select", "language", "memory", "multiturn", "retrieval"} \subseteq EvalSets
    BY SetsListed
  <1>2. GATED_FN \in Seq(EvalSets)
    BY <1>1 DEF GATED_FN
  <1>3. <<"intent", "confirm">> \in Seq(EvalSets)
    BY <1>1
  <1>4. choice \notin {"both", "all"} => <<choice>> \in Seq(EvalSets)
    BY CommandAssumption
  <1> QED
    BY <1>2, <1>3, <1>4 DEF SetsOf

LEMMA NewProcess ==
  ASSUME NEW who \in {"job", "cli"}, NEW todo \in Seq(EvalSets), NEW opts \in Commands
  PROVE  LET p == Process(who, todo, opts)
         IN /\ p \in Processes /\ p.who = who /\ p.todo = todo /\ p.set = None
            /\ p.any_fail = FALSE
PROOF
  <1>1. <<>> \in Seq(Records) /\ <<>> \in Seq(Nat)
    OBVIOUS
  <1> QED
    BY <1>1 DEF Process, Processes

\* A measurement starts at the first case, with nothing answered and nothing kept.
StartedAt(q, p, s, b) ==
  /\ q \in Processes /\ q.set = s /\ q.against = b /\ q.item = 1
  /\ q.who = p.who /\ q.todo = p.todo /\ q.any_fail = p.any_fail
  /\ Placed(q, [i \in 1 .. size(s) |-> None]) /\ Kept(q, [i \in 1 .. size(s) |-> None])
LEMMA StartKeeps ==
  ASSUME NEW p \in Processes, NEW s \in EvalSets, NEW b \in Results \cup {None}
  PROVE  StartedAt([Anew(p) EXCEPT !.set = s, !.against = b], p, s, b)
PROOF
  <1> DEFINE q == [Anew(p) EXCEPT !.set = s, !.against = b]
             ss == [i \in 1 .. size(s) |-> None]
  <1>1. <<>> \in Seq(Records) /\ <<>> \in Seq(Nat) /\ Len(<<>>) = 0 /\ DOMAIN <<>> = {}
    OBVIOUS
  <1>2. /\ q \in Processes /\ q.set = s /\ q.against = b /\ q.item = 1 /\ q.attempt = 1
        /\ q.consecutive = 0 /\ q.fails = <<>> /\ q.errors = <<>> /\ q.rows = <<>>
        /\ q.who = p.who /\ q.todo = p.todo /\ q.any_fail = p.any_fail
    BY <1>1 DEF Anew, Processes
  <1>3. size(s) \in Nat
    BY SizeIsNat
  <1>4. 1 \in 1 .. MaxRetries + 1 /\ 0 < BreakerThreshold
    BY LoopAssumption
  <1>5. DOMAIN ss = 1 .. size(s) /\ \A i \in 1 .. size(s) : ss[i] = None
    OBVIOUS
  <1>6. Seen(s, ss) = {}
    BY <1>5 DEF Seen
  <1> HIDE DEF q, ss
  <1>7. Placed(q, ss)
    BY <1>1, <1>2, <1>3, <1>4, <1>5 DEF Placed
  <1>8. Kept(q, ss)
    BY <1>1, <1>2, <1>6 DEF Kept
  <1> QED
    BY <1>2, <1>7, <1>8 DEF StartedAt, q, ss

LEMMA ProcessIsSome == \A p \in Processes : p # None /\ (p.set # None => p.set \in EvalSets)
PROOF BY NoneIsNothing DEF Processes

\* The first checkpoint is due at case CheckpointEvery and not before.
LEMMA DueNow ==
  ASSUME NEW i \in Nat \ {0}
  PROVE  /\ i = CheckpointEvery => i % CheckpointEvery = 0
         /\ i < CheckpointEvery => i % CheckpointEvery # 0
PROOF
  <1>1. CheckpointEvery \in Nat \ {0}
    BY LoopAssumption
  <1> QED
    BY <1>1

-----------------------------------------------------------------------------
\* What becomes of the history when a process starts and when it ends.
Begun(h, past0, who, k) ==
  /\ h \in Pasts /\ h.who = who /\ h.left = k /\ h.exit = None /\ h.harmed = FALSE
  /\ h.flawed = FALSE /\ h.broke = FALSE /\ h.ends = past0.ends
LEMMA PastBegins ==
  ASSUME NEW h \in Pasts, NEW who \in {"job", "cli"}, NEW k \in Int
  PROVE  Begun([h EXCEPT !.who = who, !.left = k, !.exit = None, !.harmed = FALSE,
                         !.flawed = FALSE, !.broke = FALSE], h, who, k)
PROOF BY DEF Begun, Pasts

Ended(h, past0, x) ==
  /\ h \in Pasts /\ h.who = past0.who /\ h.left = past0.left /\ h.exit = x
  /\ h.harmed = past0.harmed /\ h.flawed = past0.flawed /\ h.broke = past0.broke
  /\ h.ends = past0.ends
LEMMA PastEnds ==
  ASSUME NEW h \in Pasts, NEW x \in {None, 0, 1, 2}
  PROVE  Ended([h EXCEPT !.exit = x, !.count = h.count + 1], h, x)
PROOF
  <1>1. PICK k \in Nat : k = h.count + 1
    BY DEF Pasts
  <1>2. Ended([h EXCEPT !.exit = x, !.count = k], h, x)
    BY DEF Ended, Pasts
  <1> QED
    BY <1>1, <1>2

\* The same when the set under way leaves word of how it ended.
LEMMA PastStops ==
  ASSUME NEW h \in Pasts, NEW e \in [EvalSets -> {"clean", "early", "late"}],
         NEW x \in {None, 0, 1, 2}, NEW k \in Nat
  PROVE  /\ [h EXCEPT !.exit = x, !.count = k, !.ends = e] \in Pasts
         /\ [h EXCEPT !.exit = x, !.count = k, !.broke = TRUE, !.ends = e] \in Pasts
PROOF BY DEF Pasts

-----------------------------------------------------------------------------
LEMMA EvInitInv == EvInit => EvInv
PROOF
  <1> SUFFICES ASSUME EvInit PROVE EvInv
    OBVIOUS
  <1> USE DEF EvInit
  <1>1. past \in Pasts
    BY DEF Pasts
  <1>2. CkptOK
    <2>1. \A s \in EvalSets : past.ends[s] = "clean" /\ ckpt[s] = None
      OBVIOUS
    <2> QED
      BY <2>1 DEF CkptOK
  <1>3. BaseOK
    <2> SUFFICES ASSUME NEW p \in DOMAIN base
                 PROVE  /\ Fits(base[p]) /\ base[p].errors = 0 /\ base[p].n = size(p[1])
                        /\ base[p].dang_go = p[3]
                        /\ p[1] \in SENSITIVE => base[p].role = p[2]
      BY DEF BaseOK, BaselineMatchesName
    <2>1. PICK s \in BASELINE_SETS : p = <<s, "admin", "co_dau">>
      OBVIOUS
    <2>2. base[p] = Committed(s)
      BY <2>1
    <2>3. size(s) \in Nat
      BY SizeIsNat, SetsListed DEF BASELINE_SETS
    <2> QED
      BY <2>1, <2>2, <2>3 DEF Committed, Fits, Results
  <1> QED
    BY <1>1, <1>2, <1>3, NoneIsNothing DEF EvInv, ProgOK, VerdictEarned, HarmIsGated

\* A new job has all its sets to go and no verdict yet.
LEMMA RunJobKeeps ==
  ASSUME EvInv, NEW choice \in SetChoices, NEW role \in Roles, RunJob(choice, role)
  PROVE  EvInv'
PROOF
  <1> DEFINE q == Process("job", SetsOf(choice), JobOptions(role))
  <1>1. JobOptions(role) \in Commands
    BY DEF JobOptions, Commands
  <1>2. SetsOf(choice) \in Seq(EvalSets)
    BY SetsOfIsSets
  <1>3. /\ q \in Processes /\ q.who = "job" /\ q.todo = SetsOf(choice) /\ q.set = None
        /\ q.any_fail = FALSE
    <2>1. "job" \in {"job", "cli"}
      OBVIOUS
    <2>2. \A todo \in Seq(EvalSets), opts \in Commands :
            LET p == Process("job", todo, opts)
            IN /\ p \in Processes /\ p.who = "job" /\ p.todo = todo /\ p.set = None
               /\ p.any_fail = FALSE
      BY <2>1, NewProcess
    <2> QED
      BY <1>1, <1>2, <2>2
  <1>4. prog' = q /\ UNCHANGED <<base, ckpt, replies>> /\ prog = None
    BY DEF RunJob
  <1>5. /\ past' \in Pasts /\ past'.who = "job" /\ past'.left = Len(SetsOf(choice))
        /\ past'.harmed = FALSE /\ past'.flawed = FALSE /\ past'.ends = past.ends
    <2>1. past \in Pasts /\ Len(SetsOf(choice)) \in Int
      BY <1>2 DEF EvInv
    <2>2. past' = [past EXCEPT !.who = "job", !.left = Len(SetsOf(choice)),
                               !.exit = None, !.harmed = FALSE, !.flawed = FALSE,
                               !.broke = FALSE]
      BY DEF RunJob
    <2>3. Begun(past', past, "job", Len(SetsOf(choice)))
      BY <2>1, <2>2, PastBegins
    <2> QED
      BY <2>3 DEF Begun
  <1> HIDE DEF q
  <1>6. ProgOK'
    BY <1>2, <1>3, <1>4, <1>5 DEF ProgOK, Owed
  <1>7. CkptOK'
    <2>1. \A s \in EvalSets : s # None
      BY NoneIsNothing
    <2> QED
      BY <1>3, <1>4, <1>5, <2>1 DEF EvInv, CkptOK
  <1>8. BaseOK'
    BY <1>4 DEF EvInv, BaseOK, BaselineMatchesName
  <1>9. prog' # None
    BY <1>3, <1>4, ProcessIsSome
  <1> QED
    BY <1>5, <1>6, <1>7, <1>8, <1>9 DEF EvInv, VerdictEarned, HarmIsGated

LEMMA RunEvalKeeps ==
  ASSUME EvInv, NEW s \in EvalSets, NEW opts \in Options(s), RunEval(s, opts)
  PROVE  EvInv'
PROOF
  <1> DEFINE p == Process("cli", <<>>, opts)
             b == IF opts.compare THEN Baseline(baseline_path(s, opts.role, opts.dang_go)) ELSE None
             q == [Anew(p) EXCEPT !.set = s, !.against = b]
  <1>1. opts \in Commands /\ <<>> \in Seq(EvalSets)
    BY CommandAssumption
  <1>2. p \in Processes /\ p.who = "cli"
    BY <1>1, NewProcess
  <1>3. b \in Results \cup {None}
    BY DEF Baseline, EvInv, BaseOK, Fits
  <1>4. /\ prog' = q /\ replies' = [i \in 1 .. size(s) |-> None]
        /\ UNCHANGED <<base, ckpt>> /\ prog = None
    BY DEF RunEval, Measures
  <1> HIDE DEF p, b
  <1>5. StartedAt(q, p, s, b)
    BY <1>2, <1>3, StartKeeps
  <1> HIDE DEF q
  <1>6. past' \in Pasts /\ past'.who = "cli" /\ past'.ends = past.ends
    <2>1. past \in Pasts
      BY DEF EvInv
    <2>2. PICK k \in Int : k = 1
      OBVIOUS
    <2>3. past' = [past EXCEPT !.who = "cli", !.left = k, !.exit = None, !.harmed = FALSE,
                               !.flawed = FALSE, !.broke = FALSE]
      BY <2>2 DEF RunEval
    <2>4. Begun(past', past, "cli", k)
      BY <2>1, <2>3, PastBegins
    <2> QED
      BY <2>4 DEF Begun
  <1>7. /\ q \in Processes /\ q.set = s /\ q.who = "cli" /\ s # None
        /\ Placed(prog', replies') /\ Kept(prog', replies')
    BY <1>2, <1>4, <1>5, NoneIsNothing DEF StartedAt
  <1>8. ProgOK'
    BY <1>4, <1>6, <1>7 DEF ProgOK
  <1>9. CkptOK'
    BY <1>4, <1>6, <1>7 DEF EvInv, CkptOK
  <1>10. BaseOK'
    BY <1>4 DEF EvInv, BaseOK, BaselineMatchesName
  <1>11. prog' # None
    BY <1>4, <1>7, ProcessIsSome
  <1> QED
    BY <1>6, <1>8, <1>9, <1>10, <1>11 DEF EvInv, VerdictEarned, HarmIsGated

\* The job ends with a verdict only when no set is left.
LEMMA NextSetKeeps ==
  ASSUME EvInv, NextSet
  PROVE  EvInv'
PROOF
  <1>1. /\ prog \in Processes /\ prog.set = None /\ past \in Pasts /\ prog.who = "job"
        /\ past.who = "job" /\ UNCHANGED <<base, ckpt>>
        /\ past.left = Len(prog.todo)
        /\ past.harmed => prog.any_fail
        /\ prog.any_fail => past.flawed
        /\ prog.todo \in Seq(EvalSets) /\ prog # None
    <2>1. prog # None /\ prog.set = None /\ UNCHANGED <<base, ckpt>>
      BY DEF NextSet
    <2>2. prog \in Processes /\ prog.who = "job" /\ past.who = prog.who /\ Owed
      BY <2>1 DEF EvInv, ProgOK
    <2>3. Len(prog.todo) \in Nat /\ prog.todo \in Seq(EvalSets)
      BY <2>2 DEF Processes
    <2>4. past.left = Len(prog.todo) + 0
      BY <2>1, <2>2 DEF Owed
    <2>5. past.left = Len(prog.todo)
      BY <2>3, <2>4
    <2>6. (past.harmed => prog.any_fail) /\ (prog.any_fail => past.flawed)
      BY <2>2 DEF Owed
    <2> QED
      BY <2>1, <2>2, <2>3, <2>5, <2>6 DEF EvInv
  <1>2. BaseOK'
    BY <1>1 DEF EvInv, BaseOK, BaselineMatchesName
  <1>3. \A s \in EvalSets : s # None
    BY NoneIsNothing
  <1>4. ASSUME NEW code \in {0, 1, 2}, Ends(code),
               code \in {0, 1} => prog.todo = <<>>,
               code = 1 => prog.any_fail, code = 0 => ~prog.any_fail
        PROVE  EvInv'
    <2>1. /\ prog' = None /\ past' \in Pasts /\ past'.exit = code /\ past'.ends = past.ends
          /\ past'.left = past.left /\ past'.harmed = past.harmed /\ past'.flawed = past.flawed
      <3>1. prog' = None /\ past' = [past EXCEPT !.exit = code, !.count = past.count + 1]
        BY <1>4 DEF Ends
      <3>2. Ended(past', past, code)
        BY <1>1, <3>1, PastEnds
      <3> QED
        BY <3>1, <3>2 DEF Ended
    <2>2. CkptOK'
      BY <1>1, <1>3, <2>1 DEF EvInv, CkptOK
    <2>3. VerdictEarned'
      <3> SUFFICES ASSUME past'.exit \in {0, 1}
                   PROVE  past'.left = 0 /\ (past'.exit = 1 => past'.flawed)
        BY DEF VerdictEarned
      <3>1. prog.todo = <<>>
        BY <1>4, <2>1
      <3>2. past'.exit = 1 => past.flawed
        BY <1>1, <1>4, <2>1
      <3> QED
        BY <1>1, <2>1, <3>1, <3>2
    <2>4. HarmIsGated'
      <3> SUFFICES ASSUME past'.exit = 0 PROVE ~past'.harmed
        BY DEF HarmIsGated
      <3>1. ~prog.any_fail
        BY <1>4, <2>1
      <3> QED
        BY <1>1, <2>1, <3>1
    <2> QED
      BY <1>2, <2>1, <2>2, <2>3, <2>4 DEF EvInv, ProgOK
  <1>5. CASE prog.todo = <<>>
    BY <1>4, <1>5 DEF NextSet
  <1>6. CASE prog.todo # <<>>
    <2> DEFINE s == Head(prog.todo)
               b == IF s \in BASELINE_SETS
                    THEN Baseline(baseline_path(s, prog.opts.role, "co_dau")) ELSE None
    <2>1. s \in EvalSets /\ Tail(prog.todo) \in Seq(EvalSets) /\ Len(Tail(prog.todo)) + 1 = Len(prog.todo)
      BY <1>1, <1>6
    <2>2. b \in Results \cup {None} /\ (b # None => Fits(b))
      BY DEF Baseline, EvInv, BaseOK, Fits
    <2>3. CASE s \in BASELINE_SETS /\ b = None
      BY <1>4, <1>6, <2>3 DEF NextSet
    <2>4. CASE ~(s \in BASELINE_SETS /\ b = None)
      <3>1. PICK mode \in Modes \cup {"blend"} :
               Measures([prog EXCEPT !.todo = Tail(prog.todo), !.opts.mode = mode], s, b)
        BY <1>6, <2>4 DEF NextSet
      <3>2. past' = past
        BY <1>6, <2>4 DEF NextSet
      <3> DEFINE p == [prog EXCEPT !.todo = Tail(prog.todo), !.opts.mode = mode]
                 q == [Anew(p) EXCEPT !.set = s, !.against = b]
      <3>3. p \in Processes /\ p.who = "job" /\ p.todo = Tail(prog.todo) /\ p.any_fail = prog.any_fail
        <4>1. prog.opts \in Commands
          BY <1>1 DEF Processes
        <4>2. [prog.opts EXCEPT !.mode = mode] \in Commands
          BY <3>1, <4>1 DEF Commands
        <4>3. p = [prog EXCEPT !.todo = Tail(prog.todo), !.opts = [prog.opts EXCEPT !.mode = mode]]
          BY <1>1 DEF Processes
        <4> QED
          BY <1>1, <2>1, <4>2, <4>3 DEF Processes
      <3>4. prog' = q /\ replies' = [i \in 1 .. size(s) |-> None]
        BY <3>1 DEF Measures
      <3> HIDE DEF p
      <3>5. StartedAt(q, p, s, b)
        BY <2>1, <2>2, <3>3, StartKeeps
      <3> HIDE DEF q, b
      <3>6. /\ q \in Processes /\ q.set = s /\ q.who = "job" /\ s # None /\ q.against = b /\ q.item = 1
            /\ q.todo = Tail(prog.todo) /\ q.any_fail = prog.any_fail
            /\ Placed(prog', replies') /\ Kept(prog', replies')
        BY <1>3, <2>1, <3>3, <3>4, <3>5 DEF StartedAt
      <3>7. past'.left = Len(prog'.todo) + 1
        <4>1. past'.left = Len(prog.todo) /\ prog'.todo = Tail(prog.todo)
          BY <1>1, <3>2, <3>4, <3>6
        <4> QED
          BY <2>1, <4>1
      <3>8. s \in BASELINE_SETS => Fits(prog'.against)
        <4>1. prog'.against = b
          BY <3>4, <3>6
        <4> QED
          BY <2>2, <2>4, <4>1
      <3>9. Owed'
        BY <1>1, <3>2, <3>4, <3>6, <3>7, <3>8 DEF Owed
      <3>10. ProgOK'
        BY <1>1, <3>2, <3>4, <3>6, <3>9 DEF ProgOK
      <3>11. CkptOK'
        <4>1. ~(1 > CheckpointEvery)
          BY LoopAssumption
        <4> QED
          BY <1>1, <1>3, <3>2, <3>4, <3>6, <4>1 DEF EvInv, CkptOK
      <3>12. prog' # None
        BY <3>4, <3>6, ProcessIsSome
      <3> QED
        BY <1>1, <1>2, <3>2, <3>10, <3>11, <3>12 DEF EvInv, VerdictEarned, HarmIsGated
    <2> QED
      BY <2>3, <2>4
  <1> QED
    BY <1>5, <1>6

\* What is known of a process that measures a set.
LEMMA MeasuringFacts ==
  ASSUME EvInv, prog # None, prog.set # None
  PROVE  /\ prog \in Processes /\ prog.set \in EvalSets /\ prog.who \in {"job", "cli"}
         /\ past.who = prog.who /\ past \in Pasts
         /\ Placed(prog, replies) /\ Kept(prog, replies)
         /\ prog.who = "job" => Owed
         /\ prog.item \in Nat \ {0} /\ size(prog.set) \in Nat
PROOF
  <1>1. prog \in Processes /\ past.who = prog.who /\ (prog.who = "job" => Owed)
        /\ Placed(prog, replies) /\ Kept(prog, replies) /\ past \in Pasts
    BY DEF EvInv, ProgOK
  <1>2. prog.set \in EvalSets /\ prog.who \in {"job", "cli"}
    BY <1>1 DEF Placed, Processes
  <1>3. prog.item \in Nat \ {0}
    BY <1>1, <1>2, SizeIsNat DEF Placed
  <1> QED
    BY <1>1, <1>2, <1>3, SizeIsNat

\* A step of the loop that keeps its bookkeeping keeps the files' word too: a
\* checkpoint is written exactly when the case count reaches one.
LEMMA DoneKeeps ==
  ASSUME EvInv, Looping, NEW p, Done(p), UNCHANGED <<base, past>>,
         p.item = prog.item, p.set = prog.set, p.who = prog.who,
         Onward(p) \in Processes, Placed(Onward(p), replies'), Kept(Onward(p), replies'),
         Onward(p).item = prog.item + 1, Onward(p).set = prog.set, Onward(p).who = prog.who,
         Onward(p).todo = prog.todo, Onward(p).any_fail = prog.any_fail,
         Onward(p).against = prog.against
  PROVE  EvInv'
PROOF
  <1> DEFINE q == Onward(p)
             s == prog.set
  <1>1. /\ prog # None /\ prog.set # None /\ prog.item <= size(prog.set)
    BY DEF Looping
  <1>2. /\ s \in EvalSets /\ prog.item \in Nat \ {0} /\ prog.item \in 1 .. size(s)
        /\ past.who = prog.who /\ past \in Pasts /\ prog.who \in {"job", "cli"}
        /\ prog.who = "job" => Owed
    BY <1>1, MeasuringFacts
  <1>3. prog' = q
    BY DEF Done, Onward
  <1>4. IF p.item % CheckpointEvery = 0 THEN _write_checkpoint(p) ELSE UNCHANGED ckpt
    BY DEF Done
  <1> HIDE DEF q
  <1>5. /\ prog' \in Processes /\ prog'.set = s /\ prog'.who = prog.who
        /\ prog'.item = prog.item + 1 /\ prog'.todo = prog.todo
        /\ prog'.any_fail = prog.any_fail /\ prog'.against = prog.against
        /\ Placed(prog', replies') /\ Kept(prog', replies') /\ prog' # None
    BY <1>3, ProcessIsSome DEF q
  <1>6. Owed => Owed'
    BY <1>5 DEF Owed
  <1>7. ProgOK'
    BY <1>1, <1>2, <1>5, <1>6 DEF ProgOK
  <1>8. CkptOK'
    <2>1. CkptOK
      BY DEF EvInv
    <2>2. CASE prog.who = "cli"
      <3>1. ckpt' = ckpt
        BY <1>4, <2>2 DEF _write_checkpoint
      <3> QED
        BY <1>5, <2>1, <2>2, <3>1 DEF CkptOK
    <2>3. CASE prog.who = "job" /\ prog.item % CheckpointEvery = 0
      <3>1. ckpt' = [ckpt EXCEPT ![s] = prog.item]
        BY <1>4, <2>3 DEF _write_checkpoint
      <3>2. DOMAIN ckpt' = EvalSets /\ ckpt'[s] = prog.item
            /\ \A t \in EvalSets : t # s => ckpt'[t] = ckpt[t]
        BY <1>2, <2>1, <3>1 DEF CkptOK
      <3>3. prog.item # None
        BY <1>2, NoneIsNothing
      <3>4. prog.item + 1 > CheckpointEvery
        <4>1. CheckpointEvery \in Nat /\ ~(prog.item < CheckpointEvery)
          BY <1>2, <2>3, DueNow, LoopAssumption
        <4> QED
          BY <1>2, <4>1
      <3> QED
        BY <1>2, <1>5, <2>1, <2>3, <3>2, <3>3, <3>4 DEF CkptOK
    <2>4. CASE prog.who = "job" /\ prog.item % CheckpointEvery # 0
      <3>1. ckpt' = ckpt
        BY <1>4, <2>4
      <3>2. prog.item + 1 > CheckpointEvery <=> prog.item > CheckpointEvery
        <4>1. CheckpointEvery \in Nat /\ prog.item # CheckpointEvery
          BY <1>2, <2>4, DueNow, LoopAssumption
        <4> QED
          BY <1>2, <4>1
      <3> QED
        BY <1>1, <1>5, <2>1, <2>4, <3>1, <3>2 DEF CkptOK
    <2> QED
      BY <1>2, <2>2, <2>3, <2>4
  <1>9. BaseOK'
    BY DEF EvInv, BaseOK, BaselineMatchesName
  <1> QED
    BY <1>2, <1>5, <1>7, <1>8, <1>9 DEF EvInv, VerdictEarned, HarmIsGated

SameTask(q, m) ==
  /\ q.set = m.set /\ q.who = m.who /\ q.item = m.item /\ q.todo = m.todo
  /\ q.any_fail = m.any_fail /\ q.against = m.against
SameTaskOn(q, m) ==
  /\ q.set = m.set /\ q.who = m.who /\ q.item = m.item + 1 /\ q.todo = m.todo
  /\ q.any_fail = m.any_fail /\ q.against = m.against

LEMMA CaseAnsweredKeeps ==
  ASSUME EvInv, Looping, NEW r \in Cases[prog.set][prog.item].replies, CaseAnswered(r)
  PROVE  EvInv'
PROOF
  <1> DEFINE p == AnsweredBy(prog, r)
  <1>1. prog # None /\ prog.set # None /\ prog.item <= size(prog.set)
    BY DEF Looping
  <1>2. prog \in Processes /\ Placed(prog, replies) /\ Kept(prog, replies)
    BY <1>1, MeasuringFacts
  <1>3. Done(p) /\ replies' = [replies EXCEPT ![prog.item] = r] /\ UNCHANGED <<base, past>>
    BY DEF CaseAnswered, AnsweredBy
  <1>4. Onward(p) \in Processes /\ Placed(Onward(p), replies') /\ Kept(Onward(p), replies')
    BY <1>1, <1>2, <1>3, AnswerKeeps
  <1>5. SameTask(p, prog) /\ SameTaskOn(Onward(p), prog)
    BY <1>2 DEF SameTask, SameTaskOn, AnsweredBy, Onward, Processes
  <1> HIDE DEF p
  <1> QED
    BY <1>3, <1>4, <1>5, DoneKeeps DEF SameTask, SameTaskOn

LEMMA GiveUpKeeps ==
  ASSUME EvInv, GiveUp
  PROVE  EvInv'
PROOF
  <1> DEFINE p == Errored(prog)
  <1>1. /\ Looping /\ prog # None /\ prog.set # None /\ prog.item <= size(prog.set)
        /\ p.consecutive < BreakerThreshold
    BY DEF GiveUp, Looping
  <1>2. prog \in Processes /\ Placed(prog, replies) /\ Kept(prog, replies)
    BY <1>1, MeasuringFacts
  <1>3. Done(p) /\ replies' = replies /\ UNCHANGED <<base, past>>
    BY DEF GiveUp
  <1>4. Onward(p) \in Processes /\ Placed(Onward(p), replies') /\ Kept(Onward(p), replies')
    BY <1>1, <1>2, <1>3, GivingUpKeeps
  <1>5. SameTask(p, prog) /\ SameTaskOn(Onward(p), prog)
    BY <1>2 DEF SameTask, SameTaskOn, Errored, Onward, Processes
  <1> HIDE DEF p
  <1> QED
    BY <1>1, <1>3, <1>4, <1>5, DoneKeeps DEF SameTask, SameTaskOn

LEMMA RetryKeeps ==
  ASSUME EvInv, Retry
  PROVE  EvInv'
PROOF
  <1>1. /\ prog # None /\ prog.set # None /\ prog.attempt <= MaxRetries
        /\ prog' = [prog EXCEPT !.attempt = prog.attempt + 1]
        /\ UNCHANGED <<base, ckpt, replies, past>>
    BY DEF Retry, Looping
  <1>2. /\ prog \in Processes /\ Placed(prog, replies) /\ Kept(prog, replies)
        /\ past.who = prog.who /\ (prog.who = "job" => Owed)
    BY <1>1, MeasuringFacts
  <1>3. PICK k \in Nat : k = prog.attempt + 1 /\ k \in 1 .. MaxRetries + 1
    BY <1>1, <1>2, LoopAssumption DEF Processes, Placed
  <1>4. /\ prog' \in Processes /\ SameTask(prog', prog) /\ prog'.attempt = k
        /\ prog'.consecutive = prog.consecutive /\ prog'.fails = prog.fails
        /\ prog'.errors = prog.errors /\ prog'.rows = prog.rows
    BY <1>1, <1>2, <1>3 DEF Processes, SameTask
  <1>5. Placed(prog', replies') /\ Kept(prog', replies')
    <2>1. Placed(prog', replies)
      <3>1. prog'.attempt \in 1 .. MaxRetries + 1
        BY <1>3, <1>4
      <3> QED
        BY <1>2, <1>4, <3>1 DEF Placed, SameTask
    <2>2. Kept(prog', replies)
      <3>1. \A j \in DOMAIN prog'.fails : \E i \in Seen(prog'.set, replies) :
               prog'.fails[j] = RecordOf(prog'.set, replies, i) /\ prog'.fails[j] # {}
        BY <1>2, <1>4 DEF Kept, SameTask
      <3>2. \A i \in Seen(prog'.set, replies) : RecordOf(prog'.set, replies, i) # {} =>
               \E j \in DOMAIN prog'.fails : prog'.fails[j] = RecordOf(prog'.set, replies, i)
        BY <1>2, <1>4 DEF Kept, SameTask
      <3>3. /\ prog'.set \in RowSets => Len(prog'.rows) + Len(prog'.errors) = prog'.item - 1
            /\ prog'.set \notin RowSets => prog'.rows = <<>>
        BY <1>2, <1>4 DEF Kept, SameTask
      <3>4. \A j \in DOMAIN prog'.rows : \E i \in Seen(prog'.set, replies) :
               prog'.rows[j] = Row(prog'.set, Cases[prog'.set][i], replies[i])
        BY <1>2, <1>4 DEF Kept, SameTask
      <3> QED
        BY <3>1, <3>2, <3>3, <3>4 DEF Kept
    <2> QED
      BY <1>1, <2>1, <2>2
  <1>6. Owed => Owed'
    BY <1>1, <1>4 DEF Owed, SameTask
  <1>7. ProgOK'
    BY <1>1, <1>2, <1>4, <1>5, <1>6 DEF ProgOK, SameTask
  <1>8. CkptOK'
    BY <1>1, <1>4, ProcessIsSome DEF EvInv, CkptOK, SameTask
  <1>9. BaseOK'
    BY <1>1 DEF EvInv, BaseOK, BaselineMatchesName
  <1> QED
    BY <1>1, <1>4, <1>7, <1>8, <1>9, ProcessIsSome DEF EvInv, VerdictEarned, HarmIsGated

\* The breaker leaves a checkpoint and a crashed run behind.
LEMMA BreakKeeps ==
  ASSUME EvInv, Break
  PROVE  EvInv'
PROOF
  <1> DEFINE s == prog.set
             e == IF prog.who = "job" THEN [past.ends EXCEPT ![s] = "late"] ELSE past.ends
  <1>1. /\ prog # None /\ s # None /\ prog.item <= size(s)
        /\ _write_checkpoint(Errored(prog)) /\ prog' = None /\ base' = base
    BY DEF Break, Looping
  <1>2. /\ prog \in Processes /\ s \in EvalSets /\ past \in Pasts /\ prog.item \in 1 .. size(s)
        /\ prog.item \in Nat
    BY <1>1, MeasuringFacts
  <1>3. past' = [past EXCEPT !.exit = 2, !.count = past.count + 1, !.broke = TRUE, !.ends = e]
    BY <1>2 DEF Break, Pasts
  <1>4. past.ends \in [EvalSets -> {"clean", "early", "late"}]
    BY <1>2 DEF Pasts
  <1>5. e \in [EvalSets -> {"clean", "early", "late"}]
    BY <1>2, <1>4
  <1>6. PICK k \in Nat : k = past.count + 1
    BY <1>2 DEF Pasts
  <1>7. past' \in Pasts /\ past'.exit = 2 /\ past'.ends = e
    <2> HIDE DEF e
    <2>1. past' \in Pasts
      BY <1>2, <1>3, <1>5, <1>6, PastStops
    <2> QED
      BY <1>2, <1>3, <1>6, <2>1 DEF Pasts
  <1>8. CkptOK'
    <2>1. CkptOK
      BY DEF EvInv
    <2>2. Errored(prog).who = prog.who /\ Errored(prog).set = s /\ Errored(prog).item = prog.item
      BY <1>2 DEF Errored, Processes
    <2>3. CASE prog.who = "job"
      <3>1. ckpt' = [ckpt EXCEPT ![s] = prog.item]
        BY <1>1, <2>2, <2>3 DEF _write_checkpoint
      <3>2. /\ DOMAIN ckpt' = EvalSets /\ ckpt'[s] = prog.item
            /\ \A t \in EvalSets : t # s => ckpt'[t] = ckpt[t]
        BY <1>2, <2>1, <3>1 DEF CkptOK
      <3>3. prog.item # None
        BY <1>2, NoneIsNothing
      <3>4. past'.ends[s] = "late" /\ \A t \in EvalSets : t # s => past'.ends[t] = past.ends[t]
        BY <1>2, <1>4, <1>7, <2>3
      <3> QED
        BY <1>1, <1>2, <2>1, <3>2, <3>3, <3>4 DEF CkptOK
    <2>4. CASE prog.who # "job"
      <3>1. ckpt' = ckpt /\ past'.ends = past.ends
        BY <1>1, <1>7, <2>2, <2>4 DEF _write_checkpoint
      <3> QED
        BY <1>1, <2>1, <2>4, <3>1 DEF CkptOK
    <2> QED
      BY <2>3, <2>4
  <1>9. BaseOK'
    BY <1>1 DEF EvInv, BaseOK, BaselineMatchesName
  <1> QED
    BY <1>1, <1>7, <1>8, <1>9 DEF EvInv, ProgOK, VerdictEarned, HarmIsGated

LEMMA KilledKeeps ==
  ASSUME EvInv, Killed
  PROVE  EvInv'
PROOF
  <1> DEFINE s == prog.set
             e == IF prog.who = "job" /\ prog.set # None
                  THEN [past.ends EXCEPT ![s] =
                          IF prog.item > CheckpointEvery \/ past.ends[s] = "late" THEN "late" ELSE "early"]
                  ELSE past.ends
  <1>1. /\ prog # None /\ prog' = None /\ UNCHANGED <<base, ckpt>>
    BY DEF Killed
  <1>2. past \in Pasts /\ prog \in Processes
    BY <1>1 DEF EvInv, ProgOK
  <1>3. s # None => s \in EvalSets
    BY <1>2, ProcessIsSome
  <1>4. past.ends \in [EvalSets -> {"clean", "early", "late"}]
    BY <1>2 DEF Pasts
  <1>5. e \in [EvalSets -> {"clean", "early", "late"}]
    BY <1>3, <1>4
  <1>6. PICK k \in Nat : k = past.count + 1
    BY <1>2 DEF Pasts
  <1>7. past' = [past EXCEPT !.exit = None, !.count = k, !.ends = e]
    <2>1. CASE prog.who = "job" /\ prog.set # None
      BY <1>2, <1>6, <2>1 DEF Killed, Pasts
    <2>2. CASE ~(prog.who = "job" /\ prog.set # None)
      BY <1>2, <1>6, <2>2 DEF Killed, Pasts
    <2> QED
      BY <2>1, <2>2
  <1>8. past' \in Pasts /\ past'.exit = None /\ past'.ends = e
    <2> HIDE DEF e
    <2>1. past' \in Pasts
      BY <1>2, <1>5, <1>7, PastStops
    <2> QED
      BY <1>2, <1>7, <2>1 DEF Pasts
  <1>9. CkptOK'
    <2>1. CkptOK
      BY DEF EvInv
    <2>2. CASE prog.who = "job" /\ s # None
      <3>1. /\ past'.ends[s] = "late" <=> (prog.item > CheckpointEvery \/ past.ends[s] = "late")
            /\ \A t \in EvalSets : t # s => past'.ends[t] = past.ends[t]
        BY <1>3, <1>4, <1>8, <2>2
      <3> QED
        BY <1>1, <1>3, <2>1, <2>2, <3>1 DEF CkptOK
    <2>3. CASE ~(prog.who = "job" /\ s # None)
      <3>1. past'.ends = past.ends
        BY <1>8, <2>3
      <3> QED
        BY <1>1, <1>3, <2>1, <2>3, <3>1, NoneIsNothing DEF CkptOK
    <2> QED
      BY <2>2, <2>3
  <1>10. BaseOK'
    BY <1>1 DEF EvInv, BaseOK, BaselineMatchesName
  <1>11. None \notin {0, 1}
    BY NoneIsNothing
  <1> QED
    BY <1>1, <1>8, <1>9, <1>10, <1>11 DEF EvInv, ProgOK, VerdictEarned, HarmIsGated

\* The end of a set: its history, its record in the job's verdict, its files.
LEMMA JudgedIs ==
  ASSUME EvInv, prog # None, prog.set # None
  PROVE  LET s == prog.set
             h == Judged(s)
         IN /\ h \in Pasts /\ h.who = past.who
            /\ Seen(s, replies) = 1 .. size(s) => h.left = past.left - 1
            /\ h.harmed <=> \/ past.harmed
                            \/ \E i \in Seen(s, replies) : Harmful(s, Cases[s][i], replies[i])
            /\ h.flawed <=> \/ past.flawed
                            \/ ~ \A i \in 1 .. size(s) : /\ i \in Seen(s, replies)
                                                        /\ Ideal(s, Cases[s][i], replies[i])
            /\ h.broke = past.broke
            /\ prog.who # "job" => h.ends = past.ends
            /\ prog.who = "job" => h.ends = [past.ends EXCEPT ![s] = "clean"]
PROOF
  <1> DEFINE s == prog.set
             left == IF Seen(s, replies) = 1 .. size(s) THEN past.left - 1 ELSE past.left
             harmed == past.harmed \/ \E i \in Seen(s, replies) : Harmful(s, Cases[s][i], replies[i])
             flawed == past.flawed \/ ~ \A i \in 1 .. size(s) : /\ i \in Seen(s, replies)
                                                               /\ Ideal(s, Cases[s][i], replies[i])
             e == IF prog.who = "job" THEN [past.ends EXCEPT ![s] = "clean"] ELSE past.ends
  <1>1. past \in Pasts /\ s \in EvalSets
    BY MeasuringFacts
  <1>2. Judged(s) = [past EXCEPT !.left = left, !.harmed = harmed, !.flawed = flawed, !.ends = e]
    BY <1>1 DEF Judged, Pasts, Seen
  <1>3. left \in Int
    BY <1>1 DEF Pasts
  <1>4. harmed \in BOOLEAN /\ flawed \in BOOLEAN
    OBVIOUS
  <1>5. e \in [EvalSets -> {"clean", "early", "late"}]
    <2>1. past.ends \in [EvalSets -> {"clean", "early", "late"}]
      BY <1>1 DEF Pasts
    <2> QED
      BY <1>1, <2>1
  <1> HIDE DEF left, harmed, flawed, e
  <1>6. /\ Judged(s) \in Pasts /\ Judged(s).who = past.who /\ Judged(s).left = left
        /\ Judged(s).harmed = harmed /\ Judged(s).flawed = flawed
        /\ Judged(s).broke = past.broke /\ Judged(s).ends = e
    BY <1>1, <1>2, <1>3, <1>4, <1>5 DEF Pasts
  <1>7. Judged(s).harmed <=> harmed
    BY <1>4, <1>6
  <1>8. Judged(s).flawed <=> flawed
    BY <1>4, <1>6
  <1>9. Judged(s).ends = e
    BY <1>6
  <1> QED
    BY <1>6, <1>7, <1>8, <1>9 DEF left, harmed, flawed, e

LEMMA LoopIsOver ==
  ASSUME EvInv, LoopOver
  PROVE  /\ prog # None /\ prog.set # None /\ prog.item = size(prog.set) + 1
         /\ prog.item > size(prog.set)
         /\ Len(prog.rows) \in Nat /\ Len(prog.rows) <= size(prog.set)
PROOF
  <1>1. prog # None /\ prog.set # None /\ prog.item > size(prog.set)
    BY DEF LoopOver
  <1>2. /\ prog \in Processes /\ Placed(prog, replies) /\ Kept(prog, replies)
        /\ prog.item \in Nat /\ size(prog.set) \in Nat
    BY <1>1, MeasuringFacts
  <1>3. prog.item = size(prog.set) + 1
    BY <1>1, <1>2 DEF Placed
  <1>4. Len(prog.rows) \in Nat /\ Len(prog.errors) \in Nat
    BY <1>2 DEF Processes
  <1>5. Len(prog.rows) <= size(prog.set)
    <2>1. CASE prog.set \in RowSets
      <3> DEFINE r == Len(prog.rows)
                 e == Len(prog.errors)
      <3>1. r + e = prog.item - 1 /\ r \in Nat /\ e \in Nat
        BY <1>2, <1>4, <2>1 DEF Kept
      <3> HIDE DEF r, e
      <3>2. r <= size(prog.set)
        BY <1>2, <1>3, <3>1
      <3> QED
        BY <3>2 DEF r
    <2>2. CASE prog.set \notin RowSets
      BY <1>2, <2>2 DEF Kept
    <2> QED
      BY <2>1, <2>2
  <1> QED
    BY <1>1, <1>3, <1>4, <1>5

LEMMA UnlinkedKeeps ==
  ASSUME EvInv, LoopOver, prog.who = "job", ckpt' = Unlink(prog.set),
         past'.ends = [past.ends EXCEPT ![prog.set] = "clean"],
         prog' = None \/ prog'.set = None
  PROVE  CkptOK'
PROOF
  <1> DEFINE s == prog.set
  <1>1. s \in EvalSets /\ past \in Pasts /\ CkptOK
    BY LoopIsOver, MeasuringFacts DEF EvInv
  <1>2. /\ DOMAIN ckpt' = EvalSets /\ ckpt'[s] = None
        /\ \A t \in EvalSets : t # s => ckpt'[t] = ckpt[t]
    BY <1>1 DEF Unlink, CkptOK
  <1>3. past.ends \in [EvalSets -> {"clean", "early", "late"}]
    BY <1>1 DEF Pasts
  <1>4. past'.ends[s] = "clean" /\ \A t \in EvalSets : t # s => past'.ends[t] = past.ends[t]
    BY <1>1, <1>3
  <1>5. \A t \in EvalSets : t # None
    BY NoneIsNothing
  <1> QED
    BY <1>1, <1>2, <1>4, <1>5 DEF CkptOK

\* The verdict of a set goes into the job's, and the job's stays just.
LEMMA FinishSetKeeps ==
  ASSUME EvInv, FinishSet
  PROVE  EvInv'
PROOF
  <1> DEFINE s == prog.set
             verdict == _gate(s, prog, prog.against)
             h == Judged(s)
  <1>1. /\ LoopOver /\ prog.who = "job" /\ ckpt' = Unlink(s) /\ base' = base
        /\ prog # None /\ s # None /\ prog.item > size(s)
    BY LoopIsOver DEF FinishSet
  <1>2. /\ prog \in Processes /\ s \in EvalSets /\ past.who = "job" /\ past \in Pasts /\ Owed
        /\ Placed(prog, replies) /\ Kept(prog, replies)
    BY <1>1, MeasuringFacts
  <1>3. /\ h \in Pasts /\ h.who = "job"
        /\ Seen(s, replies) = 1 .. size(s) => h.left = past.left - 1
        /\ h.harmed <=> \/ past.harmed
                        \/ \E i \in Seen(s, replies) : Harmful(s, Cases[s][i], replies[i])
        /\ h.flawed <=> \/ past.flawed
                        \/ ~ \A i \in 1 .. size(s) : /\ i \in Seen(s, replies)
                                                    /\ Ideal(s, Cases[s][i], replies[i])
        /\ h.ends = [past.ends EXCEPT ![s] = "clean"]
    BY <1>1, <1>2, JudgedIs
  <1> HIDE DEF h
  <1>4. BaseOK'
    BY <1>1 DEF EvInv, BaseOK, BaselineMatchesName
  <1>5. CASE prog.errors # <<>> \/ verdict = "raise"
    <2>1. prog' = None /\ past' = [h EXCEPT !.exit = 2, !.count = h.count + 1]
      BY <1>5 DEF FinishSet, h
    <2>2. Ended(past', h, 2)
      BY <1>3, <2>1, PastEnds
    <2>3. CkptOK'
      BY <1>1, <1>3, <2>1, <2>2, UnlinkedKeeps DEF Ended
    <2> QED
      BY <1>4, <2>1, <2>2, <2>3 DEF Ended, EvInv, ProgOK, VerdictEarned, HarmIsGated
  <1>6. CASE ~(prog.errors # <<>> \/ verdict = "raise")
    <2> DEFINE fails == prog.any_fail \/ verdict = "fail"
               q == [Anew(prog) EXCEPT !.set = None, !.against = None, !.any_fail = fails]
    <2>1. prog' = q /\ past' = h
      <3>1. /\ prog' = [Anew(prog) EXCEPT !.set = None, !.against = None,
                                          !.any_fail = Anew(prog).any_fail \/ verdict = "fail"]
            /\ past' = h
        BY <1>2, <1>6 DEF FinishSet, h, Anew, Processes
      <3>2. Anew(prog).any_fail = prog.any_fail
        BY <1>2 DEF Anew, Processes
      <3> QED
        BY <3>1, <3>2
    <2>2. fails \in BOOLEAN /\ prog.any_fail \in BOOLEAN
      BY <1>2 DEF Processes
    <2>3. <<>> \in Seq(Records) /\ <<>> \in Seq(Nat)
      OBVIOUS
    <2> HIDE DEF fails
    <2>4. /\ q \in Processes /\ q.set = None /\ q.who = "job" /\ q.todo = prog.todo
          /\ q.any_fail = fails
      BY <1>1, <1>2, <2>2, <2>3 DEF Anew, Processes
    <2> HIDE DEF q
    <2>5. /\ Seen(s, replies) = 1 .. size(s)
          /\ (\A i \in 1 .. size(s) : Ideal(s, Cases[s][i], replies[i])) => verdict # "fail"
          /\ (\E i \in 1 .. size(s) : Harmful(s, Cases[s][i], replies[i])) => verdict # "pass"
      BY <1>1, <1>2, <1>6, GateIsFair DEF Owed
    <2>6. verdict \in {"pass", "fail", "raise"}
      BY GateRange
    <2>7. h.left = Len(prog.todo)
      <3>1. Len(prog.todo) \in Nat
        BY <1>2 DEF Processes
      <3>2. past.left = Len(prog.todo) + 1
        BY <1>1, <1>2 DEF Owed
      <3> QED
        BY <1>3, <2>5, <3>1, <3>2
    <2>8. h.harmed => fails
      BY <1>2, <1>3, <1>6, <2>5, <2>6 DEF Owed, fails
    <2>9. fails => h.flawed
      BY <1>2, <1>3, <2>5 DEF Owed, fails
    <2>10. Owed'
      <3>1. Len(prog.todo) + 0 = Len(prog.todo)
        BY <1>2 DEF Processes
      <3>2. past'.left = Len(prog'.todo) + (IF prog'.set = None THEN 0 ELSE 1)
        BY <2>1, <2>4, <2>7, <3>1
      <3> QED
        BY <2>1, <2>4, <2>8, <2>9, <3>2 DEF Owed
    <2>11. ProgOK'
      BY <1>3, <2>1, <2>4, <2>10 DEF ProgOK
    <2>12. CkptOK'
      BY <1>1, <1>3, <2>1, <2>4, UnlinkedKeeps
    <2>13. prog' # None
      BY <2>1, <2>4, ProcessIsSome
    <2> QED
      BY <1>3, <1>4, <2>1, <2>11, <2>12, <2>13 DEF EvInv, VerdictEarned, HarmIsGated
  <1> QED
    BY <1>5, <1>6

\* A baseline is saved only of a set measured without an error, under the name
\* its own role and spelling give it.
LEMMA FinishEvalKeeps ==
  ASSUME EvInv, FinishEval
  PROVE  EvInv'
PROOF
  <1> DEFINE s == prog.set
             path == baseline_path(s, prog.opts.role, prog.opts.dang_go)
             h == Judged(s)
  <1>1. /\ LoopOver /\ prog.who = "cli" /\ ckpt' = ckpt /\ prog' = None
        /\ prog # None /\ s # None /\ prog.item > size(s)
    BY LoopIsOver DEF FinishEval
  <1>2. /\ prog \in Processes /\ s \in EvalSets /\ past.who = "cli" /\ past \in Pasts
    BY <1>1, MeasuringFacts
  <1>3. h \in Pasts /\ h.who = "cli" /\ h.ends = past.ends
    BY <1>1, <1>2, JudgedIs
  <1>4. PICK code \in {0, 1, 2} : past' = [h EXCEPT !.exit = code, !.count = h.count + 1]
    <2>1. prog.errors # <<>> => past' = [h EXCEPT !.exit = 2, !.count = h.count + 1]
      BY DEF FinishEval
    <2>2. \/ past' = [h EXCEPT !.exit = 0, !.count = h.count + 1]
          \/ past' = [h EXCEPT !.exit = 1, !.count = h.count + 1]
          \/ past' = [h EXCEPT !.exit = 2, !.count = h.count + 1]
      BY DEF FinishEval
    <2> QED
      BY <2>2
  <1> HIDE DEF h
  <1>5. Ended(past', h, code)
    BY <1>3, <1>4, PastEnds
  <1>6. BaseOK'
    <2>1. BaseOK
      BY DEF EvInv
    <2>2. CASE base' = base
      BY <2>1, <2>2 DEF BaseOK, BaselineMatchesName
    <2>3. CASE /\ prog.errors = <<>>
               /\ base' = [p \in DOMAIN base \cup {path} |->
                             IF p = path THEN Result(s, prog) ELSE base[p]]
      <3>1. Fits(Result(s, prog))
        BY <1>1, <1>2, LoopIsOver, ResultFits
      <3>2. /\ Result(s, prog).errors = 0 /\ Result(s, prog).n = size(s)
            /\ Result(s, prog).dang_go = path[3]
            /\ path[1] = s /\ (s \in SENSITIVE => Result(s, prog).role = path[2])
        BY <2>3 DEF Result, baseline_path
      <3>3. /\ DOMAIN base' = DOMAIN base \cup {path} /\ base'[path] = Result(s, prog)
            /\ \A p \in DOMAIN base : p # path => base'[p] = base[p]
        BY <2>3
      <3> HIDE DEF path
      <3>4. \A p \in DOMAIN base' : Fits(base'[p])
        BY <2>1, <3>1, <3>3 DEF BaseOK
      <3>5. \A p \in DOMAIN base' : /\ base'[p].errors = 0 /\ base'[p].n = size(p[1])
                                    /\ base'[p].dang_go = p[3]
                                    /\ p[1] \in SENSITIVE => base'[p].role = p[2]
        <4> TAKE p \in DOMAIN base'
        <4>1. CASE p = path
          BY <3>2, <3>3, <4>1
        <4>2. CASE p # path
          BY <2>1, <3>3, <4>2 DEF BaseOK, BaselineMatchesName
        <4> QED
          BY <4>1, <4>2
      <3> QED
        BY <3>4, <3>5 DEF BaseOK, BaselineMatchesName
    <2> QED
      BY <2>2, <2>3 DEF FinishEval
  <1>7. CkptOK'
    BY <1>1, <1>3, <1>5 DEF EvInv, CkptOK, Ended
  <1> QED
    BY <1>1, <1>3, <1>5, <1>6, <1>7 DEF Ended, EvInv, ProgOK, VerdictEarned, HarmIsGated

-----------------------------------------------------------------------------
LEMMA EvNextKeeps == EvInv /\ [EvNext]_ev_vars => EvInv'
PROOF
  <1> SUFFICES ASSUME EvInv, [EvNext]_ev_vars PROVE EvInv'
    OBVIOUS
  <1>1. ASSUME NEW c \in SetChoices, NEW role \in Roles, RunJob(c, role) PROVE EvInv'
    BY <1>1, RunJobKeeps
  <1>2. ASSUME NEW s \in EvalSets, NEW o \in Options(s), RunEval(s, o) PROVE EvInv'
    BY <1>2, RunEvalKeeps
  <1>3. CASE NextSet
    BY <1>3, NextSetKeeps
  <1>4. CASE Retry
    BY <1>4, RetryKeeps
  <1>5. CASE GiveUp
    BY <1>5, GiveUpKeeps
  <1>6. CASE Break
    BY <1>6, BreakKeeps
  <1>7. CASE FinishSet
    BY <1>7, FinishSetKeeps
  <1>8. CASE FinishEval
    BY <1>8, FinishEvalKeeps
  <1>9. CASE Killed
    BY <1>9, KilledKeeps
  <1>10. ASSUME Looping, NEW r \in Cases[prog.set][prog.item].replies, CaseAnswered(r) PROVE EvInv'
    BY <1>10, CaseAnsweredKeeps
  <1>11. CASE UNCHANGED ev_vars
    <2>1. UNCHANGED <<base, ckpt, prog, replies, past>>
      BY <1>11 DEF ev_vars
    <2>2. ProgOK' /\ CkptOK' /\ BaseOK'
      BY <2>1 DEF EvInv, ProgOK, Owed, CkptOK, BaseOK, BaselineMatchesName
    <2> QED
      BY <2>1, <2>2 DEF EvInv, VerdictEarned, HarmIsGated
  <1> QED
    BY <1>1, <1>2, <1>3, <1>4, <1>5, <1>6, <1>7, <1>8, <1>9, <1>10, <1>11 DEF EvNext

\* The invariant says what the run checks.
LEMMA EvInvSays == EvInv => VerdictIsJust /\ CheckpointIsEvidence /\ BaselineMatchesName
PROOF
  <1> SUFFICES ASSUME EvInv PROVE VerdictIsJust /\ CheckpointIsEvidence /\ BaselineMatchesName
    OBVIOUS
  <1>1. EvTypeOK
    <2>1. past.exit \in {None, 0, 1, 2}
      BY DEF EvInv, Pasts
    <2>2. prog # None /\ prog.set # None =>
            /\ prog.attempt \in 1 .. MaxRetries + 1
            /\ prog.item \in 1 .. size(prog.set) + 1
            /\ Len(prog.fails) + Len(prog.errors) < prog.item
            /\ prog.consecutive <= Len(prog.errors)
            /\ prog.consecutive < BreakerThreshold
      BY DEF EvInv, ProgOK, Placed
    <2> QED
      BY <2>1, <2>2 DEF EvInv, CkptOK, EvTypeOK
  <1>2. CheckpointIsEvidence
    BY DEF EvInv, CkptOK, CheckpointIsEvidence
  <1> QED
    BY <1>1, <1>2 DEF EvInv, BaseOK, VerdictIsJust

\* Only Break opens the breaker, after a streak of unanswered cases.
LEMMA BreakerOpens == EvInv /\ [EvNext]_ev_vars => BreakerIsSystemic
PROOF
  <1> SUFFICES ASSUME EvInv, [EvNext]_ev_vars, past'.broke, ~past.broke
               PROVE  \A i \in prog.item + 1 - BreakerThreshold .. prog.item : replies[i] = None
    BY DEF BreakerIsSystemic
  <1>1. past \in Pasts
    BY DEF EvInv
  <1>2. CASE Break
    <2>1. /\ prog # None /\ prog.set # None /\ prog.item <= size(prog.set)
          /\ Errored(prog).consecutive >= BreakerThreshold
      BY <1>2 DEF Break, Looping
    <2>2. prog \in Processes /\ Placed(prog, replies) /\ size(prog.set) \in Nat
      BY <2>1, MeasuringFacts
    <2>3. /\ prog.consecutive \in Nat /\ prog.item \in Nat /\ BreakerThreshold \in Nat
          /\ Errored(prog).consecutive = prog.consecutive + 1
      BY <2>2, LoopAssumption DEF Processes, Errored
    <2>4. prog.consecutive < BreakerThreshold /\ prog.consecutive <= Len(prog.errors)
          /\ Len(prog.fails) + Len(prog.errors) < prog.item
          /\ \A i \in 1 .. size(prog.set) : i >= prog.item - prog.consecutive => replies[i] = None
      BY <2>2 DEF Placed
    <2>5. prog.consecutive < prog.item
      <3> DEFINE f == Len(prog.fails)
                 e == Len(prog.errors)
      <3>1. f \in Nat /\ e \in Nat
        BY <2>2 DEF Processes
      <3>2. f + e < prog.item /\ prog.consecutive <= e
        BY <2>4
      <3> HIDE DEF f, e
      <3> QED
        BY <2>3, <3>1, <3>2
    <2>6. prog.item + 1 - BreakerThreshold = prog.item - prog.consecutive
      BY <2>1, <2>3, <2>4
    <2> TAKE i \in prog.item + 1 - BreakerThreshold .. prog.item
    <2>7. i \in 1 .. size(prog.set) /\ i >= prog.item - prog.consecutive
      BY <2>1, <2>2, <2>3, <2>5, <2>6
    <2> QED
      BY <2>4, <2>7
  <1>3. CASE ~Break
    <2>1. UNCHANGED past => FALSE
      BY DEF BreakerIsSystemic
    <2>2. ASSUME NEW c \in SetChoices, NEW role \in Roles, RunJob(c, role) PROVE FALSE
      BY <1>1, <2>2 DEF RunJob, Pasts
    <2>3. ASSUME NEW s \in EvalSets, NEW o \in Options(s), RunEval(s, o) PROVE FALSE
      BY <1>1, <2>3 DEF RunEval, Pasts
    <2>4. CASE NextSet
      <3>1. past'.broke = past.broke
        BY <1>1, <2>4 DEF NextSet, Ends, Pasts
      <3> QED
        BY <3>1
    <2>5. CASE Retry \/ GiveUp
      BY <2>1, <2>5 DEF Retry, GiveUp
    <2>6. CASE FinishSet
      <3>1. Judged(prog.set) \in Pasts /\ Judged(prog.set).broke = past.broke
        BY <2>6, LoopIsOver, JudgedIs DEF FinishSet
      <3>2. past'.broke = past.broke
        BY <2>6, <3>1 DEF FinishSet, Pasts
      <3> QED
        BY <3>2
    <2>7. CASE FinishEval
      <3>1. Judged(prog.set) \in Pasts /\ Judged(prog.set).broke = past.broke
        BY <2>7, LoopIsOver, JudgedIs DEF FinishEval
      <3>2. past'.broke = past.broke
        BY <2>7, <3>1 DEF FinishEval, Pasts
      <3> QED
        BY <3>2
    <2>8. CASE Killed
      <3>1. past'.broke = past.broke
        BY <1>1, <2>8 DEF Killed, Pasts
      <3> QED
        BY <3>1
    <2>9. ASSUME NEW r, CaseAnswered(r) PROVE FALSE
      BY <2>1, <2>9 DEF CaseAnswered
    <2>10. CASE UNCHANGED ev_vars
      BY <2>1, <2>10 DEF ev_vars
    <2> QED
      BY <1>3, <2>2, <2>3, <2>4, <2>5, <2>6, <2>7, <2>8, <2>9, <2>10 DEF EvNext
  <1> QED
    BY <1>2, <1>3

\* The invariant of the evaluation jobs, over any case lists and command lines
\* and at any point a process may be killed (resilience.py, eval_gate.py).
THEOREM EvalInvariant == EvSpec => []EvInv
PROOF
  <1> QED
    BY EvInitInv, EvNextKeeps, PTL DEF EvSpec

\* The nightly gate is just: its verdict comes only when every case of every set
\* asked for was answered, no dangerous reply passes, and a model that gives the
\* reply every case asks for is not failed (eval_gate.py:94).
THEOREM VerdictAlwaysJust == EvSpec => []VerdictIsJust
PROOF
  <1>1. EvInv => VerdictIsJust
    BY EvInvSays
  <1> QED
    BY <1>1, EvalInvariant, PTL

\* The files a run leaves tell what it did: the checkpoints between runs, the
\* breaker's, and every baseline's set, spelling and role, which are all that its name
\* says (resilience.py:39, run_eval.py:102).
THEOREM FilesAlwaysEvidence == EvSpec => FilesAreEvidence
PROOF
  <1>1. EvInv => CheckpointIsEvidence /\ BaselineMatchesName
    BY EvInvSays
  <1>2. EvInv /\ [EvNext]_ev_vars => BreakerIsSystemic
    BY BreakerOpens
  <1>3. EvInv' => (CheckpointIsEvidence /\ BaselineMatchesName)'
    BY <1>1, PTL
  <1>4. EvInv /\ EvInv' /\ [EvNext]_ev_vars
          => [(CheckpointIsEvidence /\ BaselineMatchesName)' /\ BreakerIsSystemic]_ev_vars
    BY <1>2, <1>3
  <1> QED
    BY <1>4, EvalInvariant, PTL DEF EvSpec, FilesAreEvidence
=============================================================================
