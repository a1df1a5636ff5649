------------------------------ MODULE LlmRouter ------------------------------
(***************************************************************************)
(* The fallback chain of the language-model calls: concurrent calls, each  *)
(* walking its chain of models, over three things they share -- the usage  *)
(* ledger (one row per answered call), the cool-down of each model and the *)
(* API key each model is using now (KeyRing).                              *)
(*                                                                         *)
(* A call checks the ledger, sends its request, and only records the usage *)
(* when the answer is in: between the two, other calls do the same.        *)
(***************************************************************************)
EXTENDS Naturals, Sequences, FiniteSetsExt, SequencesExt, Lists

CONSTANTS
    Calls,        \* concurrent Router.invoke / ainvoke calls
    Models,       \* aliases of the catalogue
    Base,         \* CHAINS[role]: the static chain
    Selectable,   \* MODEL_CHON_DUOC, in its order
    Prefer,       \* per call: the model the user chose, or NoChoice
    Pin,          \* per call: the model an evaluation pinned, or NoChoice
    Wallet,       \* per model: the quota it draws on (alias, or provider)
    Rpd, Rpm, Tpm,\* per model: requests a day, requests and tokens a minute
    Need,         \* per model: estimated tokens of a request
    KeyCount,     \* per model: API keys configured for its provider
    Sizes,        \* total_tokens an answer may report
    ErrorRest,    \* COOLDOWN_ERROR_S
    RateRest,     \* COOLDOWN_RATE_LIMIT_S
    Minute,       \* the ledger's minute window
    LinkTime,     \* per model: timeout_s of its client
    LedgerFails,  \* TRUE: Postgres may be unreachable
    MaxTime,      \* bound: last value of the clock (far below a day)
    NoChoice

ASSUME ChainAssumption ==
    /\ Base \in Seq(Models) /\ IsInjective(Base) /\ Base # <<>>
    /\ Selectable \in Seq(Models) /\ IsInjective(Selectable)
    /\ NoChoice \notin Models
    /\ Prefer \in [Calls -> Models \cup {NoChoice}]
    /\ Pin \in [Calls -> Models \cup {NoChoice}]

ASSUME LimitAssumption ==
    /\ \A f \in {Rpd, Rpm, Tpm, Need, LinkTime} : f \in [Models -> Nat]
    /\ KeyCount \in [Models -> Nat \ {0}]
    /\ Sizes \subseteq Nat /\ {Minute, MaxTime} \subseteq Nat
    /\ {ErrorRest, RateRest} \subseteq Nat \ {0}
    /\ LedgerFails \in BOOLEAN

VARIABLES
    now,      \* the clock, in units the bounds name
    rest,     \* _cooldowns: per model, the time its cool-down ends
    rows,     \* llm_usage
    key,      \* KeyRing.index: the key each model is using
    call      \* the calls

vars == <<now, rest, rows, key, call>>

NewCall == [pc |-> "idle", left |-> 0, link |-> NoChoice, sent |-> 0,
            empty |-> {}, totals |-> <<>>, total |-> 0, discarded |-> 0,
            tried |-> <<>>, paid |-> <<>>, began |-> 0, when |-> <<>>]

\* tried, paid, began and when are history: the links asked, the tokens
\* answered, when the call started and when it asked each link.

-----------------------------------------------------------------------------
(* catalog.chain_for *)

chain_for(prefer) ==
    IF prefer = NoChoice THEN Base
    ELSE LET behind == Within(Base, Models \ {prefer})
             absent == Within(Selectable, Models \ ({prefer} \cup ToSet(behind)))
         IN  <<prefer>> \o absent \o behind

Chain(c) == IF Pin[c] = NoChoice THEN chain_for(Prefer[c]) ELSE <<Pin[c]>>

max_attempts(c) == IF Pin[c] = NoChoice THEN Len(chain_for(Prefer[c])) ELSE 1

-----------------------------------------------------------------------------
(* BudgetLedger *)

\* The places of the rows a wallet is charged for.
LedgerRows(a, since) ==
    {i \in DOMAIN rows : Wallet[rows[i].model] = Wallet[a] /\ rows[i].at >= since}

Tokens(places) == Sum([i \in DOMAIN rows |-> IF i \in places THEN rows[i].tokens ELSE 0])

Since(window) == IF now >= window THEN now - window ELSE 0

\* The day window is longer than MaxTime: it holds every row.
can_afford(a, down) ==
    /\ now >= rest[a]
    /\ \/ down
       \/ /\ Cardinality(LedgerRows(a, 0)) < Rpd[a]
          /\ Cardinality(LedgerRows(a, Since(Minute))) < Rpm[a]
          /\ Tokens(LedgerRows(a, Since(Minute))) + Need[a] <= Tpm[a]

LedgerDown == IF LedgerFails THEN BOOLEAN ELSE {FALSE}

-----------------------------------------------------------------------------
(* Router.invoke / ainvoke *)

StartCall(c) ==
    /\ call[c].pc = "idle"
    /\ call' = [call EXCEPT ![c].pc = "choose", ![c].left = max_attempts(c),
                            ![c].began = now]
    /\ UNCHANGED <<now, rest, rows, key>>

Skipped(c) == call[c].empty

\* The links resolve() may still choose: not answered empty in this call,
\* affordable.  A pinned call takes its model whatever the ledger says.
Open(c, down) ==
    {i \in 1..Len(Chain(c)) :
        \/ Pin[c] # NoChoice
        \/ Chain(c)[i] \notin Skipped(c) /\ can_afford(Chain(c)[i], down)}

Resolve(c) ==
    /\ call[c].pc = "choose" /\ call[c].left > 0
    /\ \E down \in LedgerDown :
         /\ Open(c, down) # {}
         /\ LET link == Chain(c)[Min(Open(c, down))]
            IN  call' = [call EXCEPT ![c].pc = "send", ![c].link = link,
                                     ![c].left = @ - 1,
                                     ![c].tried = Append(@, link),
                                     ![c].when = Append(@, now)]
    /\ UNCHANGED <<now, rest, rows, key>>

\* No attempt left, or no link left: the last empty answer is better than
\* none; without one the call raises ChainExhausted.
Ending_AlwaysRaises(c) == "raised"
Ending(c) == IF call[c].totals = <<>> THEN "raised" ELSE "returned"

Discarded_CountsTwice(totals) == Sum(totals)
Discarded(totals) == Sum(Front(totals))

RaiseExhausted(c) ==
    /\ call[c].pc = "choose"
    /\ call[c].left > 0 => \E down \in LedgerDown : Open(c, down) = {}
    /\ call' = [call EXCEPT ![c].pc = Ending(c),
                  ![c].total = IF call[c].totals = <<>> THEN 0 ELSE Last(call[c].totals),
                  ![c].discarded = IF call[c].totals = <<>> THEN 0
                                   ELSE Discarded(call[c].totals)]
    /\ UNCHANGED <<now, rest, rows, key>>

\* The request goes out with the key the model is using at this moment.
Send(c) ==
    /\ call[c].pc = "send"
    /\ call' = [call EXCEPT ![c].pc = "wait", ![c].sent = now]
    /\ UNCHANGED <<now, rest, rows, key>>

\* KeyRing.rotate: the next key, or back to the first and no key left.
rotate_Wraps(a) == [index |-> (key[a] + 1) % KeyCount[a], more |-> TRUE]
rotate(a) == IF key[a] + 1 >= KeyCount[a]
             THEN [index |-> 0, more |-> FALSE]
             ELSE [index |-> key[a] + 1, more |-> TRUE]

CooledUntil_Never(seconds) == now
CooledUntil(seconds) == now + seconds

\* A 429: try the same link with the next key; out of keys, the link cools
\* down and the attempt is over.
Throttled(c) ==
    LET a == call[c].link
    IN  /\ call[c].pc = "wait"
        /\ key' = [key EXCEPT ![a] = rotate(a).index]
        /\ IF rotate(a).more
           THEN /\ call' = [call EXCEPT ![c].pc = "send"]
                /\ UNCHANGED rest
           ELSE /\ call' = [call EXCEPT ![c].pc = "choose"]
                /\ rest' = [rest EXCEPT ![a] = CooledUntil(RateRest)]
        /\ UNCHANGED <<now, rows>>

\* Any other exception, the client's time-out included.
Fails(c) ==
    /\ call[c].pc = "wait"
    /\ call' = [call EXCEPT ![c].pc = "choose"]
    /\ rest' = [rest EXCEPT ![call[c].link] = CooledUntil(ErrorRest)]
    /\ UNCHANGED <<now, rows, key>>

\* An answer, with the tokens the provider counted; it may be empty.
Answers(c) ==
    /\ call[c].pc = "wait"
    /\ \E size \in Sizes, verdict \in {"usable", "empty"} :
         call' = [call EXCEPT ![c].pc = verdict, ![c].total = size,
                              ![c].paid = Append(@, size)]
    /\ UNCHANGED <<now, rest, rows, key>>

\* _finish records the usage before the answer is judged; a row that cannot
\* be written is lost.
Record(c) ==
    \/ rows' = Append(rows, [model |-> call[c].link, at |-> now, tokens |-> call[c].total])
    \/ LedgerFails /\ UNCHANGED rows

FinishUsable(c) ==
    /\ call[c].pc = "usable"
    /\ Record(c)
    /\ call' = [call EXCEPT ![c].pc = "returned", ![c].discarded = Sum(call[c].totals)]
    /\ UNCHANGED <<now, rest, key>>

FinishEmpty(c) ==
    /\ call[c].pc = "empty"
    /\ Record(c)
    /\ call' = [call EXCEPT ![c].pc = "choose",
                            ![c].empty = @ \cup {call[c].link},
                            ![c].totals = Append(@, call[c].total)]
    /\ UNCHANGED <<now, rest, key>>

\* Time passes, but no client waits longer than its time-out.
Tick ==
    /\ now < MaxTime
    /\ \A c \in Calls : call[c].pc = "wait" => now < call[c].sent + LinkTime[call[c].link]
    /\ now' = now + 1
    /\ UNCHANGED <<rest, rows, key, call>>

Init ==
    /\ now = 0
    /\ rest = [a \in Models |-> 0]
    /\ rows = <<>>
    /\ key = [a \in Models |-> 0]
    /\ call = [c \in Calls |-> NewCall]

Response(c) == Throttled(c) \/ Fails(c) \/ Answers(c)

Step(c) == Resolve(c) \/ RaiseExhausted(c) \/ Send(c) \/ Response(c)
           \/ FinishUsable(c) \/ FinishEmpty(c)

Next == Tick \/ \E c \in Calls : StartCall(c) \/ Step(c)

Spec == Init /\ [][Next]_vars

\* The process runs the calls it has; every client has a time-out.
Fairness == \A c \in Calls : WF_vars(Step(c))

-----------------------------------------------------------------------------
TypeOK ==
    /\ now \in 0..MaxTime
    /\ rest \in [Models -> Nat]
    /\ rows \in Seq([model : Models, at : 0..MaxTime, tokens : Sizes])
    /\ \A a \in Models : key[a] \in 0..(KeyCount[a] - 1)
    /\ call \in [Calls ->
         [pc : {"idle", "choose", "send", "wait", "usable", "empty", "returned", "raised"},
          left : Nat, link : Models \cup {NoChoice}, sent : 0..MaxTime,
          empty : SUBSET Models, totals : Seq(Sizes), total : Sizes \cup {0},
          discarded : Nat, tried : Seq(Models), paid : Seq(Sizes),
          began : 0..MaxTime, when : Seq(0..MaxTime)]]

\* A call that received any answer never ends in ChainExhausted, however its
\* other links fail and other calls cool them down ("no new way to fail":
\* the last empty answer is the floor).
AnswerIsKept == \A c \in Calls : call[c].pc = "raised" => call[c].paid = <<>>

\* A returned call reports exactly the tokens it was charged: those of the
\* answer it returns plus those of the answers it dropped.
TokensAccounted ==
    \A c \in Calls : call[c].pc = "returned" =>
        call[c].total + call[c].discarded = Sum(call[c].paid)

\* A wallet is overdrawn by at most one request per concurrent call: the
\* check and the row it leads to are separate steps, but each call has only
\* one request in the air.
Unpinned == {c \in Calls : Pin[c] = NoChoice}

OverdraftBounded ==
    \A a \in Models :
        Cardinality(LedgerRows(a, 0)) <= Rpd[a] + Cardinality(Unpinned) - 1
                           + Cardinality(Calls \ Unpinned)

\* A call asks a model again only after the shorter of its two cool-downs.  It does ask
\* again: a client may wait longer (60 and 30 s) than a model rests after an error (15 s).
Cool == IF ErrorRest < RateRest THEN ErrorRest ELSE RateRest

AskedAgainLate ==
    \A c \in Calls : \A i, j \in DOMAIN call[c].tried :
        i < j /\ call[c].tried[i] = call[c].tried[j] => call[c].when[j] >= call[c].when[i] + Cool

\* A model had a reason not to be asked: it rested at some moment of the call, or the
\* requests and tokens of its wallet had used up a limit.
Excused(c, a) ==
    \/ rest[a] > call[c].began \/ Cardinality(LedgerRows(a, 0)) >= Rpd[a]
    \/ Cardinality(LedgerRows(a, 0)) >= Rpm[a] \/ Tokens(LedgerRows(a, 0)) + Need[a] > Tpm[a]

\* The models of its chain a call left out without a reason.
LeftOut(c) == {a \in ToSet(Chain(c)) \ ToSet(call[c].tried) : ~Excused(c, a)}

\* ChainExhausted says that the whole chain is exhausted (router.py:50).  Refuted: a link
\* asked again takes the attempt of one that is then never asked.
RaisedTriedAll == \A c \in Calls : call[c].pc = "raised" => LeftOut(c) = {}

\* What does hold: a call that raises left out no more models than it asked again.
LeftOutForAgain ==
    \A c \in Calls : call[c].pc = "raised" =>
        Cardinality(LeftOut(c)) <= Len(call[c].tried) - Cardinality(ToSet(call[c].tried))

\* A call spends each attempt on a model it has not asked, or on one whose cool-down is
\* over, gives up none of its chain for anything else, and takes no more than its wallet
\* allows, while other calls fail, rest and pay for the same models (router.py:373,
\* budget.py:86).
ChainIsWalked == TypeOK /\ AskedAgainLate /\ LeftOutForAgain /\ OverdraftBounded

\* Every call ends: at last none is on its way, although calls sharing a key ring can
\* reset it under each other between two tries of the same link.
CallsEnd == <>[](\A c \in Calls : call[c].pc \in {"idle", "returned", "raised"})
=============================================================================
