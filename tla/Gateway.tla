------------------------------- MODULE Gateway -------------------------------
(***************************************************************************)
(* The way of a write to Odoo: the toggle an administrator flips in Odoo,  *)
(* its cache in the backend (write_gate.py) and the second one in the MCP  *)
(* process (odoo_call.py), the rate limit behind it, and the call itself.  *)
(* Both caches keep a value, an error included, for TTL ticks counted from *)
(* the moment the read BEGAN.                                              *)
(***************************************************************************)
EXTENDS Integers, Sequences, FiniteSets

CONSTANTS
    Callers,      \* writes on their way at the same time
    TTL,          \* ticks a cached toggle is used
    Window,       \* ticks of the rate limit's window
    RateLimit,    \* calls of one tool per window
    MaxTime       \* bound: the clock

ASSUME GatewayAssumption ==
    /\ TTL \in Nat
    /\ Window \in Nat /\ RateLimit \in Nat /\ MaxTime \in Nat

Places == {"backend", "mcp"}

VARIABLES
    clock,
    toggle,       \* erp_ai.write_actions_enabled in Odoo
    flipped,      \* history: when the toggle last changed
    failed,       \* history: when a read of it last failed
    cache,        \* per place: [value, until]
    caller,       \* per write: where it is, and the read it is doing
    recent,       \* _rate_cache of the tool: the calls it holds, by their place in sent
    sent          \* history: when each call went to Odoo

gwVars == <<clock, toggle, flipped, failed, cache, caller, recent, sent>>

LongAgo == -(TTL + 1)

NoRead == [since |-> 0, saw |-> FALSE]

Idle == [at |-> "idle", read |-> NoRead]

Fresh(place) == clock < cache[place].until

\* The two places a write is checked at, in order, and what follows a yes.
PlaceOf(at) == IF at \in {"plan", "plan_read", "plan_got"} THEN "backend" ELSE "mcp"

Reading(at) == IF at = "plan" THEN "plan_read" ELSE "tool_read"
Got(at) == IF at = "plan_read" THEN "plan_got" ELSE "tool_got"
Admitted(place) == IF place = "backend" THEN "confirmed" ELSE "admitted"

Verdict(c, place, ok) ==
    [caller EXCEPT ![c] = IF ok THEN [Idle EXCEPT !.at = Admitted(place)] ELSE Idle]

-----------------------------------------------------------------------------
(* write_actions_enabled, the same in both places *)

\* The node checks first; the tool call of a confirmed draft checks again.
Starts(c) ==
    /\ caller[c].at \in {"idle", "confirmed"}
    /\ caller' = [caller EXCEPT ![c].at = IF @ = "idle" THEN "plan" ELSE "tool"]
    /\ UNCHANGED <<clock, toggle, flipped, failed, cache, recent, sent>>

UsesCache(c) ==
    /\ caller[c].at \in {"plan", "tool"}
    /\ LET place == PlaceOf(caller[c].at) IN
         /\ Fresh(place)
         /\ caller' = Verdict(c, place, cache[place].value)
    /\ UNCHANGED <<clock, toggle, flipped, failed, cache, recent, sent>>

BeginsRead(c) ==
    /\ caller[c].at \in {"plan", "tool"}
    /\ ~Fresh(PlaceOf(caller[c].at))
    /\ caller' = [caller EXCEPT ![c] = [at |-> Reading(@.at),
                                        read |-> [since |-> clock, saw |-> FALSE]]]
    /\ UNCHANGED <<clock, toggle, flipped, failed, cache, recent, sent>>

Seen_KeepsOld(place, ok) == IF ok THEN toggle ELSE cache[place].value

\* An error, a missing key or another value: off.
Seen(place, ok) == ok /\ toggle

\* Odoo answers, or the call fails.
OdooAnswers(c) ==
    /\ caller[c].at \in {"plan_read", "tool_read"}
    /\ \E ok \in BOOLEAN :
         /\ caller' = [caller EXCEPT ![c].at = Got(@),
                                     ![c].read.saw = Seen(PlaceOf(caller[c].at), ok)]
         /\ failed' = IF ok THEN failed ELSE clock
    /\ UNCHANGED <<clock, toggle, flipped, cache, recent, sent>>

Until(since) == since + TTL

EndsRead(c) ==
    /\ caller[c].at \in {"plan_got", "tool_got"}
    /\ LET place == PlaceOf(caller[c].at) IN
         /\ cache' = [cache EXCEPT ![place] = [value |-> caller[c].read.saw,
                                               until |-> Until(caller[c].read.since)]]
         /\ caller' = Verdict(c, place, caller[c].read.saw)
    /\ UNCHANGED <<clock, toggle, flipped, failed, recent, sent>>

-----------------------------------------------------------------------------
(* check_rate_limit and the call *)

InWindow(calls) == {i \in calls : sent[i] > clock - Window}

Full_OneMore(calls) == Cardinality(calls) > RateLimit
Full(calls) == Cardinality(calls) >= RateLimit

Refused(c) ==
    /\ caller[c].at = "admitted" /\ Full(InWindow(recent))
    /\ recent' = InWindow(recent)
    /\ caller' = [caller EXCEPT ![c] = Idle]
    /\ UNCHANGED <<clock, toggle, flipped, failed, cache, sent>>

Sends(c) ==
    /\ caller[c].at = "admitted" /\ ~Full(InWindow(recent))
    /\ recent' = InWindow(recent) \cup {Len(sent) + 1}
    /\ sent' = Append(sent, clock)
    /\ caller' = [caller EXCEPT ![c] = Idle]
    /\ UNCHANGED <<clock, toggle, flipped, failed, cache>>

-----------------------------------------------------------------------------
\* The administrator.
Flips ==
    /\ toggle' = ~toggle /\ flipped' = clock
    /\ UNCHANGED <<clock, failed, cache, caller, recent, sent>>

\* A read takes as long as it takes: transport.py:17 waits 30 seconds for it,
\* the MCP process (odoo_call.py:85) without a bound, and TTL is 5 seconds.
Tick ==
    /\ clock < MaxTime
    /\ clock' = clock + 1
    /\ UNCHANGED <<toggle, flipped, failed, cache, caller, recent, sent>>

GwInit ==
    /\ clock = 0 /\ toggle \in BOOLEAN /\ flipped = LongAgo /\ failed = LongAgo
    /\ cache = [p \in Places |-> [value |-> FALSE, until |-> 0]]
    /\ caller = [c \in Callers |-> Idle]
    /\ recent = {} /\ sent = <<>>

GwStep(c) == Starts(c) \/ UsesCache(c) \/ BeginsRead(c) \/ OdooAnswers(c) \/ EndsRead(c)
             \/ Refused(c) \/ Sends(c)

GwNext == Tick \/ Flips \/ \E c \in Callers : GwStep(c)

GwSpec == GwInit /\ [][GwNext]_gwVars

-----------------------------------------------------------------------------
Stages == {"idle", "plan", "plan_read", "plan_got", "confirmed",
           "tool", "tool_read", "tool_got", "admitted"}

\* Types: a cached value is never kept beyond TTL after the clock.
GwTypeOK ==
    /\ clock \in 0..MaxTime /\ toggle \in BOOLEAN
    /\ flipped \in LongAgo..MaxTime /\ failed \in LongAgo..MaxTime
    /\ cache \in [Places -> [value : BOOLEAN, until : 0..(MaxTime + TTL)]]
    /\ caller \in [Callers -> [at : Stages, read : [since : 0..MaxTime, saw : BOOLEAN]]]
    /\ recent \subseteq DOMAIN sent /\ sent \in Seq(0..MaxTime)

Passes(c) == caller'[c].at \in {"confirmed", "admitted"} /\ caller[c].at # caller'[c].at
Denied(c) == caller[c].at \notin {"idle", "admitted"} /\ caller'[c].at = "idle"

\* At most TTL ago; and to a check that asked Odoo itself, however long Odoo
\* took, whatever has happened since it began to ask.
Lately(c, t) ==
    \/ clock - t <= TTL
    \/ caller[c].at \in {"plan_got", "tool_got"} /\ t >= caller[c].read.since

\* What a cache lets through was switched on at most TTL ago, however slow,
\* failed or concurrent the reads that filled it; what a read of its own lets
\* through was switched on at some moment since that read began.
OffTakesHold == \A c \in Callers : Passes(c) => toggle \/ Lately(c, flipped)

\* A refusal has a reason as recent: the toggle was off, or a read failed.
OnTakesHold ==
    \A c \in Callers : Denied(c) => ~toggle \/ Lately(c, flipped) \/ Lately(c, failed)

\* A flip of the toggle is obeyed, in the backend and in the MCP process
\* (write_gate.py:42, odoo_call.py:127), by every check that finds a cached
\* value once TTL is over, and by every check that begins to read after it.
ToggleTakesHold == [][OffTakesHold /\ OnTakesHold]_gwVars

\* At most RateLimit calls of a tool in any window, however the windows lie.
RateHolds ==
    \A t \in 0..MaxTime :
        Cardinality({i \in 1..Len(sent) : sent[i] >= t /\ sent[i] < t + Window}) <= RateLimit

\* Nothing is kept longer than the clock allows: neither a cached value nor a
\* call in the window of the rate limit (rate_limit.py:14).
WindowsHold == GwTypeOK /\ RateHolds
=============================================================================
