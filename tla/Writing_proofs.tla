----------------------------- MODULE Writing_proofs -----------------------------
(* What holds around a write -- its gate, a procedure that ends in it, a mail,
   a coordinator that asks before it -- for every number of writes, orders, mails
   and answers, and every bound. *)
EXTENDS Gateway, SkillLoop, MailFlow, Coordinators, FiniteSetTheorems, TLAPS

-----------------------------------------------------------------------------
(* The write toggle takes hold, for every number of writes, every TTL and every
   delay of a read: what a cache holds is as old as the begin of its read. *)

Reads == [since : 0..MaxTime, saw : BOOLEAN]
Entries == [value : BOOLEAN, until : 0..(MaxTime + TTL)]
InRead(at) == at \in {"plan_read", "plan_got", "tool_read", "tool_got"}

\* GwTypeOK but for the rate limit.
GwShape ==
  /\ clock \in 0..MaxTime /\ toggle \in BOOLEAN
  /\ flipped \in LongAgo..MaxTime /\ failed \in LongAgo..MaxTime
  /\ cache \in [Places -> Entries]
  /\ caller \in [Callers -> [at : Stages, read : Reads]]

\* No read under way began ahead of the clock, and no history is ahead of it;
\* what a cache keeps is used for at most TTL.
Paced ==
  /\ flipped <= clock /\ failed <= clock
  /\ \A c \in Callers : InRead(caller[c].at) => caller[c].read.since <= clock
  /\ \A place \in Places : cache[place].until <= clock + TTL

\* What was true of the toggle at some moment since t.
SawOn(t) == toggle \/ flipped >= t
SawOff(t) == ~toggle \/ flipped >= t \/ failed >= t

Justified(value, t) == IF value THEN SawOn(t) ELSE SawOff(t)

ReadsTrue ==
  \A c \in Callers : caller[c].at \in {"plan_got", "tool_got"} =>
    Justified(caller[c].read.saw, caller[c].read.since)
CachesTrue ==
  \A place \in Places : cache[place].until > 0 =>
    Justified(cache[place].value, cache[place].until - TTL)

GwInv == GwShape /\ Paced /\ ReadsTrue /\ CachesTrue

LEMMA GwInvInit == GwInit => GwInv
BY GatewayAssumption
   DEF GwInit, GwInv, GwShape, Paced, ReadsTrue, CachesTrue, Entries, Reads, Stages, Idle, NoRead,
       LongAgo, InRead

\* A check ends in a yes or a no, with no read left under way.
LEMMA VerdictShape ==
  ASSUME GwShape, NEW c \in Callers, NEW place \in Places, NEW ok \in BOOLEAN
  PROVE  /\ Verdict(c, place, ok) \in [Callers -> [at : Stages, read : Reads]]
         /\ ~InRead(Verdict(c, place, ok)[c].at)
         /\ \A d \in Callers \ {c} : Verdict(c, place, ok)[d] = caller[d]
         /\ Verdict(c, place, ok)[c].at = IF ok THEN Admitted(place) ELSE "idle"
<1> DEFINE next == IF ok THEN [Idle EXCEPT !.at = Admitted(place)] ELSE Idle
<1>1. next = [at |-> IF ok THEN Admitted(place) ELSE "idle", read |-> NoRead]
    BY DEF Idle
<1>2. NoRead \in Reads
    BY GatewayAssumption DEF NoRead, Reads
<1>3. next \in [at : Stages, read : Reads] /\ ~InRead(next.at)
    BY <1>1, <1>2 DEF Stages, InRead, Admitted
<1>4. Verdict(c, place, ok) = [caller EXCEPT ![c] = next]
    BY DEF Verdict
<1> HIDE DEF next
<1> QED BY <1>1, <1>3, <1>4 DEF GwShape

\* A check that ended leaves the other reads as they were.
LEMMA CheckEnded ==
  ASSUME GwInv, NEW c \in Callers, UNCHANGED <<clock, toggle, flipped, failed, cache>>,
         caller' \in [Callers -> [at : Stages, read : Reads]], ~InRead(caller'[c].at),
         \A d \in Callers \ {c} : caller'[d] = caller[d]
  PROVE  GwInv'
<1>1. GwShape'
    BY DEF GwInv, GwShape
<1>2. Paced'
    BY DEF GwInv, Paced, InRead
<1>3. \A v, t : Justified(v, t)' <=> Justified(v, t)
    BY DEF Justified, SawOn, SawOff
<1>4. ReadsTrue'
    BY <1>3 DEF GwInv, ReadsTrue, InRead
<1>5. CachesTrue'
    BY <1>3 DEF GwInv, CachesTrue
<1> QED BY <1>1, <1>2, <1>4, <1>5 DEF GwInv

LEMMA PlaceOfPlaces == \A at : PlaceOf(at) \in Places
BY DEF PlaceOf, Places

LEMMA GwInvStep == GwInv /\ [GwNext]_gwVars => GwInv'
<1> SUFFICES ASSUME GwInv, [GwNext]_gwVars PROVE GwInv'
    OBVIOUS
<1> USE GatewayAssumption
<1>0. CASE UNCHANGED gwVars
    BY <1>0 DEF gwVars, GwInv, GwShape, Paced, ReadsTrue, CachesTrue, Justified, SawOn, SawOff
<1>1. CASE Tick
  <2>1. GwShape'
      BY <1>1 DEF Tick, GwInv, GwShape
  <2>2. Paced'
    <3>2. \A c \in Callers : caller[c].read.since \in Int
        BY DEF GwInv, GwShape, Reads
    <3>3. \A place \in Places : cache[place].until \in Int
        BY DEF GwInv, GwShape, Entries
    <3> QED BY <1>1, <3>2, <3>3 DEF Tick, GwInv, GwShape, Paced, LongAgo
  <2>3. ReadsTrue' /\ CachesTrue'
      BY <1>1 DEF Tick, GwInv, ReadsTrue, CachesTrue, Justified, SawOn, SawOff
  <2> QED BY <2>1, <2>2, <2>3 DEF GwInv
<1>2. CASE Flips
  <2>1. GwShape' /\ Paced'
      BY <1>2 DEF Flips, GwInv, GwShape, Paced, InRead, LongAgo
  <2>2. \A t \in Int : t <= clock => SawOn(t)' /\ SawOff(t)'
      BY <1>2 DEF Flips, SawOn, SawOff, GwInv, GwShape
  <2>3. ReadsTrue'
      BY <1>2, <2>2 DEF Flips, GwInv, GwShape, Paced, InRead, Reads, ReadsTrue, Justified
  <2>4. CachesTrue'
      BY <1>2, <2>2 DEF Flips, GwInv, GwShape, Paced, Entries, CachesTrue, Justified
  <2> QED BY <2>1, <2>3, <2>4 DEF GwInv
<1>3. ASSUME NEW c \in Callers, GwStep(c) PROVE GwInv'
  <2>1. CASE Starts(c)
    <3>1. PICK next \in {"plan", "tool"} : caller' = [caller EXCEPT ![c] = [caller[c] EXCEPT !.at = next]]
        BY <2>1 DEF Starts
    <3>2. caller[c] \in [at : Stages, read : Reads]
        BY DEF GwInv, GwShape
    <3>a. [caller[c] EXCEPT !.at = next] = [at |-> next, read |-> caller[c].read]
        BY <3>2
    <3>3. caller' = [caller EXCEPT ![c] = [at |-> next, read |-> caller[c].read]]
        BY <3>1, <3>a
    <3>4. /\ caller' \in [Callers -> [at : Stages, read : Reads]]
          /\ ~InRead(caller'[c].at) /\ \A d \in Callers \ {c} : caller'[d] = caller[d]
        BY <3>1, <3>2, <3>3 DEF GwInv, GwShape, Stages, InRead
    <3>5. UNCHANGED <<clock, toggle, flipped, failed, cache>>
        BY <2>1 DEF Starts
    <3> QED BY <3>4, <3>5, CheckEnded
  <2>2. CASE UsesCache(c)
    <3> DEFINE place == PlaceOf(caller[c].at)
    <3>1. place \in Places /\ cache[place].value \in BOOLEAN
        BY PlaceOfPlaces DEF GwInv, GwShape, Entries
    <3>2. caller' = Verdict(c, place, cache[place].value)
        BY <2>2 DEF UsesCache
    <3>3. UNCHANGED <<clock, toggle, flipped, failed, cache>>
        BY <2>2 DEF UsesCache
    <3>4. GwShape /\ GwInv
        BY DEF GwInv
    <3>5. /\ caller' \in [Callers -> [at : Stages, read : Reads]]
          /\ ~InRead(caller'[c].at) /\ \A d \in Callers \ {c} : caller'[d] = caller[d]
        BY <3>1, <3>2, <3>4, VerdictShape
    <3> QED BY <3>3, <3>4, <3>5, CheckEnded
  <2>3. CASE BeginsRead(c)
    <3>1. caller' = [caller EXCEPT ![c] = [at |-> Reading(caller[c].at),
                                           read |-> [since |-> clock, saw |-> FALSE]]]
        BY <2>3 DEF BeginsRead
    <3>2. GwShape' /\ Paced'
        BY <2>3, <3>1 DEF BeginsRead, Reading, GwInv, GwShape, Paced, InRead, Stages, Reads
    <3>3. ReadsTrue' /\ CachesTrue'
        BY <2>3, <3>1
           DEF BeginsRead, Reading, GwInv, GwShape, ReadsTrue, CachesTrue, Justified, SawOn, SawOff
    <3> QED BY <3>2, <3>3 DEF GwInv
  <2>4. CASE OdooAnswers(c)
    <3> DEFINE place == PlaceOf(caller[c].at)
    <3>1. PICK ok \in BOOLEAN :
            /\ caller' = [caller EXCEPT ![c] =
                            [caller[c] EXCEPT !.at = Got(@), !.read.saw = Seen(place, ok)]]
            /\ failed' = IF ok THEN failed ELSE clock
        BY <2>4 DEF OdooAnswers
    <3>2. UNCHANGED <<clock, toggle, flipped, cache>> /\ caller[c].at \in {"plan_read", "tool_read"}
        BY <2>4 DEF OdooAnswers
    <3> DEFINE saw == Seen(place, ok)
    <3>3. saw \in BOOLEAN /\ (saw => toggle) /\ (~saw => ~toggle \/ ~ok)
        BY DEF Seen
    <3>a. caller' = [caller EXCEPT ![c] =
                       [[caller[c] EXCEPT !.at = Got(@)] EXCEPT !.read = [@ EXCEPT !.saw = saw]]]
        BY <3>1
    <3> HIDE DEF saw
    <3>b. caller[c] \in [at : Stages, read : Reads] /\ caller[c].read \in Reads
        BY DEF GwInv, GwShape
    <3> DEFINE read == [since |-> caller[c].read.since, saw |-> saw]
    <3>c. [caller[c].read EXCEPT !.saw = saw] = read
        BY <3>b DEF Reads
    <3>i. [caller[c] EXCEPT !.at = Got(@)] = [at |-> Got(caller[c].at), read |-> caller[c].read]
        BY <3>b
    <3>d. [[caller[c] EXCEPT !.at = Got(@)] EXCEPT !.read = [@ EXCEPT !.saw = saw]]
            = [at |-> Got(caller[c].at), read |-> read]
      <4> DEFINE w == [at |-> Got(caller[c].at), read |-> caller[c].read]
      <4>1. [w EXCEPT !.read = [@ EXCEPT !.saw = saw]] = [w EXCEPT !.read = read]
          BY <3>c
      <4>2. [w EXCEPT !.read = read] = [at |-> Got(caller[c].at), read |-> read]
          OBVIOUS
      <4> QED BY <3>i, <4>1, <4>2
    <3>4. caller' = [caller EXCEPT ![c] = [at |-> Got(caller[c].at), read |-> read]]
        BY <3>a, <3>d
    <3>e. read \in Reads /\ read.since = caller[c].read.since /\ read.saw = saw
        BY <3>b, <3>3 DEF Reads
    <3>f. Got(caller[c].at) \in {"plan_got", "tool_got"}
        BY DEF Got
    <3> HIDE DEF read
    <3>5. GwShape'
        BY <3>1, <3>2, <3>4, <3>e, <3>f DEF GwInv, GwShape, Paced, Stages, LongAgo
    <3>g. Paced'
        BY <3>1, <3>2, <3>4, <3>e, <3>f DEF GwInv, GwShape, Paced, InRead, LongAgo
    <3>h. caller[c].read.since <= clock
        BY <3>2 DEF GwInv, Paced, InRead
    <3>6. ASSUME NEW v, v = saw, NEW t, t = read.since
          PROVE  Justified(v, t)'
      <4>0. t \in Int /\ t <= clock /\ v \in BOOLEAN
          BY <3>3, <3>6, <3>e, <3>h DEF Reads
      <4>1. CASE v
          BY <4>1, <3>2, <3>3, <3>6 DEF Justified, SawOn
      <4>2. CASE ~v /\ ok
          BY <4>2, <3>2, <3>3, <3>6 DEF Justified, SawOff
      <4>3. CASE ~v /\ ~ok
          BY <4>0, <4>3, <3>1, <3>2 DEF Justified, SawOff, GwInv, GwShape
      <4> QED BY <3>1, <4>0, <4>1, <4>2, <4>3
    <3>7. \A v \in BOOLEAN, t \in Int : t <= clock /\ Justified(v, t) => Justified(v, t)'
        BY <3>1, <3>2 DEF Justified, SawOn, SawOff, GwInv, GwShape
    <3>8. ReadsTrue'
      <4> SUFFICES ASSUME NEW d \in Callers, caller'[d].at \in {"plan_got", "tool_got"}
                   PROVE  Justified(caller[d].read.saw, caller[d].read.since)'
          BY DEF ReadsTrue
      <4>1. CASE d = c
        <5>1. caller'[d].read = read
            BY <4>1, <3>4 DEF GwInv, GwShape
        <5> QED BY <5>1, <3>6, <3>e
      <4>2. CASE d # c
        <5>1. caller'[d] = caller[d]
            BY <4>2, <3>4 DEF GwInv, GwShape
        <5>2. caller[d].read \in Reads /\ caller[d].read.since <= clock
            BY <5>1 DEF GwInv, GwShape, Paced, InRead
        <5>3. Justified(caller[d].read.saw, caller[d].read.since)
            BY <5>1 DEF GwInv, ReadsTrue
        <5> QED BY <3>7, <5>1, <5>2, <5>3 DEF Reads
      <4> QED BY <4>1, <4>2
    <3>9. CachesTrue'
        BY <3>2, <3>7 DEF GwInv, GwShape, Paced, Entries, CachesTrue
    <3> QED BY <3>5, <3>g, <3>8, <3>9 DEF GwInv
  <2>5. CASE EndsRead(c)
    <3> DEFINE place == PlaceOf(caller[c].at)
    <3> DEFINE r == caller[c].read
    <3>1. place \in Places /\ r \in Reads /\ r.saw \in BOOLEAN
        BY PlaceOfPlaces DEF GwInv, GwShape, Reads
    <3>2. /\ cache' = [cache EXCEPT ![place] = [value |-> r.saw, until |-> r.since + TTL]]
          /\ caller' = Verdict(c, place, r.saw)
          /\ caller[c].at \in {"plan_got", "tool_got"}
          /\ UNCHANGED <<clock, toggle, flipped, failed>>
        BY <2>5 DEF EndsRead, Until
    <3>3. r.since <= clock /\ Justified(r.saw, r.since)
        BY <3>2 DEF GwInv, Paced, ReadsTrue, InRead
    <3> HIDE DEF place, r
    <3>a. GwShape
        BY DEF GwInv
    <3>b. /\ caller' \in [Callers -> [at : Stages, read : Reads]]
          /\ ~InRead(caller'[c].at) /\ \A d \in Callers \ {c} : caller'[d] = caller[d]
        BY <3>1, <3>2, <3>a, VerdictShape
    <3>c. [value |-> r.saw, until |-> r.since + TTL] \in Entries /\ r.since + TTL <= clock + TTL
        BY <3>1, <3>3 DEF Entries, Reads, GwInv, GwShape
    <3>4. GwShape'
        BY <3>1, <3>2, <3>b, <3>c DEF GwInv, GwShape
    <3>d. Paced'
        BY <3>1, <3>2, <3>b, <3>c DEF GwInv, GwShape, Paced, InRead
    <3>e. \A v, t : Justified(v, t)' <=> Justified(v, t)
        BY <3>2 DEF Justified, SawOn, SawOff
    <3>5. ReadsTrue'
        BY <3>b, <3>e DEF GwInv, ReadsTrue, InRead
    <3>6. CachesTrue'
      <4> SUFFICES ASSUME NEW q \in Places, cache'[q].until > 0
                   PROVE  Justified(cache'[q].value, cache'[q].until - TTL)
          BY <3>e DEF CachesTrue
      <4>1. CASE q = place
        <5>1. cache'[q] = [value |-> r.saw, until |-> r.since + TTL]
            BY <4>1, <3>2 DEF GwInv, GwShape
        <5>2. cache'[q].value = r.saw /\ cache'[q].until = r.since + TTL
            BY <5>1
        <5>3. cache'[q].until - TTL = r.since
            BY <5>2, <3>1 DEF Reads
        <5> QED BY <5>2, <5>3, <3>3 DEF Justified, SawOn, SawOff
      <4>2. CASE q # place
        <5>1. cache'[q] = cache[q]
            BY <4>2, <3>2 DEF GwInv, GwShape
        <5> QED BY <5>1 DEF GwInv, CachesTrue
      <4> QED BY <4>1, <4>2
    <3> QED BY <3>4, <3>d, <3>5, <3>6 DEF GwInv
  <2>6. CASE Refused(c) \/ Sends(c)
    <3>1. caller' = [caller EXCEPT ![c] = Idle] /\ UNCHANGED <<clock, toggle, flipped, failed, cache>>
        BY <2>6 DEF Refused, Sends
    <3>2. Idle \in [at : Stages, read : Reads] /\ Idle.at = "idle"
        BY DEF Idle, NoRead, Stages, Reads
    <3>3. /\ caller' \in [Callers -> [at : Stages, read : Reads]]
          /\ ~InRead(caller'[c].at) /\ \A d \in Callers \ {c} : caller'[d] = caller[d]
        BY <3>1, <3>2 DEF GwInv, GwShape, InRead
    <3> QED BY <3>1, <3>3, CheckEnded
  <2> QED BY <1>3, <2>1, <2>2, <2>3, <2>4, <2>5, <2>6 DEF GwStep
<1> QED BY <1>0, <1>1, <1>2, <1>3 DEF GwNext

\* The caches and the reads under way are justified by a recent toggle.
THEOREM GwInvariant == GwSpec => []GwInv
<1> QED BY GwInvInit, GwInvStep, PTL DEF GwSpec

\* A check that ends in this step is justified by a recent toggle, whichever way
\* it ends: by the age of the entry it used, or since its own read began.
LEMMA ChecksAreRecent ==
  ASSUME GwInv, NEW c \in Callers, GwStep(c), Passes(c) \/ Denied(c)
  PROVE  IF Passes(c) THEN toggle \/ Lately(c, flipped)
         ELSE ~toggle \/ Lately(c, flipped) \/ Lately(c, failed)
<1> USE GatewayAssumption
<1> DEFINE place == PlaceOf(caller[c].at)
<1>0. place \in Places
    BY PlaceOfPlaces
<1>1. CASE UsesCache(c)
  <2>1. cache[place].value \in BOOLEAN /\ caller' = Verdict(c, place, cache[place].value)
      BY <1>0, <1>1 DEF UsesCache, GwInv, GwShape, Entries
  <2>2. Passes(c) <=> cache[place].value
      BY <1>0, <1>1, <2>1, VerdictShape DEF UsesCache, Passes, Denied, Admitted, GwInv
  <2>3. clock < cache[place].until
      BY <1>1 DEF UsesCache, Fresh
  <2>4. Justified(cache[place].value, cache[place].until - TTL)
      BY <1>0, <2>3 DEF GwInv, GwShape, Entries, CachesTrue
  <2> QED
      BY <1>0, <2>2, <2>3, <2>4
         DEF Justified, SawOn, SawOff, Lately, GwInv, GwShape, Entries
<1>2. CASE EndsRead(c)
  <2>1. caller[c].read.saw \in BOOLEAN /\ caller' = Verdict(c, place, caller[c].read.saw)
      BY <1>2 DEF EndsRead, GwInv, GwShape, Reads
  <2>2. Passes(c) <=> caller[c].read.saw
      BY <1>0, <1>2, <2>1, VerdictShape DEF EndsRead, Passes, Denied, Admitted, GwInv
  <2>3. caller[c].at \in {"plan_got", "tool_got"}
      BY <1>2 DEF EndsRead
  <2>4. Justified(caller[c].read.saw, caller[c].read.since)
      BY <1>2 DEF EndsRead, GwInv, ReadsTrue
  <2> QED
      BY <2>2, <2>3, <2>4 DEF Justified, SawOn, SawOff, Lately
<1>3. ~(Starts(c) \/ BeginsRead(c) \/ OdooAnswers(c) \/ Refused(c) \/ Sends(c))
    BY DEF Starts, BeginsRead, OdooAnswers, Refused, Sends, Passes, Denied, Reading, Got, Idle,
           GwInv, GwShape
<1> QED BY <1>1, <1>2, <1>3 DEF GwStep

\* In a step of another write, of the clock or of the administrator, no check ends.
LEMMA OwnStep ==
  ASSUME GwInv, [GwNext]_gwVars, NEW c \in Callers, Passes(c) \/ Denied(c)
  PROVE  GwStep(c)
<1> SUFFICES ASSUME ~GwStep(c) PROVE FALSE
    OBVIOUS
<1>1. CASE Tick \/ Flips \/ UNCHANGED gwVars
    BY <1>1 DEF Tick, Flips, gwVars, Passes, Denied
<1>2. ASSUME NEW d \in Callers, GwStep(d) PROVE FALSE
  <2>1. d # c
      BY <1>2
  <2>2. \E v : caller' = [caller EXCEPT ![d] = v]
    <3>1. CASE UsesCache(d) \/ EndsRead(d)
        BY <3>1 DEF UsesCache, EndsRead, Verdict
    <3>2. CASE Starts(d) \/ BeginsRead(d) \/ Refused(d) \/ Sends(d)
        BY <3>2 DEF Starts, BeginsRead, Refused, Sends
    <3>3. CASE OdooAnswers(d)
        BY <3>3 DEF OdooAnswers
    <3> QED BY <1>2, <3>1, <3>2, <3>3 DEF GwStep
  <2>3. caller'[c] = caller[c]
      BY <2>1, <2>2 DEF GwInv, GwShape
  <2> QED BY <2>3 DEF Passes, Denied
<1> QED BY <1>1, <1>2 DEF GwNext

\* Switching writes off takes hold in both places: a write goes through on an entry
\* that was true at most TTL ago, or on what was true since its own read began,
\* whatever slow, failed or concurrent reads there were (write_gate.py:42, odoo_call.py:127).
THEOREM WritesStop == GwSpec => [][OffTakesHold]_gwVars
<1>1. GwInv /\ [GwNext]_gwVars => [OffTakesHold]_gwVars
    BY OwnStep, ChecksAreRecent DEF OffTakesHold
<1> QED BY <1>1, GwInvariant, PTL DEF GwSpec

\* Switching them on does too: a refusal has a reason as recent.
THEOREM WritesResume == GwSpec => [][OnTakesHold]_gwVars
<1>1. GwInv /\ [GwNext]_gwVars => [OnTakesHold]_gwVars
  <2> SUFFICES ASSUME GwInv, [GwNext]_gwVars, NEW c \in Callers, Denied(c)
               PROVE  ~toggle \/ Lately(c, flipped) \/ Lately(c, failed)
      BY DEF OnTakesHold
  <2>1. ~Passes(c)
      BY DEF Passes, Denied
  <2> QED BY <2>1, OwnStep, ChecksAreRecent
<1> QED BY <1>1, GwInvariant, PTL DEF GwSpec

\* A flip is obeyed in both processes, by every check that uses an entry older than it by
\* TTL and by every check that begins to read after it, for any number of concurrent
\* writes and reads of any length (write_gate.py:42, odoo_call.py:127).
THEOREM ToggleAlwaysTakesHold == GwSpec => ToggleTakesHold
<1> QED BY WritesStop, WritesResume, PTL DEF ToggleTakesHold

\* The list a tool keeps holds all its calls of the last window; no call is ahead
\* of the clock.
RateInv ==
  /\ sent \in Seq(0..MaxTime) /\ recent \subseteq DOMAIN sent
  /\ \A i \in DOMAIN sent : sent[i] <= clock
  /\ \A i \in DOMAIN sent : sent[i] > clock - Window => i \in recent
  /\ RateHolds

\* The calls of a window that begins at t.
InWindowOf(t) == {i \in 1..Len(sent) : sent[i] >= t /\ sent[i] < t + Window}

\* Numbers of a sequence can be counted.
LEMMA PlacesCounted ==
  ASSUME NEW T, NEW s \in Seq(T), NEW S \in SUBSET DOMAIN s
  PROVE  IsFiniteSet(S) /\ Cardinality(S) \in Nat
<1>1. DOMAIN s = 1..Len(s) /\ Len(s) \in Nat
    OBVIOUS
<1>2. IsFiniteSet(1..Len(s))
    BY <1>1, FS_Interval
<1> QED BY <1>1, <1>2, FS_Subset, FS_CardinalityType

\* Whatever lies in one window with a call made now is on the list by now.
LEMMA SendKeepsRate ==
  ASSUME GwInv, RateInv, NEW c \in Callers, Sends(c)
  PROVE  RateInv'
<1> USE GatewayAssumption
<1> DEFINE n == Len(sent) + 1
           kept == InWindow(recent)
<1>1. /\ clock \in 0..MaxTime /\ sent \in Seq(0..MaxTime) /\ n \in Nat /\ DOMAIN sent = 1..Len(sent)
      /\ sent' = Append(sent, clock) /\ recent' = kept \cup {n} /\ clock' = clock
      /\ kept \in SUBSET DOMAIN sent
    BY DEF GwInv, GwShape, RateInv, Sends, InWindow
<1>2. /\ sent' \in Seq(0..MaxTime) /\ DOMAIN sent' = 1..n /\ Len(sent') = n
      /\ sent'[n] = clock /\ \A i \in 1..Len(sent) : sent'[i] = sent[i]
    BY <1>1
<1>3. IsFiniteSet(kept) /\ Cardinality(kept) \in Nat /\ Cardinality(kept) < RateLimit
    BY <1>1, PlacesCounted DEF Sends, Full
<1>4. IsFiniteSet(recent') /\ Cardinality(recent') <= RateLimit
  <2> HIDE DEF n, kept
  <2>1. /\ IsFiniteSet(kept \cup {n})
        /\ Cardinality(kept \cup {n}) = IF n \in kept THEN Cardinality(kept) ELSE Cardinality(kept) + 1
      BY <1>3, FS_AddElement
  <2>2. Cardinality(kept \cup {n}) <= RateLimit
      BY <1>3, <2>1
  <2> QED BY <1>1, <2>1, <2>2
<1>5. \A i \in DOMAIN sent' : sent'[i] > clock' - Window => i \in recent'
    BY <1>1, <1>2 DEF RateInv, InWindow
<1>6. ASSUME NEW t \in 0..MaxTime
      PROVE  Cardinality(InWindowOf(t)') <= RateLimit
  <2>1. CASE t <= clock /\ clock < t + Window
    <3>1. InWindowOf(t)' \in SUBSET recent'
        BY <1>1, <1>2, <1>5, <2>1 DEF InWindowOf
    <3>2. Cardinality(InWindowOf(t)') <= Cardinality(recent') /\ Cardinality(InWindowOf(t)') \in Nat
          /\ Cardinality(recent') \in Nat
        BY <1>4, <3>1, FS_Subset, FS_CardinalityType
    <3> QED BY <1>4, <3>2
  <2>2. CASE ~(t <= clock /\ clock < t + Window)
    <3>1. InWindowOf(t)' = InWindowOf(t)
        BY <1>1, <1>2, <2>2 DEF InWindowOf
    <3> QED BY <3>1 DEF RateInv, RateHolds, InWindowOf
  <2> QED BY <2>1, <2>2
<1>7. RateHolds'
    BY <1>6 DEF RateHolds, InWindowOf
<1>8. /\ recent' \subseteq DOMAIN sent'
      /\ \A i \in DOMAIN sent' : sent'[i] <= clock'
    BY <1>1, <1>2 DEF RateInv
<1> QED BY <1>2, <1>5, <1>7, <1>8 DEF RateInv

LEMMA RateInvStep == GwInv /\ RateInv /\ [GwNext]_gwVars => RateInv'
<1> SUFFICES ASSUME GwInv, RateInv, [GwNext]_gwVars PROVE RateInv'
    OBVIOUS
<1> USE GatewayAssumption
<1>1. clock \in Nat /\ \A i \in DOMAIN sent : sent[i] \in Nat
    BY DEF GwInv, GwShape, RateInv
<1>2. CASE UNCHANGED <<sent, recent>> /\ clock' \in Nat /\ clock' >= clock
  <2>1. /\ \A i \in DOMAIN sent : sent[i] <= clock'
        /\ \A i \in DOMAIN sent : sent[i] > clock' - Window => i \in recent
      BY <1>1, <1>2 DEF RateInv
  <2> QED BY <1>2, <2>1 DEF RateInv, RateHolds
<1>3. CASE Tick \/ Flips \/ UNCHANGED gwVars
    BY <1>1, <1>2, <1>3 DEF Tick, Flips, gwVars
<1>4. ASSUME NEW c \in Callers, GwStep(c) PROVE RateInv'
  <2>1. CASE Sends(c)
      BY <2>1, SendKeepsRate
  <2>2. CASE Refused(c)
      BY <1>1, <2>2 DEF Refused, InWindow, RateInv, RateHolds
  <2>3. CASE Starts(c) \/ UsesCache(c) \/ BeginsRead(c) \/ OdooAnswers(c) \/ EndsRead(c)
      BY <1>1, <1>2, <2>3 DEF Starts, UsesCache, BeginsRead, OdooAnswers, EndsRead
  <2> QED BY <1>4, <2>1, <2>2, <2>3 DEF GwStep
<1> QED BY <1>3, <1>4 DEF GwNext

LEMMA RateInvInit == GwInit => RateInv
<1> SUFFICES ASSUME GwInit PROVE RateInv
    OBVIOUS
<1>1. sent = <<>> /\ recent = {} /\ clock = 0 /\ 1..Len(sent) = {}
    BY DEF GwInit
<1>2. \A t \in 0..MaxTime : {i \in 1..Len(sent) : sent[i] >= t /\ sent[i] < t + Window} = {}
    BY <1>1
<1>3. RateHolds
  <2>1. ASSUME NEW t \in 0..MaxTime
        PROVE  Cardinality({i \in 1..Len(sent) : sent[i] >= t /\ sent[i] < t + Window}) = 0
      BY <1>2, FS_EmptySet
  <2> QED BY <2>1, GatewayAssumption DEF RateHolds
<1> QED BY <1>1, <1>3 DEF RateInv

\* At most RateLimit calls of a tool go to Odoo in any window, however the windows lie,
\* and nothing is kept beyond its time, for any number of concurrent writes, any
\* window and any limit (rate_limit.py:14).
THEOREM WindowsAlwaysHold == GwSpec => []WindowsHold
<1>1. GwInv /\ RateInv => WindowsHold
    BY DEF GwInv, GwShape, RateInv, WindowsHold, GwTypeOK, Reads, Entries, Paced
<1> QED BY <1>1, RateInvInit, RateInvStep, GwInvariant, PTL DEF GwSpec

-----------------------------------------------------------------------------
(* The gate of the procedures holds for any orders, prices and bounds. *)

Gated == {"receive_order", "flag_order_for_review", "deliver_order", "create_discount_quote"}

CallSet == [tool : Gated \cup {"none", "ask_human", "read"}, ref : SkillRefs \cup {"none"}]

Questions == [kind : {"none", "free_text", "confirm"}, call : CallSet, total : Nat,
              late : BOOLEAN, left : BOOLEAN, moved : BOOLEAN]

Orders == Seq(SkillRefs \cup {"none"})

Loops == [next : {"idle", "model", "tools", "sync"}, call : CallSet, orders : Orders,
          leaks : BOOLEAN]

Requests == [on : BOOLEAN, n : Nat, value : {"none", "yes", "no", "text"}, of : Questions,
             again : BOOLEAN, missed : BOOLEAN, steps : Nat]

Writes == [call : CallSet, total : Nat, n : Nat, of : Questions, missed : BOOLEAN,
           late : BOOLEAN, moved : BOOLEAN]

Shapes ==
    /\ skill \in DOMAIN SkillTools
    /\ loop \in Loops /\ asked \in Questions /\ request \in Requests
    /\ total \in Totals
    /\ saved \in Seq(Writes)

\* A value waits only inside a request, and no write of that request has used it.
Waiting ==
    /\ request.value # "none" => request.on
    /\ \A i \in DOMAIN saved :
         /\ saved[i].n <= request.n
         /\ saved[i].n = request.n => request.value = "none"

\* What the value was classified as fits the question it answers, and the
\* question is the one the thread holds.
Classified ==
    request.value # "none" =>
        /\ request.again => request.value = "no"
        /\ request.of.kind = "free_text" => request.value = "text" \/ request.again
        /\ request.of.kind = asked.kind /\ request.of.call = asked.call
        /\ request.of.total = asked.total /\ request.of.left = asked.left

\* The loop stands at the call the question is about.
AtItsCall ==
    /\ loop.next = "tools" /\ loop.call = asked.call
    /\ \/ asked.kind = "confirm" /\ loop.call.tool \in SkillTools[skill]
       \/ asked.kind = "free_text" /\ loop.call.tool = "ask_human"

Standing ==
    /\ ~request.on /\ InTurn /\ ~asked.left => AtItsCall
    /\ request.value # "none" /\ ~asked.left /\ ~request.missed => AtItsCall

\* The figure of a question is what the quotation came to, until prices change.
Figured ==
    asked.kind = "confirm" =>
        \/ asked.moved \/ asked.total = 0
        \/ Prices(asked.call) /\ asked.total = total

SkInv == Shapes /\ Waiting /\ Classified /\ Standing /\ Figured /\ SkillsKeepGate

LEMMA ToolsAreGated == skill \in DOMAIN SkillTools => SkillTools[skill] \subseteq Gated
BY DEF SkillTools, Gated

LEMMA CallsAreTyped == skill \in DOMAIN SkillTools => SkillCalls \subseteq CallSet
BY ToolsAreGated DEF SkillCalls, AskHuman, ReadCall, CallSet

LEMMA InitialShapes ==
  /\ NotAsked \in Questions /\ NoCall \in CallSet
  /\ \A c \in CallSet : [NotAsked EXCEPT !.kind = "free_text", !.call = c] \in Questions
  /\ \A c \in CallSet, t \in Nat :
       [NotAsked EXCEPT !.kind = "confirm", !.call = c, !.total = t] \in Questions
BY DEF NotAsked, NoCall, Questions, CallSet

LEMMA InitInv == SkInit => SkInv
<1> SUFFICES ASSUME SkInit PROVE SkInv
  OBVIOUS
<1>1. Shapes
  <2>1. total \in Totals
    BY SkAssumption DEF SkInit
  <2>2. <<>> \in Orders
    BY DEF Orders
  <2>3. Resting \in Loops
    BY <2>2, InitialShapes DEF Resting, Loops
  <2>4. NoRequest \in Requests
    BY InitialShapes DEF NoRequest, Requests
  <2>5. saved \in Seq(Writes)
    BY DEF SkInit
  <2> QED
    BY <2>1, <2>3, <2>4, <2>5, InitialShapes DEF SkInit, Shapes
<1>2. Waiting /\ Classified /\ Standing /\ Figured
  BY DEF SkInit, Waiting, Classified, Standing, Figured, NoRequest, NotAsked, Resting, InTurn
<1>3. SkillsKeepGate
  BY DEF SkInit, SkillsKeepGate, YesOnce, WritesWhatItAsked, ToldAndKept
<1> QED
  BY <1>1, <1>2, <1>3 DEF SkInv

\* A write that is sent from the gate has the yes of this request, and, unless
\* the loop was stopped or the call dropped, the yes to this call.
LEMMA SentIsAsked ==
  ASSUME SkInv, AtGate, Approves(request.value), NEW f \in Sums(loop.call), Sent(f)
  PROVE  /\ YesOnce' /\ WritesWhatItAsked'
         /\ saved' \in Seq(Writes)
         /\ \A i \in DOMAIN saved' : saved'[i].n <= request.n
<1> DEFINE w == [call |-> loop.call, total |-> f, n |-> request.n,
                 of |-> request.of, missed |-> request.missed, late |-> request.again,
                 moved |-> asked.moved \/ (Prices(loop.call) /\ f # total)]
<1>1. /\ saved \in Seq(Writes) /\ request.n \in Nat /\ request.value = "yes"
      /\ total \in Nat /\ f \in Nat
  BY SkAssumption DEF SkInv, Shapes, Approves, Sums, Requests
<1>2. w \in Writes
  <2>1. asked.moved \in BOOLEAN /\ (asked.moved \/ (Prices(loop.call) /\ f # total)) \in BOOLEAN
    BY DEF SkInv, Shapes, Questions
  <2> QED
    BY <1>1, <2>1 DEF SkInv, Shapes, Writes, Requests, Loops
<1>3. saved' = Append(saved, w)
  BY DEF Sent
<1>4. ~w.late /\ w.of.kind # "free_text"
  BY <1>1 DEF SkInv, Classified
<1>5. \A i \in DOMAIN saved : saved[i].n < request.n
  <2> SUFFICES ASSUME NEW i \in DOMAIN saved PROVE saved[i].n < request.n
    OBVIOUS
  <2>1. saved[i] \in Writes
    BY <1>1
  <2>2. saved[i].n \in Nat
    BY <2>1 DEF Writes
  <2>3. saved[i].n <= request.n /\ saved[i].n # request.n
    BY <1>1 DEF SkInv, Waiting
  <2> QED
    BY <1>1, <2>2, <2>3
<1>6. ~w.of.left /\ ~w.missed =>
        /\ w.of.kind = "confirm" /\ w.of.call = w.call
        /\ w.of.total = w.total \/ w.moved \/ w.of.total = 0
  <2> SUFFICES ASSUME ~request.of.left, ~request.missed
               PROVE  /\ request.of.kind = "confirm" /\ request.of.call = loop.call
                      /\ request.of.total = f \/ w.moved \/ request.of.total = 0
    OBVIOUS
  <2>1. /\ request.of.kind = asked.kind /\ request.of.call = asked.call
        /\ request.of.total = asked.total /\ ~asked.left
    BY <1>1 DEF SkInv, Classified
  <2>2. AtItsCall
    BY <1>1, <2>1 DEF SkInv, Standing
  <2>3. loop.call.tool # "ask_human"
    BY ToolsAreGated DEF SkInv, Shapes, AtGate, AtTool, Gated
  <2>4. asked.kind = "confirm" /\ asked.call = loop.call
    BY <2>2, <2>3 DEF AtItsCall
  <2>5. asked.moved \/ asked.total = 0 \/ (Prices(loop.call) /\ asked.total = total)
    BY <2>4 DEF SkInv, Figured
  <2>6. Prices(loop.call) /\ asked.total = total => asked.total = f \/ f # total
    OBVIOUS
  <2> QED
    BY <2>1, <2>4, <2>5, <2>6
<1> HIDE DEF w
<1>7. /\ saved' \in Seq(Writes) /\ Len(saved') = Len(saved) + 1
      /\ DOMAIN saved' = 1..(Len(saved) + 1)
      /\ saved'[Len(saved) + 1] = w
      /\ \A i \in 1..Len(saved) : saved'[i] = saved[i]
      /\ DOMAIN saved = 1..Len(saved) /\ Len(saved) \in Nat
  BY <1>1, <1>2, <1>3
<1>8. w.n = request.n
  BY DEF w
<1>9. YesOnce'
  <2> SUFFICES ASSUME NEW i \in DOMAIN saved'
               PROVE  /\ saved'[i].of.kind # "free_text" /\ ~saved'[i].late
                      /\ \A j \in DOMAIN saved' : saved'[i].n = saved'[j].n => i = j
    BY DEF YesOnce
  <2>1. CASE i = Len(saved) + 1
    BY <2>1, <1>1, <1>4, <1>5, <1>7, <1>8
  <2>2. CASE i \in DOMAIN saved
    BY <2>2, <1>1, <1>5, <1>7, <1>8 DEF SkInv, SkillsKeepGate, YesOnce
  <2> QED
    BY <1>7, <2>1, <2>2
<1>10. WritesWhatItAsked'
  <2> SUFFICES ASSUME NEW i \in DOMAIN saved', ~saved'[i].of.left, ~saved'[i].missed
               PROVE  /\ saved'[i].of.kind = "confirm" /\ saved'[i].of.call = saved'[i].call
                      /\ \/ saved'[i].of.total = saved'[i].total
                         \/ saved'[i].moved \/ saved'[i].of.total = 0
    BY DEF WritesWhatItAsked
  <2>1. CASE i = Len(saved) + 1
    BY <2>1, <1>6, <1>7
  <2>2. CASE i \in DOMAIN saved
    BY <2>2, <1>7 DEF SkInv, SkillsKeepGate, WritesWhatItAsked
  <2> QED
    BY <1>7, <2>1, <2>2
<1>11. \A i \in DOMAIN saved' : saved'[i].n <= request.n
  BY <1>1, <1>5, <1>7, <1>8 DEF SkInv, Waiting
<1> QED
  BY <1>7, <1>9, <1>10, <1>11

LEMMA NoRequestFields ==
  /\ NoRequest \in Requests /\ ~NoRequest.on /\ NoRequest.n = 0 /\ NoRequest.value = "none"
  /\ ~NoRequest.again /\ ~NoRequest.missed
BY InitialShapes DEF NoRequest, Requests

\* What the steps do to a request.
LEMMA RequestSteps ==
  ASSUME Shapes
  PROVE  /\ Stepped \in Requests /\ Consumed \in Requests /\ Done \in Requests
         /\ Stepped.on = request.on /\ Stepped.n = request.n /\ Stepped.value = request.value
         /\ Stepped.of = request.of /\ Stepped.again = request.again
         /\ Stepped.missed = request.missed
         /\ Consumed.on = request.on /\ Consumed.n = request.n /\ Consumed.value = "none"
         /\ ~Done.on /\ Done.n = request.n /\ Done.value = "none"
<1>1. request \in Requests
  BY DEF Shapes
<1>2. Stepped = [on |-> request.on, n |-> request.n, value |-> request.value, of |-> request.of,
                 again |-> request.again, missed |-> request.missed, steps |-> request.steps + 1]
  BY <1>1 DEF Stepped, Requests
<1>3. Consumed = [on |-> request.on, n |-> request.n, value |-> "none", of |-> request.of,
                  again |-> request.again, missed |-> request.missed,
                  steps |-> request.steps + 1]
  BY <1>2 DEF Consumed
<1>4. Done \in Requests /\ ~Done.on /\ Done.n = request.n /\ Done.value = "none"
  BY <1>1, NoRequestFields DEF Done, Requests
<1>5. /\ Stepped \in Requests
      /\ Stepped.on = request.on /\ Stepped.n = request.n /\ Stepped.value = request.value
      /\ Stepped.of = request.of /\ Stepped.again = request.again
      /\ Stepped.missed = request.missed
  BY <1>1, <1>2 DEF Requests
<1>6. /\ Consumed \in Requests
      /\ Consumed.on = request.on /\ Consumed.n = request.n /\ Consumed.value = "none"
  BY <1>1, <1>3 DEF Requests
<1> QED
  BY <1>4, <1>5, <1>6

LEMMA LoopShapes == Resting \in Loops /\ FreshLoop \in Loops /\ (Shapes => AfterTool \in Loops)
<1>1. <<>> \in Orders
  BY DEF Orders
<1>2. Resting \in Loops
  BY <1>1, InitialShapes DEF Resting, Loops
<1>3. FreshLoop \in Loops
  BY <1>2 DEF FreshLoop, Loops
<1>4. ASSUME Shapes PROVE AfterTool \in Loops
  BY <1>4, InitialShapes DEF AfterTool, Loops, Shapes
<1> QED
  BY <1>2, <1>3, <1>4

LEMMA WritesStay == SkInv /\ UNCHANGED saved => YesOnce' /\ WritesWhatItAsked'
BY DEF SkInv, SkillsKeepGate, YesOnce, WritesWhatItAsked

\* What is left of the invariant, for the three ways a step can end.
Rest == Shapes /\ Waiting /\ Classified /\ Standing /\ Figured

\* A value is taken, or there is none, and the request goes on.
LEMMA Goes ==
  ASSUME SkInv, request.on, request' = Consumed, loop' \in Loops,
         UNCHANGED <<skill, asked, total>>, saved' \in Seq(Writes),
         \A i \in DOMAIN saved' : saved'[i].n <= request.n
  PROVE  Rest'
<1>1. request' \in Requests /\ request'.on /\ request'.n = request.n /\ request'.value = "none"
  BY RequestSteps DEF SkInv
<1>2. Shapes'
  BY <1>1 DEF SkInv, Shapes
<1>3. Waiting' /\ Classified' /\ Standing'
  BY <1>1 DEF Waiting, Classified, Standing
<1>4. Figured'
  BY DEF SkInv, Figured, Prices
<1> QED
  BY <1>2, <1>3, <1>4 DEF Rest

\* The request stops and leaves its question behind.
LEMMA LeftBehind ==
  ASSUME SkInv, request' = Done, asked' = [asked EXCEPT !.left = TRUE],
         UNCHANGED <<skill, loop, total>>, saved' \in Seq(Writes),
         \A i \in DOMAIN saved' : saved'[i].n <= request.n
  PROVE  Rest'
<1>1. request' \in Requests /\ ~request'.on /\ request'.n = request.n /\ request'.value = "none"
  BY RequestSteps DEF SkInv
<1>2. /\ asked' \in Questions /\ asked'.left /\ asked'.kind = asked.kind
      /\ asked'.call = asked.call /\ asked'.total = asked.total /\ asked'.moved = asked.moved
  BY DEF SkInv, Shapes, Questions
<1>3. Shapes'
  BY <1>1, <1>2 DEF SkInv, Shapes
<1>4. Waiting' /\ Classified' /\ Standing'
  BY <1>1, <1>2 DEF Waiting, Classified, Standing
<1>5. Figured'
  BY <1>2 DEF SkInv, Figured, Prices
<1> QED
  BY <1>3, <1>4, <1>5 DEF Rest

\* The request ends, parked at a question or through, or goes on as a new turn.
LEMMA Ends ==
  ASSUME SkInv, NEW then \in Loops, NEW q \in Questions, Returns(then, q), ~q.left,
         UNCHANGED <<skill, total, saved>>,
         \/ then.next = "idle" /\ q.kind = "none"
         \/ /\ then.next = "tools" /\ then.call = q.call
            /\ \/ q.kind = "confirm" /\ then.call.tool \in SkillTools[skill]
               \/ q.kind = "free_text" /\ then.call.tool = "ask_human",
         q.kind = "confirm" => q.total = 0 \/ (Prices(q.call) /\ q.total = total)
  PROVE  Rest'
<1>1. /\ request' \in Requests /\ request'.n = request.n /\ request'.value = "none"
      /\ \/ request'.on /\ loop' = FreshLoop /\ asked' = NotAsked
         \/ ~request'.on /\ loop' = Resting /\ asked' = NotAsked
         \/ ~request'.on /\ loop' = then /\ asked' = q
  <2>1. Done \in Requests /\ Done.n = request.n /\ Done.value = "none" /\ ~Done.on
    BY RequestSteps DEF SkInv
  <2>2. /\ [Done EXCEPT !.on = TRUE] \in Requests /\ [Done EXCEPT !.on = TRUE].on
        /\ [Done EXCEPT !.on = TRUE].n = request.n /\ [Done EXCEPT !.on = TRUE].value = "none"
    BY <2>1 DEF Requests
  <2> QED
    BY <2>1, <2>2 DEF Returns
<1>2. Shapes'
  BY <1>1, LoopShapes, InitialShapes DEF SkInv, Shapes
<1>3. Waiting' /\ Classified'
  BY <1>1 DEF SkInv, Waiting, Classified
<1>4. Standing'
  BY <1>1 DEF Standing, AtItsCall, InTurn, Resting
<1>5. Figured'
  BY <1>1 DEF Figured, NotAsked, Prices
<1> QED
  BY <1>2, <1>3, <1>4, <1>5 DEF Rest

\* A new request waits with its value, or begins a turn.
LEMMA NewRequest ==
  ASSUME SkInv, NEW r \in Requests, request' = r, r.on, r.n = request.n + 1, ~r.missed,
         UNCHANGED <<skill, total, saved>>,
         \/ r.value = "none" /\ loop' = FreshLoop /\ asked' = NotAsked
         \/ /\ ~request.on /\ InTurn /\ r.of = asked /\ UNCHANGED <<loop, asked>>
            /\ r.again => r.value = "no"
            /\ asked.kind = "free_text" => r.value = "text" \/ r.again
  PROVE  Rest'
<1>1. Shapes'
  BY LoopShapes, InitialShapes DEF SkInv, Shapes
<1>2. Waiting'
  <2> SUFFICES ASSUME NEW i \in DOMAIN saved PROVE saved[i].n <= r.n /\ saved[i].n # r.n
    BY DEF Waiting
  <2>1. saved[i] \in Writes /\ request.n \in Nat
    BY DEF SkInv, Shapes, Requests
  <2>2. saved[i].n \in Nat /\ saved[i].n <= request.n
    BY <2>1 DEF SkInv, Waiting, Writes
  <2> QED
    BY <2>1, <2>2
<1>3. Classified'
  BY DEF Classified
<1>4. Standing'
  BY DEF SkInv, Standing, AtItsCall
<1>5. Figured'
  BY DEF SkInv, Figured, NotAsked, Prices
<1> QED
  BY <1>1, <1>2, <1>3, <1>4, <1>5 DEF Rest

\* The loop goes on while a value may still wait for its interrupt.
LEMMA Walks ==
  ASSUME SkInv, request.on, NEW r \in Requests, request' = r, loop' \in Loops,
         UNCHANGED <<skill, asked, total, saved>>,
         r.on, r.n = request.n, r.value = request.value, r.of = request.of,
         r.again = request.again, r.missed \/ (~AtItsCall /\ r.missed = request.missed)
  PROVE  Rest'
<1>1. Shapes'
  BY DEF SkInv, Shapes
<1>2. Waiting' /\ Classified'
  BY DEF SkInv, Waiting, Classified
<1>3. Standing'
  BY DEF SkInv, Standing
<1>4. Figured'
  BY DEF SkInv, Figured, Prices
<1> QED
  BY <1>1, <1>2, <1>3, <1>4 DEF Rest

LEMMA AskedFields ==
  ASSUME Shapes, NEW f \in Nat
  PROVE  LET h == [NotAsked EXCEPT !.kind = "free_text", !.call = loop.call]
             c == [NotAsked EXCEPT !.kind = "confirm", !.call = loop.call, !.total = f]
         IN  /\ h \in Questions /\ h.kind = "free_text" /\ h.call = loop.call /\ ~h.left
             /\ c \in Questions /\ c.kind = "confirm" /\ c.call = loop.call /\ ~c.left
             /\ c.total = f
BY InitialShapes DEF Shapes, Loops, Questions, NotAsked

\* Every step keeps what the loop is about.
LEMMA StepRest == SkInv /\ [SkNext]_skVars => Rest'
<1> SUFFICES ASSUME SkInv, [SkNext]_skVars PROVE Rest'
  OBVIOUS
<1>0. /\ Shapes /\ request \in Requests /\ loop \in Loops /\ asked \in Questions
      /\ saved \in Seq(Writes) /\ total \in Nat
      /\ \A i \in DOMAIN saved : saved[i].n <= request.n
  BY SkAssumption DEF SkInv, Shapes, Waiting
<1> DEFINE k == request.n + 1
<1>k. k \in Nat
  BY <1>0 DEF Requests
<1>1. CASE TurnStarts
  <2>1. request' = [NoRequest EXCEPT !.on = TRUE, !.n = k]
    BY <1>1 DEF TurnStarts
  <2> HIDE DEF k
  <2>2. /\ request' \in Requests /\ request'.on /\ request'.n = k
        /\ request'.value = "none" /\ ~request'.missed
    BY <1>k, <2>1, NoRequestFields DEF Requests
  <2> USE DEF k
  <2> QED
    BY <1>1, <2>2, NewRequest DEF TurnStarts, Serves
<1>2. CASE ReplyComes
  <2>1. PICK v \in Readings : request' = [NoRequest EXCEPT !.on = TRUE, !.n = k,
                                                           !.value = v, !.of = asked]
    BY <1>2 DEF ReplyComes
  <2>2. v \in {"yes", "no", "text"} /\ (asked.kind = "free_text" => v = "text")
    BY DEF Readings
  <2> HIDE DEF k
  <2>3. /\ request' \in Requests /\ request'.on /\ request'.n = k
        /\ request'.value = v /\ request'.of = asked /\ ~request'.again /\ ~request'.missed
    BY <1>0, <1>k, <2>1, <2>2, NoRequestFields DEF Requests
  <2> USE DEF k
  <2> QED
    BY <1>2, <2>2, <2>3, NewRequest DEF ReplyComes, Serves
<1>3. CASE ReplyIsLate
  <2>1. request' = [NoRequest EXCEPT !.on = TRUE, !.n = k, !.value = "no", !.of = asked,
                                     !.again = TRUE]
    BY <1>3 DEF ReplyIsLate, ExpiredWith
  <2> HIDE DEF k
  <2>2. /\ request' \in Requests /\ request'.on /\ request'.n = k
        /\ request'.value = "no" /\ request'.of = asked /\ request'.again
        /\ ~request'.missed
    BY <1>0, <1>k, <2>1, NoRequestFields DEF Requests
  <2> USE DEF k
  <2> QED
    BY <1>3, <2>2, NewRequest DEF ReplyIsLate, Serves
<1>4. CASE QuestionExpires
  <2>1. /\ asked' \in Questions /\ asked'.kind = asked.kind /\ asked'.call = asked.call
        /\ asked'.total = asked.total /\ asked'.left = asked.left
        /\ asked'.moved = asked.moved
    BY <1>0, <1>4 DEF QuestionExpires, Questions
  <2>2. Shapes' /\ Waiting'
    BY <1>4, <2>1 DEF QuestionExpires, SkInv, Shapes, Waiting
  <2>3. Classified' /\ Standing' /\ Figured'
    BY <1>4, <2>1 DEF QuestionExpires, SkInv, Classified, Standing, Figured, AtItsCall,
       InTurn, Prices
  <2> QED
    BY <2>2, <2>3 DEF Rest
<1>5. CASE OutOfSteps \/ LoopFails
  BY <1>0, <1>5, LeftBehind DEF OutOfSteps, LoopFails, StopsShort
<1>6. CASE ModelCalls \/ ModelAnswers
  <2>1. loop' \in Loops
    BY <1>0, <1>6, CallsAreTyped DEF ModelCalls, ModelAnswers, Loops, Shapes
  <2>2. ~AtItsCall /\ request.on
    BY <1>6 DEF ModelCalls, ModelAnswers, AtItsCall, MayStep
  <2> QED
    BY <1>0, <1>6, <2>1, <2>2, Walks, RequestSteps DEF ModelCalls, ModelAnswers
<1>7. CASE ReadTool
  <2>1. ~AtItsCall /\ request.on
    BY <1>0, <1>7, ToolsAreGated DEF ReadTool, AtTool, AtItsCall, MayStep, Gated, Shapes
  <2> QED
    BY <1>0, <1>7, <2>1, Walks, RequestSteps, LoopShapes DEF ReadTool, ToolAnswers
<1>8. CASE HumanAsked
  <2> DEFINE q == [NotAsked EXCEPT !.kind = "free_text", !.call = loop.call]
  <2>1. q \in Questions /\ q.kind = "free_text" /\ q.call = loop.call /\ ~q.left
    BY <1>0, AskedFields
  <2>2. loop.next = "tools" /\ loop.call.tool = "ask_human"
    BY <1>8 DEF HumanAsked, AtTool
  <2>3. Returns(loop, q) /\ UNCHANGED <<skill, total, saved>>
    BY <1>8 DEF HumanAsked, Parks
  <2> HIDE DEF q
  <2> QED
    BY <1>0, <2>1, <2>2, <2>3, Ends
<1>9. CASE HumanAnswered
  BY <1>0, <1>9, Goes, LoopShapes DEF HumanAnswered, ToolAnswers, AtTool, MayStep
<1>10. CASE GateMissed
  <2>1. /\ request' \in Requests /\ request'.on /\ request'.n = request.n
        /\ request'.value = request.value /\ request'.of = request.of
        /\ request'.again = request.again /\ request'.missed
    BY <1>0, <1>10, RequestSteps DEF GateMissed, AtGate, AtTool, MayStep, Requests
  <2> QED
    BY <1>0, <1>10, <2>1, Walks, LoopShapes
       DEF GateMissed, ToolAnswers, AtGate, AtTool, MayStep
<1>11. CASE GateAsks
  <2>1. PICK f \in Sums(loop.call) :
          Parks([NotAsked EXCEPT !.kind = "confirm", !.call = loop.call, !.total = f])
    BY <1>11 DEF GateAsks
  <2>2. f \in Nat /\ (f = 0 \/ (Prices(loop.call) /\ f = total))
    BY <1>0 DEF Sums
  <2> DEFINE q == [NotAsked EXCEPT !.kind = "confirm", !.call = loop.call, !.total = f]
  <2>3. q \in Questions /\ q.kind = "confirm" /\ q.call = loop.call /\ ~q.left /\ q.total = f
    BY <1>0, <2>2, AskedFields
  <2>4. loop.next = "tools" /\ loop.call.tool \in SkillTools[skill]
    BY <1>11 DEF GateAsks, AtGate, AtTool
  <2>5. Returns(loop, q) /\ UNCHANGED <<skill, total, saved>>
    BY <2>1 DEF Parks
  <2> HIDE DEF q
  <2> QED
    BY <1>0, <2>2, <2>3, <2>4, <2>5, Ends
<1>12. CASE GateRefuses
  BY <1>0, <1>12, Goes, LoopShapes DEF GateRefuses, ToolAnswers, AtGate, AtTool, MayStep
<1>13. CASE GateWrites
  <2>1. request.on /\ UNCHANGED <<skill, asked, total>> /\ request' = Consumed
    BY <1>13 DEF GateWrites, ToolAnswers, AtGate, AtTool, MayStep
  <2>2. loop' \in Loops /\ saved' \in Seq(Writes)
        /\ \A i \in DOMAIN saved' : saved'[i].n <= request.n
    <3>1. PICK f \in Sums(loop.call) :
            \/ /\ Sent(f)
               /\ \E o \in {<<>>, <<loop.call.ref>>} : loop' = [AfterTool EXCEPT !.orders = @ \o o]
            \/ ToolAnswers
      BY <1>13 DEF GateWrites
    <3>2. CASE ToolAnswers
      BY <1>0, <3>2, LoopShapes DEF ToolAnswers
    <3>3. CASE Sent(f) /\ \E o \in {<<>>, <<loop.call.ref>>} :
                            loop' = [AfterTool EXCEPT !.orders = @ \o o]
      <4>1. PICK o \in {<<>>, <<loop.call.ref>>} : loop' = [AfterTool EXCEPT !.orders = @ \o o]
        BY <3>3
      <4>2. loop.call.ref \in SkillRefs \cup {"none"}
        BY <1>0 DEF Loops, CallSet
      <4>3. <<>> \in Orders /\ <<loop.call.ref>> \in Orders
        BY <4>2 DEF Orders
      <4>4. AfterTool \in Loops
        BY <1>0, LoopShapes
      <4>5. AfterTool.orders \o o \in Orders
        <5>1. AfterTool.orders \in Orders /\ o \in Orders
          BY <4>1, <4>3, <4>4 DEF Loops
        <5> QED
          BY <5>1 DEF Orders
      <4>6. loop' \in Loops
        BY <4>1, <4>4, <4>5 DEF Loops
      <4> QED
        BY <1>13, <3>3, <4>6, SentIsAsked DEF GateWrites
    <3> QED
      BY <3>1, <3>2, <3>3
  <2> QED
    BY <2>1, <2>2, Goes
<1>14. CASE GateRaises
  <2>1. 0 \in Sums(loop.call) /\ AtGate /\ Approves(request.value)
    BY <1>14 DEF GateRaises, Sums
  <2>2. saved' \in Seq(Writes) /\ \A i \in DOMAIN saved' : saved'[i].n <= request.n
    BY <1>0, <1>14, <2>1, SentIsAsked DEF GateRaises, StopsShort
  <2> QED
    BY <1>14, <2>2, LeftBehind DEF GateRaises, StopsShort
<1>15. CASE ContextSync
  <2>1. Returns(Resting, NotAsked) /\ UNCHANGED <<skill, total, saved>>
    BY <1>15 DEF ContextSync
  <2>2. NotAsked.kind = "none" /\ ~NotAsked.left /\ Resting.next = "idle"
    BY DEF NotAsked, Resting
  <2> QED
    BY <2>1, <2>2, InitialShapes, LoopShapes, Ends
<1>16. CASE PricesShift
  <2>1. /\ asked' \in Questions /\ asked'.kind = asked.kind /\ asked'.call = asked.call
        /\ asked'.total = asked.total /\ asked'.left = asked.left /\ asked'.moved
    BY <1>0, <1>16 DEF PricesShift, Questions
  <2>2. Shapes' /\ Waiting'
    BY <1>16, <2>1 DEF PricesShift, SkInv, Shapes, Waiting
  <2>3. Classified' /\ Standing' /\ Figured'
    BY <1>16, <2>1 DEF PricesShift, SkInv, Classified, Standing, Figured, AtItsCall, InTurn
  <2> QED
    BY <2>2, <2>3 DEF Rest
<1>17. CASE UNCHANGED skVars
  BY <1>17 DEF skVars, SkInv, Rest, Shapes, Waiting, Classified, Standing, Figured, AtItsCall,
     InTurn, Prices
<1> QED
  BY <1>1, <1>2, <1>3, <1>4, <1>5, <1>6, <1>7, <1>8, <1>9, <1>10, <1>11, <1>12, <1>13, <1>14,
     <1>15, <1>16, <1>17 DEF SkNext

\* The writes keep their answers, and the next turn is told of the last one.
LEMMA StepGate == SkInv /\ [SkNext]_skVars => SkillsKeepGate'
<1> SUFFICES ASSUME SkInv, [SkNext]_skVars PROVE SkillsKeepGate'
  OBVIOUS
<1>1. YesOnce' /\ WritesWhatItAsked'
  <2>1. CASE GateWrites
    BY <2>1, SentIsAsked, WritesStay DEF GateWrites, ToolAnswers
  <2>2. CASE GateRaises
    <3>1. 0 \in Sums(loop.call) /\ AtGate /\ Approves(request.value)
      BY <2>2 DEF GateRaises, Sums
    <3> QED
      BY <2>2, <3>1, SentIsAsked, WritesStay DEF GateRaises, StopsShort
  <2>3. CASE ~GateWrites /\ ~GateRaises
    <3>1. UNCHANGED saved
      BY <2>3 DEF SkNext, skVars, TurnStarts, ReplyComes, ReplyIsLate, Serves, QuestionExpires,
         OutOfSteps, LoopFails, StopsShort, ModelCalls, ModelAnswers, ReadTool, HumanAsked,
         HumanAnswered, GateMissed, GateAsks, GateRefuses, Parks, ToolAnswers, ContextSync,
         PricesShift
    <3> QED
      BY <3>1, WritesStay
  <2> QED
    BY <2>1, <2>2, <2>3
<1>2. ToldAndKept'
  <2>1. CASE ContextSync
    BY <2>1 DEF ContextSync, ToldAndKept, NewestOrder, Spoken
  <2>2. CASE TurnStarts
    BY <2>2 DEF TurnStarts, SkInv, SkillsKeepGate, ToldAndKept
  <2>3. CASE ~ContextSync /\ ~TurnStarts
    <3>1. UNCHANGED <<context, ended>>
      BY <2>3 DEF SkNext, skVars, ReplyComes, ReplyIsLate, QuestionExpires,
         OutOfSteps, LoopFails, StopsShort, ModelCalls, ModelAnswers, ReadTool, HumanAsked,
         HumanAnswered, GateMissed, GateAsks, GateRefuses, GateWrites, GateRaises, Parks,
         ToolAnswers, PricesShift
    <3> QED
      BY <3>1 DEF SkInv, SkillsKeepGate, ToldAndKept
  <2> QED
    BY <2>1, <2>2, <2>3
<1> QED
  BY <1>1, <1>2 DEF SkillsKeepGate

\* Whatever stops, expires, is replayed or changes: what the loop holds is about
\* the question of its thread (erp_agent.py:445-473, agentic_gate.py:31-38).
THEOREM SkillInvariant == SkSpec => []SkInv
<1>1. SkInv /\ [SkNext]_skVars => SkInv'
  BY StepRest, StepGate DEF Rest, SkInv
<1> QED
  BY InitInv, <1>1, PTL DEF SkSpec

\* For any orders, prices, steps and requests: each write of a procedure has a
\* yes of its own, given to the question of that call (agentic_gate.py:3), and
\* the next turn is told of the write that was made last.
THEOREM SkillsAlwaysKeepGate == SkSpec => []SkillsKeepGate
BY SkillInvariant, PTL DEF SkInv

-----------------------------------------------------------------------------
(* The mail flow tells the truth, for any number of mails and toggles. *)

\* What a turn has in hand at each step: a mail of its own, which nobody was told
\* is dropped; untouched in Odoo until the answer, or one the process stopped over;
\* then one that was agreed to; at the read-back one that was turned over to the queue.
InHand == {"composed", "to_ask", "asking", "flip", "send", "reread"}

MailInHand ==
  /\ mailStep \in InHand => mailId # 0 /\ (mailId \in mailDropped => mailId \in mailStopped)
  /\ mailStep \in {"composed", "asking", "flip"} =>
       mails[mailId] = "cancel" \/ mailId \in mailStopped
  /\ mailStep = "asking" => mailId \in mailShown
  /\ mailStep = "to_ask" => mailId \in mailStopped
  /\ mailStep \in {"flip", "send", "reread"} =>
       mailId \in mailYes /\ mailId \in mailShown \cup mailStopped
  /\ mailStep \in {"send", "reread"} => mails[mailId] \in {"outgoing", "sent", "exception"}

MlInv ==
  /\ MlTypeOK /\ mails \in Seq(MailStates) /\ mailDropped \subseteq 1..Len(mails)
  /\ OnlyApproved /\ DroppedStays /\ MailInHand

LEMMA MlInvInit == MlInit => MlInv
BY MailAssumption
   DEF MlInit, MlInv, MlTypeOK, OnlyApproved, DroppedStays, MailInHand, InHand, MailStates

\* The mails as a step leaves them.
MailsKept ==
  /\ mails' \in Seq(MailStates) /\ Len(mails') = Len(mails)
  /\ OnlyApproved' /\ DroppedStays' /\ SentOnce
  /\ mailGate' \in BOOLEAN /\ mailToggles' \in 0..MaxToggles

\* The end of a turn holds no mail.
LEMMA TurnOver ==
  ASSUME MlInv, MailsKept, mailDropped' \subseteq 1..Len(mails),
         NEW r \in {"nothing", "refused", "disabled", "unfinished", "cancelled", "failed", "sent"},
         MailSays(r)
  PROVE  MlInv'
BY DEF MlInv, MlTypeOK, MailsKept, MailInHand, InHand, MailSays

\* A stop in the second node leaves the mail to be asked about again.
LEMMA ParkedAgain ==
  ASSUME MlInv, MailsKept, UNCHANGED <<mailShown, mailDropped>>, mailId # 0,
         MailHalts(Parked), mailStopped' = mailStopped \cup {mailId}
  PROVE  MlInv'
<1>1. /\ mailStep' = Parked /\ mailId' = mailId /\ mailReply' = "nothing"
      /\ Parked \in {"asking", "to_ask"} /\ (Parked = "asking" => mailId \in mailShown)
    BY DEF MailHalts, Parked
<1>2. MailInHand'
    BY <1>1 DEF MailInHand, InHand
<1> QED BY <1>1, <1>2 DEF MlInv, MlTypeOK, MailsKept

\* Throwing the draft away sends nothing, and only a mail the process stopped over
\* can have gone out before.
LEMMA Dropping ==
  ASSUME MlInv, NEW r \in {"disabled", "cancelled"}, Drops(r),
         mailStep \in {"composed", "to_ask", "asking"}, mailYes \subseteq mailYes',
         UNCHANGED <<mailShown, mailGate, mailToggles>>
  PROVE  MlInv' /\ SentOnce
<1>0. /\ mailId \in 1..Len(mails)
      /\ mails[mailId] = "cancel" \/ mailId \in mailStopped
    BY DEF MlInv, MlTypeOK, MailInHand, InHand
<1>1. /\ mails' \in Seq(MailStates) /\ Len(mails') = Len(mails)
      /\ \A k \in 1..Len(mails) : mails'[k] = mails[k] \/ (k = mailId /\ mails'[k] = "deleted")
  <2>1. CASE UNCHANGED mails
      BY <2>1 DEF MlInv
  <2>2. CASE mails' = [mails EXCEPT ![mailId] = "deleted"]
      BY <1>0, <2>2 DEF MlInv, MailStates
  <2> QED BY <2>1, <2>2 DEF Drops, Discards
<1>2. /\ mailDropped' \subseteq mailDropped \cup {mailId}
      /\ mailStopped \subseteq mailStopped' /\ mailStopped' \subseteq mailStopped \cup {mailId}
    BY DEF Drops
<1>3. OnlyApproved'
    BY <1>1, <1>2 DEF MlInv, OnlyApproved
<1>4. DroppedStays'
    BY <1>0, <1>1, <1>2 DEF MlInv, DroppedStays
<1>5. SentOnce
    BY <1>0, <1>1 DEF SentOnce
<1>6. MailsKept
    BY <1>1, <1>3, <1>4, <1>5 DEF MailsKept, MlInv, MlTypeOK
<1>7. CASE MailSays(r)
  <2>1. mailDropped' \subseteq 1..Len(mails)
      BY <1>0, <1>2 DEF MlInv
  <2>2. r \in {"nothing", "refused", "disabled", "unfinished", "cancelled", "failed", "sent"}
      OBVIOUS
  <2> QED BY <1>5, <1>6, <1>7, <2>1, <2>2, TurnOver
<1>8. CASE MailHalts(Parked) /\ mailStopped' = mailStopped \cup {mailId} /\ UNCHANGED mailDropped
  <2>1. mailId # 0 /\ UNCHANGED <<mailShown, mailDropped>>
      BY <1>0, <1>8
  <2> QED BY <1>5, <1>6, <1>8, <2>1, ParkedAgain
<1> QED BY <1>5, <1>7, <1>8 DEF Drops

\* Sending changes one mail, and only one that was due out.
LEMMA Sending ==
  ASSUME MlInv, NEW m \in 1..Len(mails), mails' \in SentOrNot(mails, m),
         UNCHANGED <<mailShown, mailYes, mailStopped, mailDropped, mailGate, mailToggles>>
  PROVE  /\ MailsKept
         /\ \A k \in 1..Len(mails) : mails'[k] = mails[k] \/ mails[k] = "outgoing"
         /\ \A k \in 1..Len(mails) : mails[k] = "outgoing" =>
              mails'[k] \in {"sent", "exception", "outgoing"}
<1>1. PICK st \in {"sent", "exception", "outgoing"} :
        mails' = IF mails[m] = "outgoing" THEN [mails EXCEPT ![m] = st] ELSE mails
    BY DEF SentOrNot
<1>2. /\ mails' \in Seq(MailStates) /\ Len(mails') = Len(mails)
      /\ \A k \in 1..Len(mails) : mails'[k] = mails[k] \/ mails[k] = "outgoing"
      /\ \A k \in 1..Len(mails) : mails[k] = "outgoing" =>
              mails'[k] \in {"sent", "exception", "outgoing"}
    BY <1>1 DEF MlInv, MailStates
<1>3. OnlyApproved' /\ SentOnce
    BY <1>2 DEF MlInv, OnlyApproved, SentOnce
<1>4. DroppedStays'
    BY <1>2 DEF MlInv, DroppedStays
<1> QED BY <1>2, <1>3, <1>4 DEF MailsKept, MlInv, MlTypeOK

\* Steps that leave the records and what is known of them alone.
LEMMA RecordsAlone ==
  ASSUME MlInv, UNCHANGED <<mails, mailYes, mailShown, mailStopped, mailDropped>>,
         mailGate' \in BOOLEAN, mailToggles' \in 0..MaxToggles
  PROVE  MailsKept
BY DEF MailsKept, MlInv, MlTypeOK, OnlyApproved, DroppedStays, SentOnce

LEMMA MlInvStep == MlInv /\ [MlNext]_mlVars => MlInv' /\ SentOnce
<1> SUFFICES ASSUME MlInv, [MlNext]_mlVars PROVE MlInv' /\ SentOnce
    OBVIOUS
<1> USE MailAssumption
<1>0. CASE UNCHANGED mlVars
  <2>1. SentOnce
      BY <1>0 DEF mlVars, SentOnce
  <2>2. MlInv'
      BY <1>0 DEF mlVars, MlInv, MlTypeOK, OnlyApproved, DroppedStays, MailInHand, InHand
  <2> QED BY <2>1, <2>2
<1>1. CASE MailAsked
  <2>1. MailsKept
      BY <1>1, RecordsAlone DEF MailAsked, MlInv, MlTypeOK
  <2> QED BY <1>1, <2>1 DEF MailAsked, MailsKept, MlInv, MlTypeOK, MailInHand, InHand
<1>2. CASE Preview
  <2>0. /\ UNCHANGED <<mailGate, mailShown, mailYes, mailStopped, mailDropped, mailToggles>>
        /\ mailGate \in BOOLEAN /\ mailToggles \in 0..MaxToggles
      BY <1>2 DEF Preview, MlInv, MlTypeOK
  <2>1. CASE MailSays("refused") /\ UNCHANGED mails
    <3>1. MailsKept
        BY <2>0, <2>1, RecordsAlone
    <3> QED BY <2>0, <2>1, <3>1, TurnOver DEF MlInv, MailsKept
  <2>2. CASE Len(mails) < MaxMails /\ mails' = Append(mails, DraftState)
    <3>1. /\ mails' \in Seq(MailStates) /\ Len(mails') = Len(mails) + 1 /\ Len(mails) \in Nat
          /\ mails'[Len(mails')] = "cancel" /\ Len(mails') <= MaxMails
          /\ \A k \in 1..Len(mails) : mails'[k] = mails[k]
        BY <2>2 DEF MlInv, DraftState, MailStates
    <3>2. OnlyApproved' /\ SentOnce
        BY <2>0, <3>1 DEF MlInv, OnlyApproved, SentOnce
    <3>3. DroppedStays' /\ mailDropped' \subseteq 1..Len(mails')
        BY <2>0, <3>1 DEF MlInv, DroppedStays
    <3>4. MlTypeOK' /\ MailInHand'
      <4>1. CASE mailId' = Len(mails') /\ mailStep' = "composed" /\ UNCHANGED mailReply
          BY <2>0, <3>1, <4>1 DEF MlInv, MlTypeOK, MailInHand, InHand, MailStates
      <4>2. CASE MailSays("unfinished")
          BY <2>0, <3>1, <4>2 DEF MlInv, MlTypeOK, MailInHand, InHand, MailStates, MailSays
      <4>3. CASE MailHalts("to_compose")
          BY <2>0, <3>1, <4>3 DEF MlInv, MlTypeOK, MailInHand, InHand, MailStates, MailHalts
      <4> QED BY <1>2, <2>2, <4>1, <4>2, <4>3 DEF Preview, MailSays
    <3> QED BY <3>1, <3>2, <3>3, <3>4 DEF MlInv
  <2> QED BY <1>2, <2>1, <2>2 DEF Preview
<1>3. CASE AskToSend
  <2>1. CASE mailGate
    <3>0. mailStep = "composed" /\ mailStep' = "asking" /\ mailShown' = mailShown \cup {mailId}
          /\ UNCHANGED <<mails, mailId, mailReply, mailStopped, mailDropped, mailGate, mailYes,
                         mailToggles>>
        BY <1>3, <2>1 DEF AskToSend
    <3>1. OnlyApproved' /\ DroppedStays' /\ SentOnce
        BY <3>0 DEF MlInv, OnlyApproved, DroppedStays, SentOnce
    <3> QED BY <3>0, <3>1 DEF MlInv, MlTypeOK, MailInHand, InHand
  <2>2. CASE ~mailGate
      BY <1>3, <2>2, Dropping DEF AskToSend
  <2> QED BY <2>1, <2>2
<1>4. CASE AnswerMail
  <2>0. /\ mailStep \in {"asking", "to_ask"}
        /\ UNCHANGED <<mailGate, mailShown, mailToggles>>
      BY <1>4 DEF AnswerMail
  <2>1. PICK yes \in BOOLEAN :
          /\ mailYes' = IF yes THEN mailYes \cup {mailId} ELSE mailYes
          /\ IF ~mailGate THEN Drops("disabled")
             ELSE IF ~yes THEN Drops("cancelled")
             ELSE mailStep' = "flip" /\ Approved
      BY <1>4 DEF AnswerMail
  <2>2. CASE ~mailGate \/ ~yes
    <3>1. PICK r \in {"disabled", "cancelled"} : Drops(r)
        BY <2>1, <2>2
    <3> QED BY <2>0, <2>1, <3>1, Dropping
  <2>3. CASE mailGate /\ yes
    <3>1. /\ mailYes' = mailYes \cup {mailId} /\ mailStep' = "flip"
          /\ UNCHANGED <<mails, mailId, mailReply, mailStopped, mailDropped>>
        BY <2>1, <2>3 DEF Approved
    <3>2. OnlyApproved' /\ DroppedStays' /\ SentOnce
        BY <2>0, <3>1 DEF MlInv, OnlyApproved, DroppedStays, SentOnce
    <3> QED BY <2>0, <3>1, <3>2 DEF MlInv, MlTypeOK, MailInHand, InHand
  <2> QED BY <2>2, <2>3
<1>5. CASE Flip
  <2>0. /\ UNCHANGED <<mailGate, mailShown, mailYes, mailStopped, mailDropped, mailToggles>>
        /\ mailGate \in BOOLEAN /\ mailToggles \in 0..MaxToggles
        /\ mailId \in 1..Len(mails) /\ mailId \in mailYes /\ mailId \in mailShown \cup mailStopped
        /\ mailId \in mailDropped => mailId \in mailStopped
        /\ mails[mailId] = "cancel" \/ mailId \in mailStopped
      BY <1>5 DEF Flip, MlInv, MlTypeOK, MailInHand, InHand
  <2>1. CASE UNCHANGED mails /\ (MailSays("refused") \/ MailSays("unfinished"))
    <3>1. MailsKept
        BY <2>0, <2>1, RecordsAlone
    <3> QED BY <2>0, <2>1, <3>1, TurnOver DEF MlInv, MailsKept
  <2>2. CASE Flipped(mailId) /\ ((mailStep' = "send" /\ UNCHANGED <<mailId, mailReply>>)
                                 \/ MailSays("unfinished"))
    <3>1. /\ mails' \in Seq(MailStates) /\ Len(mails') = Len(mails)
          /\ mails'[mailId] = "outgoing"
          /\ \A k \in 1..Len(mails) : k # mailId => mails'[k] = mails[k]
        BY <2>2, <2>0 DEF MlInv, Flipped, MailStates
    <3>2. OnlyApproved' /\ SentOnce
        BY <2>0, <3>1 DEF MlInv, OnlyApproved, SentOnce
    <3>3. DroppedStays'
        BY <2>0, <3>1 DEF MlInv, DroppedStays
    <3>4. MailsKept
        BY <2>0, <3>1, <3>2, <3>3 DEF MailsKept
    <3>5. CASE mailStep' = "send" /\ UNCHANGED <<mailId, mailReply>>
        BY <2>0, <3>1, <3>4, <3>5 DEF MailsKept, MlInv, MlTypeOK, MailInHand, InHand
    <3>6. CASE MailSays("unfinished")
        BY <2>0, <3>4, <3>6, TurnOver DEF MlInv, MailsKept
    <3> QED BY <2>2, <3>5, <3>6
  <2> QED BY <1>5, <2>1, <2>2 DEF Flip
<1>6. CASE SendCall
  <2>0. /\ UNCHANGED <<mailGate, mailShown, mailYes, mailStopped, mailDropped, mailToggles>>
        /\ mailGate \in BOOLEAN /\ mailToggles \in 0..MaxToggles
        /\ mailId \in 1..Len(mails) /\ mailId \in mailYes /\ mailId \in mailShown \cup mailStopped
        /\ mailId \in mailDropped => mailId \in mailStopped
        /\ mails[mailId] \in {"outgoing", "sent", "exception"}
      BY <1>6 DEF SendCall, MlInv, MlTypeOK, MailInHand, InHand
  <2>1. CASE UNCHANGED mails /\ MailSays("unfinished")
    <3>1. MailsKept
        BY <2>0, <2>1, RecordsAlone
    <3> QED BY <2>0, <2>1, <3>1, TurnOver DEF MlInv, MailsKept
  <2>2. CASE mails' \in SentOrNot(mails, mailId)
    <3>1. MailsKept /\ mails'[mailId] \in {"outgoing", "sent", "exception"}
        BY <2>0, <2>2, Sending
    <3>2. CASE mailStep' = "reread" /\ UNCHANGED <<mailId, mailReply>>
        BY <2>0, <3>1, <3>2 DEF MailsKept, MlInv, MlTypeOK, MailInHand, InHand
    <3>3. CASE MailSays("unfinished")
        BY <2>0, <3>1, <3>3, TurnOver DEF MlInv, MailsKept
    <3> QED BY <1>6, <2>2, <3>1, <3>2, <3>3 DEF SendCall, MailsKept
  <2> QED BY <1>6, <2>1, <2>2 DEF SendCall
<1>7. CASE ReadBack
  <2>1. MailsKept
      BY <1>7, RecordsAlone DEF ReadBack, MlInv, MlTypeOK
  <2>2. \E r \in {"failed", "sent", "unfinished"} : MailSays(r)
      BY <1>7 DEF ReadBack
  <2> QED BY <1>7, <2>1, <2>2, TurnOver DEF ReadBack, MlInv, MailsKept
<1>8. CASE MailStops
  <2>0. /\ UNCHANGED <<mails, mailGate, mailShown, mailYes, mailDropped, mailToggles>>
        /\ mailStopped \subseteq mailStopped'
      BY <1>8 DEF MailStops
  <2>1. MailsKept
      BY <2>0 DEF MailsKept, MlInv, MlTypeOK, OnlyApproved, DroppedStays, SentOnce
  <2>2. CASE mailStep = "compose"
      BY <1>8, <2>0, <2>1, <2>2
         DEF MailStops, MailHalts, MailsKept, MlInv, MlTypeOK, MailInHand, InHand
  <2>3. CASE mailStep # "compose"
      BY <1>8, <2>0, <2>1, <2>3, ParkedAgain DEF MailStops, MailsKept, MlInv, MailInHand, InHand
  <2> QED BY <2>2, <2>3
<1>9. CASE MailCron
  <2>1. PICK m \in 1..Len(mails) : mails[m] = "outgoing" /\ mails' \in SentOrNot(mails, m)
      BY <1>9 DEF MailCron
  <2>2. UNCHANGED <<mailGate, mailId, mailStep, mailShown, mailReply, mailYes, mailStopped,
                    mailDropped, mailToggles>>
      BY <1>9 DEF MailCron
  <2>3. /\ MailsKept
        /\ \A k \in 1..Len(mails) : mails'[k] = mails[k] \/ mails[k] = "outgoing"
        /\ \A k \in 1..Len(mails) : mails[k] = "outgoing" =>
              mails'[k] \in {"sent", "exception", "outgoing"}
      BY <2>1, <2>2, Sending
  <2>4. MailInHand'
      BY <2>2, <2>3 DEF MlInv, MlTypeOK, MailInHand, InHand
  <2> QED BY <2>2, <2>3, <2>4 DEF MailsKept, MlInv, MlTypeOK
<1>10. CASE MailToggle
  <2>1. /\ UNCHANGED <<mails, mailId, mailStep, mailShown, mailReply, mailYes, mailStopped,
                       mailDropped>>
        /\ mailGate' \in BOOLEAN /\ mailToggles' \in 0..MaxToggles
      BY <1>10 DEF MailToggle, MlInv, MlTypeOK
  <2>2. MailsKept
      BY <2>1, RecordsAlone
  <2> QED BY <2>1, <2>2 DEF MailsKept, MlInv, MlTypeOK, MailInHand, InHand
<1> QED BY <1>0, <1>1, <1>2, <1>3, <1>4, <1>5, <1>6, <1>7, <1>8, <1>9, <1>10 DEF MlNext

\* The answer of the read-back is what the record says.
LEMMA ReadBackTrue == MlInv /\ [MlNext]_mlVars => ReadBackIsTrue
<1> SUFFICES ASSUME MlInv, [MlNext]_mlVars, mailStep = "reread", mailStep' = "idle"
             PROVE  /\ mailReply' = "sent" => mails[mailId] \in {"sent", "outgoing"}
                    /\ mailReply' = "failed" => mails[mailId] = "exception"
    BY DEF ReadBackIsTrue
<1>1. CASE ReadBack
    BY <1>1 DEF ReadBack, MailSays, MlInv, MailInHand
<1>2. CASE MailStops
    BY <1>2 DEF MailStops, MailHalts
<1> QED BY <1>1, <1>2 DEF MlNext, mlVars, MailAsked, Preview, AskToSend, AnswerMail, Flip,
           SendCall, MailCron, MailToggle

\* For every number of mails, turns and stops of the process: a mail in hand at a step
\* of the flow is in the state that step counts on, or the process stopped over it; and
\* the mail that an answer is about is the one that was shown, or the process stopped
\* before it could be (mail_write.py, erp_agent.py:447).
THEOREM MailInvariant == MlSpec => []MlInv
<1>1. MlInv /\ [MlNext]_mlVars => MlInv'
    BY MlInvStep
<1> QED BY MlInvInit, <1>1, PTL DEF MlSpec

\* Only a mail that was agreed to leaves, whatever Odoo's queue and a stopped process
\* do.  Of a mail no process stopped over: it was shown before, it is not sent twice, it
\* does not leave once the user is told that it is not sent.  And "sent" or "failed" is
\* what the record says when the answer is given (node_write_mail's read-back).
THEOREM MailAlwaysKeepsWord == MlSpec => MailKeepsWord
<1>1. MlInv /\ [MlNext]_mlVars =>
        [(MlTypeOK /\ OnlyApproved /\ DroppedStays)' /\ SentOnce /\ ReadBackIsTrue]_mlVars
    BY MlInvStep, ReadBackTrue DEF MlInv
<1> QED BY <1>1, MailInvariant, PTL DEF MlSpec, MailKeepsWord

-----------------------------------------------------------------------------
(* What a coordinator writes is what it showed, for any candidates and       *)
(* figures, and its interrupts keep their places while the ERP changes.  A   *)
(* run is a function of the plan, the ERP and the stored answers.            *)

Modes == {"ask", "refuse", "first"}

\* The walk after a look-up that returned hits, with the answers a stored.
After(a, hits, w, mode) ==
  IF w.out # "go" THEN w
  ELSE IF hits = {} THEN [w EXCEPT !.out = "stop"]
  ELSE IF Cardinality(hits) = 1 \/ mode = "first" THEN Took(w, CHOOSE r \in hits : TRUE)
  ELSE IF mode = "refuse" THEN [w EXCEPT !.out = "stop"]
  ELSE IF w.used = Len(a) THEN AskPick(w, hits)
  ELSE IF a[w.used + 1] \in hits THEN [Took(w, a[w.used + 1]) EXCEPT !.used = @ + 1]
  ELSE [w EXCEPT !.out = "stop"]

Walked(a, found, modes) ==
  LET one == After(a, found[1], FreshWalk, modes[1])
      two == After(a, found[2], one, modes[2])
  IN  IF Len(modes) = 0 THEN FreshWalk
      ELSE IF Len(modes) = 1 THEN one
      ELSE IF Len(modes) = 2 THEN two
      ELSE After(a, found[3], two, modes[3])

Decided(a, t, w) ==
  IF w.out # "go" THEN WalkOutcomes(t, w)
  ELSE IF Len(a) < w.used + 1 THEN WalkOutcomes(t, [w EXCEPT !.out = "confirm"])
  ELSE IF Agrees(t, a[w.used + 1]) THEN WalkOutcomes(t, [w EXCEPT !.out = "write"])
  ELSE StopRun

\* Which look-ups a plan takes, which tool it ends in, and what else stops it.
DocLook(p) == IF p.by = "name" THEN "ask" ELSE "refuse"
BomLook(p) == IF p.by = "code" THEN "first" ELSE "ask"

ModesOf(p, e) ==
  CASE p.tool \in {"update_quotation_lines", "update_rfq_lines"} ->
         IF e.fit THEN <<"refuse", "ask">> ELSE <<"refuse">>
    [] p.tool \in {"inventory_adjustment", "internal_transfer", "scrap_product",
                   "convert_lead"} -> <<"ask">>
    [] p.tool \in {"create_lead", "create_vendor"} -> <<>>
    [] p.tool = "log_activity" -> <<DocLook(p)>>
    [] p.tool = "close_activity" ->
         IF p.by = "none" THEN <<"ask">> ELSE <<DocLook(p), "ask">>
    [] p.tool = "create_manufacturing_order" -> <<"ask", BomLook(p)>>
    [] p.tool = "update_bom_lines" -> <<"ask", BomLook(p), "ask">>
    [] p.tool = "create_credit_memo" -> <<"refuse">>
    [] p.tool = "create_bulk_rfq" -> <<"ask", "ask", "ask">>
    [] p.tool \in {"post_invoice", "register_payment"} ->
         IF p.by = "code" THEN <<>> ELSE <<"ask">>
    [] OTHER -> <<"ask", "ask">>

ToolOf(p, e) ==
  IF p.tool \in {"update_quotation_lines", "update_rfq_lines"} /\ ~e.fit
  THEN "flag_order_for_review" ELSE p.tool

Refuses(p, e, w) ==
  \/ p.tool \in {"log_activity", "post_invoice", "register_payment"} /\ p.by = "none"
  \/ w.out = "go" /\ p.tool = "create_bom" /\ w.picks[1] = w.picks[2]
  \/ w.out = "go" /\ p.tool \in {"update_bom_lines", "post_invoice", "register_payment"} /\ ~e.fit

WalkOf(p, e, a) == Walked(a, e.found, ModesOf(p, e))

Outcome(p, e, a) ==
  IF Refuses(p, e, WalkOf(p, e, a)) THEN StopRun ELSE Decided(a, ToolOf(p, e), WalkOf(p, e, a))

LEMMA LooksAre ==
  ASSUME NEW w, NEW i, NEW mode \in Modes
  PROVE  LookUp(w, i, mode) = After(answers, erp.found[i], w, mode)
<1> DEFINE hits == erp.found[i]
<1>1. Several(w, hits) =
        IF w.used = Len(answers) THEN AskPick(w, hits)
        ELSE IF answers[w.used + 1] \in hits
             THEN [Took(w, answers[w.used + 1]) EXCEPT !.used = @ + 1]
             ELSE [w EXCEPT !.out = "stop"]
  BY DEF Several, PickAt
<1>2. LookUp(w, i, mode) =
        CASE w.out # "go"                    -> w
          [] w.out = "go" /\ hits = {}       -> [w EXCEPT !.out = "stop"]
          [] w.out = "go" /\ Cardinality(hits) = 1 -> Took(w, CHOOSE r \in hits : TRUE)
          [] OTHER ->
                 CASE mode = "ask"    -> Several(w, hits)
                   [] mode = "refuse" -> [w EXCEPT !.out = "stop"]
                   [] mode = "first"  -> Took(w, CHOOSE r \in hits : TRUE)
  BY DEF LookUp
<1>3. PICK h : h = hits
  OBVIOUS
<1>5. hits = {} => Cardinality(hits) # 1
  BY FS_EmptySet
<1> HIDE DEF hits
<1>4. CASE w.out # "go"
  BY <1>2, <1>4 DEF After, hits
<1>6. CASE w.out = "go" /\ (hits = {} \/ Cardinality(hits) = 1)
  BY <1>2, <1>5, <1>6 DEF After, hits
<1>7. CASE w.out = "go" /\ hits # {} /\ Cardinality(hits) # 1
  BY <1>1, <1>2, <1>7 DEF After, hits, Modes
<1> QED
  BY <1>4, <1>6, <1>7

LEMMA WalksAre ==
  ASSUME NEW modes, Len(modes) \in 1..3, \A i \in 1..Len(modes) : modes[i] \in Modes
  PROVE  Lookups(modes) = Walked(answers, erp.found, modes)
<1>1. PICK one : one = LookUp(FreshWalk, 1, modes[1])
  OBVIOUS
<1>2. one = After(answers, erp.found[1], FreshWalk, modes[1])
  BY <1>1, LooksAre
<1>3. PICK two : two = LookUp(one, 2, modes[2])
  OBVIOUS
<1>4. Len(modes) >= 2 => two = After(answers, erp.found[2], one, modes[2])
  BY <1>3, LooksAre
<1>5. Len(modes) >= 3 =>
        LookUp(two, 3, modes[3]) = After(answers, erp.found[3], two, modes[3])
  BY LooksAre
<1> QED
  BY <1>1, <1>2, <1>3, <1>4, <1>5 DEF Lookups, Walked

LEMMA ConfirmIs == \A t, w : Confirm(t, w) = Decided(answers, t, w)
  BY DEF Confirm, Decided

LEMMA ModesFit ==
  ASSUME NEW p \in Plans, NEW e
  PROVE  /\ ModesOf(p, e) \in Seq(Modes) /\ Len(ModesOf(p, e)) \in 0..MaxLooks
<1>1. PICK d \in Modes, b \in Modes : d = DocLook(p) /\ b = BomLook(p)
  BY DEF DocLook, BomLook, Modes
<1>2. PICK s : s = ModesOf(p, e)
  OBVIOUS
<1>8. \/ s = <<>> \/ s = <<"ask">> \/ s = <<"refuse">> \/ s = <<d>>
      \/ s = <<"refuse", "ask">> \/ s = <<"ask", "ask">> \/ s = <<d, "ask">>
      \/ s = <<"ask", b>> \/ s = <<"ask", b, "ask">> \/ s = <<"ask", "ask", "ask">>
  BY <1>1, <1>2 DEF ModesOf, Plans, SingleNodeTools
<1> DEFINE Short(x) == x \in Seq(Modes) /\ Len(x) \in 0..3
<1>3. "ask" \in Modes /\ "refuse" \in Modes
  BY DEF Modes
<1>4. Short(<<>>)
  OBVIOUS
<1>5. Short(<<"ask">>) /\ Short(<<"refuse">>) /\ Short(<<d>>)
  BY <1>1, <1>3
<1>6. /\ Short(<<"refuse", "ask">>) /\ Short(<<"ask", "ask">>)
      /\ Short(<<d, "ask">>) /\ Short(<<"ask", b>>)
  BY <1>1, <1>3
<1>7. Short(<<"ask", b, "ask">>) /\ Short(<<"ask", "ask", "ask">>)
  BY <1>1, <1>3
<1>9. Short(s)
  <2> HIDE DEF Short
  <2> QED
    BY <1>4, <1>5, <1>6, <1>7, <1>8
<1> QED
  BY <1>2, <1>9 DEF MaxLooks

\* A run is what its plan, the ERP and the answers make of it.
LEMMA RunIs == plan \in Plans => Run = Outcome(plan, erp, answers)
<1> SUFFICES ASSUME plan \in Plans PROVE Run = Outcome(plan, erp, answers)
  OBVIOUS
<1>1. PICK f : f = erp.found
  OBVIOUS
<1>2. PICK d \in Modes, b \in Modes : d = DocLook(plan) /\ b = BomLook(plan)
  BY DEF DocLook, BomLook, Modes
<1>3. DocMode = d /\ BomMode = b
  BY <1>2 DEF DocMode, DocLook, BomMode, BomLook
<1>4. "ask" \in Modes /\ "refuse" \in Modes
  BY DEF Modes
<1>5. /\ Lookups(<<"ask">>) = Walked(answers, f, <<"ask">>)
      /\ Lookups(<<"refuse">>) = Walked(answers, f, <<"refuse">>)
      /\ Lookups(<<d>>) = Walked(answers, f, <<d>>)
  BY <1>1, <1>4, WalksAre
<1>6. /\ Lookups(<<"ask", "ask">>) = Walked(answers, f, <<"ask", "ask">>)
      /\ Lookups(<<"refuse", "ask">>) = Walked(answers, f, <<"refuse", "ask">>)
      /\ Lookups(<<d, "ask">>) = Walked(answers, f, <<d, "ask">>)
      /\ Lookups(<<"ask", b>>) = Walked(answers, f, <<"ask", b>>)
  BY <1>1, <1>2, <1>4, WalksAre
<1>7. /\ Lookups(<<"ask", b, "ask">>) = Walked(answers, f, <<"ask", b, "ask">>)
      /\ Lookups(<<"ask", "ask", "ask">>) = Walked(answers, f, <<"ask", "ask", "ask">>)
  BY <1>1, <1>2, <1>4, WalksAre
<1>8. Walked(answers, f, <<>>) = FreshWalk
  BY DEF Walked
<1>9. FreshWalk.out = "go"
  BY DEF FreshWalk
<1>10. CASE plan.tool \in {"create_quotation", "create_rfq", "return_order",
                           "update_vendor_pricing"}
  BY <1>1, <1>6, <1>10, ConfirmIs
     DEF Run, Outcome, WalkOf, ModesOf, ToolOf, Refuses, OrderNode, ReturnOrderNode,
         VendorPricingNode
<1>11. CASE plan.tool \in {"update_quotation_lines", "update_rfq_lines"}
  BY <1>1, <1>5, <1>6, <1>11, ConfirmIs
     DEF Run, Outcome, WalkOf, ModesOf, ToolOf, Refuses, EditNode
<1>12. CASE plan.tool \in {"inventory_adjustment", "internal_transfer", "scrap_product",
                           "convert_lead"}
  BY <1>1, <1>5, <1>12, ConfirmIs
     DEF Run, Outcome, WalkOf, ModesOf, ToolOf, Refuses, InventoryNode, TransferNode,
         ScrapNode, ConvertLeadNode
<1>13. CASE plan.tool \in {"create_lead", "create_vendor"}
  BY <1>1, <1>8, <1>13, ConfirmIs
     DEF Run, Outcome, WalkOf, ModesOf, ToolOf, Refuses, CreateLeadNode, CreateVendorNode
<1>14. CASE plan.tool = "log_activity"
  BY <1>1, <1>2, <1>3, <1>5, <1>14, ConfirmIs
     DEF Run, Outcome, WalkOf, ModesOf, ToolOf, Refuses, LogActivityNode
<1>15. CASE plan.tool = "close_activity"
  BY <1>1, <1>2, <1>3, <1>5, <1>6, <1>15, ConfirmIs
     DEF Run, Outcome, WalkOf, ModesOf, ToolOf, Refuses, CloseActivityNode
<1>16. CASE plan.tool = "create_manufacturing_order"
  BY <1>1, <1>2, <1>3, <1>6, <1>16, ConfirmIs
     DEF Run, Outcome, WalkOf, ModesOf, ToolOf, Refuses, CreateMoNode
<1>17. CASE plan.tool = "create_bom"
  BY <1>1, <1>6, <1>17, ConfirmIs
     DEF Run, Outcome, WalkOf, ModesOf, ToolOf, Refuses, CreateBomNode
<1>18. CASE plan.tool = "update_bom_lines"
  BY <1>1, <1>2, <1>3, <1>7, <1>18, ConfirmIs
     DEF Run, Outcome, WalkOf, ModesOf, ToolOf, Refuses, UpdateBomNode
<1>19. CASE plan.tool \in {"create_credit_memo", "create_bulk_rfq"}
  BY <1>1, <1>5, <1>7, <1>19, ConfirmIs
     DEF Run, Outcome, WalkOf, ModesOf, ToolOf, Refuses, CreditMemoNode, BulkRfqNode
<1>20. CASE plan.tool \in {"post_invoice", "register_payment"}
  BY <1>1, <1>5, <1>8, <1>9, <1>20, ConfirmIs
     DEF Run, Outcome, WalkOf, ModesOf, ToolOf, Refuses, InvoiceNode, PostInvoiceNode,
         RegisterPaymentNode
<1> QED
  BY <1>10, <1>11, <1>12, <1>13, <1>14, <1>15, <1>16, <1>17, <1>18, <1>19, <1>20
     DEF Plans, SingleNodeTools

\* What a walk is, whatever the answers: it has used answers that are there,
\* it holds records the ERP offers, and it asks when the answers are used up.
WalkStates == [out : {"go", "stop", "pick"}, used : Nat, picks : Seq(Ids), from : SUBSET Ids]

Finds == [1..MaxLooks -> SUBSET Ids]

Offered(found) == UNION {found[j] : j \in 1..MaxLooks}

Sound(a, found, w, n) ==
  /\ w \in WalkStates /\ w.used <= n /\ w.used <= Len(a)
  /\ \A k \in 1..Len(w.picks) : w.picks[k] \in Offered(found)
  /\ w.out = "pick" => w.used = Len(a) /\ w.used < n

LEMMA LookSound ==
  ASSUME NEW S, NEW a \in Seq(S), NEW found \in Finds, NEW n \in Nat, NEW w, Sound(a, found, w, n),
         NEW i \in 1..MaxLooks, NEW mode
  PROVE  Sound(a, found, After(a, found[i], w, mode), n + 1)
<1> DEFINE hits == found[i]
<1>1. /\ w \in WalkStates /\ w.used <= n /\ w.used <= Len(a) /\ Len(a) \in Nat
      /\ \A k \in 1..Len(w.picks) : w.picks[k] \in Offered(found)
      /\ w.out = "pick" => w.used = Len(a) /\ w.used < n
  BY DEF Sound
<1>2. hits \in SUBSET Ids /\ \A r \in hits : r \in Offered(found)
  BY DEF Finds, Offered
<1> HIDE DEF hits
<1>3. /\ w.out \in {"go", "stop", "pick"} /\ w.used \in Nat /\ w.picks \in Seq(Ids)
      /\ w.from \in SUBSET Ids
  BY <1>1 DEF WalkStates
\* It is enough to look at the fields of what the look-up makes of the walk.
<1>10. ASSUME NEW u, u \in WalkStates, u.used <= n + 1, u.used <= Len(a),
              \A k \in 1..Len(u.picks) : u.picks[k] \in Offered(found),
              u.out = "pick" => u.used = Len(a) /\ u.used < n + 1
       PROVE  Sound(a, found, u, n + 1)
  BY <1>10 DEF Sound
<1>4. Sound(a, found, [w EXCEPT !.out = "stop"], n + 1)
  <2>1. PICK u : u = [w EXCEPT !.out = "stop"]
    OBVIOUS
  <2>2. u \in WalkStates /\ u.out = "stop" /\ u.used = w.used /\ u.picks = w.picks
    BY <1>1, <2>1 DEF WalkStates
  <2>3. u.used <= n + 1
    BY <1>1, <1>3, <2>2
  <2>4. Sound(a, found, u, n + 1)
    BY <1>1, <1>10, <2>2, <2>3
  <2> QED
    BY <2>1, <2>4
<1>5. ASSUME NEW r \in hits, w.out = "go" PROVE Sound(a, found, Took(w, r), n + 1)
  <2>1. PICK p : p = Append(w.picks, r)
    OBVIOUS
  <2>2. p \in Seq(Ids) /\ \A k \in 1..Len(p) : p[k] \in Offered(found)
    BY <1>1, <1>2, <1>3, <2>1
  <2>3. PICK u : u = Took(w, r)
    OBVIOUS
  <2>4. u \in WalkStates /\ u.out = "go" /\ u.used = w.used /\ u.picks = p
    BY <1>1, <1>5, <2>1, <2>2, <2>3 DEF Took, WalkStates
  <2> QED
    BY <1>1, <1>3, <1>10, <2>2, <2>3, <2>4
<1>6. ASSUME NEW r \in hits, w.out = "go", w.used # Len(a)
      PROVE  Sound(a, found, [Took(w, r) EXCEPT !.used = @ + 1], n + 1)
  <2>1. PICK p : p = Append(w.picks, r)
    OBVIOUS
  <2>2. p \in Seq(Ids) /\ \A k \in 1..Len(p) : p[k] \in Offered(found)
    BY <1>1, <1>2, <1>3, <2>1
  <2>3. PICK v : v = Took(w, r)
    OBVIOUS
  <2>4. PICK u : u = [v EXCEPT !.used = @ + 1]
    OBVIOUS
  <2>5. v \in WalkStates /\ v.out = "go" /\ v.used = w.used /\ v.picks = p
    BY <1>1, <1>6, <2>1, <2>2, <2>3 DEF Took, WalkStates
  <2>6. u \in WalkStates /\ u.out = "go" /\ u.used = w.used + 1 /\ u.picks = p
    <3>1. DOMAIN v = {"out", "used", "picks", "from"} /\ v.used + 1 \in Nat
      BY <1>3, <2>5 DEF WalkStates
    <3>2. u = [out |-> v.out, used |-> v.used + 1, picks |-> v.picks, from |-> v.from]
      BY <2>4, <2>5, <3>1 DEF WalkStates
    <3> QED
      BY <2>5, <3>1, <3>2 DEF WalkStates
  <2>7. u.used <= n + 1 /\ u.used <= Len(a)
    BY <1>1, <1>3, <1>6, <2>6
  <2>8. Sound(a, found, u, n + 1)
    BY <1>10, <2>2, <2>6, <2>7
  <2> QED
    BY <2>3, <2>4, <2>8
<1>7. ASSUME w.used = Len(a) PROVE Sound(a, found, AskPick(w, hits), n + 1)
  <2>1. PICK u : u = AskPick(w, hits)
    OBVIOUS
  <2>2. u \in WalkStates /\ u.used = w.used /\ u.picks = w.picks
    BY <1>1, <1>2, <2>1 DEF WalkStates, AskPick
  <2> QED
    BY <1>1, <1>3, <1>7, <1>10, <2>1, <2>2
<1>8. Sound(a, found, w, n + 1)
  BY <1>1, <1>3, <1>10
<1>9. hits # {} => (CHOOSE r \in hits : TRUE) \in hits
  OBVIOUS
<1> QED
  BY <1>4, <1>5, <1>6, <1>7, <1>8, <1>9 DEF After, hits

LEMMA WalkSound ==
  ASSUME NEW S, NEW a \in Seq(S), NEW found \in Finds, NEW modes, Len(modes) \in 0..MaxLooks
  PROVE  Sound(a, found, Walked(a, found, modes), Len(modes))
<1>1. Sound(a, found, FreshWalk, 0)
  BY DEF Sound, FreshWalk, WalkStates
<1>2. PICK one : one = After(a, found[1], FreshWalk, modes[1])
  OBVIOUS
<1>3. PICK two : two = After(a, found[2], one, modes[2])
  OBVIOUS
<1>4. PICK three : three = After(a, found[3], two, modes[3])
  OBVIOUS
<1>5. 1 \in 1..MaxLooks /\ 2 \in 1..MaxLooks /\ 3 \in 1..MaxLooks
  BY DEF MaxLooks
<1>6. Sound(a, found, one, 1)
  <2>1. Sound(a, found, one, 0 + 1)
    BY <1>1, <1>2, <1>5, LookSound
  <2> QED
    BY <2>1
<1>7. Sound(a, found, two, 2)
  <2>1. Sound(a, found, two, 1 + 1)
    BY <1>3, <1>5, <1>6, LookSound
  <2> QED
    BY <2>1
<1>8. Sound(a, found, three, 3)
  <2>1. Sound(a, found, three, 2 + 1)
    BY <1>4, <1>5, <1>7, LookSound
  <2> QED
    BY <2>1
<1>9. Walked(a, found, modes) = IF Len(modes) = 0 THEN FreshWalk
                                ELSE IF Len(modes) = 1 THEN one
                                ELSE IF Len(modes) = 2 THEN two ELSE three
  BY <1>2, <1>3, <1>4 DEF Walked
<1>10. Len(modes) = 0 \/ Len(modes) = 1 \/ Len(modes) = 2 \/ Len(modes) = 3
  BY DEF MaxLooks
<1>11. CASE Len(modes) = 0
  BY <1>1, <1>9, <1>11
<1>12. CASE Len(modes) = 1
  BY <1>6, <1>9, <1>12
<1>13. CASE Len(modes) = 2
  BY <1>7, <1>9, <1>13
<1>14. CASE Len(modes) = 3
  BY <1>8, <1>9, <1>14
<1> QED
  BY <1>10, <1>11, <1>12, <1>13, <1>14

\* u is the walk w with one more answer stored: the same, or, where w asked
\* for a pick, one that has used all the answers there are.
Follows(a, w, u) ==
  \/ w.out # "pick" /\ u = w
  \/ w.out = "pick" /\ (u.out = "go" => u.used = Len(a) + 1)

LEMMA LookFollows ==
  ASSUME NEW S, NEW a \in Seq(S), NEW b \in Seq(S), NEW v \in S, b = Append(a, v),
         NEW w \in WalkStates, w.used <= Len(a), w.out = "pick" => w.used = Len(a),
         NEW u \in WalkStates, Follows(a, w, u), NEW hits, NEW mode
  PROVE  Follows(a, After(a, hits, w, mode), After(b, hits, u, mode))
<1>1. /\ Len(b) = Len(a) + 1 /\ b[Len(a) + 1] = v /\ Len(a) \in Nat
      /\ \A i \in 1..Len(a) : b[i] = a[i]
  OBVIOUS
<1>2. w.used \in Nat /\ u.used \in Nat
  BY DEF WalkStates
<1>3. \A x \in WalkStates : /\ [x EXCEPT !.out = "stop"].out = "stop"
                       /\ AskPick(x, hits).out = "pick"
  BY DEF WalkStates, AskPick
<1>4. \A x \in WalkStates : \A r : Took(x, r).out = x.out /\ Took(x, r).used = x.used
  BY DEF WalkStates, Took
<1>5. \A x \in WalkStates : \A r : /\ [Took(x, r) EXCEPT !.used = @ + 1].out = x.out
                                 /\ [Took(x, r) EXCEPT !.used = @ + 1].used = x.used + 1
  BY DEF WalkStates, Took
<1>6. CASE w.out = "pick"
  <2>1. After(a, hits, w, mode) = w
    BY <1>6 DEF After
  <2>2. CASE u.out # "go"
    BY <1>6, <2>1, <2>2 DEF After, Follows
  <2>3. CASE u.out = "go"
    <3>1. u.used = Len(b)
      BY <1>1, <1>6, <2>3 DEF Follows
    <3>2. PICK x : x = After(b, hits, u, mode)
      OBVIOUS
    <3>3. x.out = "go" => x.used = u.used
      BY <1>3, <1>4, <2>3, <3>1, <3>2 DEF After
    <3> QED
      BY <1>1, <1>6, <2>1, <3>1, <3>2, <3>3 DEF Follows
  <2> QED
    BY <2>2, <2>3
<1>7. CASE w.out # "pick" /\ w.out # "go"
  BY <1>7 DEF After, Follows
<1>8. CASE w.out = "go"
  <2>1. u = w
    BY <1>8 DEF Follows
  <2>2. CASE hits = {}
    BY <1>3, <1>8, <2>1, <2>2 DEF After, Follows
  <2>3. CASE hits # {} /\ (Cardinality(hits) = 1 \/ mode = "first")
    BY <1>4, <1>8, <2>1, <2>3 DEF After, Follows
  <2>4. CASE hits # {} /\ ~(Cardinality(hits) = 1 \/ mode = "first")
    <3>1. CASE mode = "refuse"
      BY <1>3, <1>8, <2>1, <2>4, <3>1 DEF After, Follows
    <3>2. CASE mode # "refuse" /\ w.used = Len(a)
      <4>1. After(a, hits, w, mode).out = "pick"
        BY <1>3, <1>8, <2>4, <3>2 DEF After
      <4>2. PICK x : x = After(b, hits, u, mode)
        OBVIOUS
      <4>3. x = [w EXCEPT !.out = "stop"] \/ x = [Took(w, v) EXCEPT !.used = @ + 1]
        <5>1. w.used # Len(b) /\ b[w.used + 1] = v
          BY <1>1, <3>2
        <5> QED
          BY <1>8, <2>1, <2>4, <3>2, <4>2, <5>1 DEF After
      <4>4. x.out = "go" => x.used = Len(a) + 1
        <5>1. [w EXCEPT !.out = "stop"].out = "stop"
          BY <1>3
        <5>2. [Took(w, v) EXCEPT !.used = @ + 1].used = Len(a) + 1
          BY <1>5, <3>2
        <5> QED
          BY <4>3, <5>1, <5>2
      <4> QED
        BY <4>1, <4>2, <4>4 DEF Follows
    <3>3. CASE mode # "refuse" /\ w.used # Len(a)
      <4>1. w.used + 1 \in 1..Len(a) /\ w.used # Len(b)
        BY <1>1, <1>2, <3>3
      <4>2. After(b, hits, u, mode) = After(a, hits, w, mode)
        <5>1. b[w.used + 1] = a[w.used + 1]
          BY <1>1, <4>1
        <5> QED
          BY <1>8, <2>1, <2>4, <3>3, <4>1, <5>1 DEF After
      <4>3. After(a, hits, w, mode).out # "pick"
        BY <1>3, <1>5, <1>8, <2>4, <3>3 DEF After
      <4> QED
        BY <4>2, <4>3 DEF Follows
    <3> QED
      BY <3>1, <3>2, <3>3
  <2> QED
    BY <2>2, <2>3, <2>4
<1> QED
  BY <1>6, <1>7, <1>8

LEMMA WalkFollows ==
  ASSUME NEW S, NEW a \in Seq(S), NEW b \in Seq(S), NEW v \in S, b = Append(a, v),
         NEW found \in Finds, NEW modes, Len(modes) \in 0..MaxLooks
  PROVE  Follows(a, Walked(a, found, modes), Walked(b, found, modes))
<1>1. Follows(a, FreshWalk, FreshWalk)
  BY DEF Follows, FreshWalk
<1>2. PICK w1 : w1 = After(a, found[1], FreshWalk, modes[1])
  OBVIOUS
<1>3. PICK u1 : u1 = After(b, found[1], FreshWalk, modes[1])
  OBVIOUS
<1>4. PICK w2 : w2 = After(a, found[2], w1, modes[2])
  OBVIOUS
<1>5. PICK u2 : u2 = After(b, found[2], u1, modes[2])
  OBVIOUS
<1>6. PICK w3 : w3 = After(a, found[3], w2, modes[3])
  OBVIOUS
<1>7. PICK u3 : u3 = After(b, found[3], u2, modes[3])
  OBVIOUS
<1>8. 1 \in 1..MaxLooks /\ 2 \in 1..MaxLooks /\ 3 \in 1..MaxLooks /\ 0 + 1 = 1 /\ 1 + 1 = 2
  BY DEF MaxLooks
<1>9. Sound(a, found, FreshWalk, 0) /\ Sound(b, found, FreshWalk, 0)
  BY DEF Sound, FreshWalk, WalkStates
<1>10. Sound(a, found, w1, 1) /\ Sound(b, found, u1, 1)
  <2>1. Sound(a, found, w1, 0 + 1) /\ Sound(b, found, u1, 0 + 1)
    BY <1>2, <1>3, <1>8, <1>9, LookSound
  <2> QED
    BY <2>1
<1>11. Sound(a, found, w2, 2) /\ Sound(b, found, u2, 2)
  <2>1. Sound(a, found, w2, 1 + 1) /\ Sound(b, found, u2, 1 + 1)
    BY <1>4, <1>5, <1>8, <1>10, LookSound
  <2> QED
    BY <2>1
<1>12. Follows(a, w1, u1)
  <2>1. FreshWalk \in WalkStates /\ FreshWalk.used <= Len(a) /\ FreshWalk.out # "pick"
    BY <1>9 DEF Sound, FreshWalk
  <2> QED
    BY <1>1, <1>2, <1>3, <2>1, LookFollows
<1>13. Follows(a, w2, u2)
  <2>1. /\ w1 \in WalkStates /\ w1.used <= Len(a) /\ (w1.out = "pick" => w1.used = Len(a))
        /\ u1 \in WalkStates
    BY <1>10 DEF Sound
  <2> QED
    BY <1>4, <1>5, <1>12, <2>1, LookFollows
<1>14. Follows(a, w3, u3)
  <2>1. /\ w2 \in WalkStates /\ w2.used <= Len(a) /\ (w2.out = "pick" => w2.used = Len(a))
        /\ u2 \in WalkStates
    BY <1>11 DEF Sound
  <2> QED
    BY <1>6, <1>7, <1>13, <2>1, LookFollows
<1>15. /\ Walked(a, found, modes) = IF Len(modes) = 0 THEN FreshWalk
                                    ELSE IF Len(modes) = 1 THEN w1
                                    ELSE IF Len(modes) = 2 THEN w2 ELSE w3
       /\ Walked(b, found, modes) = IF Len(modes) = 0 THEN FreshWalk
                                    ELSE IF Len(modes) = 1 THEN u1
                                    ELSE IF Len(modes) = 2 THEN u2 ELSE u3
  BY <1>2, <1>3, <1>4, <1>5, <1>6, <1>7 DEF Walked
<1> QED
  BY <1>1, <1>12, <1>13, <1>14, <1>15

\* What a decision is, field by field.
LEMMA DecisionIs ==
  ASSUME NEW a, NEW t, NEW w \in WalkStates
  PROVE  /\ Decided(a, t, w).do \in {"stop", "pick", "confirm", "write"}
         /\ Decided(a, t, w).do = "pick" <=> w.out = "pick"
         /\ Decided(a, t, w).do = "pick" => Decided(a, t, w).from = w.from
         /\ Decided(a, t, w).do = "confirm" <=> w.out = "go" /\ Len(a) < w.used + 1
         /\ Decided(a, t, w).do = "write" <=>
              w.out = "go" /\ ~(Len(a) < w.used + 1) /\ Agrees(t, a[w.used + 1])
         /\ Decided(a, t, w).do \in {"confirm", "write"} =>
              Decided(a, t, w).tool = t /\ Decided(a, t, w).picks = w.picks
<1>1. \A o \in {"stop", "pick", "confirm", "write"} :
        /\ [w EXCEPT !.out = o].out = o /\ [w EXCEPT !.out = o].picks = w.picks
  BY DEF WalkStates
<1>2. w.out \in {"go", "stop", "pick"}
  BY DEF WalkStates
<1>3. CASE w.out # "go"
  BY <1>2, <1>3 DEF Decided, WalkOutcomes
<1>4. CASE w.out = "go" /\ Len(a) < w.used + 1
  BY <1>1, <1>4 DEF Decided, WalkOutcomes
<1>5. CASE w.out = "go" /\ ~(Len(a) < w.used + 1) /\ Agrees(t, a[w.used + 1])
  BY <1>1, <1>5 DEF Decided, WalkOutcomes
<1>6. CASE w.out = "go" /\ ~(Len(a) < w.used + 1) /\ ~Agrees(t, a[w.used + 1])
  BY <1>6 DEF Decided, StopRun
<1> QED
  BY <1>3, <1>4, <1>5, <1>6

Tooling == SingleNodeTools \cup {"flag_order_for_review"}

\* What a run may do: it asks while there are answers to come, and what it
\* shows or writes is made of records the ERP offers.
LEMMA OutcomeSound ==
  ASSUME NEW S, NEW a \in Seq(S), NEW p \in Plans, NEW e, e.found \in Finds,
         NEW o, o = Outcome(p, e, a)
  PROVE  /\ o.do \in {"stop", "pick", "confirm", "write"}
         /\ o.do = "pick" => o.from \in SUBSET Ids /\ Len(a) < MaxLooks
         /\ o.do = "confirm" => Len(a) <= MaxLooks
         /\ o.do \in {"confirm", "write"} =>
              /\ o.tool \in Tooling /\ o.picks \in Seq(Ids)
              /\ \A k \in 1..Len(o.picks) : o.picks[k] \in Offered(e.found)
         /\ o.do = "write" => /\ Len(a) > 0
                              /\ \E i \in 1..Len(a) : Agrees(ToolOf(p, e), a[i])
<1>1. PICK modes \in Seq(Modes) : modes = ModesOf(p, e) /\ Len(modes) \in 0..MaxLooks
  BY ModesFit
<1>2. PICK w : w = Walked(a, e.found, modes)
  OBVIOUS
<1>3. Sound(a, e.found, w, Len(modes))
  BY <1>1, <1>2, WalkSound
<1>4. /\ w \in WalkStates /\ w.used \in Nat /\ w.used <= Len(modes) /\ Len(modes) <= MaxLooks
      /\ Len(modes) \in Nat /\ MaxLooks \in Nat /\ w.used <= Len(a) /\ Len(a) \in Nat
      /\ \A k \in 1..Len(w.picks) : w.picks[k] \in Offered(e.found)
      /\ w.out = "pick" => w.used = Len(a) /\ w.used < Len(modes)
  <2>1. /\ w \in WalkStates /\ w.used <= Len(modes) /\ w.used <= Len(a)
        /\ \A k \in 1..Len(w.picks) : w.picks[k] \in Offered(e.found)
        /\ w.out = "pick" => w.used = Len(a) /\ w.used < Len(modes)
    BY <1>3 DEF Sound
  <2>2. Len(modes) <= MaxLooks /\ Len(modes) \in Nat /\ MaxLooks \in Nat
    <3>1. PICK n : n = Len(modes)
      OBVIOUS
    <3>2. n \in 0..MaxLooks
      BY <1>1, <3>1
    <3>3. n \in Nat /\ n <= MaxLooks /\ MaxLooks \in Nat
      BY <3>2 DEF MaxLooks
    <3> QED
      BY <3>1, <3>3
  <2>3. w.used \in Nat /\ Len(a) \in Nat
    BY <2>1 DEF WalkStates
  <2> QED
    BY <2>1, <2>2, <2>3
<1>5. PICK t \in Tooling : t = ToolOf(p, e)
  <2>1. p.tool \in SingleNodeTools
    BY DEF Plans
  <2>2. ToolOf(p, e) \in Tooling
    BY <2>1 DEF ToolOf, Tooling
  <2> QED
    BY <2>2
<1>6. o = StopRun \/ o = Decided(a, t, w)
  BY <1>1, <1>2, <1>5 DEF Outcome, WalkOf
<1>7. CASE o = StopRun
  BY <1>7 DEF StopRun
<1>8. CASE o = Decided(a, t, w)
  <2>1. /\ o.do \in {"stop", "pick", "confirm", "write"}
        /\ o.do = "pick" => w.out = "pick" /\ o.from = w.from
        /\ o.do = "confirm" => Len(a) < w.used + 1
        /\ o.do = "write" => ~(Len(a) < w.used + 1) /\ Agrees(t, a[w.used + 1])
        /\ o.do \in {"confirm", "write"} => o.tool = t /\ o.picks = w.picks
    BY <1>4, <1>8, DecisionIs
  <2>2. w.from \in SUBSET Ids /\ w.picks \in Seq(Ids)
    BY <1>4 DEF WalkStates
  <2>3. o.do = "pick" => o.from \in SUBSET Ids /\ Len(a) < MaxLooks
    BY <1>4, <2>1, <2>2
  <2>4. o.do = "confirm" => Len(a) <= MaxLooks
    BY <1>4, <2>1
  <2>5. o.do = "write" => Len(a) > 0 /\ w.used + 1 \in 1..Len(a)
    BY <1>4, <2>1
  <2> QED
    BY <1>4, <1>5, <2>1, <2>2, <2>3, <2>4, <2>5
<1> QED
  BY <1>6, <1>7, <1>8

Stored == Ids \cup {"yes", "no"}

\* What a run with one answer more may do.
OneMore(p, e, a, v) ==
  LET before == Outcome(p, e, a)
      after  == Outcome(p, e, Append(a, v))
  IN  after.do = "write" /\ before.do \in {"pick", "confirm"} =>
        /\ before.do = "confirm" /\ after.tool = before.tool /\ after.picks = before.picks
        /\ Agrees(after.tool, v)

\* One more answer: a run that asked for a pick does not write, and one that
\* asked to confirm writes the draft it showed, if at all, and only on an answer
\* the tool takes for a yes.
LEMMA OutcomeFollows ==
  ASSUME NEW a \in Seq(Stored), NEW v \in Stored, NEW p \in Plans, NEW e, e.found \in Finds
  PROVE  OneMore(p, e, a, v)
<1> SUFFICES ASSUME NEW b, b = Append(a, v), NEW o, o = Outcome(p, e, a),
                    NEW n, n = Outcome(p, e, b), n.do = "write", o.do \in {"pick", "confirm"}
             PROVE  /\ o.do = "confirm" /\ n.tool = o.tool /\ n.picks = o.picks
                    /\ Agrees(n.tool, v)
  BY DEF OneMore
<1>0. b \in Seq(Stored)
  OBVIOUS
<1>1. PICK modes \in Seq(Modes) : modes = ModesOf(p, e) /\ Len(modes) \in 0..MaxLooks
  BY ModesFit
<1>2. PICK w : w = Walked(a, e.found, modes)
  OBVIOUS
<1>3. PICK u : u = Walked(b, e.found, modes)
  OBVIOUS
<1>4. Sound(a, e.found, w, Len(modes)) /\ Sound(b, e.found, u, Len(modes))
  BY <1>1, <1>2, <1>3, <1>0, WalkSound
<1>5. Follows(a, w, u)
  BY <1>1, <1>2, <1>3, <1>0, WalkFollows
<1>6. PICK t : t = ToolOf(p, e)
  OBVIOUS
<1>7. /\ w \in WalkStates /\ u \in WalkStates /\ w.used <= Len(a) /\ w.used \in Nat /\ u.used \in Nat
      /\ Len(b) = Len(a) + 1 /\ b[Len(a) + 1] = v /\ Len(a) \in Nat
  BY <1>4 DEF Sound, WalkStates
<1>8. o = Decided(a, t, w) /\ n = Decided(b, t, u)
  <2>1. StopRun.do = "stop"
    BY DEF StopRun
  <2>2. o # StopRun /\ n # StopRun
    BY <2>1
  <2>3. (o = StopRun \/ o = Decided(a, t, w)) /\ (n = StopRun \/ n = Decided(b, t, u))
    BY <1>1, <1>2, <1>3, <1>6 DEF Outcome, WalkOf
  <2> QED
    BY <2>2, <2>3
<1>9. /\ u.out = "go" /\ ~(Len(b) < u.used + 1) /\ Agrees(t, b[u.used + 1])
      /\ n.tool = t /\ n.picks = u.picks
  <2>1. Decided(b, t, u).do = "write"
    BY <1>8
  <2>2. u.out = "go" /\ ~(Len(b) < u.used + 1) /\ Agrees(t, b[u.used + 1])
    BY <1>7, <2>1, DecisionIs
  <2>3. Decided(b, t, u).tool = t /\ Decided(b, t, u).picks = u.picks
    BY <1>7, <2>1, DecisionIs
  <2> QED
    BY <1>8, <2>2, <2>3
<1>10. ~(w.out = "pick")
  BY <1>5, <1>7, <1>9 DEF Follows
<1>11. o.do = "confirm" /\ Len(a) < w.used + 1 /\ o.tool = t /\ o.picks = w.picks
  <2>1. Decided(a, t, w).do = "confirm"
    BY <1>7, <1>8, <1>10, DecisionIs
  <2> QED
    BY <1>7, <1>8, <2>1, DecisionIs
<1>12. u = w
  BY <1>5, <1>10 DEF Follows
<1>13. u.used + 1 = Len(a) + 1
  BY <1>7, <1>11, <1>12
<1> QED
  BY <1>7, <1>9, <1>11, <1>12, <1>13

Draftings == [tool : Tooling, picks : Seq(Ids), figure : Figures]
Now == Outcome(plan, erp, answers)

\* While nobody else works in the ERP, the open question is the one a run asks
\* now, and a run that is about to write has its draft agreed.
AgreedStands ==
  drifts = 0 =>
    /\ stage = "parked" =>
         \/ Now.do = "pick" /\ question.kind = "pick"
         \/ Now.do = "confirm" /\ question = [kind |-> "confirm", draft |-> Drafted(Now, erp.figure)]
    /\ stage = "run" /\ Now.do = "write" => Drafted(Now, erp.figure) \in agreed
    /\ \A i \in 1..Len(written) : written[i] \in agreed

\* A question is open for every reply but the last, and a yes leaves its trace.
Counted ==
  /\ shown = IF stage = "parked" THEN Len(answers) + 1 ELSE Len(answers)
  /\ Len(answers) <= IF stage = "parked" THEN MaxLooks ELSE MaxLooks + 1
  /\ (\E i \in 1..Len(answers) : answers[i] = "yes") => agreed # {}
  /\ plan.tool = "close_activity" /\ written # <<>> => agreed # {}

CoInv == CoTypeOK /\ written \in Seq(Draftings) /\ AgreedStands /\ Counted

LEMMA CoStarts == CoInit => CoInv
<1> SUFFICES ASSUME CoInit PROVE CoInv
  OBVIOUS
<1>1. CoTypeOK /\ erp.found \in Finds
  BY CoordinatorAssumption DEF CoInit, CoTypeOK, Finds
<1>2. answers \in Seq(Stored) /\ Len(answers) = 0 /\ Len(written) = 0
  BY DEF CoInit
<1>3. plan \in Plans /\ stage = "run"
  BY DEF CoInit
<1>4. Now.do # "write"
  <2>1. PICK a \in Seq(Stored) : a = answers /\ Len(a) = 0
    BY <1>2
  <2>2. PICK o : o = Outcome(plan, erp, a)
    OBVIOUS
  <2>3. o.do = "write" => Len(a) > 0
    BY <1>1, <1>3, <2>1, <2>2, OutcomeSound
  <2>4. Now = o
    BY <2>1, <2>2 DEF Now
  <2> QED
    BY <2>1, <2>3, <2>4
<1>5. written \in Seq(Draftings) /\ written = <<>> /\ shown = 0
  BY DEF CoInit
<1>6. AgreedStands
  BY <1>2, <1>3, <1>4 DEF AgreedStands
<1>7. Counted
  BY <1>2, <1>3, <1>5 DEF Counted, MaxLooks
<1> QED
  BY <1>1, <1>5, <1>6, <1>7 DEF CoInv

\* What a run comes to is sound in every state.
LEMMA NowSound ==
  ASSUME CoTypeOK
  PROVE  /\ Run = Now /\ plan \in Plans /\ erp.found \in Finds /\ erp.figure \in Figures
         /\ answers \in Seq(Stored) /\ Len(answers) \in Nat
         /\ Now.do \in {"stop", "pick", "confirm", "write"}
         /\ Now.do = "pick" => Now.from \in SUBSET Ids /\ Len(answers) < MaxLooks
         /\ Now.do = "confirm" => Len(answers) <= MaxLooks
         /\ Now.do \in {"confirm", "write"} =>
              /\ Drafted(Now, erp.figure) \in Draftings
              /\ \A k \in 1..Len(Now.picks) : Now.picks[k] \in Offered(erp.found)
         /\ Now.do = "write" => \E i \in 1..Len(answers) : Agrees(ToolOf(plan, erp), answers[i])
<1>1. plan \in Plans /\ erp.found \in Finds /\ erp.figure \in Figures /\ answers \in Seq(Stored)
  BY DEF CoTypeOK, Finds, Stored
<1>2. PICK o : o = Outcome(plan, erp, answers)
  OBVIOUS
<1>3. /\ o.do \in {"stop", "pick", "confirm", "write"}
      /\ o.do = "pick" => o.from \in SUBSET Ids /\ Len(answers) < MaxLooks
      /\ o.do = "confirm" => Len(answers) <= MaxLooks
      /\ o.do \in {"confirm", "write"} =>
           /\ o.tool \in Tooling /\ o.picks \in Seq(Ids)
           /\ \A k \in 1..Len(o.picks) : o.picks[k] \in Offered(erp.found)
      /\ o.do = "write" => \E i \in 1..Len(answers) : Agrees(ToolOf(plan, erp), answers[i])
  BY <1>1, <1>2, OutcomeSound
<1>4. Run = o /\ Now = o
  BY <1>1, <1>2, RunIs DEF Now
<1>5. o.do \in {"confirm", "write"} => Drafted(o, erp.figure) \in Draftings
  BY <1>1, <1>3 DEF Drafted, Draftings
<1>6. Len(answers) \in Nat
  BY <1>1
<1> QED
  BY <1>1, <1>3, <1>4, <1>5, <1>6

LEMMA CoKept == CoInv /\ [CoNext]_coVars => CoInv'
<1> SUFFICES ASSUME CoInv, [CoNext]_coVars PROVE CoInv'
  OBVIOUS
<1>1. CoTypeOK /\ written \in Seq(Draftings) /\ AgreedStands /\ Counted
  BY DEF CoInv
<1>2. PICK o : o = Now
  OBVIOUS
<1>3. /\ Run = o /\ plan \in Plans /\ erp.found \in Finds /\ erp.figure \in Figures
      /\ answers \in Seq(Stored) /\ Len(answers) \in Nat
      /\ o.do \in {"stop", "pick", "confirm", "write"}
      /\ o.do = "pick" => o.from \in SUBSET Ids /\ Len(answers) < MaxLooks
      /\ o.do = "confirm" => Len(answers) <= MaxLooks
      /\ o.do \in {"confirm", "write"} => Drafted(o, erp.figure) \in Draftings
      /\ o.do = "write" => \E i \in 1..Len(answers) : Agrees(ToolOf(plan, erp), answers[i])
  BY <1>1, <1>2, NowSound
<1>4. ASSUME UNCHANGED <<plan, erp, answers>> PROVE Now' = o
  BY <1>2, <1>4 DEF Now
<1>5. drifts \in 0..MaxDrift /\ MaxDrift \in Nat /\ MaxLooks \in Nat
  BY <1>1, CoordinatorAssumption DEF CoTypeOK, MaxLooks
<1>6. CASE Stops
  <2>1. /\ stage = "run" /\ stage' = "over"
        /\ UNCHANGED <<plan, erp, enabled, answers, question, written, agreed, shown, drifts>>
    BY <1>6 DEF Stops
  <2>2. CoTypeOK'
    BY <1>1, <2>1 DEF CoTypeOK
  <2>3. AgreedStands'
    BY <1>1, <2>1 DEF AgreedStands
  <2>4. Counted'
    BY <1>1, <2>1 DEF Counted
  <2> QED
    BY <1>1, <2>1, <2>2, <2>3, <2>4 DEF CoInv
<1>7. CASE AsksPick
  <2>1. /\ stage = "run" /\ stage' = "parked" /\ o.do = "pick" /\ shown' = shown + 1
        /\ question' = [kind |-> "pick", options |-> o.from]
        /\ UNCHANGED <<plan, erp, enabled, answers, written, agreed, drifts>>
    BY <1>3, <1>7 DEF AsksPick
  <2>2. question' \in Interrupts /\ question'.kind = "pick"
    BY <1>3, <2>1 DEF Interrupts
  <2>3. CoTypeOK'
    BY <1>1, <2>1, <2>2, CoordinatorAssumption DEF CoTypeOK
  <2>4. AgreedStands'
    BY <1>1, <1>4, <2>1, <2>2 DEF AgreedStands
  <2>5. Counted'
    BY <1>1, <1>3, <1>5, <2>1 DEF Counted
  <2> QED
    BY <1>1, <2>1, <2>3, <2>4, <2>5 DEF CoInv
<1>8. CASE AsksConfirm
  <2>1. /\ stage = "run" /\ stage' = "parked" /\ o.do = "confirm" /\ shown' = shown + 1
        /\ question' = [kind |-> "confirm", draft |-> Drafted(o, erp.figure)]
        /\ UNCHANGED <<plan, erp, enabled, answers, written, agreed, drifts>>
    BY <1>3, <1>8 DEF AsksConfirm
  <2>2. question' \in Interrupts
    BY <1>3, <2>1 DEF Interrupts, Draftings, Tooling
  <2>3. CoTypeOK'
    BY <1>1, <2>1, <2>2, CoordinatorAssumption DEF CoTypeOK
  <2>4. AgreedStands'
    BY <1>1, <1>4, <2>1 DEF AgreedStands
  <2>5. Counted'
    BY <1>1, <1>3, <1>5, <2>1 DEF Counted
  <2> QED
    BY <1>1, <2>1, <2>3, <2>4, <2>5 DEF CoInv
<1>9. CASE WritesDraft
  <2>1. /\ stage = "run" /\ stage' = "over" /\ o.do = "write"
        /\ written' = Append(written, Drafted(o, erp.figure)) \/ written' = written
        /\ UNCHANGED <<plan, erp, enabled, answers, question, agreed, shown, drifts>>
    BY <1>3, <1>9 DEF WritesDraft
  <2>2. written' \in Seq(Draftings)
    BY <1>1, <1>3, <2>1
  <2>3. CoTypeOK'
    BY <1>1, <2>1 DEF CoTypeOK
  <2>4. AgreedStands'
    <3>1. drifts = 0 => Drafted(o, erp.figure) \in agreed
      BY <1>1, <1>2, <2>1 DEF AgreedStands
    <3>2. drifts = 0 => \A i \in 1..Len(written') : written'[i] \in agreed
      BY <1>1, <2>1, <3>1 DEF AgreedStands
    <3> QED
      BY <2>1, <3>2 DEF AgreedStands
  <2>5. plan.tool = "close_activity" => agreed # {}
    <3> SUFFICES ASSUME plan.tool = "close_activity" PROVE agreed # {}
      OBVIOUS
    <3>1. PICK i \in 1..Len(answers) : Agrees(ToolOf(plan, erp), answers[i])
      BY <1>3, <2>1
    <3>2. ToolOf(plan, erp) = "close_activity"
      BY DEF ToolOf
    <3>3. answers[i] = "yes"
      BY <3>1, <3>2 DEF Agrees
    <3> QED
      BY <1>1, <3>3 DEF Counted
  <2>6. Counted'
    BY <1>1, <2>1, <2>5 DEF Counted
  <2> QED
    BY <2>2, <2>3, <2>4, <2>6 DEF CoInv
<1>10. CASE Replies
  <2>1. PICK v \in Values : /\ answers' = Resumed(v)
                            /\ agreed' = IF v = "yes" THEN agreed \cup {question.draft} ELSE agreed
    BY <1>10 DEF Replies
  <2>2. /\ stage = "parked" /\ stage' = "run" /\ question' = NoQuestion
        /\ UNCHANGED <<plan, erp, enabled, written, shown, drifts>>
    BY <1>10 DEF Replies
  <2>3. question \in Interrupts
    BY <1>1, <2>2 DEF CoTypeOK
  <2>4. v \in Stored /\ (question.kind = "confirm" => v \in {"yes", "no"})
    BY <2>3 DEF Values, Stored, Interrupts
  <2>5. /\ answers' = Append(answers, v) /\ answers' \in Seq(Stored)
        /\ Len(answers') = Len(answers) + 1 /\ answers'[Len(answers) + 1] = v
        /\ \A i \in 1..Len(answers) : answers'[i] = answers[i]
    BY <1>3, <2>1, <2>4 DEF Resumed
  <2>6. CoTypeOK'
    BY <1>1, <2>2, <2>5 DEF CoTypeOK, Stored
  <2>7. drifts = 0 /\ Now'.do = "write" => Drafted(Now, erp.figure)' \in agreed'
    <3> SUFFICES ASSUME drifts = 0, Now'.do = "write"
                 PROVE  Drafted(Now', erp'.figure) \in agreed'
      OBVIOUS
    <3>1. PICK n : n = Outcome(plan, erp, answers')
      OBVIOUS
    <3>2. Now' = n
      BY <2>2, <3>1 DEF Now
    <3>3. o = Outcome(plan, erp, answers) /\ o.do \in {"pick", "confirm"}
      BY <1>1, <1>2, <2>2 DEF Now, AgreedStands
    <3>4. /\ o.do = "confirm" /\ n.tool = o.tool /\ n.picks = o.picks
          /\ Agrees(n.tool, v)
      <4>1. OneMore(plan, erp, answers, v)
        BY <1>3, <2>4, OutcomeFollows
      <4>2. Outcome(plan, erp, Append(answers, v)) = n /\ n.do = "write"
        BY <2>5, <3>1, <3>2
      <4> QED
        BY <3>3, <4>1, <4>2 DEF OneMore
    <3>5. question = [kind |-> "confirm", draft |-> Drafted(o, erp.figure)]
      BY <1>1, <1>2, <2>2, <3>4 DEF AgreedStands
    <3>6. v = "yes"
      BY <2>4, <3>4, <3>5 DEF Agrees
    <3>7. Drafted(n, erp.figure) = question.draft
      BY <3>4, <3>5 DEF Drafted
    <3> QED
      BY <2>1, <2>2, <3>2, <3>6, <3>7
  <2>8. AgreedStands'
    BY <1>1, <2>1, <2>2, <2>7 DEF AgreedStands
  <2>9. Counted'
    <3>1. shown' = Len(answers') /\ Len(answers') <= MaxLooks + 1
      BY <1>1, <1>3, <1>5, <2>2, <2>5 DEF Counted
    <3>2. (\E i \in 1..Len(answers') : answers'[i] = "yes") => agreed' # {}
      <4>1. CASE v = "yes"
        BY <2>1, <4>1
      <4>2. CASE v # "yes"
        <5> SUFFICES ASSUME NEW i \in 1..Len(answers'), answers'[i] = "yes" PROVE agreed' # {}
          OBVIOUS
        <5>1. PICK n \in Nat : n = Len(answers)
          BY <1>3
        <5>2. i \in 1..(n + 1) /\ i # n + 1
          BY <2>5, <4>2, <5>1
        <5>3. i \in 1..Len(answers)
          BY <5>1, <5>2
        <5>4. answers[i] = "yes"
          BY <2>5, <5>3
        <5>5. agreed' = agreed
          BY <2>1, <4>2
        <5> QED
          BY <1>1, <5>3, <5>4, <5>5 DEF Counted
      <4> QED
        BY <4>1, <4>2
    <3>3. plan.tool = "close_activity" /\ written # <<>> => agreed' # {}
      BY <1>1, <2>1 DEF Counted
    <3> QED
      BY <2>2, <3>1, <3>2, <3>3 DEF Counted
  <2> QED
    BY <1>1, <2>2, <2>6, <2>8, <2>9 DEF CoInv
<1>11. CASE Drifts
  <2>1. /\ drifts' = drifts + 1 /\ drifts < MaxDrift
        /\ UNCHANGED <<plan, enabled, answers, question, stage, written, agreed, shown>>
    BY <1>11 DEF Drifts
  <2>2. erp' \in [found : [1..MaxLooks -> SUBSET Ids], fit : BOOLEAN, figure : Figures]
    <3>1. erp \in [found : [1..MaxLooks -> SUBSET Ids], fit : BOOLEAN, figure : Figures]
      BY <1>1 DEF CoTypeOK
    <3>2. CASE \E i \in 1..MaxLooks, hits \in SUBSET Ids : erp' = [erp EXCEPT !.found[i] = hits]
      BY <3>1, <3>2
    <3>3. CASE erp' = [erp EXCEPT !.fit = ~@]
      BY <3>1, <3>3
    <3>4. CASE \E f \in Figures : erp' = [erp EXCEPT !.figure = f]
      BY <3>1, <3>4
    <3> QED
      BY <1>11, <3>2, <3>3, <3>4 DEF Drifts
  <2>3. drifts' \in 0..MaxDrift /\ drifts' # 0
    BY <1>5, <2>1
  <2>4. CoTypeOK'
    BY <1>1, <2>1, <2>2, <2>3 DEF CoTypeOK
  <2>5. Counted'
    BY <1>1, <2>1 DEF Counted
  <2> QED
    BY <1>1, <2>1, <2>3, <2>4, <2>5 DEF CoInv, AgreedStands
<1>12. CASE Toggles
  <2>1. /\ enabled' \in BOOLEAN
        /\ UNCHANGED <<plan, erp, answers, question, stage, written, agreed, shown, drifts>>
    BY <1>1, <1>12 DEF Toggles, CoTypeOK
  <2> QED
    BY <1>1, <2>1 DEF CoInv, CoTypeOK, AgreedStands, Counted, Now
<1>13. CASE UNCHANGED coVars
  BY <1>1, <1>13 DEF coVars, CoInv, CoTypeOK, AgreedStands, Counted, Now
<1> QED
  BY <1>6, <1>7, <1>8, <1>9, <1>10, <1>11, <1>12, <1>13 DEF CoNext

\* While nobody else changes the ERP, what a coordinator writes is the draft the
\* user said yes to, for any candidates and figures and any number of replays
\* (create_order.py, "the created order is built from resolved IDs").
THEOREM DraftAlwaysWritten == CoSpec => []DraftIsWritten
<1>1. CoInv => DraftIsWritten
  BY DEF CoInv, AgreedStands, DraftIsWritten
<1> QED
  BY CoStarts, CoKept, <1>1, PTL DEF CoSpec

\* However the ERP changes while the user thinks: no activity is closed without a
\* yes (the other coordinators may take a pick for one), what is written is still
\* offered, and a turn asks at most once per look-up and once to confirm.
THEOREM RepliesAlwaysKeepPlace == CoSpec => RepliesKeepPlace
<1>1. ASSUME CoInv PROVE CloseNeedsYes /\ QuestionsBounded
  <2>1. CloseNeedsYes
    BY <1>1 DEF CoInv, Counted, CloseNeedsYes
  <2>2. Len(answers) \in Nat /\ MaxLooks \in Nat
    BY <1>1, NowSound DEF CoInv, MaxLooks
  <2>3. QuestionsBounded
    BY <1>1, <2>2 DEF CoInv, Counted, QuestionsBounded
  <2> QED
    BY <2>1, <2>3
<1>2. ASSUME CoInv, [CoNext]_coVars, ~UNCHANGED coVars PROVE PicksStillOffered
  <2>1. CoTypeOK /\ written \in Seq(Draftings)
    BY <1>2 DEF CoInv
  <2>2. CASE written' = written
    BY <2>1, <2>2 DEF PicksStillOffered
  <2>3. CASE written' # written
    <3>1. WritesDraft
      BY <1>2, <2>3 DEF CoNext, Stops, AsksPick, AsksConfirm, Replies, Drifts, Toggles
    <3>2. PICK d : d = Drafted(Run, erp.figure)
      OBVIOUS
    <3>3. written' = Append(written, d) /\ Run.do = "write"
      BY <2>3, <3>1, <3>2 DEF WritesDraft
    <3>4. d.picks = Run.picks
      BY <3>2 DEF Drafted
    <3>5. \A k \in 1..Len(d.picks) : d.picks[k] \in Offered(erp.found)
      BY <2>1, <3>3, <3>4, NowSound
    <3>6. \A i \in 1..Len(written') : i > Len(written) => written'[i] = d
      BY <2>1, <3>3
    <3>7. \A k \in 1..Len(d.picks) : \E j \in 1..MaxLooks : d.picks[k] \in erp.found[j]
      BY <3>5 DEF Offered
    <3> QED
      BY <3>6, <3>7 DEF PicksStillOffered
  <2> QED
    BY <2>2, <2>3
<1>3. CoInv /\ CoInv' /\ [CoNext]_coVars =>
        [(CoTypeOK /\ CloseNeedsYes /\ QuestionsBounded)' /\ PicksStillOffered]_coVars
  <2> SUFFICES ASSUME CoInv, CoInv', [CoNext]_coVars, ~UNCHANGED coVars
               PROVE  (CoTypeOK /\ CloseNeedsYes /\ QuestionsBounded)' /\ PicksStillOffered
    OBVIOUS
  <2>1. CoTypeOK'
    BY DEF CoInv
  <2>2. (CoInv => CloseNeedsYes /\ QuestionsBounded)'
    BY <1>1, PTL
  <2> QED
    BY <1>2, <2>1, <2>2
<1> QED
  BY CoStarts, CoKept, <1>3, PTL DEF CoSpec, RepliesKeepPlace
=============================================================================
