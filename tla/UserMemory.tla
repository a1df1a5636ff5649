------------------------------ MODULE UserMemory ------------------------------
(***************************************************************************)
(* The long-term memory of one user: an append-only table of versions of   *)
(* facts. save_fact inserts a version, supersedes the older versions of    *)
(* its key and trims the memory to MEMORY_CAP facts, forget_fact           *)
(* supersedes a key; each is one transaction at READ COMMITTED, and chats  *)
(* of the same user run them concurrently.                                 *)
(*                                                                         *)
(* An UPDATE reads its candidates in the snapshot of the statement, then   *)
(* locks them one by one: a row another transaction holds is waited for    *)
(* and, when it has changed, its WHERE is evaluated again on the new       *)
(* version; the lock stays even when it no longer matches. The order of    *)
(* the candidates is the query plan's, so it is any.                       *)
(***************************************************************************)
EXTENDS Naturals, FiniteSets

CONSTANTS
    Sessions,   \* chats of the user that may save at the same time
    Keys,       \* normalised fact keys
    Cap,        \* MEMORY_CAP
    MaxId,      \* bound: last id of the table's sequence
    None

ASSUME MemoryAssumption ==
    Cap \in Nat \ {0} /\ MaxId \in Nat /\ None \notin Keys

\* Chats of one user: finitely many.
ASSUME SessionsAssumption == IsFiniteSet(Sessions)

VARIABLES
    rows,       \* committed versions, by id
    nextId,     \* the table's bigserial
    tx          \* per session: its transaction

vars == <<rows, nextId, tx>>

-------------------------------------------------------------------------------
\* A version: its key, superseded_by (0 for NULL), superseded_at IS NOT NULL.
Row == [key : Keys, by : 0..MaxId, dated : BOOLEAN]

Versions == UNION {[ids -> Row] : ids \in SUBSET (1..MaxId)}

NoVersions == [i \in {} |-> None]

\* `mine`: the rows the transaction has locked, as it has written them;
\* `todo`: candidates its UPDATE has still to lock; `id`: RETURNING id.
\* `alone` is history: no transaction on the same key overlapped this one.
Tx == [pc : {"idle", "inserted", "superseding", "trimming", "unsetting", "retired"},
       op : {"save", "forget"}, key : Keys \cup {None}, id : 0..MaxId,
       todo : SUBSET (1..MaxId), alone : BOOLEAN, mine : Versions]

Committed == DOMAIN rows

Held(s) == DOMAIN tx[s].mine

\* What a statement of s sees: the committed versions and its own.
Visible(s) == [i \in Committed \cup Held(s) |->
                  IF i \in Held(s) THEN tx[s].mine[i] ELSE rows[i]]

Active(table) == {i \in DOMAIN table : table[i].by = 0}

ActiveOf(table, k) == {i \in Active(table) : table[i].key = k}

HeldByOther(s, i) == \E u \in Sessions \ {s} : i \in Held(u)

Idle == [pc |-> "idle", op |-> "save", key |-> None, id |-> 0,
         todo |-> {}, alone |-> TRUE, mine |-> NoVersions]

-------------------------------------------------------------------------------
Clash(s, k) == {u \in Sessions \ {s} : tx[u].key = k}

\* _apply_memory_markers calls save_fact or forget_fact, and the transaction
\* runs its first statement.
Begin(s, t) ==
    /\ tx[s].pc = "idle"
    /\ tx' = [u \in Sessions |->
                IF u = s THEN [t EXCEPT !.alone = Clash(s, t.key) = {}]
                ELSE [tx[u] EXCEPT !.alone = @ /\ u \notin Clash(s, t.key)]]

\* save_fact: INSERT ... RETURNING id
Insert(s, k) ==
    /\ nextId <= MaxId
    /\ Begin(s, [Idle EXCEPT
                !.pc = "inserted", !.op = "save", !.key = k, !.id = nextId,
                !.mine = [i \in {nextId} |-> [key |-> k, by |-> 0, dated |-> FALSE]]])
    /\ nextId' = nextId + 1
    /\ UNCHANGED rows

\* The WHERE of save_fact's supersede: other active versions of the key.
Older_WithItself(s) == ActiveOf(Visible(s), tx[s].key)
Older(s) == ActiveOf(Visible(s), tx[s].key) \ {tx[s].id}

\* ORDER BY id DESC OFFSET MEMORY_CAP
BeyondCap_OffByOne(s) ==
    LET active == Active(Visible(s))
    IN {i \in active : Cardinality({j \in active : j > i}) > Cap}
BeyondCap(s) ==
    LET active == Active(Visible(s))
    IN {i \in active : Cardinality({j \in active : j > i}) >= Cap}

\* Each UPDATE first takes its snapshot and finds its candidates.
ScanOlder(s) ==
    /\ tx[s].pc = "inserted"
    /\ tx' = [tx EXCEPT ![s].pc = "superseding", ![s].todo = Older(s)]
    /\ UNCHANGED <<rows, nextId>>

ScanBeyondCap(s) ==
    /\ tx[s].pc = "superseding"
    /\ tx[s].todo = {}
    /\ tx' = [tx EXCEPT ![s].pc = "trimming", ![s].todo = BeyondCap(s)]
    /\ UNCHANGED <<rows, nextId>>

\* forget_fact: UPDATE ... SET superseded_at
ScanKey(s, k) ==
    /\ Begin(s, [Idle EXCEPT !.pc = "unsetting", !.op = "forget", !.key = k,
                             !.todo = ActiveOf(rows, k)])
    /\ UNCHANGED <<rows, nextId>>

\* The WHERE on the version that is current once the row is locked. The trim's
\* WHERE is about the id, which its sub-select has already chosen: the row is
\* updated even when it has been superseded meanwhile.
StillMatches(s, i) == tx[s].pc = "trimming" \/ Visible(s)[i].by = 0

\* SET: superseded_by is the new row, the row itself for the trim, and is left
\* to the next statement by forget_fact, which sets superseded_at alone.
Mark_TrimmedByNew(s, i) == IF tx[s].pc = "unsetting" THEN 0 ELSE tx[s].id
Mark(s, i) ==
    CASE tx[s].pc = "superseding" -> tx[s].id
      [] tx[s].pc = "trimming"    -> i
      [] tx[s].pc = "unsetting"   -> 0

Rewritten(s, i) ==
    IF StillMatches(s, i)
    THEN [Visible(s)[i] EXCEPT !.by = Mark(s, i), !.dated = TRUE]
    ELSE Visible(s)[i]

Overlay(s, i, row) ==
    [j \in Held(s) \cup {i} |-> IF j = i THEN row ELSE tx[s].mine[j]]

\* The UPDATE locks one of its candidates and rewrites it.
Rewrite(s) ==
    \E i \in tx[s].todo :
        /\ ~HeldByOther(s, i)
        /\ tx' = [tx EXCEPT ![s].todo = @ \ {i},
                            ![s].mine = Overlay(s, i, Rewritten(s, i))]
        /\ UNCHANGED <<rows, nextId>>

\* RETURNING id of forget_fact's first UPDATE.
Unset(s) == {i \in Held(s) : tx[s].mine[i].by = 0}

\* forget_fact's second UPDATE: SET superseded_by = id. It returns False before
\* when the first one found nothing.
Retire(s) ==
    /\ tx[s].pc = "unsetting"
    /\ tx[s].todo = {}
    /\ Unset(s) # {}
    /\ tx' = [tx EXCEPT ![s].pc = "retired",
                        ![s].mine = [i \in Held(s) |->
                            [tx[s].mine[i] EXCEPT !.by = IF @ = 0 THEN i ELSE @]]]
    /\ UNCHANGED <<rows, nextId>>

Finished(s) ==
    \/ tx[s].pc = "trimming" /\ tx[s].todo = {}
    \/ tx[s].pc = "unsetting" /\ tx[s].todo = {} /\ Unset(s) = {}
    \/ tx[s].pc = "retired"

Ends(s) == tx' = [tx EXCEPT ![s] = Idle]

Commit(s) ==
    /\ Finished(s)
    /\ rows' = Visible(s)
    /\ Ends(s)
    /\ UNCHANGED nextId

\* A statement raises or the connection is lost: the transaction is rolled
\* back, and the caller goes on to the next marker without a word.
Fail(s) ==
    /\ tx[s].pc # "idle"
    /\ Ends(s)
    /\ UNCHANGED <<rows, nextId>>

\* Transactions that wait for each other's rows.
Deadlocked_Unseen(s) == FALSE
Deadlocked(s) ==
    \E D \in SUBSET Sessions :
        /\ s \in D
        /\ \A t \in D : /\ tx[t].todo # {}
                        /\ \A i \in tx[t].todo : \E u \in D \ {t} : i \in Held(u)

\* Postgres's deadlock detector aborts one of them.
BreakDeadlock(s) == Deadlocked(s) /\ Fail(s)

-------------------------------------------------------------------------------
Init ==
    /\ rows = NoVersions
    /\ nextId = 1
    /\ tx = [s \in Sessions |-> Idle]

Step(s) ==
    ScanOlder(s) \/ ScanBeyondCap(s) \/ Retire(s) \/ Commit(s) \/ BreakDeadlock(s)

Next ==
    \E s \in Sessions :
        \/ \E k \in Keys : Insert(s, k) \/ ScanKey(s, k)
        \/ Step(s)
        \/ Rewrite(s)
        \/ Fail(s)

Spec == Init /\ [][Next]_vars

\* Statements are executed, deadlocks are detected, and lock waiters queue.
Fairness == \A s \in Sessions : WF_vars(Step(s)) /\ SF_vars(Rewrite(s))

FairSpec == Spec /\ Fairness

-------------------------------------------------------------------------------
(* Properties *)

\* Rows and transactions have their types; a row has one transaction that
\* rewrites it at a time, and what is not committed is its session's insert.
TypeOK ==
    /\ nextId \in 1..(MaxId + 1)
    /\ rows \in Versions
    /\ tx \in [Sessions -> Tx]
    /\ \A s, u \in Sessions : s # u => Held(s) \cap Held(u) = {}
    /\ \A s \in Sessions : \A i \in Held(s) : i \in Committed \/ i = tx[s].id

\* The audit trail: superseded_by and superseded_at are set together, and a
\* superseded version points to itself (forgotten, or beyond the cap) or to a
\* committed version of the same key, never to a fact it has nothing to do with.
TrailSound ==
    \A i \in Committed :
        /\ rows[i].by # 0 <=> rows[i].dated
        /\ rows[i].by # 0 => /\ rows[i].by \in Committed
                             /\ rows[rows[i].by].key = rows[i].key

\* However saves of a key overlap, fail and wait for each other, a key never
\* has more active versions than there are concurrent sessions.
DuplicatesBounded ==
    \A k \in Keys : Cardinality(ActiveOf(rows, k)) <= Cardinality(Sessions)

\* Each concurrent save may overrun the cap by one fact, and the overrun does
\* not add up over time.
CapOverrunBounded ==
    Cardinality(Active(rows)) < Cap + Cardinality(Sessions)

\* What overlapping saves leave too much stays within one per session (user_memory.py:184).
OverrunsBounded == DuplicatesBounded /\ CapOverrunBounded

\* A transaction with its key to itself does what it announces, whatever the
\* transactions on other keys do: after a forget no version of the key is
\* active, after a save only the saved one, unless Cap newer facts came in
\* while it ran.
AnnouncedTrue ==
    [][\A s \in Sessions :
          Commit(s) /\ tx[s].alone =>
             LET left == ActiveOf(rows', tx[s].key)
             IN IF tx[s].op = "forget" THEN left = {}
                ELSE \/ left = {tx[s].id}
                     \/ /\ left = {}
                        /\ Cardinality({i \in DOMAIN rows' : i > tx[s].id}) >= Cap]_vars

\* A transaction once begun ends, although transactions wait for each other's
\* rows in any order.
TransactionsEnd ==
    \A s \in Sessions : tx[s].pc # "idle" ~> tx[s].pc = "idle"

\* A key has at most one active version: what load_active_facts is read for.
OneActive == \A k \in Keys : Cardinality(ActiveOf(rows, k)) <= 1

\* A version's superseded_by is written once.
TrailKept ==
    [][\A i \in Committed : rows[i].by # 0 => rows'[i].by = rows[i].by]_vars
===============================================================================
