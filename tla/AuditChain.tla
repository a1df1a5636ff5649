------------------------------ MODULE AuditChain ------------------------------
(***************************************************************************)
(* The audit table mcp_call_log: threads of the MCP processes append rows  *)
(* chained by hash (log_mcp_event), the backend appends unchained rows of  *)
(* its own to the same table (ghi_luot_doc), and verify_audit_chain walks  *)
(* the chained rows in the order of their ids.                             *)
(***************************************************************************)
EXTENDS Naturals

CONSTANTS
    Writers,     \* threads of the MCP processes
    Processes,
    ProcessOf,   \* the process a writer belongs to
    Readers,     \* backend threads that log read tools
    Events,      \* what a row can say
    Hash(_, _),  \* compute_entry_hash: the hash of (prev_hash, fields)
    Genesis,     \* GENESIS_HASH
    Start,       \* the rows the table holds when the processes start
    MaxRowId,       \* bound: last id of the table's sequence
    Null

ASSUME WriterAssumption ==
    /\ ProcessOf \in [Writers -> Processes]
    /\ Writers \cap Readers = {}
    /\ Null \notin Writers \cup Readers
    /\ MaxRowId \in Nat

NoRow == [id |-> 0, prev |-> Null, hash |-> Null, event |-> Null, chained |-> FALSE]

\* The row of the chain's reset (migration 005) carries no hash.
ASSUME StartAssumption ==
    Start = {} \/ \E e \in Events : Start = {[NoRow EXCEPT !.id = 1, !.event = e]}

VARIABLES
    logRows,       \* committed rows
    nextRowId,     \* the table's bigserial
    advisory,   \* holder of pg_advisory_xact_lock
    dbLock,     \* per process: holder of _db_lock
    at,         \* per thread: how far its call has come
    mine        \* per thread: the row it is about to write

acVars == <<logRows, nextRowId, advisory, dbLock, at, mine>>

Newest(S) == CHOOSE r \in S : \A s \in S : s.id <= r.id

-----------------------------------------------------------------------------
(* verify_audit_chain *)

\* entry_hash IS NOT NULL
Chained(S) == {r \in S : r.chained}

EntryHash_WithoutFields(prev, event) == Hash(prev, CHOOSE e \in Events : TRUE)
EntryHash(prev, event) == Hash(prev, event)

HashBefore(S, id) ==
    LET earlier == {s \in Chained(S) : s.id < id}
    IN  IF earlier = {} THEN Genesis ELSE Newest(earlier).hash

LinkHolds(S, r) == r.prev = HashBefore(S, r.id) /\ r.hash = EntryHash(r.prev, r.event)

\* An empty chain is not evidence of anything: verify refuses it.
verify(S) == Chained(S) # {} /\ \A r \in Chained(S) : LinkHolds(S, r)

-----------------------------------------------------------------------------
(* log_mcp_event, one transaction under two locks *)

InTransaction == {"locked", "read", "inserted"}

\* A tool call ends and its event is to be logged.
Call(w, e) ==
    /\ at[w] = "idle"
    /\ at' = [at EXCEPT ![w] = "called"]
    /\ mine' = [mine EXCEPT ![w] = [NoRow EXCEPT !.event = e]]
    /\ UNCHANGED <<logRows, nextRowId, advisory, dbLock>>

\* with _db_lock
Enter(w) ==
    /\ at[w] = "called"
    /\ dbLock[ProcessOf[w]] = Null
    /\ dbLock' = [dbLock EXCEPT ![ProcessOf[w]] = w]
    /\ at' = [at EXCEPT ![w] = "entered"]
    /\ UNCHANGED <<logRows, nextRowId, advisory, mine>>

LockFree_Ignored == TRUE
LockFree == advisory = Null

TakeLock(w) ==
    /\ at[w] = "entered"
    /\ LockFree
    /\ advisory' = w
    /\ at' = [at EXCEPT ![w] = "locked"]
    /\ UNCHANGED <<logRows, nextRowId, dbLock, mine>>

\* SELECT entry_hash ... ORDER BY id DESC LIMIT 1: the newest row, chained or
\* not; without a hash the chain starts again at the genesis hash.
Tip == IF logRows = {} \/ ~Newest(logRows).chained THEN Genesis ELSE Newest(logRows).hash

ReadTip(w) ==
    /\ at[w] = "locked"
    /\ at' = [at EXCEPT ![w] = "read"]
    /\ mine' = [mine EXCEPT ![w] = [@ EXCEPT !.prev = Tip]]
    /\ UNCHANGED <<logRows, nextRowId, advisory, dbLock>>

InsertRow(w) ==
    /\ at[w] = "read"
    /\ nextRowId <= MaxRowId
    /\ nextRowId' = nextRowId + 1
    /\ at' = [at EXCEPT ![w] = "inserted"]
    /\ mine' = [mine EXCEPT ![w] = [id |-> nextRowId, prev |-> @.prev, event |-> @.event,
                                    hash |-> EntryHash(@.prev, @.event), chained |-> TRUE]]
    /\ UNCHANGED <<logRows, advisory, dbLock>>

\* The transaction ends: both locks are free again.
Leave_KeepsLock(w) ==
    /\ dbLock' = [dbLock EXCEPT ![ProcessOf[w]] = Null]
    /\ UNCHANGED advisory
    /\ at' = [at EXCEPT ![w] = "idle"]
    /\ mine' = [mine EXCEPT ![w] = NoRow]
Leave(w) ==
    /\ dbLock' = [dbLock EXCEPT ![ProcessOf[w]] = Null]
    /\ advisory' = IF advisory = w THEN Null ELSE advisory
    /\ at' = [at EXCEPT ![w] = "idle"]
    /\ mine' = [mine EXCEPT ![w] = NoRow]

CommitRow(w) ==
    /\ at[w] = "inserted"
    /\ logRows' = logRows \cup {mine[w]}
    /\ Leave(w)
    /\ UNCHANGED nextRowId

\* Any error -- no connection, a statement, a commit whose reply is lost (the
\* row may be in: see CommitRow) -- is rolled back and swallowed.
FailLog(w) ==
    /\ at[w] \in {"entered"} \cup InTransaction
    /\ Leave(w)
    /\ UNCHANGED <<logRows, nextRowId>>

\* An MCP process stops; Postgres rolls its transaction back.
Die(p) ==
    /\ \E w \in Writers : ProcessOf[w] = p /\ at[w] # "idle"
    /\ LET dead == {w \in Writers : ProcessOf[w] = p}
       IN  /\ at' = [t \in DOMAIN at |-> IF t \in dead THEN "idle" ELSE at[t]]
           /\ mine' = [t \in DOMAIN mine |-> IF t \in dead THEN NoRow ELSE mine[t]]
           /\ advisory' = IF advisory \in dead THEN Null ELSE advisory
    /\ dbLock' = [dbLock EXCEPT ![p] = Null]
    /\ UNCHANGED <<logRows, nextRowId>>

-----------------------------------------------------------------------------
(* ghi_luot_doc: an autocommitted INSERT of an unchained row, without the    *)
(* advisory lock                                                             *)

LogRead(r, e) ==
    /\ at[r] = "idle" /\ nextRowId <= MaxRowId
    /\ nextRowId' = nextRowId + 1
    /\ at' = [at EXCEPT ![r] = "inserted"]
    /\ mine' = [mine EXCEPT ![r] = [NoRow EXCEPT !.id = nextRowId, !.event = e]]
    /\ UNCHANGED <<logRows, advisory, dbLock>>

CommitRead(r) ==
    /\ at[r] = "inserted"
    /\ logRows' = logRows \cup {mine[r]}
    /\ at' = [at EXCEPT ![r] = "idle"]
    /\ mine' = [mine EXCEPT ![r] = NoRow]
    /\ UNCHANGED <<nextRowId, advisory, dbLock>>

AcInit ==
    /\ logRows = Start
    /\ nextRowId = 2
    /\ advisory = Null
    /\ dbLock = [p \in Processes |-> Null]
    /\ at = [t \in Writers \cup Readers |-> "idle"]
    /\ mine = [t \in Writers \cup Readers |-> NoRow]

Write(w) == Enter(w) \/ TakeLock(w) \/ ReadTip(w) \/ InsertRow(w) \/ CommitRow(w) \/ FailLog(w)

AcNext ==
    \/ \E w \in Writers : Write(w) \/ \E e \in Events : Call(w, e)
    \/ \E r \in Readers : CommitRead(r) \/ \E e \in Events : LogRead(r, e)
    \/ \E p \in Processes : Die(p)

AcSpec == AcInit /\ [][AcNext]_acVars

\* A thread that has started to log goes on, and Postgres grants the advisory
\* lock to every transaction that waits for it.
\* (Out of ids, which only the bound causes, the transaction fails.)
AcFairness ==
    \A w \in Writers :
        /\ SF_acVars(Enter(w) \/ TakeLock(w))
        /\ WF_acVars(ReadTip(w) \/ InsertRow(w) \/ CommitRow(w) \/ (nextRowId > MaxRowId /\ FailLog(w)))

-----------------------------------------------------------------------------
AcTypeOK ==
    /\ \A r \in logRows : r.id \in 1..MaxRowId /\ r.event \in Events
    /\ nextRowId \in 2..(MaxRowId + 1)
    /\ at \in [Writers \cup Readers -> {"idle", "called", "entered"} \cup InTransaction]
    /\ \A w \in Writers : at[w] \in InTransaction <=> advisory = w
    /\ \A w \in Writers : at[w] \in {"entered"} \cup InTransaction <=> dbLock[ProcessOf[w]] = w
    /\ \A t \in Writers \cup Readers : at[t] = "idle" => mine[t] = NoRow

\* The chain never forks and no row is passed over, the backend's rows or not:
\* each chained row follows the chained row before it, or starts at genesis.
LinksOrRestarts ==
    \A r \in Chained(logRows) :
        /\ r.prev \in {Genesis, HashBefore(logRows, r.id)}
        /\ r.hash = EntryHash(r.prev, r.event)

\* As long as no row of the backend is in the table, verify accepts it, whatever
\* the interleaving of the MCP processes and whichever of them die: "chain
\* broken" is not said of rows nobody touched (docstring of log_mcp_event).
OwnRows == \A r \in logRows : r.chained \/ r \in Start
OwnRowsVerify == OwnRows /\ Chained(logRows) # {} => verify(logRows)

\* The same with the backend's rows, which audit.py calls valid by design.
VerifyAccepts == Chained(logRows) # {} => verify(logRows)

\* In a table that verify accepts it notices any edit of a row, and the removal
\* of any row but the newest.
ChangeDetected ==
    verify(logRows) => \A r \in Chained(logRows) :
        /\ \A e \in (Events \cup {Null}) \ {r.event} :
               ~verify((logRows \ {r}) \cup {[r EXCEPT !.event = e]})
        /\ r # Newest(Chained(logRows)) => ~verify(logRows \ {r})

\* A tool call whose logging has started is not held up for ever by the locks.
LoggingEnds == \A w \in Writers : at[w] # "idle" ~> at[w] = "idle"
=============================================================================
