--------------------------- MODULE AuditChain_proofs ---------------------------
(***************************************************************************)
(* The chain that concurrent writers build is one chain, for any number of *)
(* processes and threads, any hash, and any table length.                  *)
(***************************************************************************)
EXTENDS AuditChain, WellFoundedInduction, TLAPS

\* The hash the next chained row should point to.
HeadHash == IF Chained(logRows) = {} THEN Genesis ELSE Newest(Chained(logRows)).hash

Pending(t) == at[t] = "inserted"

Shape ==
    /\ nextRowId \in Nat /\ nextRowId >= 2
    /\ at \in [Writers \cup Readers -> {"idle", "called", "entered"} \cup InTransaction]
    /\ DOMAIN mine = Writers \cup Readers
    /\ \A w \in Writers : at[w] \in InTransaction => advisory = w

\* Ids are handed out once; the newest row exists.
Ids ==
    /\ \A r \in logRows : r.id \in 1..(nextRowId - 1)
    /\ \A r, s \in logRows : r.id = s.id => r = s
    /\ logRows # {} => \E r \in logRows : \A s \in logRows : s.id <= r.id
    /\ \A r \in Start : ~r.chained /\ r.id = 1

PendingIds ==
    \A t \in Writers \cup Readers : Pending(t) =>
        /\ mine[t].id \in 2..(nextRowId - 1)
        /\ \A r \in logRows : r.id # mine[t].id
        /\ \A u \in (Writers \cup Readers) \ {t} : Pending(u) => mine[u].id # mine[t].id

\* What a writer is about to commit extends the chain as it is now.
PendingRows ==
    /\ \A r \in Readers : Pending(r) => ~mine[r].chained
    /\ \A w \in Writers :
        /\ at[w] \in {"read", "inserted"} =>
            /\ mine[w].prev \in {Genesis, HeadHash}
            /\ OwnRows => mine[w].prev = HeadHash
        /\ Pending(w) =>
            /\ mine[w].chained
            /\ mine[w].hash = EntryHash(mine[w].prev, mine[w].event)
            /\ \A r \in Chained(logRows) : r.id < mine[w].id

Links ==
    \A r \in Chained(logRows) :
        /\ r.prev \in {Genesis, HashBefore(logRows, r.id)}
        /\ OwnRows => r.prev = HashBefore(logRows, r.id)
        /\ r.hash = EntryHash(r.prev, r.event)

IInv == Shape /\ Ids /\ PendingIds /\ PendingRows /\ Links

-----------------------------------------------------------------------------
\* The newest row is well defined where ids are not shared.
LEMMA NewestIs ==
    ASSUME NEW S, NEW r \in S, \A s \in S : s.id \in Nat,
           \A s \in S : s.id <= r.id, \A s, t \in S : s.id = t.id => s = t
    PROVE  Newest(S) = r
<1>1. \A s \in S : (\A t \in S : t.id <= s.id) => s = r
  <2> SUFFICES ASSUME NEW s \in S, \A t \in S : t.id <= s.id
               PROVE  s = r
    OBVIOUS
  <2>1. s.id <= r.id /\ r.id <= s.id /\ s.id \in Nat /\ r.id \in Nat
    OBVIOUS
  <2>2. s.id = r.id
    BY <2>1
  <2> QED
    BY <2>2
<1> QED
  BY <1>1 DEF Newest

\* A row with an id above every chained row leaves the hashes before the older
\* rows as they are, and comes itself after the head of the chain.
LEMMA HashBeforeKept ==
    ASSUME NEW S, NEW n, \A s \in S : s.id \in Nat, n.id \in Nat,
           n.chained => \A s \in Chained(S) : s.id < n.id
    PROVE  /\ \A r \in Chained(S) : HashBefore(S \cup {n}, r.id) = HashBefore(S, r.id)
           /\ n.chained => HashBefore(S \cup {n}, n.id) =
                  (IF Chained(S) = {} THEN Genesis ELSE Newest(Chained(S)).hash)
           /\ ~n.chained => Chained(S \cup {n}) = Chained(S)
           /\ n.chained => Chained(S \cup {n}) = Chained(S) \cup {n}
<1>1. ~n.chained => Chained(S \cup {n}) = Chained(S)
  BY DEF Chained
<1>2. n.chained => Chained(S \cup {n}) = Chained(S) \cup {n}
  BY DEF Chained
<1>3. ASSUME NEW r \in Chained(S)
      PROVE  {s \in Chained(S \cup {n}) : s.id < r.id} = {s \in Chained(S) : s.id < r.id}
  <2>1. r.id \in Nat
    BY DEF Chained
  <2>2. n.chained => ~(n.id < r.id)
    BY <2>1
  <2> QED
    BY <1>1, <1>2, <2>2
<1>4. ASSUME n.chained
      PROVE  {s \in Chained(S \cup {n}) : s.id < n.id} = Chained(S)
  <2>1. ~(n.id < n.id)
    OBVIOUS
  <2> QED
    BY <1>2, <1>4, <2>1
<1> QED
  BY <1>1, <1>2, <1>3, <1>4 DEF HashBefore

-----------------------------------------------------------------------------
LEMMA IInvInit == AcInit => IInv
<1> SUFFICES ASSUME AcInit
             PROVE  IInv
  OBVIOUS
<1>1. Shape
  BY DEF AcInit, Shape, InTransaction
<1>2. PendingIds /\ PendingRows
  BY DEF AcInit, PendingIds, PendingRows, Pending
<1>3. \A r \in logRows : r.id = 1 /\ ~r.chained
  BY StartAssumption DEF AcInit, NoRow
<1>4. Ids
  <2>1. \A r, s \in logRows : r = s
    BY StartAssumption DEF AcInit
  <2> QED
    BY <1>3, <2>1 DEF Ids, AcInit
<1>5. Links
  BY <1>3 DEF Links, Chained
<1> QED
  BY <1>1, <1>2, <1>4, <1>5 DEF IInv

\* A step that adds no row and makes nothing pending keeps everything but the
\* shape, as long as no row is read.
LEMMA Quiet ==
    ASSUME IInv, UNCHANGED <<logRows, nextRowId>>, Shape',
           \A t \in Writers \cup Readers :
               at'[t] \in {"read", "inserted"} => at'[t] = at[t] /\ mine'[t] = mine[t]
    PROVE  IInv'
<1>1. Ids' /\ Links'
  BY DEF IInv, Ids, Links, Chained, HashBefore, OwnRows
<1>2. PendingIds'
  BY DEF IInv, PendingIds, Pending
<1>3. HeadHash' = HeadHash
  BY DEF HeadHash, Chained
<1>4. PendingRows'
  BY <1>3 DEF IInv, PendingRows, Pending, Chained, OwnRows
<1> QED
  BY <1>1, <1>2, <1>4 DEF IInv

LEMMA LockSteps ==
    ASSUME IInv, NEW w \in Writers,
           \/ \E e \in Events : Call(w, e)
           \/ Enter(w) \/ TakeLock(w) \/ FailLog(w)
    PROVE  IInv'
<1>1. CASE \E e \in Events : Call(w, e)
  <2>1. Shape'
    BY <1>1 DEF IInv, Shape, Call, InTransaction
  <2> QED
    BY <1>1, <2>1, Quiet DEF Call, IInv, Shape
<1>2. CASE Enter(w)
  <2>1. Shape'
    BY <1>2 DEF IInv, Shape, Enter, InTransaction
  <2> QED
    BY <1>2, <2>1, Quiet DEF Enter, IInv, Shape
<1>3. CASE TakeLock(w)
  <2>1. \A u \in Writers : at[u] \notin InTransaction
    BY <1>3, WriterAssumption DEF IInv, Shape, TakeLock, LockFree
  <2>2. Shape'
    BY <1>3, <2>1 DEF IInv, Shape, TakeLock, InTransaction
  <2> QED
    BY <1>3, <2>2, Quiet DEF TakeLock, IInv, Shape
<1>4. CASE FailLog(w)
  <2>1. \A u \in Writers : at[u] \in InTransaction => advisory = u
    BY DEF IInv, Shape
  <2>2. Shape'
    BY <1>4, <2>1 DEF IInv, Shape, FailLog, Leave, InTransaction
  <2> QED
    BY <1>4, <2>2, Quiet DEF FailLog, Leave, IInv, Shape
<1> QED
  BY <1>1, <1>2, <1>3, <1>4

LEMMA DieStep ==
    ASSUME IInv, NEW p \in Processes, Die(p)
    PROVE  IInv'
<1>1. \A u \in Writers : at[u] \in InTransaction => advisory = u
  BY DEF IInv, Shape
<1>2. Shape'
  BY <1>1 DEF IInv, Shape, Die, InTransaction
<1> QED
  BY <1>2, Quiet DEF Die, IInv, Shape

\* Only the holder of the advisory lock is inside the transaction.
LEMMA Alone ==
    ASSUME IInv, NEW w \in Writers, at[w] \in InTransaction
    PROVE  \A u \in Writers \ {w} : at[u] \notin InTransaction
BY DEF IInv, Shape

\* The tip that is read is the head of the chain, unless an unchained row
\* stands there.
LEMMA TipIsHead ==
    ASSUME IInv
    PROVE  /\ Tip \in {Genesis, HeadHash}
           /\ OwnRows => Tip = HeadHash
<1>1. CASE logRows = {}
  BY <1>1 DEF Tip, HeadHash, Chained
<1>2. CASE logRows # {}
  <2>1. PICK top \in logRows : \A s \in logRows : s.id <= top.id
    BY <1>2 DEF IInv, Ids
  <2>2. \A s \in logRows : s.id \in Nat
    BY DEF IInv, Shape, Ids
  <2>3. Newest(logRows) = top
    BY <2>1, <2>2, NewestIs DEF IInv, Ids
  <2>4. CASE top.chained
    <3>1. top \in Chained(logRows) /\ \A s \in Chained(logRows) : s \in logRows
      BY <2>4 DEF Chained
    <3>2. Newest(Chained(logRows)) = top
      BY <2>1, <2>2, <3>1, NewestIs DEF IInv, Ids
    <3> QED
      BY <1>2, <2>3, <2>4, <3>1, <3>2 DEF Tip, HeadHash
  <2>5. CASE ~top.chained
    <3>1. Tip = Genesis
      BY <2>3, <2>5 DEF Tip
    <3>2. ASSUME OwnRows
          PROVE  Chained(logRows) = {}
      <4>1. top.id = 1
        BY <2>5, <3>2 DEF IInv, Ids, OwnRows
      <4>2. \A s \in logRows : s.id = top.id
        BY <2>1, <4>1 DEF IInv, Ids, Shape
      <4>3. \A s \in logRows : s = top
        BY <4>2 DEF IInv, Ids
      <4> QED
        BY <2>5, <4>3 DEF Chained
    <3> QED
      BY <3>1, <3>2 DEF HeadHash
  <2> QED
    BY <2>4, <2>5
<1> QED
  BY <1>1, <1>2

LEMMA ReadTipStep ==
    ASSUME IInv, NEW w \in Writers, ReadTip(w)
    PROVE  IInv'
<1>1. \A u \in Writers \ {w} : at[u] \notin InTransaction
  BY Alone DEF ReadTip, InTransaction
<1>2. Shape'
  BY <1>1 DEF IInv, Shape, ReadTip, InTransaction
<1>3. Ids' /\ Links'
  BY DEF IInv, Ids, Links, Chained, HashBefore, OwnRows, ReadTip
<1>4. PendingIds'
  BY DEF IInv, Shape, PendingIds, Pending, ReadTip
<1>5. HeadHash' = HeadHash
  BY DEF HeadHash, Chained, ReadTip
<1>6. mine'[w].prev = Tip /\ at'[w] = "read"
  BY DEF ReadTip, IInv, Shape
<1>7. PendingRows'
  <2>1. \A r \in Readers : Pending(r)' => ~mine'[r].chained
    BY WriterAssumption DEF IInv, Shape, PendingRows, Pending, ReadTip
  <2>2. \A u \in Writers \ {w} : at'[u] \notin {"read", "inserted"}
    BY <1>1 DEF IInv, Shape, ReadTip, InTransaction
  <2> QED
    BY <1>5, <1>6, <2>1, <2>2, TipIsHead DEF PendingRows, Pending, OwnRows, ReadTip, Chained
<1> QED
  BY <1>2, <1>3, <1>4, <1>7 DEF IInv

\* A row that has just got its id, which nobody else has.
LEMMA FreshId ==
    ASSUME IInv, NEW t \in Writers \cup Readers, ~Pending(t),
           logRows' = logRows, nextRowId' = nextRowId + 1,
           at' = [at EXCEPT ![t] = "inserted"],
           mine'[t].id = nextRowId,
           \A u \in (Writers \cup Readers) \ {t} : mine'[u] = mine[u]
    PROVE  Ids' /\ PendingIds' /\ Links' /\ HeadHash' = HeadHash
<1>1. nextRowId \in Nat /\ nextRowId >= 2
  BY DEF IInv, Shape
<1>2. Ids'
  BY <1>1 DEF IInv, Ids
<1>3. Links' /\ HeadHash' = HeadHash
  BY DEF IInv, Links, Chained, HashBefore, HeadHash, OwnRows
<1>4. \A u \in (Writers \cup Readers) \ {t} : at'[u] = at[u]
  BY DEF IInv, Shape
<1>5. PendingIds'
  <2> SUFFICES ASSUME NEW u \in Writers \cup Readers, Pending(u)'
               PROVE  /\ mine'[u].id \in 2..nextRowId
                      /\ \A r \in logRows : r.id # mine'[u].id
                      /\ \A v \in (Writers \cup Readers) \ {u} :
                             Pending(v)' => mine'[v].id # mine'[u].id
    BY <1>1 DEF PendingIds
  <2>1. \A v \in (Writers \cup Readers) \ {t} :
            Pending(v)' => Pending(v) /\ mine'[v].id \in 2..(nextRowId - 1)
    BY <1>4 DEF IInv, PendingIds, Pending
  <2>2. CASE u = t
    <3>1. \A r \in logRows : r.id # nextRowId
      BY <1>1 DEF IInv, Ids
    <3>2. \A v \in (Writers \cup Readers) \ {u} : Pending(v)' => mine'[v].id # nextRowId
      BY <1>1, <2>1, <2>2
    <3> QED
      BY <1>1, <2>2, <3>1, <3>2
  <2>3. CASE u # t
    <3>1. Pending(u) /\ mine'[u] = mine[u] /\ mine'[u].id \in 2..(nextRowId - 1)
      BY <2>1, <2>3
    <3>2. \A r \in logRows : r.id # mine'[u].id
      BY <3>1 DEF IInv, PendingIds
    <3>3. ASSUME NEW v \in (Writers \cup Readers) \ {u}, Pending(v)'
          PROVE  mine'[v].id # mine'[u].id
      <4>1. CASE v = t
        BY <1>1, <3>1, <4>1
      <4>2. CASE v # t
        BY <2>1, <3>1, <3>3, <4>2 DEF IInv, PendingIds
      <4> QED
        BY <4>1, <4>2
    <3> QED
      BY <1>1, <3>1, <3>2, <3>3
  <2> QED
    BY <2>2, <2>3
<1> QED
  BY <1>2, <1>3, <1>5

LEMMA InsertStep ==
    ASSUME IInv, NEW w \in Writers, InsertRow(w)
    PROVE  IInv'
<1>1. \A u \in Writers \ {w} : at[u] \notin InTransaction
  BY Alone DEF InsertRow, InTransaction
<1>2. Shape'
  BY <1>1 DEF IInv, Shape, InsertRow, InTransaction
<1>3. /\ mine'[w].id = nextRowId /\ mine'[w].chained /\ mine'[w].prev = mine[w].prev
      /\ mine'[w].hash = EntryHash(mine[w].prev, mine[w].event)
      /\ mine'[w].event = mine[w].event
  <2>1. /\ w \in DOMAIN mine
        /\ mine' = [mine EXCEPT ![w] =
               [id |-> nextRowId, prev |-> mine[w].prev, event |-> mine[w].event,
                hash |-> EntryHash(mine[w].prev, mine[w].event), chained |-> TRUE]]
    BY DEF InsertRow, IInv, Shape
  <2> QED
    BY <2>1
<1>4. \A u \in (Writers \cup Readers) \ {w} : mine'[u] = mine[u] /\ at'[u] = at[u]
  BY DEF InsertRow, IInv, Shape
<1>5. Ids' /\ PendingIds' /\ Links' /\ HeadHash' = HeadHash
  <2>1. ~Pending(w) /\ logRows' = logRows /\ nextRowId' = nextRowId + 1 /\ at' = [at EXCEPT ![w] = "inserted"]
    BY DEF InsertRow, Pending
  <2> QED
    BY <1>3, <1>4, <2>1, FreshId
<1>6. PendingRows'
  <2>1. \A r \in Readers : Pending(r)' => ~mine'[r].chained
    BY <1>4, WriterAssumption DEF IInv, PendingRows, Pending
  <2>2. \A u \in Writers \ {w} : at'[u] \notin {"read", "inserted"}
    BY <1>1, <1>4 DEF InTransaction
  <2>3. /\ mine'[w].prev \in {Genesis, HeadHash}
        /\ OwnRows => mine'[w].prev = HeadHash
    BY <1>3 DEF IInv, PendingRows, InsertRow
  <2>4. \A r \in Chained(logRows)' : r.id < mine'[w].id
    BY <1>3 DEF IInv, Ids, Shape, Chained, InsertRow
  <2> QED
    BY <1>3, <1>5, <2>1, <2>2, <2>3, <2>4 DEF PendingRows, Pending, OwnRows, InsertRow
<1> QED
  BY <1>2, <1>5, <1>6 DEF IInv

LEMMA LogReadStep ==
    ASSUME IInv, NEW r \in Readers, NEW e \in Events, LogRead(r, e)
    PROVE  IInv'
<1>1. Shape'
  BY WriterAssumption DEF IInv, Shape, LogRead, InTransaction
<1>2. mine'[r].id = nextRowId /\ ~mine'[r].chained
  BY DEF LogRead, IInv, Shape, NoRow
<1>3. \A u \in (Writers \cup Readers) \ {r} : mine'[u] = mine[u] /\ at'[u] = at[u]
  BY DEF LogRead, IInv, Shape
<1>4. Ids' /\ PendingIds' /\ Links' /\ HeadHash' = HeadHash
  <2>1. ~Pending(r) /\ logRows' = logRows /\ nextRowId' = nextRowId + 1 /\ at' = [at EXCEPT ![r] = "inserted"]
    BY DEF LogRead, Pending
  <2> QED
    BY <1>2, <1>3, <2>1, FreshId
<1>5. PendingRows'
  <2>1. \A q \in Readers : Pending(q)' => ~mine'[q].chained
    BY <1>2, <1>3 DEF IInv, PendingRows, Pending
  <2>2. \A u \in Writers : mine'[u] = mine[u] /\ at'[u] = at[u]
    BY <1>3, WriterAssumption
  <2>3. Chained(logRows)' = Chained(logRows)
    BY DEF LogRead, Chained
  <2> QED
    BY <1>4, <2>1, <2>2, <2>3 DEF IInv, PendingRows, Pending, OwnRows, LogRead
<1> QED
  BY <1>1, <1>4, <1>5 DEF IInv

\* Committing a pending row keeps the ids unique and the newest row definite.
LEMMA CommittedIds ==
    ASSUME IInv, NEW t \in Writers \cup Readers, Pending(t),
           logRows' = logRows \cup {mine[t]}, nextRowId' = nextRowId,
           at' = [at EXCEPT ![t] = "idle"],
           \A u \in (Writers \cup Readers) \ {t} : mine'[u] = mine[u]
    PROVE  Ids' /\ PendingIds'
<1> DEFINE n == mine[t]
<1>1. /\ n.id \in 2..(nextRowId - 1) /\ \A r \in logRows : r.id # n.id
      /\ nextRowId \in Nat /\ \A r \in logRows : r.id \in 1..(nextRowId - 1)
  BY DEF IInv, PendingIds, Ids, Shape
<1>2. Ids'
  <2>1. \A r \in logRows' : r.id \in 1..(nextRowId - 1)
    BY <1>1
  <2>2. \A r, s \in logRows' : r.id = s.id => r = s
    BY <1>1 DEF IInv, Ids
  <2>3. \E r \in logRows' : \A s \in logRows' : s.id <= r.id
    <3>1. CASE logRows = {}
      BY <1>1, <3>1
    <3>2. CASE logRows # {}
      <4>1. PICK top \in logRows : \A s \in logRows : s.id <= top.id
        BY <3>2 DEF IInv, Ids
      <4>2. top.id \in Nat /\ n.id \in Nat /\ \A s \in logRows : s.id \in Nat
        BY <1>1
      <4>3. CASE top.id <= n.id
        <5>1. \A s \in logRows' : s.id <= n.id
          BY <4>1, <4>2, <4>3
        <5> QED
          BY <5>1
      <4>4. CASE ~(top.id <= n.id)
        <5>1. \A s \in logRows' : s.id <= top.id
          BY <4>1, <4>2, <4>4
        <5> QED
          BY <5>1
      <4> QED
        BY <4>3, <4>4
    <3> QED
      BY <3>1, <3>2
  <2> QED
    BY <2>1, <2>2, <2>3 DEF IInv, Ids
<1>3. PendingIds'
  <2> SUFFICES ASSUME NEW u \in Writers \cup Readers, Pending(u)'
               PROVE  /\ mine'[u].id \in 2..(nextRowId - 1)
                      /\ \A r \in logRows' : r.id # mine'[u].id
                      /\ \A v \in (Writers \cup Readers) \ {u} :
                             Pending(v)' => mine'[v].id # mine'[u].id
    BY DEF PendingIds
  <2>1. \A v \in Writers \cup Readers :
            Pending(v)' => v # t /\ Pending(v) /\ mine'[v] = mine[v]
    BY DEF IInv, Shape, Pending
  <2>2. u # t /\ Pending(u) /\ mine'[u] = mine[u]
    BY <2>1
  <2>3. mine[t].id # mine[u].id
    BY <2>2 DEF IInv, PendingIds
  <2> QED
    BY <2>1, <2>2, <2>3 DEF IInv, PendingIds
<1> QED
  BY <1>2, <1>3

LEMMA CommitStep ==
    ASSUME IInv, NEW w \in Writers, CommitRow(w)
    PROVE  IInv'
<1> DEFINE n == mine[w]
<1>1. \A u \in Writers \ {w} : at[u] \notin InTransaction
  BY Alone DEF CommitRow, InTransaction
<1>2. Shape'
  BY <1>1 DEF IInv, Shape, CommitRow, Leave, InTransaction
<1>3. /\ n.chained /\ n.hash = EntryHash(n.prev, n.event)
      /\ \A r \in Chained(logRows) : r.id < n.id
      /\ n.prev \in {Genesis, HeadHash} /\ (OwnRows => n.prev = HeadHash)
  BY DEF IInv, PendingRows, Pending, CommitRow
<1>4. Ids' /\ PendingIds'
  <2>1. \A u \in (Writers \cup Readers) \ {w} : mine'[u] = mine[u]
    BY DEF CommitRow, Leave, IInv, Shape
  <2>2. /\ Pending(w) /\ logRows' = logRows \cup {mine[w]} /\ nextRowId' = nextRowId
        /\ at' = [at EXCEPT ![w] = "idle"]
    BY DEF CommitRow, Leave, Pending
  <2> QED
    BY <1>3, <2>1, <2>2, CommittedIds
<1>5. n.id \in Nat /\ \A r \in logRows : r.id \in Nat
  BY DEF IInv, PendingIds, Pending, CommitRow, Ids, Shape
<1>6. /\ \A r \in Chained(logRows) : HashBefore(logRows \cup {n}, r.id) = HashBefore(logRows, r.id)
      /\ HashBefore(logRows \cup {n}, n.id) = HeadHash
      /\ Chained(logRows \cup {n}) = Chained(logRows) \cup {n}
  BY <1>3, <1>5, HashBeforeKept DEF HeadHash
<1>7. Links'
  <2>1. logRows' = logRows \cup {n}
    BY DEF CommitRow
  <2> SUFFICES ASSUME NEW r \in Chained(logRows \cup {n})
               PROVE  /\ r.prev \in {Genesis, HashBefore(logRows \cup {n}, r.id)}
                      /\ OwnRows' => r.prev = HashBefore(logRows \cup {n}, r.id)
                      /\ r.hash = EntryHash(r.prev, r.event)
    BY <2>1 DEF Links
  <2>4. OwnRows' => OwnRows
    BY <2>1 DEF OwnRows
  <2>2. CASE r \in Chained(logRows)
    BY <1>6, <2>2, <2>4 DEF IInv, Links
  <2>3. CASE r = n
    BY <1>3, <1>6, <2>3, <2>4
  <2> QED
    BY <1>6, <2>2, <2>3
<1>8. PendingRows'
  <2>1. \A u \in Writers : at'[u] \notin {"read", "inserted"}
    BY <1>1 DEF CommitRow, Leave, IInv, Shape, InTransaction
  <2>2. \A r \in Readers : Pending(r)' => ~mine'[r].chained
    BY WriterAssumption DEF IInv, Shape, PendingRows, Pending, CommitRow, Leave
  <2> QED
    BY <2>1, <2>2 DEF PendingRows, Pending
<1> QED
  BY <1>2, <1>4, <1>7, <1>8 DEF IInv

LEMMA CommitReadStep ==
    ASSUME IInv, NEW r \in Readers, CommitRead(r)
    PROVE  IInv'
<1> DEFINE n == mine[r]
<1>1. Shape'
  BY WriterAssumption DEF IInv, Shape, CommitRead, InTransaction
<1>2. ~n.chained
  BY DEF IInv, PendingRows, Pending, CommitRead
<1>3. Ids' /\ PendingIds'
  <2>1. \A u \in (Writers \cup Readers) \ {r} : mine'[u] = mine[u]
    BY DEF CommitRead, IInv, Shape
  <2>2. /\ Pending(r) /\ logRows' = logRows \cup {mine[r]} /\ nextRowId' = nextRowId
        /\ at' = [at EXCEPT ![r] = "idle"]
    BY DEF CommitRead, Pending
  <2> QED
    BY <2>1, <2>2, CommittedIds
<1>4. Chained(logRows)' = Chained(logRows)
  BY <1>2 DEF Chained, CommitRead
<1>5. ~OwnRows' \/ OwnRows
  BY DEF CommitRead, OwnRows
<1>7. Links' /\ HeadHash' = HeadHash
  BY <1>4, <1>5 DEF IInv, Links, HashBefore, HeadHash
<1>6. PendingRows'
  <2>1. \A q \in Readers : Pending(q)' => Pending(q) /\ mine'[q] = mine[q]
    BY DEF IInv, Shape, Pending, CommitRead
  <2>2. \A u \in Writers : mine'[u] = mine[u] /\ at'[u] = at[u]
    BY WriterAssumption DEF IInv, Shape, CommitRead
  <2> QED
    BY <1>4, <1>5, <1>7, <2>1, <2>2 DEF IInv, PendingRows, Pending
<1> QED
  BY <1>1, <1>3, <1>6, <1>7 DEF IInv

-----------------------------------------------------------------------------
\* Every step keeps the invariant.
THEOREM ChainInvariant == AcSpec => []IInv
<1>1. AcInit => IInv
  BY IInvInit
<1>2. IInv /\ [AcNext]_acVars => IInv'
  <2> SUFFICES ASSUME IInv, [AcNext]_acVars
               PROVE  IInv'
    OBVIOUS
  <2>1. ASSUME NEW w \in Writers, Write(w) \/ \E e \in Events : Call(w, e)
        PROVE  IInv'
    BY <2>1, LockSteps, ReadTipStep, InsertStep, CommitStep DEF Write
  <2>2. ASSUME NEW r \in Readers, CommitRead(r) \/ \E e \in Events : LogRead(r, e)
        PROVE  IInv'
    BY <2>2, CommitReadStep, LogReadStep
  <2>3. ASSUME NEW p \in Processes, Die(p)
        PROVE  IInv'
    BY <2>3, DieStep
  <2>4. CASE UNCHANGED acVars
    BY <2>4 DEF acVars, IInv, Shape, Ids, PendingIds, PendingRows, Links, Pending,
                HeadHash, Chained, HashBefore, OwnRows
  <2> QED
    BY <2>1, <2>2, <2>3, <2>4 DEF AcNext
<1> QED
  BY <1>1, <1>2, PTL DEF AcSpec

\* With the backend's rows in the table too, the chain never forks: each chained
\* row follows the one before it or starts at genesis.
THEOREM NeverForks == AcSpec => []LinksOrRestarts
<1>1. IInv => LinksOrRestarts
  BY DEF IInv, Links, LinksOrRestarts
<1> QED
  BY <1>1, ChainInvariant, PTL

\* As long as no row of the backend is in the table, verify_audit_chain accepts
\* it whatever the interleaving and the crashes of the MCP processes.
THEOREM OwnRowsAlwaysVerify == AcSpec => []OwnRowsVerify
<1>1. IInv => OwnRowsVerify
  BY DEF IInv, Links, OwnRowsVerify, verify, LinkHolds
<1> QED
  BY <1>1, ChainInvariant, PTL
-----------------------------------------------------------------------------
(* What verify_audit_chain notices *)

\* What is asked of SHA-256: rows that differ have different hashes behind the
\* same row, and no row repeats the hash it points to.
CollisionFree ==
    /\ \A h, e, f : e # f => Hash(h, e) # Hash(h, f)
    /\ \A h, e : Hash(h, e) # h

\* Ids are well-founded: of the rows behind a row one comes first.
LEMMA LeastNumber ==
    ASSUME NEW T \in SUBSET Nat, T # {}
    PROVE  \E m \in T : \A n \in T : m <= n
<1> DEFINE R == OpToRel(<, Nat)
<1>1. IsWellFoundedOn(R, Nat)
  BY NatLessThanWellFounded DEF OpToRel
<1>2. PICK m \in T : \A n \in T : <<n, m>> \notin R
  <2> HIDE DEF R
  <2> QED
    BY <1>1, WFMin
<1>3. ASSUME NEW n \in T, n < m
      PROVE  FALSE
  BY <1>2, <1>3 DEF OpToRel
<1> QED
  BY <1>3

LEMMA NextRow ==
    ASSUME IInv, NEW r \in Chained(logRows), r # Newest(Chained(logRows))
    PROVE  \E s \in Chained(logRows) :
              r.id < s.id /\ \A t \in Chained(logRows) : r.id < t.id => s.id <= t.id
<1> DEFINE T == {s \in Chained(logRows) : r.id < s.id}
           N == {s.id : s \in T}
<1>1. \A s \in Chained(logRows) : s.id \in Nat
  BY DEF IInv, Shape, Ids, Chained
<1>2. \A s, t \in Chained(logRows) : s.id = t.id => s = t
  BY DEF IInv, Ids, Chained
<1>3. PICK s \in Chained(logRows) : ~(s.id <= r.id)
  BY <1>1, <1>2, NewestIs
<1>4. s \in T /\ N \in SUBSET Nat
  BY <1>1, <1>3
<1>5. PICK m \in N : \A n \in N : m <= n
  <2>1. N # {}
    BY <1>4
  <2> HIDE DEF N
  <2> QED
    BY <1>4, <2>1, LeastNumber
<1> QED
  BY <1>5

\* An edit breaks the row's own link, a removal the link of the row behind it.
LEMMA ChangeShows ==
    ASSUME CollisionFree, IInv
    PROVE  ChangeDetected
<1> SUFFICES ASSUME verify(logRows), NEW r \in Chained(logRows)
             PROVE  /\ \A e \in (Events \cup {Null}) \ {r.event} :
                          ~verify((logRows \ {r}) \cup {[r EXCEPT !.event = e]})
                    /\ r # Newest(Chained(logRows)) => ~verify(logRows \ {r})
  BY DEF ChangeDetected
<1>1. r.hash = Hash(r.prev, r.event) /\ r.prev = HashBefore(logRows, r.id)
  BY DEF verify, LinkHolds, EntryHash
<1>2. ASSUME NEW e, e # r.event, verify((logRows \ {r}) \cup {[r EXCEPT !.event = e]})
      PROVE  FALSE
  <2> DEFINE x == [r EXCEPT !.event = e]
  <2>1. x.prev = r.prev /\ x.hash = r.hash /\ x.event = e /\ x.chained
    BY DEF Chained
  <2>2. x \in Chained((logRows \ {r}) \cup {x})
    BY <2>1 DEF Chained
  <2>3. x.hash = Hash(x.prev, x.event)
    BY <1>2, <2>2 DEF verify, LinkHolds, EntryHash
  <2> QED
    BY <1>1, <1>2, <2>1, <2>3 DEF CollisionFree
<1>3. ASSUME r # Newest(Chained(logRows)), verify(logRows \ {r})
      PROVE  FALSE
  <2>1. PICK s \in Chained(logRows) :
          r.id < s.id /\ \A t \in Chained(logRows) : r.id < t.id => s.id <= t.id
    BY <1>3, NextRow
  <2> DEFINE earlier == {t \in Chained(logRows) : t.id < s.id}
  <2>2. /\ \A t \in Chained(logRows) : t.id \in Nat
        /\ \A t, u \in Chained(logRows) : t.id = u.id => t = u
    BY DEF IInv, Shape, Ids, Chained
  <2>3. r \in earlier /\ \A t \in earlier : t.id <= r.id
    BY <2>1, <2>2
  <2>4. Newest(earlier) = r
    <3>1. \A t \in earlier : t.id \in Nat
      BY <2>2
    <3>2. \A t, u \in earlier : t.id = u.id => t = u
      BY <2>2
    <3> HIDE DEF earlier
    <3> QED
      BY <2>3, <3>1, <3>2, NewestIs
  <2>5. HashBefore(logRows, s.id) = r.hash
    BY <2>3, <2>4 DEF HashBefore
  <2>6. {t \in Chained(logRows \ {r}) : t.id < s.id} = {t \in Chained(logRows) : t.id < r.id}
    BY <2>1, <2>2 DEF Chained
  <2>7. HashBefore(logRows \ {r}, s.id) = HashBefore(logRows, r.id)
    BY <2>6 DEF HashBefore
  <2>8. s \in Chained(logRows \ {r})
    BY <2>1, <2>2 DEF Chained
  <2>9. s.prev = r.prev
    BY <1>1, <1>3, <2>7, <2>8 DEF verify, LinkHolds
  <2>10. s.prev = r.hash
    BY <2>1, <2>5 DEF verify, LinkHolds
  <2> QED
    BY <1>1, <2>9, <2>10 DEF CollisionFree
<1> QED
  BY <1>2, <1>3

\* verify_audit_chain notices every edit of a row and the removal of every row
\* but the newest, in a table any number of processes has written, as far as
\* SHA-256 has no collision (audit.py: compute_entry_hash, verify_audit_chain).
THEOREM ChangeAlwaysDetected ==
    ASSUME CollisionFree
    PROVE  AcSpec => []ChangeDetected
<1>1. IInv => ChangeDetected
  BY ChangeShows
<1> QED
  BY <1>1, ChainInvariant, PTL
=============================================================================
