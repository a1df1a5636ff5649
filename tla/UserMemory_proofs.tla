--------------------------- MODULE UserMemory_proofs ---------------------------
(***************************************************************************)
(* The audit trail of the user memory is sound, and its rows have one      *)
(* writer at a time; overlapping saves overrun its limits by less than one *)
(* fact per session; a transaction alone on its key does what it says: for *)
(* any number of sessions, keys and rows.                                  *)
(***************************************************************************)
EXTENDS UserMemory, FiniteSetTheorems, WellFoundedInduction, TLAPS

Saving == {"inserted", "superseding", "trimming"}
Updating == {"superseding", "trimming", "unsetting"}

\* What transaction t sees of a row, with `table` the committed rows.
Seen(t, table, i) == IF i \in DOMAIN t.mine THEN t.mine[i] ELSE table[i]

KeysKept(t, table) ==
    \A i \in DOMAIN t.mine : i \in DOMAIN table => t.mine[i].key = table[i].key

\* Where a row that t has locked points to.
Points(t, table) ==
    \A i \in DOMAIN t.mine :
        \/ t.mine[i].by \in {0, i}
        \/ t.pc \in Saving /\ t.mine[i].by = t.id /\ t.mine[i].key = t.key
        \/ t.mine[i].by \in DOMAIN table /\ table[t.mine[i].by].key = t.mine[i].key

Dates(t) ==
    \A i \in DOMAIN t.mine :
        IF t.pc = "unsetting" THEN t.mine[i].dated
        ELSE t.mine[i].dated <=> t.mine[i].by # 0

Inserted(t, table) ==
    t.pc \in Saving => /\ t.id \in DOMAIN t.mine
                       /\ t.id \notin DOMAIN table
                       /\ t.mine[t.id].key = t.key

Candidates(t, table) ==
    \A i \in t.todo :
        /\ t.pc \in Updating
        /\ i \in DOMAIN t.mine \cup DOMAIN table
        /\ t.pc # "trimming" => Seen(t, table, i).key = t.key

TxSound(t, table) ==
    /\ KeysKept(t, table) /\ Points(t, table) /\ Dates(t)
    /\ Inserted(t, table) /\ Candidates(t, table)

\* Two records that differ at most in history.
Same(t, u) ==
    /\ t.pc = u.pc /\ t.id = u.id /\ t.key = u.key
    /\ t.todo = u.todo /\ t.mine = u.mine

Below ==
    /\ Committed \subseteq 1..(nextId - 1)
    /\ \A s \in Sessions : Held(s) \subseteq 1..(nextId - 1)

Inv == TypeOK /\ Below /\ TrailSound /\ \A s \in Sessions : TxSound(tx[s], rows)

-----------------------------------------------------------------------------
\* A table of versions maps some of the ids to rows.
LEMMA VersionsAre ==
    ASSUME NEW f \in Versions
    PROVE  /\ DOMAIN f \subseteq 1..MaxId
           /\ \A i \in DOMAIN f : f[i] \in Row
           /\ f = [i \in DOMAIN f |-> f[i]]
<1>1. PICK ids \in SUBSET (1..MaxId) : f \in [ids -> Row]
  BY DEF Versions
<1> QED
  BY <1>1

LEMMA VersionsIntro ==
    ASSUME NEW ids \in SUBSET (1..MaxId), NEW f \in [ids -> Row]
    PROVE  f \in Versions
BY DEF Versions

LEMMA RangeGrows ==
    ASSUME NEW a \in Nat, NEW b \in Nat, a <= b
    PROVE  1..(a - 1) \subseteq 1..(b - 1)
OBVIOUS

\* The record of an idle session is sound against any table.
LEMMA IdleSound ==
    ASSUME NEW table
    PROVE  Idle \in Tx /\ DOMAIN Idle.mine = {} /\ Idle.todo = {} /\ TxSound(Idle, table)
<1>1. NoVersions \in [{} -> Row] /\ DOMAIN NoVersions = {}
  BY DEF NoVersions
<1>2. NoVersions \in Versions
  BY <1>1, VersionsIntro
<1>3. Idle \in Tx
  BY <1>2, MemoryAssumption DEF Idle, Tx
<1>4. Idle.mine = NoVersions /\ Idle.todo = {} /\ Idle.pc = "idle"
  BY DEF Idle
<1> QED
  BY <1>1, <1>3, <1>4
  DEF TxSound, KeysKept, Points, Dates, Inserted, Candidates, Saving

THEOREM InitInv == Init => Inv
<1> SUFFICES ASSUME Init PROVE Inv
  OBVIOUS
<1>1. \A s \in Sessions : tx[s] = Idle
  BY DEF Init
<1>2. rows = NoVersions /\ DOMAIN rows = {} /\ nextId = 1
  BY DEF Init, NoVersions
<1>3. rows \in Versions
  <2>1. NoVersions \in [{} -> Row]
    BY DEF NoVersions
  <2> QED
    BY <1>2, <2>1, VersionsIntro
<1>4. tx \in [Sessions -> Tx]
  BY IdleSound DEF Init
<1>5. \A s \in Sessions : Held(s) = {}
  BY <1>1, IdleSound DEF Held
<1>6. TypeOK
  BY <1>2, <1>3, <1>4, <1>5, MemoryAssumption DEF TypeOK, Committed
<1>7. Below /\ TrailSound
  BY <1>2, <1>5 DEF Below, TrailSound, Committed
<1> QED
  BY <1>1, <1>6, <1>7, IdleSound DEF Inv

\* A step of s that leaves the committed rows alone keeps the invariant, if the
\* new record of s has its type, takes no row of another session, and is sound.
LEMMA LocalStep ==
    ASSUME Inv, NEW s \in Sessions, NEW t \in Tx, UNCHANGED rows,
           tx' \in [Sessions -> Tx], tx'[s] = t,
           \A u \in Sessions \ {s} :
               /\ Same(tx'[u], tx[u])
               /\ DOMAIN t.mine \cap Held(u) = {},
           nextId' \in 1..(MaxId + 1), nextId <= nextId',
           DOMAIN t.mine \subseteq 1..(nextId' - 1),
           \A i \in DOMAIN t.mine : i \in Committed \/ i = t.id,
           TxSound(t, rows)
    PROVE  Inv'
<1>0. nextId \in Nat /\ nextId' \in Nat
  BY MemoryAssumption DEF Inv, TypeOK
<1>1. \A u \in Sessions \ {s} :
          /\ tx'[u].pc = tx[u].pc /\ tx'[u].id = tx[u].id /\ tx'[u].key = tx[u].key
          /\ tx'[u].todo = tx[u].todo /\ tx'[u].mine = tx[u].mine
  BY DEF Same
<1>2. \A u \in Sessions \ {s} : Held(u)' = Held(u)
  BY <1>1 DEF Held
<1>3. Held(s)' = DOMAIN t.mine
  BY DEF Held
<1>4. TypeOK'
  <2>1. \A u, v \in Sessions : u # v => Held(u)' \cap Held(v)' = {}
    BY <1>2, <1>3 DEF Inv, TypeOK
  <2>2. \A u \in Sessions : \A i \in Held(u)' : i \in Committed' \/ i = tx'[u].id
    BY <1>1, <1>2, <1>3 DEF Inv, TypeOK, Committed
  <2> QED
    BY <2>1, <2>2 DEF Inv, TypeOK
<1>5. Below'
  <2>1. 1..(nextId - 1) \subseteq 1..(nextId' - 1)
    BY <1>0, RangeGrows
  <2> QED
    BY <1>2, <1>3, <2>1 DEF Inv, Below, Committed
<1>6. TrailSound'
  BY DEF Inv, TrailSound, Committed
<1>7. \A u \in Sessions \ {s} : TxSound(tx'[u], rows)
  BY <1>1 DEF Inv, TxSound, KeysKept, Points, Dates, Inserted, Candidates, Seen
<1> QED
  BY <1>4, <1>5, <1>6, <1>7 DEF Inv
\* A new transaction of s: the other sessions only learn that it overlaps them.
LEMMA BeginOthers ==
    ASSUME Inv, NEW s \in Sessions, NEW t \in Tx, Begin(s, t)
    PROVE  /\ tx' \in [Sessions -> Tx]
           /\ tx'[s] \in Tx /\ Same(tx'[s], t)
           /\ \A u \in Sessions \ {s} : Same(tx'[u], tx[u])
<1>1. tx'[s] = [t EXCEPT !.alone = Clash(s, t.key) = {}]
  BY DEF Begin
<1>2. tx'[s] \in Tx /\ Same(tx'[s], t)
  BY <1>1 DEF Tx, Same
<1>3. \A u \in Sessions \ {s} : tx'[u] \in Tx /\ Same(tx'[u], tx[u])
  <2> SUFFICES ASSUME NEW u \in Sessions \ {s}
               PROVE  tx'[u] \in Tx /\ Same(tx'[u], tx[u])
    OBVIOUS
  <2>1. tx[u] \in Tx
    BY DEF Inv, TypeOK
  <2>2. tx'[u] = [tx[u] EXCEPT !.alone = tx[u].alone /\ u \notin Clash(s, t.key)]
    BY DEF Begin
  <2> QED
    BY <2>1, <2>2 DEF Tx, Same
<1>4. tx' = [u \in Sessions |-> tx'[u]]
  BY DEF Begin
<1> QED
  BY <1>2, <1>3, <1>4

LEMMA InsertInv ==
    ASSUME Inv, NEW s \in Sessions, NEW k \in Keys, Insert(s, k)
    PROVE  Inv'
<1> DEFINE row == [key |-> k, by |-> 0, dated |-> FALSE]
           new == [i \in {nextId} |-> row]
           t == [Idle EXCEPT !.pc = "inserted", !.op = "save", !.key = k,
                             !.id = nextId, !.mine = new]
<1>1. nextId \in 1..MaxId /\ nextId' = nextId + 1 /\ UNCHANGED rows /\ Begin(s, t)
  BY MemoryAssumption DEF Insert, Inv, TypeOK
<1>2. new \in Versions
  <2>1. row \in Row
    BY MemoryAssumption DEF Row
  <2> QED
    BY <1>1, <2>1, VersionsIntro
<1>9. DOMAIN new = {nextId} /\ new[nextId] = row
  OBVIOUS
<1>3. /\ t \in Tx /\ t.mine = new /\ t.pc = "inserted" /\ t.id = nextId
      /\ t.key = k /\ t.todo = {}
  <2> HIDE DEF new
  <2>1. nextId \in 0..MaxId
    BY <1>1, MemoryAssumption
  <2>2. Idle \in Tx
    BY IdleSound
  <2>3. t \in Tx
    BY <1>2, <2>1, <2>2 DEF Tx
  <2> QED
    BY <2>3 DEF Idle
<1> HIDE DEF t
<1>4. nextId \notin Committed /\ \A u \in Sessions : nextId \notin Held(u)
  <2>1. nextId \notin 1..(nextId - 1)
    BY <1>1, MemoryAssumption
  <2> QED
    BY <2>1 DEF Inv, Below
<1>5. /\ tx' \in [Sessions -> Tx]
      /\ tx'[s] \in Tx /\ Same(tx'[s], t)
      /\ \A u \in Sessions \ {s} : Same(tx'[u], tx[u])
  BY <1>1, <1>3, BeginOthers
<1>6. TxSound(tx'[s], rows)
  <2>1. TxSound(t, rows)
    BY <1>3, <1>4 DEF TxSound, KeysKept, Points, Dates, Inserted, Candidates,
                      Saving, Committed
  <2> QED
    BY <1>5, <2>1 DEF Same, TxSound, KeysKept, Points, Dates, Inserted,
                      Candidates, Seen
<1>7. DOMAIN tx'[s].mine = {nextId} /\ tx'[s].id = nextId
  BY <1>3, <1>5 DEF Same
<1>8. nextId' \in 1..(MaxId + 1) /\ nextId <= nextId' /\ nextId \in 1..(nextId' - 1)
  BY <1>1, MemoryAssumption
<1> QED
  BY <1>1, <1>4, <1>5, <1>6, <1>7, <1>8, LocalStep

LEMMA ScanKeyInv ==
    ASSUME Inv, NEW s \in Sessions, NEW k \in Keys, ScanKey(s, k)
    PROVE  Inv'
<1> DEFINE t == [Idle EXCEPT !.pc = "unsetting", !.op = "forget", !.key = k,
                             !.todo = ActiveOf(rows, k)]
<1>1. UNCHANGED <<rows, nextId>> /\ Begin(s, t)
  BY DEF ScanKey
<1>2. ActiveOf(rows, k) \subseteq Committed /\ \A i \in ActiveOf(rows, k) : rows[i].key = k
  BY DEF ActiveOf, Active, Committed
<1>3. Committed \subseteq 1..MaxId
  BY VersionsAre DEF Inv, TypeOK, Committed
<1>4. /\ t \in Tx /\ DOMAIN t.mine = {} /\ t.pc = "unsetting" /\ t.key = k
      /\ t.todo = ActiveOf(rows, k)
  BY <1>2, <1>3, IdleSound DEF Tx, Idle
<1> HIDE DEF t
<1>5. /\ tx' \in [Sessions -> Tx]
      /\ tx'[s] \in Tx /\ Same(tx'[s], t)
      /\ \A u \in Sessions \ {s} : Same(tx'[u], tx[u])
  BY <1>1, <1>4, BeginOthers
<1>6. TxSound(tx'[s], rows)
  <2>1. TxSound(t, rows)
    BY <1>2, <1>4 DEF TxSound, KeysKept, Points, Dates, Inserted, Candidates,
                      Saving, Updating, Committed, Seen
  <2> QED
    BY <1>5, <2>1 DEF Same, TxSound, KeysKept, Points, Dates, Inserted,
                      Candidates, Seen
<1>7. DOMAIN tx'[s].mine = {}
  BY <1>4, <1>5 DEF Same
<1>8. nextId' \in 1..(MaxId + 1) /\ nextId <= nextId'
  BY <1>1, MemoryAssumption DEF Inv, TypeOK
<1> QED
  BY <1>1, <1>5, <1>6, <1>7, <1>8, LocalStep
\* A step that changes nothing but the record of s.
LEMMA OwnStep ==
    ASSUME Inv, NEW s \in Sessions, NEW t \in Tx, UNCHANGED <<rows, nextId>>,
           tx' = [tx EXCEPT ![s] = t],
           \A u \in Sessions \ {s} : DOMAIN t.mine \cap Held(u) = {},
           DOMAIN t.mine \subseteq 1..(nextId - 1),
           \A i \in DOMAIN t.mine : i \in Committed \/ i = t.id,
           TxSound(t, rows)
    PROVE  Inv'
<1>1. tx' \in [Sessions -> Tx] /\ tx'[s] = t
  BY DEF Inv, TypeOK
<1>2. \A u \in Sessions \ {s} : Same(tx'[u], tx[u])
  BY DEF Inv, TypeOK, Same
<1>3. nextId' = nextId /\ nextId \in 1..(MaxId + 1) /\ nextId <= nextId'
  BY MemoryAssumption DEF Inv, TypeOK
<1> QED
  BY <1>1, <1>2, <1>3, LocalStep

\* What a statement sees has the types and the ids of the table.
LEMMA VisibleIs ==
    ASSUME Inv, NEW s \in Sessions
    PROVE  /\ DOMAIN Visible(s) = Committed \cup Held(s)
           /\ Visible(s) \in Versions
           /\ \A i \in DOMAIN Visible(s) : /\ Visible(s)[i] = Seen(tx[s], rows, i)
                                          /\ Visible(s)[i] \in Row
           /\ DOMAIN Visible(s) \subseteq 1..MaxId
<1>1. rows \in Versions /\ tx[s].mine \in Versions
  BY DEF Inv, TypeOK, Tx
<1>2. Committed \cup Held(s) \subseteq 1..MaxId
  BY <1>1, VersionsAre DEF Committed, Held
<1>3. \A i \in Committed \cup Held(s) : /\ Visible(s)[i] = Seen(tx[s], rows, i)
                                       /\ Visible(s)[i] \in Row
  BY <1>1, VersionsAre DEF Visible, Committed, Held, Seen
<1>4. Visible(s) \in [Committed \cup Held(s) -> Row]
  BY <1>3 DEF Visible
<1> QED
  BY <1>2, <1>3, <1>4, VersionsIntro

\* The facts of Inv about the rows a session holds.
LEMMA HeldIs ==
    ASSUME Inv, NEW s \in Sessions
    PROVE  /\ tx[s] \in Tx /\ TxSound(tx[s], rows)
           /\ \A u \in Sessions \ {s} : DOMAIN tx[s].mine \cap Held(u) = {}
           /\ DOMAIN tx[s].mine \subseteq 1..(nextId - 1)
           /\ \A i \in DOMAIN tx[s].mine : i \in Committed \/ i = tx[s].id
BY DEF Inv, TypeOK, Below, Held

LEMMA ScanOlderInv ==
    ASSUME Inv, NEW s \in Sessions, ScanOlder(s)
    PROVE  Inv'
<1> DEFINE t == [tx[s] EXCEPT !.pc = "superseding", !.todo = Older(s)]
<1>1. /\ tx[s] \in Tx /\ tx[s].pc = "inserted" /\ UNCHANGED <<rows, nextId>>
      /\ tx' = [tx EXCEPT ![s] = t]
  BY DEF ScanOlder, Inv, TypeOK, Tx
<1>2. /\ Older(s) \subseteq 1..MaxId
      /\ \A i \in Older(s) : /\ i \in Committed \cup Held(s)
                            /\ Seen(tx[s], rows, i).key = tx[s].key
  BY VisibleIs DEF Older, ActiveOf, Active
<1>3. /\ t \in Tx /\ t.mine = tx[s].mine /\ t.id = tx[s].id /\ t.key = tx[s].key
      /\ t.pc = "superseding" /\ t.todo = Older(s)
  BY <1>1, <1>2 DEF Tx
<1> HIDE DEF t
<1>4. TxSound(t, rows)
  BY <1>1, <1>2, <1>3, HeldIs
  DEF TxSound, KeysKept, Points, Dates, Inserted, Candidates, Saving, Updating,
      Seen, Held, Committed
<1>5. /\ \A u \in Sessions \ {s} : DOMAIN t.mine \cap Held(u) = {}
      /\ DOMAIN t.mine \subseteq 1..(nextId - 1)
      /\ \A i \in DOMAIN t.mine : i \in Committed \/ i = t.id
  BY <1>3, HeldIs
<1> QED
  BY <1>1, <1>3, <1>4, <1>5, OwnStep

LEMMA ScanBeyondCapInv ==
    ASSUME Inv, NEW s \in Sessions, ScanBeyondCap(s)
    PROVE  Inv'
<1> DEFINE t == [tx[s] EXCEPT !.pc = "trimming", !.todo = BeyondCap(s)]
<1>1. /\ tx[s] \in Tx /\ tx[s].pc = "superseding" /\ UNCHANGED <<rows, nextId>>
      /\ tx' = [tx EXCEPT ![s] = t]
  BY DEF ScanBeyondCap, Inv, TypeOK, Tx
<1>2. BeyondCap(s) \subseteq 1..MaxId /\ BeyondCap(s) \subseteq Committed \cup Held(s)
  <2>1. BeyondCap(s) \subseteq DOMAIN Visible(s)
    BY DEF BeyondCap, Active
  <2> QED
    BY <2>1, VisibleIs
<1>3. /\ t \in Tx /\ t.mine = tx[s].mine /\ t.id = tx[s].id /\ t.key = tx[s].key
      /\ t.pc = "trimming" /\ t.todo = BeyondCap(s)
  BY <1>1, <1>2 DEF Tx
<1> HIDE DEF t
<1>4. TxSound(t, rows)
  BY <1>1, <1>2, <1>3, HeldIs
  DEF TxSound, KeysKept, Points, Dates, Inserted, Candidates, Saving, Updating,
      Seen, Held, Committed
<1>5. /\ \A u \in Sessions \ {s} : DOMAIN t.mine \cap Held(u) = {}
      /\ DOMAIN t.mine \subseteq 1..(nextId - 1)
      /\ \A i \in DOMAIN t.mine : i \in Committed \/ i = t.id
  BY <1>3, HeldIs
<1> QED
  BY <1>1, <1>3, <1>4, <1>5, OwnStep

LEMMA FailInv ==
    ASSUME Inv, NEW s \in Sessions, Fail(s)
    PROVE  Inv'
BY IdleSound, OwnStep DEF Fail, Ends

LEMMA RetireInv ==
    ASSUME Inv, NEW s \in Sessions, Retire(s)
    PROVE  Inv'
<1> DEFINE row(i) == [tx[s].mine[i] EXCEPT !.by = IF @ = 0 THEN i ELSE @]
           new == [i \in Held(s) |-> row(i)]
           t == [tx[s] EXCEPT !.pc = "retired", !.mine = new]
<1>1. /\ tx[s] \in Tx /\ tx[s].pc = "unsetting" /\ tx[s].todo = {}
      /\ UNCHANGED <<rows, nextId>> /\ tx' = [tx EXCEPT ![s] = t]
  BY DEF Retire, Inv, TypeOK, Tx
<1>2. Held(s) \subseteq 1..MaxId /\ \A i \in Held(s) : tx[s].mine[i] \in Row
  BY <1>1, VersionsAre DEF Tx, Held
<1>3. \A i \in Held(s) :
          /\ row(i) \in Row /\ row(i).key = tx[s].mine[i].key
          /\ row(i).dated = tx[s].mine[i].dated
          /\ row(i).by = IF tx[s].mine[i].by = 0 THEN i ELSE tx[s].mine[i].by
  BY <1>2, MemoryAssumption DEF Row
<1>4. new \in Versions /\ DOMAIN new = Held(s) /\ \A i \in Held(s) : new[i] = row(i)
  BY <1>2, <1>3, VersionsIntro
<1> HIDE DEF row, new
<1>5. /\ t \in Tx /\ t.mine = new /\ t.id = tx[s].id /\ t.key = tx[s].key
      /\ t.pc = "retired" /\ t.todo = {}
  BY <1>1, <1>4 DEF Tx
<1> HIDE DEF t
<1>6. TxSound(t, rows)
  <2>1. \A i \in Held(s) : /\ t.mine[i].key = tx[s].mine[i].key
                           /\ t.mine[i].dated = tx[s].mine[i].dated
                           /\ t.mine[i].by = IF tx[s].mine[i].by = 0 THEN i
                                             ELSE tx[s].mine[i].by
    BY <1>3, <1>4, <1>5
  <2>2. DOMAIN t.mine = Held(s)
    BY <1>4, <1>5
  <2>3. \A i \in Held(s) : i # 0
    BY <1>2
  <2>4. KeysKept(t, rows) /\ Inserted(t, rows) /\ Candidates(t, rows)
    BY <1>5, <2>1, <2>2, HeldIs
    DEF TxSound, KeysKept, Inserted, Candidates, Saving, Held
  <2>5. Points(t, rows)
    BY <1>1, <1>5, <2>1, <2>2, HeldIs DEF TxSound, Points, Saving, Held
  <2>6. Dates(t)
    BY <1>1, <1>5, <2>1, <2>2, <2>3, HeldIs DEF TxSound, Dates, Held
  <2> QED
    BY <2>4, <2>5, <2>6 DEF TxSound
<1>7. DOMAIN t.mine = DOMAIN tx[s].mine
  BY <1>4, <1>5 DEF Held
<1> QED
  BY <1>1, <1>5, <1>6, <1>7, HeldIs, OwnStep
LEMMA RewriteInv ==
    ASSUME Inv, NEW s \in Sessions, Rewrite(s)
    PROVE  Inv'
<1>1. PICK i \in tx[s].todo :
          /\ ~HeldByOther(s, i)
          /\ tx' = [tx EXCEPT ![s].todo = @ \ {i},
                              ![s].mine = Overlay(s, i, Rewritten(s, i))]
          /\ UNCHANGED <<rows, nextId>>
  BY DEF Rewrite
<1> DEFINE old == Visible(s)[i]
           row == Rewritten(s, i)
           new == Overlay(s, i, row)
           t == [tx[s] EXCEPT !.todo = tx[s].todo \ {i}, !.mine = new]
<1>2. tx[s] \in Tx /\ tx' = [tx EXCEPT ![s] = t]
  BY <1>1 DEF Inv, TypeOK
<1>3. /\ tx[s].pc \in Updating /\ i \in Committed \cup Held(s) /\ i \in 1..MaxId
      /\ tx[s].pc # "trimming" => Seen(tx[s], rows, i).key = tx[s].key
  BY <1>2, HeldIs DEF TxSound, Candidates, Committed, Held, Tx
<1>4. old = Seen(tx[s], rows, i) /\ old \in Row
  BY <1>3, VisibleIs
<1>5. Mark(s, i) \in {0, i, tx[s].id} /\ Mark(s, i) \in 0..MaxId
  BY <1>2, <1>3, MemoryAssumption DEF Mark, Updating, Tx
<1>6. row \in Row /\ row.key = old.key
  BY <1>4, <1>5 DEF Row, Rewritten
<1>7. \/ StillMatches(s, i) /\ row.by = Mark(s, i) /\ row.dated
      \/ ~StillMatches(s, i) /\ row = old
  BY <1>4 DEF Row, Rewritten
<1> HIDE DEF row, old
<1>8. /\ DOMAIN new = Held(s) \cup {i} /\ new[i] = row
      /\ \A j \in Held(s) \ {i} : new[j] = tx[s].mine[j]
  BY DEF Overlay
<1>9. new \in Versions
  <2>1. Held(s) \subseteq 1..MaxId /\ \A j \in Held(s) : tx[s].mine[j] \in Row
    BY <1>2, VersionsAre DEF Tx, Held
  <2>2. new \in [Held(s) \cup {i} -> Row]
    BY <1>6, <2>1 DEF Overlay
  <2>3. Held(s) \cup {i} \in SUBSET (1..MaxId)
    BY <1>3, <2>1
  <2> QED
    BY <2>2, <2>3, VersionsIntro
<1> HIDE DEF new
<1>10. /\ t \in Tx /\ t.mine = new /\ t.id = tx[s].id /\ t.key = tx[s].key
       /\ t.pc = tx[s].pc /\ t.todo = tx[s].todo \ {i}
  BY <1>2, <1>9 DEF Tx
<1> HIDE DEF t
<1>11. TxSound(t, rows)
  <2>1. /\ DOMAIN t.mine = DOMAIN tx[s].mine \cup {i} /\ t.mine[i] = row
        /\ \A j \in DOMAIN tx[s].mine \ {i} : t.mine[j] = tx[s].mine[j]
    BY <1>8, <1>10 DEF Held
  <2>2. /\ i \in DOMAIN tx[s].mine => row.key = tx[s].mine[i].key
        /\ i \in DOMAIN rows => row.key = rows[i].key
    BY <1>4, <1>6, HeldIs DEF Seen, TxSound, KeysKept
  <2>3. KeysKept(t, rows)
    BY <2>1, <2>2, HeldIs DEF TxSound, KeysKept
  <2>4. Inserted(t, rows)
    BY <1>10, <2>1, <2>2, HeldIs DEF TxSound, Inserted
  <2>5. Candidates(t, rows)
    <3>1. \A j \in t.todo : Seen(t, rows, j) = Seen(tx[s], rows, j)
      BY <1>10, <2>1 DEF Seen
    <3> QED
      BY <1>10, <2>1, <3>1, HeldIs DEF TxSound, Candidates
  <2>6. \/ row.by \in {0, i}
        \/ t.pc \in Saving /\ row.by = t.id /\ row.key = t.key
        \/ row.by \in DOMAIN rows /\ rows[row.by].key = row.key
    <3>1. CASE StillMatches(s, i)
      BY <1>3, <1>4, <1>6, <1>7, <1>10, <3>1 DEF Mark, Updating, Saving
    <3>2. CASE ~StillMatches(s, i) /\ i \in DOMAIN tx[s].mine
      <4>1. row = tx[s].mine[i]
        BY <1>4, <1>7, <3>2 DEF Seen
      <4> QED
        BY <1>10, <3>2, <4>1, HeldIs DEF TxSound, Points
    <3>3. CASE ~StillMatches(s, i) /\ i \notin DOMAIN tx[s].mine
      <4>1. row = rows[i] /\ i \in Committed
        BY <1>3, <1>4, <1>7, <3>3 DEF Seen, Held
      <4> QED
        BY <4>1 DEF Inv, TrailSound, Committed
    <3> QED
      BY <3>1, <3>2, <3>3
  <2>7. IF t.pc = "unsetting" THEN row.dated ELSE row.dated <=> row.by # 0
    <3>0. i # 0 /\ (tx[s].pc \in Saving => tx[s].id # 0)
      <4>1. tx[s].pc \in Saving => tx[s].id \in 1..(nextId - 1)
        BY HeldIs DEF TxSound, Inserted
      <4> QED
        BY <1>3, <4>1, MemoryAssumption DEF Inv, TypeOK
    <3>1. CASE StillMatches(s, i)
      BY <1>3, <1>7, <1>10, <3>0, <3>1 DEF Mark, Updating, Saving
    <3>2. CASE ~StillMatches(s, i)
      <4>1. row = old /\ old.by # 0 /\ tx[s].pc # "trimming"
        BY <1>7, <3>2 DEF StillMatches, old
      <4>2. CASE i \in DOMAIN tx[s].mine
        BY <1>4, <1>10, <4>1, <4>2, HeldIs DEF Seen, TxSound, Dates
      <4>3. CASE i \notin DOMAIN tx[s].mine
        BY <1>3, <1>4, <4>1, <4>3 DEF Seen, Held, Inv, TrailSound
      <4> QED
        BY <4>2, <4>3
    <3> QED
      BY <3>1, <3>2
  <2>8. Points(t, rows)
    BY <1>10, <2>1, <2>6, HeldIs DEF TxSound, Points
  <2>9. Dates(t)
    BY <1>10, <2>1, <2>7, HeldIs DEF TxSound, Dates
  <2> QED
    BY <2>3, <2>4, <2>5, <2>8, <2>9 DEF TxSound
<1>12. /\ \A u \in Sessions \ {s} : DOMAIN t.mine \cap Held(u) = {}
       /\ DOMAIN t.mine \subseteq 1..(nextId - 1)
       /\ \A j \in DOMAIN t.mine : j \in Committed \/ j = t.id
  <2>1. DOMAIN t.mine = DOMAIN tx[s].mine \cup {i}
    BY <1>8, <1>10 DEF Held
  <2>2. \A u \in Sessions \ {s} : i \notin Held(u)
    BY <1>1 DEF HeldByOther
  <2>3. i \in 1..(nextId - 1)
    BY <1>3 DEF Inv, Below
  <2>4. i \in Committed \/ i \in DOMAIN tx[s].mine
    BY <1>3 DEF Held
  <2> QED
    BY <1>10, <2>1, <2>2, <2>3, <2>4, HeldIs
<1> QED
  BY <1>1, <1>2, <1>10, <1>11, <1>12, OwnStep
LEMMA CommitInv ==
    ASSUME Inv, NEW s \in Sessions, Commit(s)
    PROVE  Inv'
<1> DEFINE v == Visible(s)
<1>1. rows' = v /\ tx' = [tx EXCEPT ![s] = Idle] /\ UNCHANGED nextId /\ Finished(s)
  BY DEF Commit, Ends
<1>2. /\ v \in Versions /\ DOMAIN v = Committed \cup Held(s)
      /\ \A i \in Held(s) : v[i] = tx[s].mine[i]
      /\ \A i \in Committed \ Held(s) : v[i] = rows[i]
  BY VisibleIs DEF Seen, Held
<1> HIDE DEF v
<1>3. \A i \in Committed : i \in DOMAIN v /\ v[i].key = rows[i].key
  BY <1>2, HeldIs DEF TxSound, KeysKept, Held, Committed
<1>4. /\ tx' \in [Sessions -> Tx] /\ tx'[s] = Idle /\ Held(s)' = {}
      /\ \A u \in Sessions \ {s} : tx'[u] = tx[u] /\ Held(u)' = Held(u)
  BY <1>1, IdleSound DEF Inv, TypeOK, Held
<1>5. TypeOK'
  <2>1. \A u, w \in Sessions : u # w => Held(u)' \cap Held(w)' = {}
    BY <1>4 DEF Inv, TypeOK
  <2>2. Committed' = Committed \cup Held(s)
    BY <1>1, <1>2 DEF Committed
  <2>3. \A u \in Sessions : \A i \in Held(u)' : i \in Committed' \/ i = tx'[u].id
    BY <1>4, <2>2 DEF Inv, TypeOK
  <2> QED
    BY <1>1, <1>2, <1>4, <2>1, <2>3 DEF Inv, TypeOK
<1>6. Below'
  BY <1>1, <1>2, <1>4 DEF Inv, Below, Committed
<1>7. TrailSound'
  <2> SUFFICES ASSUME NEW i \in DOMAIN v
               PROVE  /\ v[i].by # 0 <=> v[i].dated
                      /\ v[i].by # 0 => /\ v[i].by \in DOMAIN v
                                        /\ v[v[i].by].key = v[i].key
    BY <1>1 DEF TrailSound, Committed
  <2>1. CASE i \in Held(s)
    <3>1. v[i].by # 0 <=> v[i].dated
      BY <1>1, <1>2, <2>1, HeldIs DEF TxSound, Dates, Finished, Unset, Held
    <3>2. ASSUME v[i].by # 0, v[i].by # i
          PROVE  v[i].by \in DOMAIN v /\ v[v[i].by].key = v[i].key
      <4>1. CASE /\ tx[s].pc \in Saving /\ v[i].by = tx[s].id
                 /\ v[i].key = tx[s].key
        BY <1>2, <4>1, HeldIs DEF TxSound, Inserted, Held
      <4>2. CASE v[i].by \in DOMAIN rows /\ rows[v[i].by].key = v[i].key
        BY <1>3, <4>2 DEF Committed
      <4> QED
        BY <1>2, <2>1, <3>2, <4>1, <4>2, HeldIs DEF TxSound, Points, Held
    <3> QED
      BY <3>1, <3>2
  <2>2. CASE i \in Committed \ Held(s)
    BY <1>2, <1>3, <2>2 DEF Inv, TrailSound
  <2> QED
    BY <1>2, <2>1, <2>2
<1>8. \A u \in Sessions \ {s} : TxSound(tx[u], v)
  <2> SUFFICES ASSUME NEW u \in Sessions \ {s} PROVE TxSound(tx[u], v)
    OBVIOUS
  <2>1. \A i \in DOMAIN tx[u].mine : i \in DOMAIN v => i \in DOMAIN rows
    BY <1>2, HeldIs DEF Held, Committed
  <2>2. KeysKept(tx[u], v) /\ Inserted(tx[u], v)
    BY <1>3, <2>1, HeldIs DEF TxSound, KeysKept, Inserted, Committed
  <2>3. Points(tx[u], v)
    BY <1>3, HeldIs DEF TxSound, Points, Committed
  <2>4. Candidates(tx[u], v)
    BY <1>3, HeldIs DEF TxSound, Candidates, Seen, Committed
  <2> QED
    BY <2>2, <2>3, <2>4, HeldIs DEF TxSound
<1> QED
  BY <1>1, <1>4, <1>5, <1>6, <1>7, <1>8, IdleSound DEF Inv

-----------------------------------------------------------------------------
THEOREM StepInv == Inv /\ [Next]_vars => Inv'
<1> SUFFICES ASSUME Inv, [Next]_vars PROVE Inv'
  OBVIOUS
<1>1. CASE Next
  <2>1. PICK s \in Sessions : \/ \E k \in Keys : Insert(s, k) \/ ScanKey(s, k)
                              \/ Step(s) \/ Rewrite(s) \/ Fail(s)
    BY <1>1 DEF Next
  <2>2. CASE \E k \in Keys : Insert(s, k) \/ ScanKey(s, k)
    BY <2>2, InsertInv, ScanKeyInv
  <2>3. CASE Step(s)
    BY <2>3, ScanOlderInv, ScanBeyondCapInv, RetireInv, CommitInv, FailInv
    DEF Step, BreakDeadlock
  <2>4. CASE Rewrite(s)
    BY <2>4, RewriteInv
  <2>5. CASE Fail(s)
    BY <2>5, FailInv
  <2> QED
    BY <2>1, <2>2, <2>3, <2>4, <2>5
<1>2. CASE UNCHANGED vars
  BY <1>2 DEF vars, Inv, TypeOK, Below, TrailSound, TxSound, KeysKept, Points, Dates,
              Inserted, Candidates, Seen, Committed, Held
<1> QED
  BY <1>1, <1>2

THEOREM Invariance == Spec => []Inv
BY InitInv, StepInv, PTL DEF Spec

\* Types, and one writer per row: no row is in two transactions' hands, and an
\* id that is not committed belongs to the session that inserted it.
THEOREM TypeCorrect == Spec => []TypeOK
<1>1. Inv => TypeOK
  BY DEF Inv
<1> QED
  BY <1>1, Invariance, PTL

\* However saves and forgets of any number of sessions overlap and fail, every
\* superseded version is dated and points to itself or to a committed version
\* of its own key (save_fact, forget_fact).
THEOREM TrailAlwaysSound == Spec => []TrailSound
<1>1. Inv => TrailSound
  BY DEF Inv
<1> QED
  BY <1>1, Invariance, PTL

-----------------------------------------------------------------------------
(* How far saves overrun, of one key (at most one version) or of all (at     *)
(* most Cap).  K is the set of keys that is counted.                         *)

InScope(K, table) == {i \in DOMAIN table : table[i].by = 0 /\ table[i].key \in K}

\* What the UPDATEs of s leave active.
Left(s, K) == InScope(K, Visible(s)) \ tx[s].todo

\* s has begun the UPDATE that keeps the facts of K few.
Counts(s, K, from) == tx[s].pc \in from /\ tx[s].key \in K

\* P[s]: the sessions that have committed a save since s took its snapshot.
\* Each adds one fact to what s leaves; one that starts again sees what was
\* committed before, so that its second commit adds nothing.
Overrun(K, from, n, P) ==
    /\ Cardinality(InScope(K, rows)) < n + Cardinality(Sessions)
    /\ \A s \in Sessions : Counts(s, K, from) =>
          /\ s \notin P[s]
          /\ Cardinality(Left(s, K)) <= n + Cardinality(P[s])
          /\ \A u \in P[s] : Counts(u, K, from) => P[u] \subseteq P[s]

Bounded(K, from, n) == \E P \in [Sessions -> SUBSET Sessions] : Overrun(K, from, n, P)

\* Where a transaction is, and which of its rows are active: its own insert,
\* and what a forget is about to retire.
Working(t) ==
    /\ t.pc = "idle" => t.key = None
    /\ t.pc # "idle" => t.key \in Keys
    /\ t.pc \in Saving => t.op = "save"
    /\ t.pc \in {"unsetting", "retired"} => t.op = "forget"
    /\ t.pc = "retired" => t.todo = {}
    /\ \A i \in DOMAIN t.mine :
          t.mine[i].by = 0 => t.pc = "unsetting" \/ (t.pc \in Saving /\ i = t.id)
    /\ t.pc \in {"inserted", "superseding"} => t.mine[t.id].by = 0 /\ t.id \notin t.todo

WorkInv == Inv /\ \A s \in Sessions : Working(tx[s])

-----------------------------------------------------------------------------
LEMMA LeastNumber ==
    ASSUME NEW T \in SUBSET Nat, T # {}
    PROVE  \E m \in T : \A n \in T : m <= n
<1> DEFINE R == OpToRel(<, Nat)
<1>1. IsWellFoundedOn(R, Nat)
  BY NatLessThanWellFounded DEF OpToRel
<1>2. PICK m \in T : \A n \in T : <<n, m>> \notin R
  <2> HIDE DEF R
  <2> QED
    BY <1>1, WFMin
<1>3. ASSUME NEW n \in T, n < m
      PROVE  FALSE
  BY <1>2, <1>3 DEF OpToRel
<1> QED
  BY <1>3

\* Of a finite set of numbers at most c have fewer than c above them.
LEMMA FewOnTop ==
    ASSUME NEW A \in SUBSET Nat, IsFiniteSet(A), NEW c \in Nat \ {0}
    PROVE  Cardinality({i \in A : ~(Cardinality({j \in A : j > i}) >= c)}) <= c
<1> DEFINE above(i) == {j \in A : j > i}
           T == {i \in A : ~(Cardinality(above(i)) >= c)}
<1> SUFFICES Cardinality(T) <= c
  OBVIOUS
<1>1. \A i \in A : IsFiniteSet(above(i)) /\ Cardinality(above(i)) \in Nat
  BY FS_Subset, FS_CardinalityType
<1>2. CASE T = {}
  <2> HIDE DEF T
  <2>1. Cardinality(T) = 0
    BY <1>2, FS_EmptySet
  <2> QED
    BY <2>1
<1>3. CASE T # {}
  <2>1. T \in SUBSET Nat
    OBVIOUS
  <2>2. PICK m \in T : \A n \in T : m <= n
    <3> HIDE DEF T
    <3> QED
      BY <1>3, <2>1, LeastNumber
  <2>3. m \in A /\ Cardinality(above(m)) < c
    BY <1>1, <2>2
  <2>4. T \subseteq above(m) \cup {m}
    <3> SUFFICES ASSUME NEW n \in T, n # m PROVE n \in above(m)
      OBVIOUS
    <3>1. m <= n /\ n \in Nat /\ m \in Nat /\ n \in A
      BY <2>2
    <3> QED
      BY <3>1
  <2>5. m \notin above(m)
    BY <2>3
  <2> HIDE DEF T, above
  <2>6. /\ IsFiniteSet(above(m) \cup {m})
        /\ Cardinality(above(m) \cup {m}) = Cardinality(above(m)) + 1
    BY <1>1, <2>3, <2>5, FS_AddElement
  <2>7. Cardinality(T) <= Cardinality(above(m) \cup {m}) /\ Cardinality(T) \in Nat
    BY <2>4, <2>6, FS_Subset, FS_CardinalityType
  <2> QED
    BY <1>1, <2>3, <2>6, <2>7
<1> QED
  BY <1>2, <1>3

\* Sets of ids are finite.
LEMMA IdsFinite ==
    ASSUME NEW A, A \subseteq 1..MaxId
    PROVE  IsFiniteSet(A) /\ Cardinality(A) \in Nat
<1>1. IsFiniteSet(1..MaxId)
  BY MemoryAssumption, FS_Interval
<1> QED
  BY <1>1, FS_Subset, FS_CardinalityType

LEMMA SessionSets ==
    ASSUME NEW A, A \subseteq Sessions
    PROVE  /\ IsFiniteSet(A) /\ Cardinality(A) \in Nat
           /\ Cardinality(Sessions) \in Nat /\ Cardinality(A) <= Cardinality(Sessions)
BY SessionsAssumption, FS_Subset, FS_CardinalityType

\* One element more counts one more.
LEMMA OneMore ==
    ASSUME NEW A, IsFiniteSet(A), NEW B, NEW x, B \subseteq A \cup {x}
    PROVE  /\ Cardinality(A) \in Nat /\ Cardinality(B) \in Nat
           /\ Cardinality(B) <= Cardinality(A) + 1
<1>1. /\ IsFiniteSet(A \cup {x}) /\ Cardinality(A) \in Nat
      /\ Cardinality(A \cup {x}) <= Cardinality(A) + 1
  <2>1. Cardinality(A) \in Nat
    BY FS_CardinalityType
  <2>2. CASE x \in A
    <3>1. A \cup {x} = A
      BY <2>2
    <3> DEFINE C == A \cup {x}
    <3>2. IsFiniteSet(C) /\ Cardinality(C) = Cardinality(A)
      BY <3>1
    <3> QED
      BY <2>1, <3>2
  <2>3. CASE x \notin A
    <3>1. IsFiniteSet(A \cup {x}) /\ Cardinality(A \cup {x}) = Cardinality(A) + 1
      BY <2>3, FS_AddElement
    <3> QED
      BY <2>1, <3>1
  <2> QED
    BY <2>2, <2>3
<1>2. Cardinality(B) <= Cardinality(A \cup {x}) /\ Cardinality(B) \in Nat
  BY <1>1, FS_Subset, FS_CardinalityType
<1> QED
  BY <1>1, <1>2, FS_CardinalityType

LEMMA ScopeIds ==
    ASSUME Inv, NEW K
    PROVE  /\ InScope(K, rows) \subseteq 1..MaxId
           /\ \A s \in Sessions : /\ InScope(K, Visible(s)) \subseteq 1..MaxId
                                  /\ Left(s, K) \subseteq 1..MaxId
<1>1. InScope(K, rows) \subseteq 1..MaxId
  BY VersionsAre DEF Inv, TypeOK, InScope
<1>2. \A s \in Sessions : InScope(K, Visible(s)) \subseteq 1..MaxId
  BY VisibleIs DEF InScope
<1> QED
  BY <1>1, <1>2 DEF Left

\* A step of s that leaves the table and the other transactions as they are, but
\* for their history.
Local(s) ==
    /\ UNCHANGED rows
    /\ \A u \in Sessions \ {s} : /\ Same(tx'[u], tx[u]) /\ tx'[u].op = tx[u].op
                                 /\ tx'[u].alone => tx[u].alone

LEMMA LocalIs ==
    ASSUME Inv, NEW s \in Sessions, UNCHANGED rows, NEW t, tx' = [tx EXCEPT ![s] = t]
    PROVE  Local(s) /\ tx'[s] = t
BY DEF Inv, TypeOK, Local, Same

LEMMA BeginIs ==
    ASSUME Inv, NEW s \in Sessions, NEW t \in Tx, Begin(s, t), UNCHANGED rows
    PROVE  /\ Local(s) /\ Same(tx'[s], t) /\ tx'[s].op = t.op
           /\ tx'[s].alone <=> \A u \in Sessions \ {s} : tx[u].key # t.key
           /\ \A u \in Sessions \ {s} : tx'[u].alone => tx[u].key # t.key
<1>1. tx'[s] = [t EXCEPT !.alone = Clash(s, t.key) = {}]
  BY DEF Begin
<1>2. Same(tx'[s], t) /\ tx'[s].op = t.op
  BY <1>1 DEF Tx, Same
<1>3. tx'[s].alone <=> \A u \in Sessions \ {s} : tx[u].key # t.key
  <2>1. tx'[s].alone = (Clash(s, t.key) = {})
    BY <1>1 DEF Tx
  <2> QED
    BY <2>1 DEF Clash
<1>4. \A u \in Sessions \ {s} :
          /\ Same(tx'[u], tx[u]) /\ tx'[u].op = tx[u].op
          /\ tx'[u].alone = (tx[u].alone /\ u \notin Clash(s, t.key))
  <2> SUFFICES ASSUME NEW u \in Sessions \ {s}
               PROVE  /\ Same(tx'[u], tx[u]) /\ tx'[u].op = tx[u].op
                      /\ tx'[u].alone = (tx[u].alone /\ u \notin Clash(s, t.key))
    OBVIOUS
  <2>1. tx[u] \in Tx
    BY DEF Inv, TypeOK
  <2>2. tx'[u] = [tx[u] EXCEPT !.alone = tx[u].alone /\ u \notin Clash(s, t.key)]
    BY DEF Begin
  <2> QED
    BY <2>1, <2>2 DEF Tx, Same
<1> QED
  BY <1>2, <1>3, <1>4 DEF Local, Clash

\* What the other sessions see and have left to do stays.
LEMMA LocalSees ==
    ASSUME Inv, NEW s \in Sessions, Local(s), NEW u \in Sessions \ {s}
    PROVE  Visible(u)' = Visible(u) /\ Held(u)' = Held(u)
           /\ \A K, from : Left(u, K)' = Left(u, K) /\ (Counts(u, K, from)' <=> Counts(u, K, from))
<1>1. /\ tx'[u].pc = tx[u].pc /\ tx'[u].id = tx[u].id /\ tx'[u].key = tx[u].key
      /\ tx'[u].todo = tx[u].todo /\ tx'[u].mine = tx[u].mine /\ rows' = rows
  BY DEF Local, Same
<1>2. Visible(u)' = Visible(u) /\ Held(u)' = Held(u)
  BY <1>1 DEF Visible, Held, Committed
<1> QED
  BY <1>1, <1>2 DEF Left, Counts

LEMMA WorkLocal ==
    ASSUME WorkInv, Inv', NEW s \in Sessions, Local(s), Working(tx'[s])
    PROVE  WorkInv'
<1>1. \A u \in Sessions \ {s} : Working(tx'[u])
  BY DEF WorkInv, Local, Same, Working
<1> QED
  BY <1>1 DEF WorkInv

LEMMA IdleWorks == Working(Idle)
<1>1. Idle.pc = "idle" /\ Idle.key = None /\ DOMAIN Idle.mine = {}
  BY DEF Idle, NoVersions
<1> QED
  BY <1>1 DEF Working, Saving

THEOREM WorkInit == Init => WorkInv
BY InitInv, IdleWorks DEF Init, WorkInv

-----------------------------------------------------------------------------
(* What each step makes of the record of its session. *)

LEMMA InsertIs ==
    ASSUME WorkInv, NEW s \in Sessions, NEW k \in Keys, Insert(s, k)
    PROVE  /\ Local(s) /\ WorkInv'
           /\ tx'[s].pc = "inserted" /\ tx'[s].key = k
           /\ tx'[s].alone <=> \A u \in Sessions \ {s} : tx[u].key # k
           /\ \A u \in Sessions \ {s} : tx'[u].alone => tx[u].key # k
<1> DEFINE row == [key |-> k, by |-> 0, dated |-> FALSE]
           new == [i \in {nextId} |-> row]
           t == [Idle EXCEPT !.pc = "inserted", !.op = "save", !.key = k,
                             !.id = nextId, !.mine = new]
<1>0. Inv /\ Inv'
  BY InsertInv DEF WorkInv
<1>1. nextId \in 1..MaxId /\ UNCHANGED rows /\ Begin(s, t)
  BY <1>0, MemoryAssumption DEF Insert, Inv, TypeOK
<1>2. new \in Versions
  <2>1. row \in Row
    BY MemoryAssumption DEF Row
  <2> QED
    BY <1>1, <2>1, VersionsIntro
<1>9. DOMAIN new = {nextId} /\ new[nextId] = row /\ row.by = 0
  OBVIOUS
<1>3. /\ t \in Tx /\ t.mine = new /\ t.pc = "inserted" /\ t.id = nextId
      /\ t.key = k /\ t.todo = {} /\ t.op = "save"
  <2> HIDE DEF new
  <2>1. nextId \in 0..MaxId
    BY <1>1, MemoryAssumption
  <2>2. Idle \in Tx
    BY IdleSound
  <2>3. t \in Tx
    BY <1>2, <2>1, <2>2 DEF Tx
  <2> QED
    BY <2>3 DEF Idle
<1> HIDE DEF t, new, row
<1>4. /\ Local(s) /\ Same(tx'[s], t) /\ tx'[s].op = t.op
      /\ tx'[s].alone <=> \A u \in Sessions \ {s} : tx[u].key # k
      /\ \A u \in Sessions \ {s} : tx'[u].alone => tx[u].key # k
  BY <1>0, <1>1, <1>3, BeginIs
<1>5. Working(tx'[s])
  <2>1. Working(t)
    BY <1>3, <1>9 DEF Working, Saving
  <2> QED
    BY <1>4, <2>1 DEF Same, Working
<1> QED
  BY <1>0, <1>3, <1>4, <1>5, WorkLocal DEF Same

LEMMA ScanKeyIs ==
    ASSUME WorkInv, NEW s \in Sessions, NEW k \in Keys, ScanKey(s, k)
    PROVE  /\ Local(s) /\ WorkInv'
           /\ tx'[s].pc = "unsetting" /\ tx'[s].key = k /\ Held(s)' = {}
           /\ tx'[s].todo = ActiveOf(rows, k)
           /\ tx'[s].alone <=> \A u \in Sessions \ {s} : tx[u].key # k
           /\ \A u \in Sessions \ {s} : tx'[u].alone => tx[u].key # k
<1> DEFINE t == [Idle EXCEPT !.pc = "unsetting", !.op = "forget", !.key = k,
                             !.todo = ActiveOf(rows, k)]
<1>0. Inv /\ Inv'
  BY ScanKeyInv DEF WorkInv
<1>1. UNCHANGED <<rows, nextId>> /\ Begin(s, t)
  BY DEF ScanKey
<1>2. ActiveOf(rows, k) \subseteq Committed
  BY DEF ActiveOf, Active, Committed
<1>3. Committed \subseteq 1..MaxId
  BY <1>0, VersionsAre DEF Inv, TypeOK, Committed
<1>4. /\ t \in Tx /\ DOMAIN t.mine = {} /\ t.pc = "unsetting" /\ t.key = k
      /\ t.todo = ActiveOf(rows, k) /\ t.op = "forget"
  BY <1>2, <1>3, IdleSound DEF Tx, Idle
<1> HIDE DEF t
<1>5. /\ Local(s) /\ Same(tx'[s], t) /\ tx'[s].op = t.op
      /\ tx'[s].alone <=> \A u \in Sessions \ {s} : tx[u].key # k
      /\ \A u \in Sessions \ {s} : tx'[u].alone => tx[u].key # k
  BY <1>0, <1>1, <1>4, BeginIs
<1>6. Working(tx'[s])
  <2>1. Working(t)
    BY <1>4 DEF Working, Saving
  <2> QED
    BY <1>5, <2>1 DEF Same, Working
<1> QED
  BY <1>0, <1>4, <1>5, <1>6, WorkLocal DEF Same, Held

LEMMA ScanOlderIs ==
    ASSUME WorkInv, NEW s \in Sessions, ScanOlder(s)
    PROVE  /\ Local(s) /\ WorkInv' /\ tx[s].pc = "inserted"
           /\ tx'[s].pc = "superseding" /\ tx'[s].todo = Older(s)
           /\ tx'[s].key = tx[s].key /\ tx'[s].id = tx[s].id
           /\ tx'[s].alone = tx[s].alone /\ tx'[s].mine = tx[s].mine
           /\ Visible(s)' = Visible(s)
<1>0. Inv /\ Inv' /\ tx[s] \in Tx
  BY ScanOlderInv DEF WorkInv, Inv, TypeOK
<1> DEFINE t == [tx[s] EXCEPT !.pc = "superseding", !.todo = Older(s)]
<1>1. tx[s].pc = "inserted" /\ UNCHANGED rows /\ tx' = [tx EXCEPT ![s] = t]
  BY <1>0 DEF ScanOlder
<1>2. t.mine = tx[s].mine /\ t.id = tx[s].id /\ t.key = tx[s].key
      /\ t.pc = "superseding" /\ t.todo = Older(s) /\ t.op = tx[s].op
      /\ t.alone = tx[s].alone
  BY <1>0 DEF Tx
<1> HIDE DEF t
<1>3. Local(s) /\ tx'[s] = t
  BY <1>0, <1>1, LocalIs
<1>4. Working(t)
  BY <1>1, <1>2 DEF Older, WorkInv, Working, Saving
<1>5. Visible(s)' = Visible(s)
  BY <1>1, <1>2, <1>3 DEF Visible, Held, Committed
<1> QED
  BY <1>0, <1>1, <1>2, <1>3, <1>4, <1>5, WorkLocal

LEMMA ScanBeyondCapIs ==
    ASSUME WorkInv, NEW s \in Sessions, ScanBeyondCap(s)
    PROVE  /\ Local(s) /\ WorkInv' /\ tx[s].pc = "superseding" /\ tx[s].todo = {}
           /\ tx'[s].pc = "trimming" /\ tx'[s].todo = BeyondCap(s)
           /\ tx'[s].key = tx[s].key /\ tx'[s].id = tx[s].id
           /\ tx'[s].alone = tx[s].alone /\ tx'[s].mine = tx[s].mine
           /\ Visible(s)' = Visible(s)
<1>0. Inv /\ Inv' /\ tx[s] \in Tx
  BY ScanBeyondCapInv DEF WorkInv, Inv, TypeOK
<1> DEFINE t == [tx[s] EXCEPT !.pc = "trimming", !.todo = BeyondCap(s)]
<1>1. tx[s].pc = "superseding" /\ tx[s].todo = {} /\ UNCHANGED rows /\ tx' = [tx EXCEPT ![s] = t]
  BY <1>0 DEF ScanBeyondCap
<1>2. t.mine = tx[s].mine /\ t.id = tx[s].id /\ t.key = tx[s].key
      /\ t.pc = "trimming" /\ t.op = tx[s].op
      /\ t.alone = tx[s].alone /\ t.todo = BeyondCap(s)
  BY <1>0 DEF Tx
<1> HIDE DEF t
<1>3. Local(s) /\ tx'[s] = t
  BY <1>0, <1>1, LocalIs
<1>4. Working(t)
  BY <1>1, <1>2 DEF WorkInv, Working, Saving
<1>5. Visible(s)' = Visible(s)
  BY <1>1, <1>2, <1>3 DEF Visible, Held, Committed
<1> QED
  BY <1>0, <1>1, <1>2, <1>3, <1>4, <1>5, WorkLocal

LEMMA FailIs ==
    ASSUME WorkInv, NEW s \in Sessions, Fail(s)
    PROVE  Local(s) /\ WorkInv' /\ tx'[s] = Idle
<1>1. Inv /\ Inv' /\ UNCHANGED rows /\ tx' = [tx EXCEPT ![s] = Idle]
  BY FailInv DEF WorkInv, Fail, Ends
<1>2. Local(s) /\ tx'[s] = Idle
  BY <1>1, LocalIs
<1> QED
  BY <1>1, <1>2, IdleWorks, WorkLocal

LEMMA RetireIs ==
    ASSUME WorkInv, NEW s \in Sessions, Retire(s)
    PROVE  /\ Local(s) /\ WorkInv' /\ tx[s].pc = "unsetting" /\ tx[s].todo = {}
           /\ tx'[s].pc = "retired" /\ tx'[s].key = tx[s].key /\ tx'[s].alone = tx[s].alone
           /\ Held(s)' = Held(s) /\ \A i \in Held(s) : tx'[s].mine[i].by # 0
<1>0. Inv /\ Inv' /\ tx[s] \in Tx
  BY RetireInv DEF WorkInv, Inv, TypeOK
<1> DEFINE row(i) == [tx[s].mine[i] EXCEPT !.by = IF @ = 0 THEN i ELSE @]
           new == [i \in Held(s) |-> row(i)]
           t == [tx[s] EXCEPT !.pc = "retired", !.mine = new]
<1>1. /\ tx[s].pc = "unsetting" /\ tx[s].todo = {}
      /\ UNCHANGED rows /\ tx' = [tx EXCEPT ![s] = t]
  BY <1>0 DEF Retire
<1>2. Held(s) \subseteq 1..MaxId /\ \A i \in Held(s) : tx[s].mine[i] \in Row
  BY <1>0, VersionsAre DEF Tx, Held
<1>3. \A i \in Held(s) : row(i).by # 0
  BY <1>2 DEF Row
<1>4. DOMAIN new = Held(s) /\ \A i \in Held(s) : new[i].by # 0
  BY <1>3
<1> HIDE DEF row, new
<1>5. /\ t.mine = new /\ t.id = tx[s].id /\ t.key = tx[s].key /\ t.op = tx[s].op
      /\ t.pc = "retired" /\ t.todo = {} /\ t.alone = tx[s].alone
  BY <1>0, <1>1 DEF Tx
<1> HIDE DEF t
<1>6. Local(s) /\ tx'[s] = t
  BY <1>0, <1>1, LocalIs
<1>7. Working(t)
  BY <1>1, <1>4, <1>5 DEF WorkInv, Working, Saving
<1> QED
  BY <1>0, <1>1, <1>4, <1>5, <1>6, <1>7, WorkLocal DEF Held

\* The row that is rewritten is no longer active, unless a forget has only
\* dated it.
LEMMA RewriteIs ==
    ASSUME WorkInv, NEW s \in Sessions, Rewrite(s)
    PROVE  /\ Local(s) /\ WorkInv' /\ tx[s].pc \in Updating
           /\ tx'[s].pc = tx[s].pc /\ tx'[s].key = tx[s].key /\ tx'[s].id = tx[s].id
           /\ tx'[s].alone = tx[s].alone
           /\ DOMAIN Visible(s)' = DOMAIN Visible(s)
           /\ \E i \in tx[s].todo :
                 /\ tx'[s].todo = tx[s].todo \ {i} /\ Held(s)' = Held(s) \cup {i}
                 /\ \A j \in DOMAIN Visible(s) \ {i} : Visible(s)'[j] = Visible(s)[j]
                 /\ \A j \in Held(s) \ {i} : tx'[s].mine[j] = tx[s].mine[j]
                 /\ tx[s].pc \in Saving => Visible(s)'[i].by # 0
<1>0. Inv /\ Inv' /\ tx[s] \in Tx
  BY RewriteInv DEF WorkInv, Inv, TypeOK
<1>1. PICK i \in tx[s].todo :
          /\ tx' = [tx EXCEPT ![s].todo = @ \ {i},
                              ![s].mine = Overlay(s, i, Rewritten(s, i))]
          /\ UNCHANGED <<rows, nextId>>
  BY DEF Rewrite
<1> DEFINE row == Rewritten(s, i)
           new == Overlay(s, i, row)
           t == [tx[s] EXCEPT !.todo = tx[s].todo \ {i}, !.mine = new]
<1>2. tx' = [tx EXCEPT ![s] = t]
  BY <1>0, <1>1 DEF Inv, TypeOK
<1>3. tx[s].pc \in Updating /\ i \in Committed \cup Held(s) /\ i \in 1..MaxId
  BY <1>0, HeldIs DEF TxSound, Candidates, Committed, Held, Tx
<1>4. DOMAIN Visible(s) = Committed \cup Held(s) /\ Visible(s)[i] \in Row
  BY <1>0, <1>3, VisibleIs
<1>5. tx[s].pc \in Saving => row.by # 0
  <2> SUFFICES ASSUME tx[s].pc \in Saving PROVE row.by # 0
    OBVIOUS
  <2>1. tx[s].id # 0
    <3>1. tx[s].id \in 1..(nextId - 1) /\ nextId \in Nat
      BY <1>0, HeldIs, MemoryAssumption DEF TxSound, Inserted, Inv, TypeOK
    <3> QED
      BY <3>1
  <2>2. CASE StillMatches(s, i)
    <3>1. Mark(s, i) # 0
      BY <1>3, <2>1 DEF Mark, Saving, Updating
    <3>2. row.by = Mark(s, i)
      BY <1>4, <2>2 DEF Row, Rewritten
    <3> QED
      BY <3>1, <3>2
  <2>3. CASE ~StillMatches(s, i)
    BY <2>3 DEF StillMatches, Rewritten
  <2> QED
    BY <2>2, <2>3
<1> HIDE DEF row
<1>6. /\ DOMAIN new = Held(s) \cup {i} /\ new[i] = row
      /\ \A j \in Held(s) \ {i} : new[j] = tx[s].mine[j]
  BY DEF Overlay
<1> HIDE DEF new
<1>7. /\ t.mine = new /\ t.id = tx[s].id /\ t.key = tx[s].key /\ t.op = tx[s].op
      /\ t.pc = tx[s].pc /\ t.todo = tx[s].todo \ {i} /\ t.alone = tx[s].alone
  BY <1>0 DEF Tx
<1> HIDE DEF t
<1>8. Local(s) /\ tx'[s] = t
  BY <1>0, <1>1, <1>2, LocalIs
<1>9. Working(t)
  <2>1. tx[s].pc = "superseding" => i # tx[s].id
    BY DEF WorkInv, Working
  <2>2. tx[s].pc \in Saving => tx[s].id \in Held(s)
    BY <1>0, HeldIs DEF TxSound, Inserted, Held
  <2>3. \A j \in DOMAIN t.mine : t.mine[j].by = 0 => t.pc = "unsetting" \/ (t.pc \in Saving /\ j = t.id)
    <3> SUFFICES ASSUME NEW j \in Held(s) \cup {i}, new[j].by = 0, t.pc # "unsetting"
                 PROVE  t.pc \in Saving /\ j = t.id
      BY <1>6, <1>7
    <3>1. tx[s].pc \in Saving
      BY <1>3, <1>7 DEF Updating, Saving
    <3>2. j # i /\ j \in Held(s) /\ new[j] = tx[s].mine[j]
      BY <1>5, <1>6, <3>1
    <3> QED
      BY <1>7, <3>1, <3>2 DEF WorkInv, Working, Held
  <2>4. t.pc \in {"inserted", "superseding"} => t.mine[t.id].by = 0 /\ t.id \notin t.todo
    <3> SUFFICES ASSUME t.pc \in {"inserted", "superseding"}
                 PROVE  t.mine[t.id].by = 0 /\ t.id \notin t.todo
      OBVIOUS
    <3>1. tx[s].pc = "superseding"
      BY <1>3, <1>7 DEF Updating
    <3>2. t.id \in Held(s) \ {i}
      BY <1>7, <2>1, <2>2, <3>1 DEF Saving
    <3> QED
      BY <1>6, <1>7, <3>1, <3>2 DEF WorkInv, Working
  <2> QED
    BY <1>3, <1>7, <2>3, <2>4 DEF WorkInv, Working, Updating
<1>10. Held(s)' = Held(s) \cup {i} /\ Committed' = Committed
  BY <1>1, <1>6, <1>7, <1>8 DEF Held, Committed
<1>11. DOMAIN Visible(s)' = DOMAIN Visible(s)
  BY <1>3, <1>4, <1>10 DEF Visible
<1>12. Visible(s)'[i] = row
  BY <1>3, <1>6, <1>7, <1>8, <1>10 DEF Visible
<1>13. \A j \in DOMAIN Visible(s) \ {i} : Visible(s)'[j] = Visible(s)[j]
  BY <1>1, <1>4, <1>6, <1>7, <1>8, <1>10 DEF Visible
<1>14. WorkInv'
  BY <1>0, <1>8, <1>9, WorkLocal
<1>15. /\ tx'[s].todo = tx[s].todo \ {i} /\ Held(s)' = Held(s) \cup {i}
       /\ \A j \in DOMAIN Visible(s) \ {i} : Visible(s)'[j] = Visible(s)[j]
       /\ \A j \in Held(s) \ {i} : tx'[s].mine[j] = tx[s].mine[j]
       /\ tx[s].pc \in Saving => Visible(s)'[i].by # 0
  BY <1>5, <1>6, <1>7, <1>8, <1>10, <1>12, <1>13
<1> QED
  BY <1>3, <1>7, <1>8, <1>11, <1>14, <1>15

LEMMA CommitIs ==
    ASSUME WorkInv, NEW s \in Sessions, Commit(s)
    PROVE  /\ WorkInv' /\ Finished(s)
           /\ rows' = Visible(s) /\ tx'[s] = Idle
           /\ \A u \in Sessions \ {s} : tx'[u] = tx[u]
<1>1. Inv /\ Inv' /\ rows' = Visible(s) /\ tx' = [tx EXCEPT ![s] = Idle] /\ Finished(s)
  BY CommitInv DEF WorkInv, Commit, Ends
<1>2. tx'[s] = Idle /\ \A u \in Sessions \ {s} : tx'[u] = tx[u]
  BY <1>1 DEF Inv, TypeOK
<1> QED
  BY <1>1, <1>2, IdleWorks DEF WorkInv

-----------------------------------------------------------------------------
\* A commit of u makes active what u leaves: of what u holds, its insert at most.
LEMMA CommitSees ==
    ASSUME WorkInv, NEW u \in Sessions, Commit(u), NEW K
    PROVE  /\ \A i \in InScope(K, rows') :
                 i \in InScope(K, rows) \/ (i = tx[u].id /\ Counts(u, K, {"trimming"}))
           /\ Counts(u, K, {"trimming"}) => InScope(K, rows') = Left(u, K)
<1>1. /\ Inv /\ rows' = Visible(u) /\ Finished(u)
  BY CommitIs DEF WorkInv
<1>2. /\ DOMAIN Visible(u) = Committed \cup Held(u)
      /\ \A i \in DOMAIN Visible(u) : Visible(u)[i] = Seen(tx[u], rows, i)
  BY <1>1, VisibleIs
<1>3. ASSUME NEW i \in InScope(K, rows'), i \in Held(u)
      PROVE  i = tx[u].id /\ Counts(u, K, {"trimming"})
  <2>1. tx[u].mine[i].by = 0 /\ tx[u].mine[i].key \in K
    BY <1>1, <1>2, <1>3 DEF InScope, Seen, Held
  <2>2. tx[u].pc = "trimming" /\ i = tx[u].id
    BY <1>1, <1>3, <2>1 DEF Finished, Unset, WorkInv, Working, Held, Saving
  <2>3. tx[u].mine[tx[u].id].key = tx[u].key
    BY <1>1, <2>2, HeldIs DEF TxSound, Inserted, Saving
  <2> QED
    BY <2>1, <2>2, <2>3 DEF Counts
<1>4. ASSUME NEW i \in InScope(K, rows'), i \notin Held(u)
      PROVE  i \in InScope(K, rows)
  BY <1>1, <1>2, <1>4 DEF InScope, Seen, Held, Committed
<1>5. Counts(u, K, {"trimming"}) => tx[u].todo = {}
  BY <1>1 DEF Finished, Counts
<1> QED
  BY <1>1, <1>3, <1>4, <1>5 DEF Left

LEMMA CommitLeaves ==
    ASSUME WorkInv, NEW u \in Sessions, Commit(u), NEW s \in Sessions \ {u}, NEW K
    PROVE  /\ Held(s)' = Held(s)
           /\ \A i \in Left(s, K)' :
                 /\ i \in Left(s, K) \/ (i = tx[u].id /\ Counts(u, K, {"trimming"}))
                 /\ tx[s].pc \in Saving => i \in InScope(K, rows') \/ i = tx[s].id
<1>1. Inv /\ Inv' /\ tx'[s] = tx[s]
  BY CommitIs DEF WorkInv
<1>2. Held(s)' = Held(s)
  BY <1>1 DEF Held
<1>3. /\ DOMAIN Visible(s) = Committed \cup Held(s)
      /\ \A i \in DOMAIN Visible(s) : Visible(s)[i] = Seen(tx[s], rows, i)
  BY <1>1, VisibleIs
<1>4. /\ DOMAIN Visible(s)' = DOMAIN rows' \cup Held(s)
      /\ \A i \in DOMAIN Visible(s)' : Visible(s)'[i] = Seen(tx[s], rows', i)
  BY <1>1, <1>2 DEF Visible, Committed, Seen, Held
<1>5. ASSUME NEW i \in Left(s, K)'
      PROVE  /\ i \in Left(s, K) \/ (i = tx[u].id /\ Counts(u, K, {"trimming"}))
             /\ tx[s].pc \in Saving => i \in InScope(K, rows') \/ i = tx[s].id
  <2>1. /\ i \in DOMAIN rows' \cup Held(s) /\ i \notin tx[s].todo
        /\ Seen(tx[s], rows', i).by = 0 /\ Seen(tx[s], rows', i).key \in K
    BY <1>1, <1>4 DEF Left, InScope
  <2>2. CASE i \in Held(s)
    <3>1. Seen(tx[s], rows', i) = tx[s].mine[i] /\ Seen(tx[s], rows, i) = tx[s].mine[i]
      BY <2>2 DEF Seen, Held
    <3>2. i \in Left(s, K)
      BY <1>3, <2>1, <2>2, <3>1 DEF Left, InScope
    <3>3. tx[s].pc \in Saving => i = tx[s].id
      BY <2>1, <2>2, <3>1 DEF WorkInv, Working, Saving, Held
    <3> QED
      BY <3>2, <3>3
  <2>3. CASE i \notin Held(s)
    <3>1. Seen(tx[s], rows', i) = rows'[i] /\ Seen(tx[s], rows, i) = rows[i]
      BY <2>3 DEF Seen, Held
    <3>2. i \in InScope(K, rows')
      BY <2>1, <2>3, <3>1 DEF InScope
    <3>3. i \in InScope(K, rows) => i \in Left(s, K)
      BY <1>3, <2>1, <3>1 DEF InScope, Left, Committed
    <3> QED
      BY <3>2, <3>3, CommitSees
  <2> QED
    BY <2>2, <2>3
<1> QED
  BY <1>2, <1>5

LEMMA BoundedLocal ==
    ASSUME WorkInv, WorkInv', NEW s \in Sessions, Local(s), NEW K, NEW from, NEW n \in Nat,
           Bounded(K, from, n),
           Counts(s, K, from)' => \/ Counts(s, K, from) /\ Left(s, K)' \subseteq Left(s, K)
                                  \/ Cardinality(Left(s, K)') <= n
    PROVE  Bounded(K, from, n)'
<1>1. PICK P \in [Sessions -> SUBSET Sessions] : Overrun(K, from, n, P)
  BY DEF Bounded
<1>2. Inv /\ Inv'
  BY DEF WorkInv
<1>3. \A u \in Sessions \ {s} :
          /\ Left(u, K)' = Left(u, K) /\ (Counts(u, K, from)' <=> Counts(u, K, from))
  BY <1>2, LocalSees
<1>4. Cardinality(InScope(K, rows)') < n + Cardinality(Sessions)
  BY <1>1 DEF Overrun, Local, InScope
<1>5. CASE Counts(s, K, from)' => Counts(s, K, from) /\ Left(s, K)' \subseteq Left(s, K)
  <2>1. Counts(s, K, from)' => Cardinality(Left(s, K)') <= n + Cardinality(P[s])
    <3> SUFFICES ASSUME Counts(s, K, from)'
                 PROVE  Cardinality(Left(s, K)') <= n + Cardinality(P[s])
      OBVIOUS
    <3>1. IsFiniteSet(Left(s, K)) /\ Cardinality(Left(s, K)) \in Nat
      BY <1>2, ScopeIds, IdsFinite
    <3>2. Cardinality(Left(s, K)') <= Cardinality(Left(s, K)) /\ Cardinality(Left(s, K)') \in Nat
      BY <1>5, <3>1, FS_Subset, FS_CardinalityType
    <3>3. Cardinality(P[s]) \in Nat
      BY SessionSets
    <3>4. Cardinality(Left(s, K)) <= n + Cardinality(P[s])
      BY <1>1, <1>5 DEF Overrun
    <3> QED
      BY <3>1, <3>2, <3>3, <3>4
  <2>2. Overrun(K, from, n, P)'
    BY <1>1, <1>3, <1>4, <1>5, <2>1 DEF Overrun
  <2> QED
    BY <2>2 DEF Bounded
<1>6. CASE Counts(s, K, from)' => Cardinality(Left(s, K)') <= n
  <2> DEFINE Q == [P EXCEPT ![s] = {}]
  <2>1. Q \in [Sessions -> SUBSET Sessions] /\ Q[s] = {} /\ \A u \in Sessions \ {s} : Q[u] = P[u]
    OBVIOUS
  <2> HIDE DEF Q
  <2>2. Cardinality(Q[s]) = 0
    BY <2>1, FS_EmptySet
  <2>3. \A u \in Sessions : Counts(u, K, from)' =>
            /\ u \notin Q[u]
            /\ Cardinality(Left(u, K)') <= n + Cardinality(Q[u])
            /\ \A v \in Q[u] : Counts(v, K, from)' => Q[v] \subseteq Q[u]
    <3> SUFFICES ASSUME NEW u \in Sessions, Counts(u, K, from)'
                 PROVE  /\ u \notin Q[u]
                        /\ Cardinality(Left(u, K)') <= n + Cardinality(Q[u])
                        /\ \A v \in Q[u] : Counts(v, K, from)' => Q[v] \subseteq Q[u]
      OBVIOUS
    <3>1. CASE u = s
      BY <1>6, <2>1, <2>2, <3>1
    <3>2. CASE u # s
      <4>1. /\ u \notin P[u] /\ Cardinality(Left(u, K)') <= n + Cardinality(P[u])
            /\ \A v \in P[u] : Counts(v, K, from) => P[v] \subseteq P[u]
        BY <1>1, <1>3, <3>2 DEF Overrun
      <4> QED
        BY <1>3, <2>1, <3>2, <4>1
    <3> QED
      BY <3>1, <3>2
  <2>4. Overrun(K, from, n, Q)'
    BY <1>4, <2>3 DEF Overrun
  <2> QED
    BY <2>1, <2>4 DEF Bounded
<1> QED
  BY <1>5, <1>6

LEMMA SmallerSet ==
    ASSUME NEW A, IsFiniteSet(A), NEW x \in A, NEW B, B \subseteq A, x \notin B
    PROVE  /\ Cardinality(A) \in Nat /\ Cardinality(B) \in Nat
           /\ Cardinality(B) + 1 <= Cardinality(A)
<1>1. IsFiniteSet(A \ {x}) /\ Cardinality(A \ {x}) = Cardinality(A) - 1
  BY FS_RemoveElement
<1>2. B \subseteq A \ {x}
  OBVIOUS
<1>3. Cardinality(B) <= Cardinality(A \ {x}) /\ Cardinality(B) \in Nat
  BY <1>1, <1>2, FS_Subset, FS_CardinalityType
<1>4. Cardinality(A) \in Nat
  BY FS_CardinalityType
<1> QED
  BY <1>1, <1>3, <1>4

LEMMA BoundedCommit ==
    ASSUME WorkInv, NEW u \in Sessions, Commit(u), NEW K, NEW n \in Nat,
           NEW from \in SUBSET Saving, "trimming" \in from, Bounded(K, from, n)
    PROVE  Bounded(K, from, n)'
<1>1. PICK P \in [Sessions -> SUBSET Sessions] : Overrun(K, from, n, P)
  BY DEF Bounded
<1>2. /\ Inv /\ Inv' /\ tx'[u] = Idle
      /\ \A s \in Sessions \ {u} : tx'[s] = tx[s]
  BY CommitIs DEF WorkInv
<1>3. ~Counts(u, K, from)'
  BY <1>2 DEF Counts, Idle, Saving
<1>4. \A s \in Sessions \ {u} : Counts(s, K, from)' <=> Counts(s, K, from)
  BY <1>2 DEF Counts
<1>5. CASE ~Counts(u, K, {"trimming"})
  <2>1. \A s \in Sessions \ {u} : Left(s, K)' \subseteq Left(s, K)
    BY <1>5, CommitLeaves
  <2>2. InScope(K, rows') \subseteq InScope(K, rows)
    BY <1>5, CommitSees
  <2>3. IsFiniteSet(InScope(K, rows)) /\ \A s \in Sessions : IsFiniteSet(Left(s, K))
    BY <1>2, ScopeIds, IdsFinite
  <2>4. \A A, B : IsFiniteSet(A) /\ B \subseteq A =>
            /\ Cardinality(A) \in Nat /\ Cardinality(B) \in Nat
            /\ Cardinality(B) <= Cardinality(A)
    BY FS_Subset, FS_CardinalityType
  <2>5. \A s \in Sessions : Cardinality(P[s]) \in Nat
    BY SessionSets
  <2>6. Cardinality(InScope(K, rows')) < n + Cardinality(Sessions)
    <3>1. Cardinality(InScope(K, rows)) < n + Cardinality(Sessions)
      BY <1>1 DEF Overrun
    <3>2. /\ Cardinality(InScope(K, rows)) \in Nat /\ Cardinality(InScope(K, rows')) \in Nat
          /\ Cardinality(InScope(K, rows')) <= Cardinality(InScope(K, rows))
      BY <2>2, <2>3, <2>4
    <3>3. Cardinality(Sessions) \in Nat
      BY SessionSets
    <3> QED
      BY <3>1, <3>2, <3>3
  <2>7. \A s \in Sessions : Counts(s, K, from)' =>
            Cardinality(Left(s, K)') <= n + Cardinality(P[s])
    <3> SUFFICES ASSUME NEW s \in Sessions \ {u}, Counts(s, K, from)
                 PROVE  Cardinality(Left(s, K)') <= n + Cardinality(P[s])
      BY <1>3, <1>4
    <3>1. Cardinality(Left(s, K)) <= n + Cardinality(P[s])
      BY <1>1 DEF Overrun
    <3>2. /\ Cardinality(Left(s, K)) \in Nat /\ Cardinality(Left(s, K)') \in Nat
          /\ Cardinality(Left(s, K)') <= Cardinality(Left(s, K))
      BY <2>1, <2>3, <2>4
    <3> QED
      BY <2>5, <3>1, <3>2
  <2>8. \A s \in Sessions : Counts(s, K, from)' =>
            s \notin P[s] /\ \A v \in P[s] : Counts(v, K, from)' => P[v] \subseteq P[s]
    <3>1. \A s \in Sessions : Counts(s, K, from)' => Counts(s, K, from)
      BY <1>3, <1>4
    <3> QED
      BY <1>1, <3>1 DEF Overrun
  <2>9. InScope(K, rows)' = InScope(K, rows')
    BY DEF InScope
  <2>10. Overrun(K, from, n, P)'
    BY <2>6, <2>7, <2>8, <2>9 DEF Overrun
  <2> QED
    BY <2>10 DEF Bounded
<1>6. CASE Counts(u, K, {"trimming"})
  <2> DEFINE Q == [s \in Sessions |-> IF s = u THEN {} ELSE P[s] \cup {u}]
  <2>1. /\ Q \in [Sessions -> SUBSET Sessions]
        /\ \A s \in Sessions \ {u} : Q[s] = P[s] \cup {u}
    OBVIOUS
  <2> HIDE DEF Q
  <2>2. Counts(u, K, from)
    BY <1>6 DEF Counts
  <2>3. u \notin P[u] /\ Cardinality(Left(u, K)) <= n + Cardinality(P[u])
    BY <1>1, <2>2 DEF Overrun
  <2>4. IsFiniteSet(Left(u, K)) /\ Cardinality(Left(u, K)) \in Nat
    BY <1>2, ScopeIds, IdsFinite
  <2>5. InScope(K, rows)' = Left(u, K)
    BY <1>6, CommitSees DEF InScope
  <2>6. Cardinality(InScope(K, rows)') < n + Cardinality(Sessions)
    <3>1. /\ Cardinality(Sessions) \in Nat /\ Cardinality(P[u]) \in Nat
          /\ Cardinality(P[u]) + 1 <= Cardinality(Sessions)
      BY <2>3, SessionsAssumption, SmallerSet
    <3> QED
      BY <2>3, <2>4, <2>5, <3>1
  <2>7. ASSUME NEW s \in Sessions, Counts(s, K, from)'
        PROVE  /\ s \notin Q[s]
               /\ Cardinality(Left(s, K)') <= n + Cardinality(Q[s])
               /\ \A v \in Q[s] : Counts(v, K, from)' => Q[v] \subseteq Q[s]
    <3>1. s # u /\ Counts(s, K, from) /\ tx[s].pc \in Saving
      BY <1>3, <1>4, <2>7 DEF Counts
    <3>2. /\ s \notin P[s] /\ Cardinality(Left(s, K)) <= n + Cardinality(P[s])
          /\ \A v \in P[s] : Counts(v, K, from) => P[v] \subseteq P[s]
      BY <1>1, <3>1 DEF Overrun
    <3>3. s \notin Q[s]
      BY <2>1, <3>1, <3>2
    <3>4. \A v \in Q[s] : Counts(v, K, from)' => Q[v] \subseteq Q[s]
      <4> SUFFICES ASSUME NEW v \in Q[s], Counts(v, K, from)' PROVE Q[v] \subseteq Q[s]
        OBVIOUS
      <4>1. v \in Sessions \ {u}
        BY <1>3, <2>1
      <4>2. v \in P[s] /\ Counts(v, K, from)
        BY <1>4, <2>1, <3>1, <4>1
      <4> QED
        BY <2>1, <3>1, <3>2, <4>1, <4>2
    <3>5. CASE u \in P[s]
      <4>1. Left(s, K)' \subseteq Left(u, K) \cup {tx[s].id}
        BY <1>6, <3>1, CommitLeaves, CommitSees
      <4>2. /\ Cardinality(Left(s, K)') \in Nat
            /\ Cardinality(Left(s, K)') <= Cardinality(Left(u, K)) + 1
        BY <2>4, <4>1, OneMore
      <4>3. P[u] \subseteq P[s] /\ IsFiniteSet(P[s])
        BY <2>2, <3>2, <3>5, SessionSets
      <4>4. /\ Cardinality(P[u]) \in Nat /\ Cardinality(P[s]) \in Nat
            /\ Cardinality(P[u]) + 1 <= Cardinality(P[s])
        BY <2>3, <3>5, <4>3, SmallerSet
      <4>5. Q[s] = P[s]
        BY <2>1, <3>1, <3>5
      <4>6. Cardinality(Left(s, K)') <= n + Cardinality(Q[s])
        BY <2>3, <2>4, <4>2, <4>4, <4>5
      <4> QED
        BY <3>3, <3>4, <4>6
    <3>6. CASE u \notin P[s]
      <4>1. Left(s, K)' \subseteq Left(s, K) \cup {tx[u].id}
        BY <3>1, CommitLeaves
      <4>2. IsFiniteSet(Left(s, K)) /\ Cardinality(Left(s, K)) \in Nat
        BY <1>2, ScopeIds, IdsFinite
      <4>3. /\ Cardinality(Left(s, K)') \in Nat
            /\ Cardinality(Left(s, K)') <= Cardinality(Left(s, K)) + 1
        BY <4>1, <4>2, OneMore
      <4>4. IsFiniteSet(P[s]) /\ Cardinality(P[s]) \in Nat
        BY SessionSets
      <4>5. Cardinality(Q[s]) = Cardinality(P[s]) + 1
        BY <2>1, <3>1, <3>6, <4>4, FS_AddElement
      <4>6. Cardinality(Left(s, K)') <= n + Cardinality(Q[s])
        BY <3>2, <4>2, <4>3, <4>4, <4>5
      <4> QED
        BY <3>3, <3>4, <4>6
    <3> QED
      BY <3>5, <3>6
  <2>8. Overrun(K, from, n, Q)'
    BY <2>6, <2>7 DEF Overrun
  <2> QED
    BY <2>1, <2>8 DEF Bounded
<1> QED
  BY <1>5, <1>6

-----------------------------------------------------------------------------
OverInv ==
    /\ WorkInv
    /\ Bounded(Keys, {"trimming"}, Cap)
    /\ \A k \in Keys : Bounded({k}, {"superseding", "trimming"}, 1)

LEMMA BoundedInit ==
    ASSUME Init, NEW K, NEW from \in SUBSET Saving, NEW n \in Nat \ {0}
    PROVE  Bounded(K, from, n)
<1>1. InScope(K, rows) = {} /\ \A s \in Sessions : ~Counts(s, K, from)
  BY DEF Init, InScope, NoVersions, Counts, Idle, Saving
<1>2. Cardinality(InScope(K, rows)) = 0 /\ Cardinality(Sessions) \in Nat
  BY <1>1, FS_EmptySet, SessionSets
<1> DEFINE P == [s \in Sessions |-> {}]
<1>3. P \in [Sessions -> SUBSET Sessions]
  OBVIOUS
<1> HIDE DEF P
<1>4. Overrun(K, from, n, P)
  BY <1>1, <1>2 DEF Overrun
<1> QED
  BY <1>3, <1>4 DEF Bounded

THEOREM OverInit == Init => OverInv
<1> SUFFICES ASSUME Init PROVE OverInv
  OBVIOUS
<1>1. {"trimming"} \in SUBSET Saving /\ {"superseding", "trimming"} \in SUBSET Saving
  BY DEF Saving
<1> QED
  BY <1>1, WorkInit, BoundedInit, MemoryAssumption DEF OverInv

\* A rewrite changes nothing in what its session leaves.
LEMMA RewriteLeaves ==
    ASSUME WorkInv, NEW s \in Sessions, Rewrite(s), NEW K
    PROVE  tx[s].pc \in Saving => Left(s, K)' \subseteq Left(s, K)
<1>1. /\ tx[s].pc \in Updating /\ DOMAIN Visible(s)' = DOMAIN Visible(s)
      /\ \E i \in tx[s].todo :
            /\ tx'[s].todo = tx[s].todo \ {i}
            /\ \A j \in DOMAIN Visible(s) \ {i} : Visible(s)'[j] = Visible(s)[j]
            /\ tx[s].pc \in Saving => Visible(s)'[i].by # 0
  BY RewriteIs
<1> QED
  BY <1>1 DEF Left, InScope

\* A save that takes the snapshot of its trim leaves at most Cap facts.
LEMMA TrimLeaves ==
    ASSUME WorkInv, NEW s \in Sessions, ScanBeyondCap(s)
    PROVE  Cardinality(Left(s, Keys)') <= Cap
<1>1. /\ Inv /\ Visible(s)' = Visible(s) /\ tx'[s].todo = BeyondCap(s)
  BY ScanBeyondCapIs DEF WorkInv
<1> DEFINE A == Active(Visible(s))
           T == {i \in A : ~(Cardinality({j \in A : j > i}) >= Cap)}
<1>2. A \subseteq 1..MaxId /\ A \in SUBSET Nat
  <2>1. A \subseteq DOMAIN Visible(s)
    BY DEF Active
  <2>2. DOMAIN Visible(s) \subseteq 1..MaxId
    BY <1>1, VisibleIs
  <2>3. 1..MaxId \subseteq Nat
    BY MemoryAssumption
  <2> QED
    BY <2>1, <2>2, <2>3
<1>3. IsFiniteSet(A) /\ Cap \in Nat \ {0}
  BY <1>2, IdsFinite, MemoryAssumption
<1>4. InScope(Keys, Visible(s)) \subseteq A
  BY DEF InScope, Active
<1>5. Left(s, Keys)' \subseteq T
  BY <1>1, <1>4 DEF Left, BeyondCap, InScope
<1> HIDE DEF A
<1>6. Cardinality(T) <= Cap
  BY <1>2, <1>3, FewOnTop
<1>7. IsFiniteSet(T) /\ Cardinality(T) \in Nat
  BY <1>3, FS_Subset, FS_CardinalityType
<1> HIDE DEF T
<1>8. Cardinality(Left(s, Keys)') <= Cardinality(T) /\ Cardinality(Left(s, Keys)') \in Nat
  BY <1>5, <1>7, FS_Subset, FS_CardinalityType
<1> QED
  BY <1>3, <1>6, <1>7, <1>8

LEMMA OlderLeaves ==
    ASSUME WorkInv, NEW s \in Sessions, ScanOlder(s), NEW k, k = tx[s].key
    PROVE  /\ Left(s, {k})' \subseteq {tx[s].id}
           /\ Cardinality(Left(s, {k})') <= 1
<1>1. /\ Inv /\ Visible(s)' = Visible(s) /\ tx'[s].todo = Older(s)
  BY ScanOlderIs DEF WorkInv
<1>2. Left(s, {k})' \subseteq {} \cup {tx[s].id}
  BY <1>1 DEF Left, InScope, Older, ActiveOf, Active
<1>3. Cardinality({}) = 0 /\ IsFiniteSet({})
  BY FS_EmptySet
<1>4. Cardinality(Left(s, {k})') <= Cardinality({}) + 1 /\ Cardinality(Left(s, {k})') \in Nat
  BY <1>2, <1>3, OneMore
<1> QED
  BY <1>2, <1>3, <1>4

THEOREM OverStep == OverInv /\ [Next]_vars => OverInv'
<1> SUFFICES ASSUME OverInv, [Next]_vars PROVE OverInv'
  OBVIOUS
<1> USE DEF OverInv
<1>0. /\ Cap \in Nat /\ 1 \in Nat /\ Inv
      /\ {"trimming"} \in SUBSET Saving /\ {"superseding", "trimming"} \in SUBSET Saving
  BY MemoryAssumption DEF Saving, WorkInv
<1>1. CASE UNCHANGED vars
  <2>1. UNCHANGED <<rows, nextId, tx>>
    BY <1>1 DEF vars
  <2>2. WorkInv'
    BY <1>1, StepInv DEF WorkInv, vars
  <2>3. \A K, from, n : Bounded(K, from, n)' <=> Bounded(K, from, n)
    BY <2>1 DEF Bounded, Overrun, InScope, Left, Counts, Visible, Held, Committed
  <2> QED
    BY <2>2, <2>3
<1>2. CASE Next
  <2>1. PICK s \in Sessions : \/ \E k \in Keys : Insert(s, k) \/ ScanKey(s, k)
                              \/ Step(s) \/ Rewrite(s) \/ Fail(s)
    BY <1>2 DEF Next
  <2> DEFINE Small(K, from, n) ==
                Counts(s, K, from)' => \/ Counts(s, K, from) /\ Left(s, K)' \subseteq Left(s, K)
                                       \/ Cardinality(Left(s, K)') <= n
  <2>2. ASSUME WorkInv', Local(s), Small(Keys, {"trimming"}, Cap),
               \A k \in Keys : Small({k}, {"superseding", "trimming"}, 1)
        PROVE  OverInv'
    <3>1. Bounded(Keys, {"trimming"}, Cap)'
      BY <1>0, <2>2, BoundedLocal
    <3>2. \A k \in Keys : Bounded({k}, {"superseding", "trimming"}, 1)'
      BY <1>0, <2>2, BoundedLocal
    <3> QED
      BY <2>2, <3>1, <3>2
  <2>3. ASSUME WorkInv', Local(s), tx'[s].pc \notin {"superseding", "trimming"}
        PROVE  OverInv'
    BY <2>2, <2>3 DEF Counts
  <2> HIDE DEF Small
  <2>4. CASE \E k \in Keys : Insert(s, k)
    BY <2>3, <2>4, InsertIs
  <2>5. CASE \E k \in Keys : ScanKey(s, k)
    BY <2>3, <2>5, ScanKeyIs
  <2>6. CASE ScanOlder(s)
    <3>1. WorkInv' /\ Local(s) /\ tx'[s].pc = "superseding" /\ tx'[s].key = tx[s].key
      BY <2>6, ScanOlderIs
    <3>2. Small(Keys, {"trimming"}, Cap)
      BY <3>1 DEF Small, Counts
    <3>3. \A k \in Keys : Small({k}, {"superseding", "trimming"}, 1)
      BY <2>6, <3>1, OlderLeaves DEF Small, Counts
    <3> QED
      BY <2>2, <3>1, <3>2, <3>3
  <2>7. CASE ScanBeyondCap(s)
    <3>1. /\ WorkInv' /\ Local(s) /\ tx'[s].key = tx[s].key
          /\ tx[s].pc = "superseding" /\ tx[s].todo = {} /\ Visible(s)' = Visible(s)
      BY <2>7, ScanBeyondCapIs
    <3>2. Small(Keys, {"trimming"}, Cap)
      BY <2>7, TrimLeaves DEF Small
    <3>3. \A k \in Keys : Left(s, {k})' \subseteq Left(s, {k})
      BY <3>1 DEF Left
    <3>4. \A k \in Keys : Small({k}, {"superseding", "trimming"}, 1)
      BY <3>1, <3>3 DEF Small, Counts
    <3> QED
      BY <2>2, <3>1, <3>2, <3>4
  <2>8. CASE Retire(s)
    BY <2>3, <2>8, RetireIs
  <2>9. CASE Commit(s)
    <3>1. WorkInv'
      BY <2>9, CommitIs
    <3>2. Bounded(Keys, {"trimming"}, Cap)'
      BY <1>0, <2>9, BoundedCommit
    <3>3. \A k \in Keys : Bounded({k}, {"superseding", "trimming"}, 1)'
      BY <1>0, <2>9, BoundedCommit
    <3> QED
      BY <3>1, <3>2, <3>3
  <2>10. CASE Fail(s)
    BY <2>3, <2>10, FailIs DEF Idle
  <2>11. CASE Rewrite(s)
    <3>1. /\ WorkInv' /\ Local(s) /\ tx'[s].key = tx[s].key /\ tx'[s].pc = tx[s].pc
      BY <2>11, RewriteIs
    <3>2. \A K : tx[s].pc \in Saving => Left(s, K)' \subseteq Left(s, K)
      BY <2>11, RewriteLeaves
    <3>3. Small(Keys, {"trimming"}, Cap)
      BY <3>1, <3>2 DEF Small, Counts, Saving
    <3>4. \A k \in Keys : Small({k}, {"superseding", "trimming"}, 1)
      BY <3>1, <3>2 DEF Small, Counts, Saving
    <3> QED
      BY <2>2, <3>1, <3>3, <3>4
  <2> QED
    BY <2>1, <2>4, <2>5, <2>6, <2>7, <2>8, <2>9, <2>10, <2>11 DEF Step, BreakDeadlock
<1> QED
  BY <1>1, <1>2

\* What overlapping saves leave too much stays within one per session, for any
\* number of sessions, keys and facts, in any order of their statements: no key
\* has more active versions than there are sessions, and the memory is beyond
\* MEMORY_CAP by fewer facts than there are sessions (user_memory.py:184).
THEOREM OverrunsAlwaysBounded == Spec => []OverrunsBounded
<1>1. OverInv => OverrunsBounded
  <2> SUFFICES ASSUME OverInv PROVE OverrunsBounded
    OBVIOUS
  <2>0. Inv /\ Cardinality(Sessions) \in Nat
    BY SessionSets DEF OverInv, WorkInv
  <2>1. Active(rows) = InScope(Keys, rows)
    BY <2>0, VersionsAre DEF Inv, TypeOK, Active, InScope, Row
  <2>2. \A k \in Keys : ActiveOf(rows, k) = InScope({k}, rows)
    BY DEF ActiveOf, Active, InScope
  <2>3. \A K, from, n : Bounded(K, from, n) =>
            Cardinality(InScope(K, rows)) < n + Cardinality(Sessions)
    BY DEF Bounded, Overrun
  <2>4. CapOverrunBounded
    BY <2>1, <2>3 DEF OverInv, CapOverrunBounded
  <2>5. DuplicatesBounded
    <3> SUFFICES ASSUME NEW k \in Keys
                 PROVE  Cardinality(ActiveOf(rows, k)) <= Cardinality(Sessions)
      BY DEF DuplicatesBounded
    <3>1. Cardinality(InScope({k}, rows)) < 1 + Cardinality(Sessions)
      BY <2>3 DEF OverInv
    <3>2. Cardinality(InScope({k}, rows)) \in Nat
      BY <2>0, ScopeIds, IdsFinite
    <3> QED
      BY <2>0, <2>2, <3>1, <3>2
  <2> QED
    BY <2>4, <2>5 DEF OverrunsBounded
<1> QED
  BY <1>1, OverInit, OverStep, PTL DEF Spec

-----------------------------------------------------------------------------
(* What a transaction that has its key to itself leaves of it. *)

\* Nobody else works on the key; of a save only its insert is not yet rewritten
\* or to be rewritten, of a forget only what it holds.
Announced(s) ==
    tx[s].alone /\ tx[s].pc # "idle" =>
        /\ \A u \in Sessions \ {s} : tx[u].key # tx[s].key
        /\ tx[s].pc \in {"superseding", "trimming"} => Left(s, {tx[s].key}) \subseteq {tx[s].id}
        /\ tx[s].pc = "unsetting" => Left(s, {tx[s].key}) \subseteq Held(s)
        /\ tx[s].pc = "retired" => InScope({tx[s].key}, Visible(s)) = {}

\* A save trims its own fact only when Cap newer ones exist.
Newer(s) ==
    tx[s].pc = "trimming" /\ (tx[s].id \in tx[s].todo \/ tx[s].mine[tx[s].id].by # 0) =>
        Cardinality({j \in DOMAIN Visible(s) : j > tx[s].id}) >= Cap

AnInv == WorkInv /\ \A s \in Sessions : Announced(s) /\ Newer(s)

THEOREM AnInit == Init => AnInv
<1> SUFFICES ASSUME Init PROVE AnInv
  OBVIOUS
<1>1. \A s \in Sessions : tx[s].pc = "idle"
  BY DEF Init, Idle
<1> QED
  BY <1>1, WorkInit DEF AnInv, Announced, Newer

\* A step of another session that begins no transaction on the key of u.
LEMMA AnLocal ==
    ASSUME AnInv, WorkInv', NEW s \in Sessions, Local(s), Announced(s)', Newer(s)',
           \/ tx'[s].key \in {tx[s].key, None}
           \/ \A u \in Sessions \ {s} : tx'[u].alone => tx[u].key # tx'[s].key
    PROVE  AnInv'
<1>1. ASSUME NEW u \in Sessions \ {s}
      PROVE  Announced(u)' /\ Newer(u)'
  <2>0. Inv /\ Inv' /\ Working(tx[u])
    BY DEF AnInv, WorkInv
  <2>1. /\ tx'[u].pc = tx[u].pc /\ tx'[u].id = tx[u].id /\ tx'[u].key = tx[u].key
        /\ tx'[u].todo = tx[u].todo /\ tx'[u].mine = tx[u].mine
        /\ tx'[u].alone => tx[u].alone
    BY DEF Local, Same
  <2>2. /\ Visible(u)' = Visible(u) /\ Held(u)' = Held(u)
        /\ \A K : Left(u, K)' = Left(u, K)
    BY <2>0, LocalSees
  <2>3. Newer(u)'
    BY <2>1, <2>2 DEF AnInv, Newer
  <2>4. Announced(u)'
    <3> SUFFICES ASSUME tx'[u].alone, tx'[u].pc # "idle"
                 PROVE  /\ \A v \in Sessions \ {u} : tx'[v].key # tx'[u].key
                        /\ tx'[u].pc \in {"superseding", "trimming"} => Left(u, {tx[u].key})' \subseteq {tx'[u].id}
                        /\ tx'[u].pc = "unsetting" => Left(u, {tx[u].key})' \subseteq Held(u)'
                        /\ tx'[u].pc = "retired" => InScope({tx[u].key}, Visible(u)') = {}
      BY <2>1 DEF Announced, Left, InScope, Visible, Held, Committed
    <3>1. tx[u].alone /\ tx[u].pc # "idle" /\ Announced(u)
      BY <2>1 DEF AnInv
    <3>2. tx[u].key \in Keys /\ tx[u].key # None
      BY <2>0, <3>1, MemoryAssumption DEF Working
    <3>3. \A v \in Sessions \ {u} : tx[v].key # tx[u].key
      BY <3>1 DEF Announced
    <3>4. tx'[s].key # tx[u].key
      BY <3>2, <3>3
    <3>5. \A v \in Sessions \ {u, s} : tx'[v].key = tx[v].key
      BY DEF Local, Same
    <3>6. \A v \in Sessions \ {u} : tx'[v].key # tx'[u].key
      BY <2>1, <3>3, <3>4, <3>5
    <3> QED
      BY <2>1, <2>2, <3>1, <3>6 DEF Announced
  <2> QED
    BY <2>3, <2>4
<1> QED
  BY <1>1 DEF AnInv

\* A commit of u touches no other key than its own, and adds ids only.
LEMMA AnCommit ==
    ASSUME AnInv, NEW u \in Sessions, Commit(u)
    PROVE  AnInv'
<1>0. /\ WorkInv /\ Inv /\ WorkInv' /\ Inv' /\ rows' = Visible(u) /\ tx'[u] = Idle
      /\ \A s \in Sessions \ {u} : tx'[s] = tx[s]
  BY CommitIs DEF AnInv, WorkInv
<1>1. Announced(u)' /\ Newer(u)'
  BY <1>0 DEF Announced, Newer, Idle
<1>2. ASSUME NEW s \in Sessions \ {u}
      PROVE  Announced(s)' /\ Newer(s)'
  <2>1. tx'[s] = tx[s] /\ Held(s)' = Held(s)
    BY <1>0 DEF Held
  <2>2. DOMAIN Visible(s) \subseteq DOMAIN Visible(s)' /\ DOMAIN Visible(s)' \subseteq 1..MaxId
    <3>1. DOMAIN Visible(s)' = DOMAIN rows' \cup Held(s) /\ DOMAIN Visible(s)' \subseteq 1..MaxId
      BY <1>0, <2>1, VisibleIs DEF Visible, Committed
    <3>2. DOMAIN Visible(s) = DOMAIN rows \cup Held(s) /\ DOMAIN rows \subseteq DOMAIN rows'
      BY <1>0, VisibleIs DEF Committed
    <3> QED
      BY <3>1, <3>2
  <2>3. Newer(s)'
    <3> SUFFICES ASSUME tx[s].pc = "trimming",
                        tx[s].id \in tx[s].todo \/ tx[s].mine[tx[s].id].by # 0
                 PROVE  Cardinality({j \in DOMAIN Visible(s)' : j > tx[s].id}) >= Cap
      BY <2>1 DEF Newer
    <3> DEFINE A == {j \in DOMAIN Visible(s) : j > tx[s].id}
               B == {j \in DOMAIN Visible(s)' : j > tx[s].id}
    <3>1. Cardinality(A) >= Cap
      BY DEF AnInv, Newer
    <3>2. A \subseteq B /\ B \subseteq 1..MaxId
      BY <2>2
    <3> HIDE DEF A, B
    <3>3. /\ Cardinality(A) <= Cardinality(B) /\ Cardinality(B) \in Nat
          /\ Cardinality(A) \in Nat
      BY <3>2, IdsFinite, FS_Subset, FS_CardinalityType
    <3>4. Cardinality(B) >= Cap
      BY <3>1, <3>3, MemoryAssumption
    <3> QED
      BY <3>4 DEF B
  <2>4. Announced(s)'
    <3>0. (tx'[s].alone => tx[s].alone) /\ tx'[s].pc = tx[s].pc
      BY <2>1
    <3> SUFFICES ASSUME tx[s].alone, tx[s].pc # "idle" PROVE Announced(s)'
      BY <3>0 DEF Announced
    <3> DEFINE k == tx[s].key
    <3>1. Announced(s) /\ k \in Keys /\ k # None
      BY MemoryAssumption DEF AnInv, WorkInv, Working
    <3>2. \A v \in Sessions \ {s} : tx[v].key # k
      BY <3>1 DEF Announced
    <3>3. \A v \in Sessions \ {s} : tx'[v].key # k
      BY <1>0, <3>1, <3>2 DEF Idle
    <3>4. ~Counts(u, {k}, {"trimming"})
      BY <3>2 DEF Counts
    <3>5. Left(s, {k})' \subseteq Left(s, {k})
      BY <1>0, <3>4, CommitLeaves
    <3>6. tx[s].pc = "retired" => InScope({k}, Visible(s))' = {}
      <4> SUFFICES ASSUME tx[s].pc = "retired" PROVE InScope({k}, Visible(s))' = {}
        OBVIOUS
      <4>1. tx[s].todo = {} /\ InScope({k}, Visible(s)) = {}
        BY <3>1 DEF AnInv, WorkInv, Working, Announced
      <4>2. Left(s, {k})' = InScope({k}, Visible(s))'
        BY <2>1, <4>1 DEF Left
      <4> QED
        BY <3>5, <4>1, <4>2 DEF Left
    <3> QED
      BY <2>1, <3>1, <3>3, <3>5, <3>6 DEF Announced
  <2> QED
    BY <2>3, <2>4
<1> QED
  BY <1>0, <1>1, <1>2 DEF AnInv

THEOREM AnStep == AnInv /\ [Next]_vars => AnInv'
<1> SUFFICES ASSUME AnInv, [Next]_vars PROVE AnInv'
  OBVIOUS
<1>0. Inv /\ WorkInv
  BY DEF AnInv, WorkInv
<1>1. CASE UNCHANGED vars
  <2>1. UNCHANGED <<rows, nextId, tx>>
    BY <1>1 DEF vars
  <2>2. WorkInv'
    BY <1>0, <1>1, StepInv DEF WorkInv, vars
  <2>3. \A s \in Sessions : Visible(s)' = Visible(s) /\ Held(s)' = Held(s)
    BY <2>1 DEF Visible, Held, Committed
  <2>4. \A s \in Sessions : Newer(s)'
    BY <2>1, <2>3 DEF AnInv, Newer
  <2>5. \A s \in Sessions : Announced(s)'
    BY <2>1, <2>3 DEF AnInv, Announced, Left, InScope
  <2> QED
    BY <2>2, <2>4, <2>5 DEF AnInv
<1>2. CASE Next
  <2>1. PICK s \in Sessions : \/ \E k \in Keys : Insert(s, k) \/ ScanKey(s, k)
                              \/ Step(s) \/ Rewrite(s) \/ Fail(s)
    BY <1>2 DEF Next
  <2>2. Announced(s) /\ Newer(s) /\ Working(tx[s]) /\ TxSound(tx[s], rows)
    BY DEF AnInv, WorkInv, Inv
  <2>3. CASE \E k \in Keys : Insert(s, k)
    <3>1. PICK k \in Keys : Insert(s, k)
      BY <2>3
    <3>2. /\ WorkInv' /\ Local(s) /\ tx'[s].pc = "inserted" /\ tx'[s].key = k
          /\ tx'[s].alone <=> \A u \in Sessions \ {s} : tx[u].key # k
          /\ \A u \in Sessions \ {s} : tx'[u].alone => tx[u].key # k
      BY <1>0, <3>1, InsertIs
    <3>3. \A u \in Sessions \ {s} : tx'[u].key = tx[u].key
      BY <3>2 DEF Local, Same
    <3>4. Announced(s)' /\ Newer(s)'
      BY <3>2, <3>3 DEF Announced, Newer
    <3> QED
      BY <3>2, <3>4, AnLocal
  <2>4. CASE \E k \in Keys : ScanKey(s, k)
    <3>1. PICK k \in Keys : ScanKey(s, k)
      BY <2>4
    <3>2. /\ WorkInv' /\ Local(s) /\ tx'[s].pc = "unsetting" /\ tx'[s].key = k
          /\ Held(s)' = {} /\ tx'[s].todo = ActiveOf(rows, k)
          /\ tx'[s].alone <=> \A u \in Sessions \ {s} : tx[u].key # k
          /\ \A u \in Sessions \ {s} : tx'[u].alone => tx[u].key # k
      BY <1>0, <3>1, ScanKeyIs
    <3>3. \A u \in Sessions \ {s} : tx'[u].key = tx[u].key
      BY <3>2 DEF Local, Same
    <3>4. Left(s, {k})' = {}
      <4>1. /\ DOMAIN Visible(s)' = DOMAIN rows
            /\ \A i \in DOMAIN rows : Visible(s)'[i] = rows[i]
        BY <3>2 DEF Visible, Committed, Local
      <4> QED
        BY <3>2, <4>1 DEF Left, InScope, ActiveOf, Active
    <3>5. Announced(s)' /\ Newer(s)'
      BY <3>2, <3>3, <3>4 DEF Announced, Newer
    <3> QED
      BY <3>2, <3>5, AnLocal
  <2>5. CASE ScanOlder(s)
    <3>1. /\ WorkInv' /\ Local(s) /\ tx[s].pc = "inserted" /\ tx'[s].pc = "superseding"
          /\ tx'[s].key = tx[s].key /\ tx'[s].id = tx[s].id /\ tx'[s].alone = tx[s].alone
      BY <1>0, <2>5, ScanOlderIs
    <3>2. \A u \in Sessions \ {s} : tx'[u].key = tx[u].key
      BY <3>1 DEF Local, Same
    <3>3. Left(s, {tx[s].key})' \subseteq {tx[s].id}
      <4>1. PICK k : k = tx[s].key
        OBVIOUS
      <4>2. Left(s, {k})' \subseteq {tx[s].id}
        BY <1>0, <2>5, <4>1, OlderLeaves
      <4> QED
        BY <3>1, <4>1, <4>2
    <3>4. Announced(s)' /\ Newer(s)'
      BY <2>2, <3>1, <3>2, <3>3 DEF Announced, Newer
    <3> QED
      BY <3>1, <3>4, AnLocal
  <2>6. CASE ScanBeyondCap(s)
    <3>1. /\ WorkInv' /\ Local(s) /\ tx[s].pc = "superseding" /\ tx[s].todo = {}
          /\ tx'[s].pc = "trimming" /\ tx'[s].todo = BeyondCap(s)
          /\ tx'[s].key = tx[s].key /\ tx'[s].id = tx[s].id
          /\ tx'[s].alone = tx[s].alone /\ tx'[s].mine = tx[s].mine
          /\ Visible(s)' = Visible(s)
      BY <1>0, <2>6, ScanBeyondCapIs
    <3>2. \A u \in Sessions \ {s} : tx'[u].key = tx[u].key
      BY <3>1 DEF Local, Same
    <3>3. Left(s, {tx[s].key})' \subseteq Left(s, {tx[s].key})
      BY <3>1 DEF Left
    <3>4. Announced(s)'
      BY <2>2, <3>1, <3>2, <3>3 DEF Announced
    <3>5. Newer(s)'
      <4> SUFFICES ASSUME tx[s].id \in BeyondCap(s) \/ tx[s].mine[tx[s].id].by # 0
                   PROVE  Cardinality({j \in DOMAIN Visible(s) : j > tx[s].id}) >= Cap
        BY <3>1 DEF Newer
      <4>1. tx[s].id \in BeyondCap(s)
        BY <2>2, <3>1 DEF Working
      <4> DEFINE A == {j \in Active(Visible(s)) : j > tx[s].id}
                 B == {j \in DOMAIN Visible(s) : j > tx[s].id}
      <4>2. Cardinality(A) >= Cap
        BY <4>1 DEF BeyondCap
      <4>3. A \subseteq B /\ B \subseteq DOMAIN Visible(s)
        BY DEF Active
      <4>4. DOMAIN Visible(s) \subseteq 1..MaxId
        BY <1>0, VisibleIs
      <4> HIDE DEF A, B
      <4>5. IsFiniteSet(B)
        BY <4>3, <4>4, IdsFinite
      <4>6. /\ Cardinality(A) <= Cardinality(B) /\ Cardinality(B) \in Nat
            /\ Cardinality(A) \in Nat
        BY <4>3, <4>5, FS_Subset, FS_CardinalityType
      <4>7. Cardinality(B) >= Cap
        BY <4>2, <4>6, MemoryAssumption
      <4> QED
        BY <4>7 DEF B
    <3> QED
      BY <3>1, <3>4, <3>5, AnLocal
  <2>7. CASE Retire(s)
    <3>1. /\ WorkInv' /\ Local(s) /\ tx[s].pc = "unsetting" /\ tx[s].todo = {}
          /\ tx'[s].pc = "retired" /\ tx'[s].key = tx[s].key /\ tx'[s].alone = tx[s].alone
          /\ Held(s)' = Held(s) /\ \A i \in Held(s) : tx'[s].mine[i].by # 0
      BY <1>0, <2>7, RetireIs
    <3>2. \A u \in Sessions \ {s} : tx'[u].key = tx[u].key
      BY <3>1 DEF Local, Same
    <3>3. /\ DOMAIN Visible(s)' = DOMAIN Visible(s)
          /\ \A i \in DOMAIN Visible(s)' :
                Visible(s)'[i] = IF i \in Held(s) THEN tx'[s].mine[i] ELSE Visible(s)[i]
      BY <3>1 DEF Visible, Committed, Local
    <3>4. InScope({tx[s].key}, Visible(s))' \subseteq Left(s, {tx[s].key}) \ Held(s)
      BY <3>1, <3>3 DEF InScope, Left
    <3>5. Announced(s)' /\ Newer(s)'
      BY <2>2, <3>1, <3>2, <3>4 DEF Announced, Newer
    <3> QED
      BY <3>1, <3>5, AnLocal
  <2>8. CASE Commit(s)
    BY <2>8, AnCommit
  <2>9. CASE Fail(s)
    <3>1. WorkInv' /\ Local(s) /\ tx'[s].pc = "idle" /\ tx'[s].key = None
      BY <1>0, <2>9, FailIs DEF Idle
    <3>2. Announced(s)' /\ Newer(s)'
      BY <3>1 DEF Announced, Newer
    <3> QED
      BY <3>1, <3>2, AnLocal
  <2>10. CASE Rewrite(s)
    <3>1. /\ Local(s) /\ WorkInv' /\ tx[s].pc \in Updating
          /\ tx'[s].pc = tx[s].pc /\ tx'[s].key = tx[s].key /\ tx'[s].id = tx[s].id
          /\ tx'[s].alone = tx[s].alone
          /\ DOMAIN Visible(s)' = DOMAIN Visible(s)
      BY <1>0, <2>10, RewriteIs
    <3>2. PICK i \in tx[s].todo :
                 /\ tx'[s].todo = tx[s].todo \ {i} /\ Held(s)' = Held(s) \cup {i}
                 /\ \A j \in DOMAIN Visible(s) \ {i} : Visible(s)'[j] = Visible(s)[j]
                 /\ \A j \in Held(s) \ {i} : tx'[s].mine[j] = tx[s].mine[j]
      BY <1>0, <2>10, RewriteIs
    <3>3. \A u \in Sessions \ {s} : tx'[u].key = tx[u].key
      BY <3>1 DEF Local, Same
    <3>4. Announced(s)'
      <4>0. PICK k : k = tx[s].key
        OBVIOUS
      <4>3. tx[s].pc \in Saving => Left(s, {k})' \subseteq Left(s, {k})
        BY <1>0, <2>10, RewriteLeaves
      <4>1. tx[s].pc \in Saving => Left(s, {tx[s].key})' \subseteq Left(s, {tx[s].key})
        BY <3>1, <4>0, <4>3
      <4>2. Left(s, {tx[s].key})' \subseteq Left(s, {tx[s].key}) \cup {i}
        BY <3>1, <3>2 DEF Left, InScope
      <4> QED
        BY <2>2, <3>1, <3>2, <3>3, <4>1, <4>2 DEF Announced, Saving, Updating
    <3>5. Newer(s)'
      <4> SUFFICES ASSUME tx[s].pc = "trimming",
                          tx'[s].id \in tx'[s].todo \/ tx'[s].mine[tx'[s].id].by # 0
                   PROVE  tx[s].id \in tx[s].todo \/ tx[s].mine[tx[s].id].by # 0
        BY <2>2, <3>1 DEF Newer
      <4>1. tx[s].id \in Held(s)
        BY <2>2 DEF TxSound, Inserted, Saving, Held
      <4> QED
        BY <3>1, <3>2, <4>1
    <3> QED
      BY <3>1, <3>4, <3>5, AnLocal
  <2> QED
    BY <2>1, <2>3, <2>4, <2>5, <2>6, <2>7, <2>8, <2>9, <2>10 DEF Step, BreakDeadlock
<1> QED
  BY <1>1, <1>2

\* A transaction with its key to itself does what it announces, whatever the
\* transactions on other keys do meanwhile: after a forget no version of the key
\* is active, after a save the saved one alone, or none if at least MEMORY_CAP
\* newer facts came in while it ran (save_fact, forget_fact).
THEOREM AnnouncedAlwaysTrue == Spec => AnnouncedTrue
<1>1. AnInv /\ [Next]_vars =>
      [\A s \in Sessions :
          Commit(s) /\ tx[s].alone =>
             LET left == ActiveOf(rows', tx[s].key)
             IN IF tx[s].op = "forget" THEN left = {}
                ELSE \/ left = {tx[s].id}
                     \/ /\ left = {}
                        /\ Cardinality({i \in DOMAIN rows' : i > tx[s].id}) >= Cap]_vars
  <2> SUFFICES ASSUME AnInv, NEW s \in Sessions, Commit(s), tx[s].alone
               PROVE  LET left == ActiveOf(rows', tx[s].key)
                      IN IF tx[s].op = "forget" THEN left = {}
                         ELSE \/ left = {tx[s].id}
                              \/ /\ left = {}
                                 /\ Cardinality({i \in DOMAIN rows' : i > tx[s].id}) >= Cap
    OBVIOUS
  <2> DEFINE left == ActiveOf(rows', tx[s].key)
  <2>1. /\ WorkInv /\ Inv /\ rows' = Visible(s) /\ Finished(s)
        /\ Announced(s) /\ Newer(s) /\ Working(tx[s]) /\ TxSound(tx[s], rows)
    BY CommitIs DEF AnInv, WorkInv, Inv
  <2>2. left = InScope({tx[s].key}, Visible(s))
    BY <2>1 DEF ActiveOf, Active, InScope
  <2> HIDE DEF left
  <2>3. CASE tx[s].pc = "trimming"
    <3>1. tx[s].op # "forget" /\ tx[s].todo = {} /\ left \subseteq {tx[s].id}
      BY <2>1, <2>2, <2>3 DEF Working, Saving, Finished, Announced, Left
    <3>2. CASE tx[s].id \in left
      BY <3>1, <3>2 DEF left
    <3>3. CASE tx[s].id \notin left
      <4>1. /\ tx[s].id \in Held(s) /\ tx[s].mine[tx[s].id].key = tx[s].key
            /\ tx[s].id \in DOMAIN Visible(s)
            /\ Visible(s)[tx[s].id] = tx[s].mine[tx[s].id]
        BY <2>1, <2>3 DEF TxSound, Inserted, Saving, Held, Visible
      <4>2. tx[s].mine[tx[s].id].by # 0
        BY <2>2, <3>3, <4>1 DEF InScope
      <4>3. Cardinality({j \in DOMAIN Visible(s) : j > tx[s].id}) >= Cap
        BY <2>1, <2>3, <4>2 DEF Newer
      <4>4. left = {}
        BY <3>1, <3>3
      <4> QED
        BY <2>1, <3>1, <4>3, <4>4 DEF left
    <3> QED
      BY <3>2, <3>3
  <2>4. CASE tx[s].pc \in {"unsetting", "retired"}
    <3>1. tx[s].op = "forget"
      BY <2>1, <2>4 DEF Working
    <3>2. left = {}
      <4>1. CASE tx[s].pc = "retired"
        BY <2>1, <2>2, <4>1 DEF Announced
      <4>2. CASE tx[s].pc = "unsetting"
        <5>1. tx[s].todo = {} /\ Unset(s) = {} /\ left \subseteq Held(s)
          BY <2>1, <2>2, <4>2 DEF Finished, Announced, Left
        <5>2. \A i \in left : tx[s].mine[i].by = 0
          BY <2>2, <5>1 DEF InScope, Visible
        <5> QED
          BY <5>1, <5>2 DEF Unset
      <4> QED
        BY <2>4, <4>1, <4>2
    <3> QED
      BY <3>1, <3>2 DEF left
  <2> QED
    BY <2>1, <2>3, <2>4 DEF Finished
<1> QED
  BY <1>1, AnInit, AnStep, PTL DEF Spec, AnnouncedTrue
=============================================================================
