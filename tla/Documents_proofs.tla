----------------------------- MODULE Documents_proofs -----------------------------
(* What holds of the corpus and of the reading of its pages. *)
EXTENDS Ingest, PageReader, TLAPS

-----------------------------------------------------------------------------
(* The corpus, for every set of files, versions and overlapping runs. *)

RunRecs ==
  [at : Stages, provider : Providers, todo : SUBSET Files, file : Files \cup {NoDoc},
   known : 0..MaxVersion, hash : 0..MaxVersion, body : 0..MaxVersion, seen : BOOLEAN,
   loaded : SUBSET Files, unchanged : SUBSET Files, rejected : SUBSET Files,
   base : [Files -> 0..MaxVersion], alone : BOOLEAN]

Hashed == {"select", "read", "embed", "tx", "waiting", "written"}
HasRead == {"embed", "tx", "waiting", "written"}
Between == {"off", "next", "done"}

\* The directory and the corpus: a row is never ahead of its file, nor its chunks behind
\* the hash it was stored under.
World ==
  /\ target \in CommandLines /\ disk \in [Files -> Versions]
  /\ copies \subseteq [of : Convertible, hash : Versions, body : Versions]
  /\ docs \in [Files -> Rows \cup {NoDoc}]
  /\ marker \in Providers \cup {""}
  /\ \A f \in Files \ Convertible :
       docs[f] # NoDoc => docs[f].hash <= docs[f].body /\ docs[f].body <= disk[f]

\* A file of the walk is still to do, under way, or in one list of the report.
Split(r) ==
  /\ target = r.todo \cup r.loaded \cup r.unchanged \cup r.rejected
                \cup (IF r.file = NoDoc THEN {} ELSE {r.file})
  /\ r.file \notin r.todo \cup r.loaded \cup r.unchanged \cup r.rejected
  /\ r.todo \cap (r.loaded \cup r.unchanged \cup r.rejected) = {}
  /\ r.loaded \cap r.unchanged = {} /\ r.loaded \cap r.rejected = {}
  /\ r.unchanged \cap r.rejected = {}

\* The copy that a converted file is read from is there.
HasCopy(r) == \E c \in copies : c.of = r.file /\ c.hash = r.known

\* Hash before read: what was read is at least as new as what was hashed, and both are at
\* least as new as the directory the run found.
Ordered(r) ==
  /\ r.at \in Hashed =>
       /\ r.hash \in Versions
       /\ r.file \notin Convertible => r.base[r.file] <= r.hash /\ r.hash <= disk[r.file]
  /\ r.at \in HasRead =>
       /\ r.body \in Versions
       /\ r.file \notin Convertible => r.hash <= r.body /\ r.body <= disk[r.file]
  /\ \A f \in Files : r.base[f] <= disk[f]

\* What a run alone has dealt with is in the corpus.
Current(r) ==
  r.alone => \A f \in (r.loaded \cup r.unchanged) \ Convertible :
               docs[f] # NoDoc /\ r.base[f] <= docs[f].body

Live(r) ==
  /\ Split(r) /\ Ordered(r) /\ Current(r)
  /\ r.at = "done" => r.todo = {}
  /\ r.at \in {"convert", "soffice"} => r.file \in Convertible
  /\ r.at = "soffice" => r.known \in Versions
  /\ r.at \in {"hash", "select", "read"} /\ r.file \in Convertible => HasCopy(r)

Local(r) ==
  /\ r \in RunRecs
  /\ r.file = NoDoc <=> r.at \in Between
  /\ r.at # "off" => Live(r)

OneHolder ==
  \A p, q \in Runs : run[p].at = "written" /\ run[q].at = "written" /\ p # q
                       => run[p].file # run[q].file
AloneIsTrue ==
  \A p, q \in Runs : run[p].at # "off" /\ run[p].alone /\ p # q => run[q].at = "off"

InInv ==
  /\ World /\ run = [p \in Runs |-> run[p]] /\ \A p \in Runs : Local(run[p])
  /\ OneHolder /\ AloneIsTrue

-----------------------------------------------------------------------------
LEMMA EndedIsLocal == Local(Ended) /\ Ended.at = "off"
<1> USE IngestAssumption
<1>1. Ended \in RunRecs
    BY DEF Ended, RunRecs, Stages, Providers
<1> QED BY <1>1 DEF Local, Ended, Between

LEMMA InInvInit == InInit => InInv
<1> SUFFICES ASSUME InInit PROVE InInv
    OBVIOUS
<1> USE IngestAssumption
<1>0. 1 \in Versions
    BY DEF Versions
<1>1. World
  <2>1. target \in CommandLines /\ disk \in [Files -> Versions] /\ marker \in Providers \cup {""}
      BY <1>0 DEF InInit
  <2>2. copies = {} /\ docs = [f \in Files |-> NoDoc]
      BY DEF InInit
  <2> QED BY <2>1, <2>2 DEF World
<1>2. \A p \in Runs : run[p] = Ended
    BY DEF InInit
<1> QED BY <1>1, <1>2, EndedIsLocal DEF InInit, InInv, OneHolder, AloneIsTrue

\* What a run knows stays true while files are saved, copies added, and, if other runs
\* overlap it, rows replaced.
LEMMA LocalKept ==
  ASSUME World, World', target' = target,
         \A f \in Files : disk[f] <= disk'[f],
         \A c \in copies : \E d \in copies' : d.of = c.of /\ d.hash = c.hash,
         NEW r, Local(r),
         r.at # "off" /\ r.alone =>
           \A f \in Files \ Convertible :
             docs[f] # NoDoc => docs'[f] # NoDoc /\ docs[f].body <= docs'[f].body
  PROVE  Local(r)'
<1> USE IngestAssumption
<1>0. r \in RunRecs /\ (r.file = NoDoc <=> r.at \in Between)
    BY DEF Local
<1> SUFFICES ASSUME r.at # "off" PROVE Live(r)'
    BY <1>0 DEF Local
<1>a. Live(r)
    BY DEF Local
<1>1. Split(r)'
    BY <1>a DEF Live, Split
<1>2. Ordered(r)'
  <2>1. \A f \in Files : disk[f] \in Nat /\ disk'[f] \in Nat /\ r.base[f] \in Nat
    <3>1. Versions \subseteq Nat /\ 0..MaxVersion \subseteq Nat
        BY DEF Versions
    <3>2. disk \in [Files -> Versions] /\ disk' \in [Files -> Versions]
        BY DEF World
    <3>3. r.base \in [Files -> 0..MaxVersion]
        BY <1>0 DEF RunRecs
    <3> QED BY <3>1, <3>2, <3>3
  <2>2. r.at \in Hashed => r.file \in Files
      BY <1>0 DEF Hashed, Between, RunRecs
  <2>3. r.hash \in Nat /\ r.body \in Nat
      BY <1>0 DEF RunRecs
  <2>4. \A f \in Files : r.base[f] <= disk'[f]
      BY <1>a, <2>1 DEF Live, Ordered
  <2>5. r.at \in Hashed =>
          r.hash \in Versions /\ (r.file \notin Convertible => r.base[r.file] <= r.hash /\ r.hash <= disk'[r.file])
      BY <1>a, <2>1, <2>2, <2>3 DEF Live, Ordered
  <2>6. r.at \in HasRead =>
          r.body \in Versions /\ (r.file \notin Convertible => r.hash <= r.body /\ r.body <= disk'[r.file])
      BY <1>a, <2>1, <2>2, <2>3 DEF Live, Ordered, Hashed, HasRead
  <2> QED BY <2>4, <2>5, <2>6 DEF Ordered
<1>3. Current(r)'
  <2> SUFFICES ASSUME r.alone, NEW f \in (r.loaded \cup r.unchanged) \ Convertible
               PROVE  docs'[f] # NoDoc /\ r.base[f] <= docs'[f].body
      BY DEF Current
  <2>1. f \in Files \ Convertible
      BY <1>0 DEF RunRecs
  <2>2. docs[f] # NoDoc /\ r.base[f] <= docs[f].body
      BY <1>a DEF Live, Current
  <2>3. docs'[f] # NoDoc /\ docs[f].body <= docs'[f].body
      BY <2>1, <2>2
  <2>4. docs[f] \in Rows /\ docs'[f] \in Rows
      BY <2>1, <2>2, <2>3 DEF World
  <2>5. docs[f].body \in Nat /\ docs'[f].body \in Nat /\ r.base[f] \in Nat
      BY <1>0, <2>1, <2>4 DEF Rows, Versions, RunRecs
  <2> QED BY <2>2, <2>3, <2>5
<1>4. r.at \in {"hash", "select", "read"} /\ r.file \in Convertible => HasCopy(r)'
  <2> SUFFICES ASSUME r.at \in {"hash", "select", "read"}, r.file \in Convertible
               PROVE  HasCopy(r)'
      OBVIOUS
  <2>1. PICK c \in copies : c.of = r.file /\ c.hash = r.known
      BY <1>a DEF Live, HasCopy
  <2>2. PICK d \in copies' : d.of = c.of /\ d.hash = c.hash
      OBVIOUS
  <2> QED BY <2>1, <2>2 DEF HasCopy
<1> QED BY <1>a, <1>1, <1>2, <1>3, <1>4 DEF Live

\* A run takes a step of its own: only what it knows has to be looked at.
LEMMA Advance ==
  ASSUME InInv, World', target' = target, disk' = disk, docs' = docs,
         \A c \in copies : \E d \in copies' : d.of = c.of /\ d.hash = c.hash,
         NEW p \in Runs, NEW r, run' = [run EXCEPT ![p] = r],
         Local(r)', run[p].at # "off", r.at = "off" \/ r.alone = run[p].alone,
         r.at = "written" => \A q \in Runs \ {p} : run[q].at = "written" => run[q].file # r.file
  PROVE  InInv'
<1>1. run' = [q \in Runs |-> run'[q]] /\ run'[p] = r /\ \A q \in Runs \ {p} : run'[q] = run[q]
    BY DEF InInv
<1>2. \A q \in Runs : Local(run[q])'
  <2> SUFFICES ASSUME NEW q \in Runs PROVE Local(run[q])'
      OBVIOUS
  <2>1. CASE q = p
      BY <1>1, <2>1
  <2>2. CASE q # p
    <3> DEFINE s == run[q]
    <3>1. s' = s
        BY <1>1, <2>2
    <3>2. ASSUME NEW t, t = s PROVE Local(t)'
      <4>1. Local(t) /\ World
          BY <3>2 DEF InInv
      <4>2. \A f \in Files : disk[f] <= disk'[f]
        <5>1. disk \in [Files -> Versions]
            BY DEF InInv, World
        <5>2. \A v \in Versions : v <= v
            BY IngestAssumption DEF Versions
        <5> QED BY <5>1, <5>2
      <4>3. \A f \in Files \ Convertible :
              docs[f] # NoDoc => docs'[f] # NoDoc /\ docs[f].body <= docs'[f].body
        <5>1. docs \in [Files -> Rows \cup {NoDoc}] /\ docs' = docs
            BY DEF InInv, World
        <5>2. \A row \in Rows : row.body \in Nat
            BY DEF Rows, Versions
        <5>3. \A f \in Files : docs[f] # NoDoc => docs[f].body \in Nat
            BY <5>1, <5>2
        <5> QED BY <5>1, <5>3
      <4> QED BY <4>1, <4>2, <4>3, LocalKept
    <3> QED BY <3>1, <3>2
  <2> QED BY <2>1, <2>2
<1>3. OneHolder'
    BY <1>1 DEF InInv, OneHolder
<1>4. AloneIsTrue'
    BY <1>1 DEF InInv, AloneIsTrue
<1> QED BY <1>1, <1>2, <1>3, <1>4 DEF InInv

\* The usual step changes nothing but what the run knows.
LEMMA Quiet ==
  ASSUME InInv, UNCHANGED <<target, disk, copies, docs, marker>>,
         NEW p \in Runs, NEW r, run' = [run EXCEPT ![p] = r],
         Local(r), run[p].at # "off", r.at = "off" \/ r.alone = run[p].alone,
         r.at = "written" => \A q \in Runs \ {p} : run[q].at = "written" => run[q].file # r.file
  PROVE  InInv'
<1>1. World /\ World'
    BY DEF InInv, World
<1>2. Local(r)'
    BY DEF Local, Live, Split, Ordered, Current, HasCopy
<1>3. \A c \in copies : \E d \in copies' : d.of = c.of /\ d.hash = c.hash
    OBVIOUS
<1> QED BY <1>1, <1>2, <1>3, Advance

-----------------------------------------------------------------------------
(* What a run knows after each of its steps. *)

\* What the report is made of.
Kept(u, v) ==
  /\ u.todo = v.todo /\ u.loaded = v.loaded /\ u.unchanged = v.unchanged
  /\ u.rejected = v.rejected /\ u.base = v.base /\ u.alone = v.alone

LEMMA NextKeeps ==
  ASSUME NEW s \in RunRecs
  PROVE  Next_(s) \in RunRecs /\ Next_(s).at = "next" /\ Next_(s).file = NoDoc /\ Kept(Next_(s), s)
<1> USE IngestAssumption
<1> DEFINE a == [s EXCEPT !.at = "next"]
           b == [a EXCEPT !.file = NoDoc]
           c == [b EXCEPT !.known = 0]
           d == [c EXCEPT !.hash = 0]
           e == [d EXCEPT !.body = 0]
           g == [e EXCEPT !.seen = FALSE]
<1>1. a \in RunRecs /\ a.at = "next" /\ Kept(a, s)
    BY DEF RunRecs, Kept, Stages
<1>2. Next_(s) = g
    BY DEF Next_
<1> HIDE DEF a
<1>3. b \in RunRecs /\ b.at = "next" /\ b.file = NoDoc /\ Kept(b, a)
    BY <1>1 DEF RunRecs, Kept
<1> HIDE DEF b
<1>4. c \in RunRecs /\ c.at = "next" /\ c.file = NoDoc /\ Kept(c, b)
    BY <1>3 DEF RunRecs, Kept
<1> HIDE DEF c
<1>5. d \in RunRecs /\ d.at = "next" /\ d.file = NoDoc /\ Kept(d, c)
    BY <1>4 DEF RunRecs, Kept
<1> HIDE DEF d
<1>6. e \in RunRecs /\ e.at = "next" /\ e.file = NoDoc /\ Kept(e, d)
    BY <1>5 DEF RunRecs, Kept
<1> HIDE DEF e
<1>7. g \in RunRecs /\ g.at = "next" /\ g.file = NoDoc /\ Kept(g, e)
    BY <1>6 DEF RunRecs, Kept
<1> HIDE DEF g
<1>8. Kept(g, s)
    BY <1>1, <1>3, <1>4, <1>5, <1>6, <1>7 DEF Kept
<1> QED BY <1>2, <1>7, <1>8

\* The file under way goes into one of the three lists.
LEMMA Listed ==
  ASSUME World, NEW s, Local(s), s.at # "off", s.file # NoDoc, NEW r \in RunRecs,
         r.at = "next", r.file = NoDoc, r.todo = s.todo, r.base = s.base, r.alone = s.alone,
         \/ /\ r.loaded = s.loaded \cup {s.file} /\ r.unchanged = s.unchanged
            /\ r.rejected = s.rejected
         \/ /\ r.unchanged = s.unchanged \cup {s.file} /\ r.loaded = s.loaded
            /\ r.rejected = s.rejected
         \/ /\ r.rejected = s.rejected \cup {s.file} /\ r.loaded = s.loaded
            /\ r.unchanged = s.unchanged,
         s.alone /\ s.file \in (r.loaded \cup r.unchanged) \ Convertible =>
           docs[s.file] # NoDoc /\ s.base[s.file] <= docs[s.file].body
  PROVE  Local(r)
<1>1. Live(s)
    BY DEF Local
<1>2. Split(r)
  <2>0. Split(s) /\ NoDoc \notin target
      BY <1>1, IngestAssumption DEF Live, World
  <2>1. CASE r.loaded = s.loaded \cup {s.file} /\ r.unchanged = s.unchanged /\ r.rejected = s.rejected
      BY <2>0, <2>1 DEF Split
  <2>2. CASE r.unchanged = s.unchanged \cup {s.file} /\ r.loaded = s.loaded /\ r.rejected = s.rejected
      BY <2>0, <2>2 DEF Split
  <2>3. CASE r.rejected = s.rejected \cup {s.file} /\ r.loaded = s.loaded /\ r.unchanged = s.unchanged
      BY <2>0, <2>3 DEF Split
  <2> QED BY <2>1, <2>2, <2>3
<1>3. Ordered(r)
    BY <1>1 DEF Live, Ordered, Hashed, HasRead
<1>4. Current(r)
    BY <1>1 DEF Live, Current
<1> QED BY <1>2, <1>3, <1>4 DEF Local, Live, Between

LEMMA RejectLocal ==
  ASSUME World, NEW s, Local(s), s.at # "off", s.file # NoDoc
  PROVE  Local(Reject(s)) /\ Reject(s).at = "next" /\ Reject(s).alone = s.alone
<1> DEFINE q == [s EXCEPT !.rejected = @ \cup {s.file}]
<1> DEFINE r == Next_(q)
<1>0. s \in RunRecs /\ s.file \in Files
    BY DEF Local, RunRecs
<1>1. /\ q \in RunRecs /\ q.rejected = s.rejected \cup {s.file} /\ q.todo = s.todo
      /\ q.base = s.base /\ q.alone = s.alone /\ q.loaded = s.loaded /\ q.unchanged = s.unchanged
    BY <1>0 DEF RunRecs
<1>2. Reject(s) = r
    BY DEF Reject
<1> HIDE DEF q
<1>3. /\ r.at = "next" /\ r.file = NoDoc /\ r.todo = s.todo /\ r.base = s.base
      /\ r.alone = s.alone /\ r.loaded = s.loaded /\ r.unchanged = s.unchanged
      /\ r.rejected = s.rejected \cup {s.file} /\ r \in RunRecs
    BY <1>1, NextKeeps DEF Kept
<1>5. s.alone /\ s.file \in (r.loaded \cup r.unchanged) \ Convertible => FALSE
    BY <1>3 DEF Local, Live, Split
<1> HIDE DEF r
<1>6. Local(r)
    BY <1>3, <1>5, Listed
<1> QED BY <1>2, <1>3, <1>6

\* A step to another stage that learns nothing and asks no more of what is known.
LEMMA MoveLocal ==
  ASSUME NEW s, Local(s), NEW stage \in Stages \ Between, s.at \notin Between,
         stage \in Hashed => s.at \in Hashed, stage \in HasRead => s.at \in HasRead,
         stage \notin {"convert", "soffice", "hash", "select", "read"}
  PROVE  /\ Local([s EXCEPT !.at = stage]) /\ [s EXCEPT !.at = stage].alone = s.alone
         /\ [s EXCEPT !.at = stage].at = stage /\ [s EXCEPT !.at = stage].file = s.file
<1> DEFINE r == [s EXCEPT !.at = stage]
<1>0. s \in RunRecs /\ Live(s) /\ s.file # NoDoc
    BY DEF Local, Between
<1>1. /\ r \in RunRecs /\ r.at = stage /\ r.file = s.file /\ r.alone = s.alone /\ r.base = s.base
      /\ r.todo = s.todo /\ r.loaded = s.loaded /\ r.unchanged = s.unchanged
      /\ r.rejected = s.rejected /\ r.hash = s.hash /\ r.body = s.body
    BY <1>0 DEF RunRecs
<1> HIDE DEF r
<1>2. Split(r) /\ Current(r)
    BY <1>0, <1>1 DEF Live, Split, Current
<1>3. Ordered(r)
    BY <1>0, <1>1 DEF Live, Ordered
<1>4. Local(r)
    BY <1>0, <1>1, <1>2, <1>3 DEF Local, Live, Between
<1> QED BY <1>1, <1>4 DEF r

Taken(s, f, stage) == [s EXCEPT !.todo = @ \ {f}, !.file = f, !.at = stage]
LEMMA TakeLocal ==
  ASSUME World, NEW s, Local(s), s.at = "next", NEW f \in s.todo,
         NEW stage \in {"convert", "hash"}, stage = "convert" <=> f \in Convertible,
         NEW r, r = Taken(s, f, stage)
  PROVE  Local(r) /\ r.at = stage /\ r.alone = s.alone
<1> USE IngestAssumption
<1> DEFINE a == [s EXCEPT !.todo = @ \ {f}]
           b == [a EXCEPT !.file = f]
<1>0. s \in RunRecs /\ Live(s) /\ s.file = NoDoc /\ f \in Files /\ f # NoDoc
    BY DEF Local, Between, RunRecs
<1>1. /\ a \in RunRecs /\ a.todo = s.todo \ {f} /\ a.loaded = s.loaded /\ a.unchanged = s.unchanged
      /\ a.rejected = s.rejected /\ a.base = s.base /\ a.alone = s.alone
    BY <1>0 DEF RunRecs
<1>2. r = [b EXCEPT !.at = stage]
    BY DEF Taken
<1> HIDE DEF a
<1>3. b \in RunRecs /\ b.file = f /\ Kept(b, a)
    BY <1>0, <1>1 DEF RunRecs, Kept
<1> HIDE DEF b
<1>4. r \in RunRecs /\ r.at = stage /\ r.file = f /\ Kept(r, b)
    BY <1>2, <1>3 DEF RunRecs, Kept, Stages
<1>5. Split(r)
    BY <1>0, <1>1, <1>3, <1>4 DEF Live, Split, Kept
<1>6. Ordered(r)
    BY <1>0, <1>1, <1>3, <1>4 DEF Live, Ordered, Hashed, HasRead, Kept
<1>7. Current(r)
    BY <1>0, <1>1, <1>3, <1>4 DEF Live, Current, Kept
<1>8. r.alone = s.alone
    BY <1>1, <1>3, <1>4 DEF Kept
<1> QED BY <1>0, <1>4, <1>5, <1>6, <1>7, <1>8 DEF Local, Live, Between

\* The same file at another stage: what is new has to be looked at.
LEMMA StageLocal ==
  ASSUME NEW s, Local(s), s.at \notin Between, NEW r \in RunRecs, r.at \notin Between,
         r.file = s.file, Kept(r, s), Ordered(r),
         r.at \in {"convert", "soffice"} => r.file \in Convertible,
         r.at = "soffice" => r.known \in Versions,
         r.at \in {"hash", "select", "read"} /\ r.file \in Convertible => HasCopy(r)
  PROVE  Local(r)
<1>1. Live(s) /\ s.file # NoDoc
    BY DEF Local, Between
<1>2. Split(r) /\ Current(r)
    BY <1>1 DEF Live, Split, Current, Kept
<1> QED BY <1>1, <1>2 DEF Local, Live, Between

\* The version on disk is at least the one the run found.
LEMMA DiskIsNewer ==
  ASSUME World, NEW s, Local(s), s.at \notin Between
  PROVE  /\ s.file \in Files /\ disk[s.file] \in Versions /\ disk[s.file] \in 0..MaxVersion
         /\ s.base[s.file] <= disk[s.file] /\ disk[s.file] <= disk[s.file]
<1>1. s.file \in Files
    BY DEF Local, RunRecs, Between
<1>2. disk[s.file] \in Versions
    BY <1>1 DEF World
<1>3. s.base[s.file] <= disk[s.file]
    BY <1>1 DEF Local, Live, Ordered, Between
<1> QED BY <1>1, <1>2, <1>3, IngestAssumption DEF Versions

Converted(s, stage) == [s EXCEPT !.known = disk[s.file], !.at = stage]
LEMMA ConvertLocal ==
  ASSUME World, NEW s, Local(s), s.at = "convert",
         NEW stage \in {"soffice", "hash"},
         stage = "hash" => \E c \in copies : c.of = s.file /\ c.hash = disk[s.file],
         NEW r, r = Converted(s, stage)
  PROVE  Local(r) /\ r.at = stage /\ r.alone = s.alone
<1> DEFINE a == [s EXCEPT !.known = disk[s.file]]
<1>0. s \in RunRecs /\ Live(s) /\ s.at \notin Between
    BY DEF Local, Between
<1>1. s.file \in Convertible /\ disk[s.file] \in Versions /\ disk[s.file] \in 0..MaxVersion
    BY <1>0, DiskIsNewer DEF Live
<1>2. a \in RunRecs /\ a.known = disk[s.file] /\ a.file = s.file /\ Kept(a, s)
    BY <1>0, <1>1 DEF RunRecs, Kept
<1>3. r = [a EXCEPT !.at = stage]
    BY DEF Converted
<1> HIDE DEF a
<1>4. r \in RunRecs /\ r.at = stage /\ r.known = a.known /\ r.file = a.file /\ Kept(r, a)
    BY <1>2, <1>3 DEF RunRecs, Kept, Stages
<1>5. Kept(r, s) /\ r.file = s.file /\ r.known = disk[s.file]
    BY <1>2, <1>4 DEF Kept
<1>6. Ordered(r)
    BY <1>0, <1>4, <1>5 DEF Live, Ordered, Hashed, HasRead, Kept
<1>7. r.at = "hash" => HasCopy(r)
  <2> SUFFICES ASSUME r.at = "hash" PROVE HasCopy(r)
      OBVIOUS
  <2>2. PICK c \in copies : c.of = s.file /\ c.hash = disk[s.file]
      BY <1>4
  <2> QED BY <1>5, <2>2 DEF HasCopy
<1>8. r.at \in {"soffice", "hash"}
    BY <1>4
<1>9. Local(r)
    BY <1>0, <1>1, <1>4, <1>5, <1>6, <1>7, <1>8, StageLocal DEF Between
<1> QED BY <1>4, <1>5, <1>9 DEF Kept

LEMMA HashLocal ==
  ASSUME World, NEW s, Local(s), s.at = "hash",
         NEW r, r = [s EXCEPT !.hash = disk[s.file], !.at = "select"]
  PROVE  Local(r) /\ r.at = "select" /\ r.alone = s.alone
<1> DEFINE a == [s EXCEPT !.hash = disk[s.file]]
<1>0. s \in RunRecs /\ Live(s) /\ s.at \notin Between
    BY DEF Local, Between
<1>1. /\ s.file \in Files /\ disk[s.file] \in Versions /\ disk[s.file] \in 0..MaxVersion
      /\ s.base[s.file] <= disk[s.file] /\ disk[s.file] <= disk[s.file]
    BY <1>0, DiskIsNewer
<1>2. a \in RunRecs /\ a.hash = disk[s.file] /\ a.known = s.known /\ a.file = s.file /\ Kept(a, s)
    BY <1>0, <1>1 DEF RunRecs, Kept
<1>3. r = [a EXCEPT !.at = "select"]
    OBVIOUS
<1> HIDE DEF a
<1>4. /\ r \in RunRecs /\ r.at = "select" /\ r.hash = a.hash /\ r.known = a.known
      /\ r.file = a.file /\ Kept(r, a)
    BY <1>2, <1>3 DEF RunRecs, Kept, Stages
<1>5. Kept(r, s) /\ r.file = s.file /\ r.known = s.known /\ r.hash = disk[s.file]
    BY <1>2, <1>4 DEF Kept
<1>6. Ordered(r)
    BY <1>0, <1>1, <1>4, <1>5 DEF Live, Ordered, Hashed, HasRead, Kept
<1>7. r.file \in Convertible => HasCopy(r)
    BY <1>0, <1>5 DEF HasCopy, Live
<1> QED BY <1>0, <1>4, <1>5, <1>6, <1>7, StageLocal DEF Between, Kept

\* Stored under the hash the file has: the row is the file's, or the one of a later save.
LEMMA UnchangedLocal ==
  ASSUME World, NEW s, Local(s), s.at = "select", docs[s.file] # NoDoc,
         docs[s.file].hash = s.hash,
         NEW r, r = Next_([s EXCEPT !.unchanged = @ \cup {s.file}])
  PROVE  Local(r) /\ r.at = "next" /\ r.alone = s.alone
<1> DEFINE a == [s EXCEPT !.unchanged = @ \cup {s.file}]
<1>0. s \in RunRecs /\ Live(s) /\ s.file \in Files /\ s.file # NoDoc
    BY IngestAssumption DEF Local, Between, RunRecs
<1>1. /\ a \in RunRecs /\ a.unchanged = s.unchanged \cup {s.file} /\ a.loaded = s.loaded
      /\ a.rejected = s.rejected /\ a.todo = s.todo /\ a.base = s.base /\ a.alone = s.alone
    BY <1>0 DEF RunRecs
<1> HIDE DEF a
<1>2. /\ r \in RunRecs /\ r.at = "next" /\ r.file = NoDoc /\ Kept(r, a)
    BY <1>1, NextKeeps DEF a
<1>3. s.file \notin Convertible => s.base[s.file] <= docs[s.file].body
  <2> SUFFICES ASSUME s.file \in Files \ Convertible PROVE s.base[s.file] <= docs[s.file].body
      BY <1>0
  <2>1. s.base[s.file] <= s.hash
      BY <1>0 DEF Live, Ordered, Hashed
  <2>2. docs[s.file].hash <= docs[s.file].body /\ docs[s.file] \in Rows
      BY DEF World
  <2>3. s.base[s.file] \in Nat /\ s.hash \in Nat /\ docs[s.file].body \in Nat
      BY <1>0, <2>2, IngestAssumption DEF RunRecs, Rows, Versions
  <2> QED BY <2>1, <2>2, <2>3
<1> QED BY <1>0, <1>1, <1>2, <1>3, Listed DEF Kept

LEMMA ToReadLocal ==
  ASSUME World, NEW s, Local(s), s.at = "select", NEW seen \in BOOLEAN,
         NEW r, r = [s EXCEPT !.seen = seen, !.at = "read"]
  PROVE  Local(r) /\ r.at = "read" /\ r.alone = s.alone
<1> DEFINE a == [s EXCEPT !.seen = seen]
<1>0. s \in RunRecs /\ Live(s) /\ s.at \notin Between
    BY DEF Local, Between
<1>1. a \in RunRecs /\ a.hash = s.hash /\ a.known = s.known /\ a.file = s.file /\ Kept(a, s)
    BY <1>0 DEF RunRecs, Kept
<1>2. r = [a EXCEPT !.at = "read"]
    OBVIOUS
<1> HIDE DEF a
<1>3. /\ r \in RunRecs /\ r.at = "read" /\ r.hash = a.hash /\ r.known = a.known
      /\ r.file = a.file /\ Kept(r, a)
    BY <1>1, <1>2 DEF RunRecs, Kept, Stages
<1>4. Kept(r, s) /\ r.file = s.file /\ r.known = s.known /\ r.hash = s.hash
    BY <1>1, <1>3 DEF Kept
<1>5. Ordered(r)
    BY <1>0, <1>3, <1>4 DEF Live, Ordered, Hashed, HasRead, Kept
<1>6. r.file \in Convertible => HasCopy(r)
    BY <1>0, <1>4 DEF HasCopy, Live
<1> QED BY <1>0, <1>3, <1>4, <1>5, <1>6, StageLocal DEF Between, Kept

\* Read after the hash: at least as new.
LEMMA ReadLocal ==
  ASSUME World, NEW s, Local(s), s.at = "read",
         NEW r, r = [s EXCEPT !.body = Content(s), !.at = "embed"]
  PROVE  Local(r) /\ r.at = "embed" /\ r.alone = s.alone
<1> DEFINE a == [s EXCEPT !.body = Content(s)]
<1>0. s \in RunRecs /\ Live(s) /\ s.at \notin Between
    BY DEF Local, Between
<1>1. /\ Content(s) \in Versions
      /\ s.file \notin Convertible => s.hash <= Content(s) /\ Content(s) <= disk[s.file]
  <2>1. CASE s.file \in Convertible
    <3>1. PICK c \in copies : c.of = s.file /\ c.hash = s.known
        BY <1>0, <2>1 DEF Live, HasCopy
    <3> DEFINE best == CHOOSE d \in copies : d.of = s.file /\ d.hash = s.known
    <3>2. best \in copies
        BY <3>1
    <3>3. best.body \in Versions
        BY <3>2 DEF World
    <3> QED BY <2>1, <3>3 DEF Content
  <2>2. CASE s.file \notin Convertible
      BY <1>0, <2>2, DiskIsNewer DEF Content, Live, Ordered, Hashed
  <2> QED BY <2>1, <2>2
<1>2. Content(s) \in 0..MaxVersion
    BY <1>1, IngestAssumption DEF Versions
<1>3. a \in RunRecs /\ a.body = Content(s) /\ a.hash = s.hash /\ a.file = s.file /\ Kept(a, s)
    BY <1>0, <1>2 DEF RunRecs, Kept
<1>4. r = [a EXCEPT !.at = "embed"]
    OBVIOUS
<1> HIDE DEF a
<1>5. /\ r \in RunRecs /\ r.at = "embed" /\ r.hash = a.hash /\ r.body = a.body
      /\ r.file = a.file /\ Kept(r, a)
    BY <1>3, <1>4 DEF RunRecs, Kept, Stages
<1>6. Kept(r, s) /\ r.file = s.file /\ r.body = Content(s) /\ r.hash = s.hash
    BY <1>3, <1>5 DEF Kept
<1>7. Ordered(r)
    BY <1>0, <1>1, <1>5, <1>6 DEF Live, Ordered, Hashed, HasRead, Kept
<1> QED BY <1>0, <1>5, <1>6, <1>7, StageLocal DEF Between, Kept

LEMMA FinishLocal ==
  ASSUME NEW s, Local(s), s.at = "next", s.todo = {}, NEW r, r = [s EXCEPT !.at = "done"]
  PROVE  Local(r) /\ r.at = "done" /\ r.alone = s.alone
<1>0. s \in RunRecs /\ Live(s) /\ s.file = NoDoc
    BY DEF Local, Between
<1>1. r \in RunRecs /\ r.at = "done" /\ r.file = s.file /\ Kept(r, s)
    BY <1>0 DEF RunRecs, Kept, Stages
<1>2. Split(r) /\ Ordered(r) /\ Current(r)
    BY <1>0, <1>1 DEF Live, Split, Ordered, Current, Kept, Hashed, HasRead
<1> QED BY <1>0, <1>1, <1>2 DEF Local, Live, Between, Kept

-----------------------------------------------------------------------------
(* The steps. *)

LEMMA SaveKeeps == ASSUME InInv, NEW f \in target, Save(f) PROVE InInv'
<1> USE IngestAssumption
<1>0. f \in Files /\ disk \in [Files -> Versions] /\ target \subseteq Files
    BY DEF InInv, World
<1>1. disk[f] + 1 \in Versions
    BY <1>0 DEF Save, Versions
<1>2. disk' \in [Files -> Versions]
    BY <1>0, <1>1 DEF Save
<1>3. \A g \in Files : disk[g] <= disk'[g]
  <2>1. \A v \in Versions : v <= v /\ v <= v + 1
      BY DEF Versions
  <2> QED BY <1>0, <2>1 DEF Save
<1>4. \A g \in Files \ Convertible :
        docs[g] # NoDoc => docs[g].hash <= docs[g].body /\ docs[g].body <= disk'[g]
  <2> SUFFICES ASSUME NEW g \in Files \ Convertible, docs[g] # NoDoc
               PROVE  docs[g].hash <= docs[g].body /\ docs[g].body <= disk'[g]
      OBVIOUS
  <2>1. docs[g] \in Rows /\ disk[g] \in Versions /\ disk'[g] \in Versions
      BY <1>0, <1>2 DEF InInv, World
  <2>2. docs[g].body \in Nat /\ disk[g] \in Nat /\ disk'[g] \in Nat
      BY <2>1 DEF Rows, Versions
  <2>3. docs[g].hash <= docs[g].body /\ docs[g].body <= disk[g] /\ disk[g] <= disk'[g]
      BY <1>3 DEF InInv, World
  <2> QED BY <2>2, <2>3
<1>5. UNCHANGED <<target, copies, docs, marker, run>>
    BY DEF Save
<1>6. World /\ World'
    BY <1>2, <1>4, <1>5 DEF InInv, World
<1>7. \A q \in Runs : Local(run[q])'
  <2> SUFFICES ASSUME NEW q \in Runs PROVE Local(run[q])'
      OBVIOUS
  <2>1. ASSUME NEW t, t = run[q] PROVE Local(t)'
    <3>1. Local(t) /\ docs' = docs
        BY <1>5, <2>1 DEF InInv
    <3>2. \A c \in copies : \E d \in copies' : d.of = c.of /\ d.hash = c.hash
        BY <1>5
    <3>3. \A g \in Files \ Convertible :
            docs[g] # NoDoc => docs'[g] # NoDoc /\ docs[g].body <= docs'[g].body
      <4>1. docs \in [Files -> Rows \cup {NoDoc}]
          BY DEF InInv, World
      <4>2. \A row \in Rows : row.body <= row.body
          BY DEF Rows, Versions
      <4> QED BY <3>1, <4>1, <4>2
    <3> QED BY <1>3, <1>5, <1>6, <3>1, <3>2, <3>3, LocalKept
  <2> QED BY <1>5, <2>1
<1> QED BY <1>5, <1>6, <1>7 DEF InInv, OneHolder, AloneIsTrue

LEMMA StartLocal ==
  ASSUME World, NEW provider \in Providers, NEW alone \in BOOLEAN,
         NEW r, r = [Ended EXCEPT !.at = "next", !.provider = provider, !.todo = target,
                                  !.base = disk, !.alone = alone]
  PROVE  Local(r) /\ r.at = "next" /\ r.alone = alone
<1> USE IngestAssumption
<1> DEFINE Blank(u) == u.file = NoDoc /\ u.loaded = {} /\ u.unchanged = {} /\ u.rejected = {}
<1>2. target \in SUBSET Files /\ disk \in [Files -> 0..MaxVersion]
  <2>1. Versions \subseteq 0..MaxVersion
      BY DEF Versions
  <2> QED BY <2>1 DEF World
<1>4. /\ r \in RunRecs /\ r.at = "next" /\ r.todo = target /\ r.base = disk /\ r.alone = alone
      /\ Blank(r)
  <2> DEFINE a == [Ended EXCEPT !.at = "next"]
             b == [a EXCEPT !.provider = provider]
             c == [b EXCEPT !.todo = target]
             d == [c EXCEPT !.base = disk]
  <2>0. Ended \in RunRecs /\ Blank(Ended)
      BY EndedIsLocal DEF Local, Ended
  <2>1. a \in RunRecs /\ a.at = "next" /\ Blank(a)
      BY <2>0 DEF RunRecs, Stages
  <2>5. r = [d EXCEPT !.alone = alone]
      OBVIOUS
  <2> HIDE DEF a
  <2>2. b \in RunRecs /\ b.at = "next" /\ Blank(b)
      BY <2>1 DEF RunRecs
  <2> HIDE DEF b
  <2>3. c \in RunRecs /\ c.at = "next" /\ Blank(c) /\ c.todo = target
      BY <1>2, <2>2 DEF RunRecs
  <2> HIDE DEF c
  <2>4. d \in RunRecs /\ d.at = "next" /\ Blank(d) /\ d.todo = target /\ d.base = disk
      BY <1>2, <2>3 DEF RunRecs
  <2> HIDE DEF d
  <2> QED BY <2>4, <2>5 DEF RunRecs
<1>5. \A f \in Files : disk[f] <= disk[f]
    BY <1>2
<1>6. Split(r) /\ Current(r)
    BY <1>2, <1>4 DEF Split, Current
<1>7. Ordered(r)
    BY <1>4, <1>5 DEF Ordered, Hashed, HasRead
<1> QED BY <1>4, <1>6, <1>7 DEF Local, Live, Between

LEMMA StartKeeps ==
  ASSUME InInv, NEW p \in Runs, NEW provider \in Providers, Start(p, provider)
  PROVE  InInv'
<1> USE IngestAssumption
<1> DEFINE others == {q \in Runs \ {p} : ~At(q, "off")}
           mine == [Ended EXCEPT !.at = "next", !.provider = provider, !.todo = target,
                                 !.base = disk, !.alone = others = {}]
           New(q) == IF q = p THEN mine ELSE [run[q] EXCEPT !.alone = @ /\ q \notin others]
<1>1. run' = [q \in Runs |-> New(q)] /\ UNCHANGED <<target, disk, copies, docs>>
    BY DEF Start
<1>2. World /\ World'
    BY DEF InInv, World, Start
<1>3. Local(mine) /\ mine.at = "next" /\ mine.alone = (others = {})
  <2>1. (others = {}) \in BOOLEAN
      OBVIOUS
  <2> DEFINE alone == others = {}
  <2>2. mine = [Ended EXCEPT !.at = "next", !.provider = provider, !.todo = target,
                             !.base = disk, !.alone = alone]
      OBVIOUS
  <2> HIDE DEF mine, alone
  <2>3. Local(mine) /\ mine.at = "next" /\ mine.alone = alone
      BY <1>2, <2>1, <2>2, StartLocal DEF alone
  <2> QED BY <2>3 DEF alone
<1>4. ASSUME NEW q \in Runs \ {p}
      PROVE  /\ Local(New(q)) /\ New(q).at = run[q].at /\ New(q).file = run[q].file
             /\ New(q).at # "off" => ~New(q).alone
  <2> DEFINE flag == run[q].alone /\ q \notin others
             r == [run[q] EXCEPT !.alone = flag]
  <2>0. flag \in BOOLEAN /\ (flag => run[q].at = "off")
      BY <1>4 DEF At
  <2>1. New(q) = r
      BY <1>4
  <2>2. Local(run[q]) /\ run[q] \in RunRecs
      BY DEF InInv, Local
  <2> HIDE DEF flag
  <2>3. /\ r \in RunRecs /\ r.at = run[q].at /\ r.file = run[q].file /\ r.todo = run[q].todo
        /\ r.loaded = run[q].loaded /\ r.unchanged = run[q].unchanged
        /\ r.rejected = run[q].rejected /\ r.base = run[q].base /\ r.hash = run[q].hash
        /\ r.body = run[q].body /\ r.known = run[q].known /\ r.alone = flag
      BY <2>0, <2>2 DEF RunRecs
  <2> HIDE DEF r, New
  <2>4. r.at # "off" => Live(r)
      BY <2>0, <2>2, <2>3 DEF Local, Live, Split, Ordered, Current, HasCopy
  <2>5. Local(r)
      BY <2>2, <2>3, <2>4 DEF Local
  <2> QED BY <2>0, <2>1, <2>3, <2>5
<1> HIDE DEF New, mine
<1>5. \A q \in Runs : run'[q] = New(q)
    BY <1>1
<1>6. New(p) = mine
    BY DEF New
<1>7. \A q \in Runs : Local(New(q))
    BY <1>3, <1>4, <1>6
<1>8. \A q \in Runs : Local(run[q])'
  <2> SUFFICES ASSUME NEW q \in Runs PROVE Local(run[q])'
      OBVIOUS
  <2>1. ASSUME NEW t, Local(t) PROVE Local(t)'
      BY <1>1, <2>1 DEF Local, Live, Split, Ordered, Current, HasCopy
  <2>2. ASSUME NEW t, t = run'[q] PROVE Local(t)'
      BY <1>5, <1>7, <2>1, <2>2
  <2> QED BY <2>2
<1>9. OneHolder'
    BY <1>3, <1>4, <1>5, <1>6 DEF InInv, OneHolder
<1>10. AloneIsTrue'
  <2> SUFFICES ASSUME NEW q \in Runs, NEW o \in Runs, New(q).at # "off", New(q).alone, q # o
               PROVE  New(o).at = "off"
      BY <1>5 DEF AloneIsTrue
  <2>1. q = p
      BY <1>4
  <2>2. others = {}
      BY <1>3, <1>6, <2>1
  <2>3. run[o].at = "off"
      BY <2>1, <2>2 DEF At
  <2> QED BY <1>4, <2>1, <2>3
<1> QED BY <1>1, <1>2, <1>8, <1>9, <1>10 DEF InInv

LEMMA SofficeKeeps ==
  ASSUME InInv, NEW p \in Runs, Soffice(p), ~Turned(p)
  PROVE  InInv'
<1> USE IngestAssumption
<1> DEFINE s == run[p]
           f == s.file
           fresh == [of |-> f, hash |-> s.known, body |-> disk[f]]
           stale == {c \in copies : c.of = f /\ c.hash = s.known}
<1>0. Local(s) /\ Live(s) /\ World /\ s.at = "soffice" /\ s.at \notin Between /\ s \in RunRecs
    BY DEF InInv, Soffice, At, Local, Between
<1>1. f \in Convertible /\ s.known \in Versions /\ disk[f] \in Versions
    BY <1>0, DiskIsNewer DEF Live
<1>2. /\ copies' = (copies \ stale) \cup {fresh} /\ run' = [run EXCEPT ![p] = [s EXCEPT !.at = "hash"]]
      /\ UNCHANGED <<target, disk, docs, marker>>
    BY DEF Soffice, MoveTo, Put
<1>3. fresh \in [of : Convertible, hash : Versions, body : Versions] /\ fresh.of = f /\ fresh.hash = s.known
    BY <1>1
<1>4. World'
    BY <1>0, <1>2, <1>3 DEF World
<1>5. \A c \in copies : \E d \in copies' : d.of = c.of /\ d.hash = c.hash
    BY <1>2, <1>3
<1>6. \E c \in copies' : c.of = f /\ c.hash = s.known
    BY <1>2, <1>3
<1>7. ASSUME NEW r, r = [s EXCEPT !.at = "hash"] PROVE Local(r)' /\ r.at = "hash" /\ r.alone = s.alone
  <2>1. /\ r \in RunRecs /\ r.at = "hash" /\ r.file = f /\ r.known = s.known /\ Kept(r, s)
      BY <1>0, <1>7 DEF RunRecs, Kept, Stages
  <2>2. HasCopy(r)'
      BY <1>6, <2>1 DEF HasCopy
  <2>3. Split(r) /\ Ordered(r) /\ Current(r)
      BY <1>0, <2>1 DEF Live, Split, Ordered, Current, Kept, Hashed, HasRead
  <2>4. Split(r)' /\ Ordered(r)' /\ Current(r)'
      BY <1>2, <2>3 DEF Split, Ordered, Current
  <2>5. r.file # NoDoc
      BY <1>1, <2>1
  <2> QED BY <2>1, <2>2, <2>4, <2>5 DEF Local, Live, Between, Kept
<1>8. \E r : r = [s EXCEPT !.at = "hash"]
    OBVIOUS
<1> HIDE DEF fresh, stale
<1> QED BY <1>0, <1>2, <1>4, <1>5, <1>7, <1>8, Advance

\* The row is replaced as a whole by one that is at least as new as its hash.
LEMMA CommitKeeps ==
  ASSUME InInv, NEW p \in Runs, Commit(p)
  PROVE  InInv' /\ \A f \in Files : docs[f] # NoDoc => docs'[f] # NoDoc
<1> USE IngestAssumption
<1> DEFINE s == run[p]
           f == s.file
           row == [hash |-> s.hash, body |-> s.body]
           mine == Next_([s EXCEPT !.loaded = @ \cup {f}])
           New(q) == IF q = p THEN mine
                     ELSE IF At(q, "waiting") /\ run[q].file = f THEN Reject(run[q]) ELSE run[q]
<1>0. /\ Local(s) /\ Live(s) /\ World /\ s.at = "written" /\ s \in RunRecs /\ f \in Files /\ f # NoDoc
    BY DEF InInv, Commit, At, Local, Between, RunRecs
<1>1. /\ docs' = [docs EXCEPT ![f] = row] /\ run' = [q \in Runs |-> New(q)]
      /\ UNCHANGED <<target, disk, copies, marker>>
    BY DEF Commit, NewRow
<1>2. row \in Rows /\ row # NoDoc /\ row.hash = s.hash /\ row.body = s.body
    BY <1>0 DEF Live, Ordered, Hashed, HasRead, Rows, Versions
<1>3. f \notin Convertible => s.base[f] <= s.hash /\ s.hash <= s.body /\ s.body <= disk[f]
    BY <1>0 DEF Live, Ordered, Hashed, HasRead
<1>4. docs'[f] = row /\ \A g \in Files \ {f} : docs'[g] = docs[g]
    BY <1>0, <1>1 DEF World
<1>5. \A g \in Files : docs[g] # NoDoc => docs'[g] # NoDoc
    BY <1>2, <1>4
<1>6. World'
  <2>1. docs' \in [Files -> Rows \cup {NoDoc}]
      BY <1>0, <1>1, <1>2 DEF World
  <2>2. \A g \in Files \ Convertible :
          docs'[g] # NoDoc => docs'[g].hash <= docs'[g].body /\ docs'[g].body <= disk[g]
      BY <1>0, <1>2, <1>3, <1>4 DEF World
  <2> QED BY <1>0, <1>1, <2>1, <2>2 DEF World
<1> HIDE DEF row
<1>7. ASSUME NEW t, t = mine PROVE Local(t)' /\ t.at = "next" /\ t.alone = s.alone
  <2> DEFINE a == [s EXCEPT !.loaded = @ \cup {f}]
  <2>1. /\ a \in RunRecs /\ a.loaded = s.loaded \cup {f} /\ a.unchanged = s.unchanged
        /\ a.rejected = s.rejected /\ a.todo = s.todo /\ a.base = s.base /\ a.alone = s.alone
      BY <1>0 DEF RunRecs
  <2> HIDE DEF a
  <2>2. t \in RunRecs /\ t.at = "next" /\ t.file = NoDoc /\ Kept(t, a)
      BY <1>7, <2>1, NextKeeps DEF a
  <2>3. /\ t.todo = s.todo /\ t.loaded = s.loaded \cup {f} /\ t.unchanged = s.unchanged
        /\ t.rejected = s.rejected /\ t.base = s.base /\ t.alone = s.alone
      BY <2>1, <2>2 DEF Kept
  <2>4. Split(t)'
    <3>1. Split(s) /\ NoDoc \notin target /\ s.file # NoDoc
        BY <1>0 DEF Live, World
    <3>2. Split(t)
        BY <2>2, <2>3, <3>1 DEF Split
    <3> QED BY <1>1, <3>2 DEF Split
  <2>5. Ordered(t)'
      BY <1>0, <1>1, <2>2, <2>3 DEF Live, Ordered, Hashed, HasRead
  <2>6. Current(t)'
    <3> SUFFICES ASSUME t.alone, NEW g \in (t.loaded \cup t.unchanged) \ Convertible
                 PROVE  docs'[g] # NoDoc /\ t.base[g] <= docs'[g].body
        BY DEF Current
    <3>1. CASE g = f
      <4>1. s.base[f] \in Nat /\ s.hash \in Nat /\ s.body \in Nat
          BY <1>0 DEF RunRecs
      <4> QED BY <1>2, <1>3, <1>4, <2>3, <3>1, <4>1
    <3>2. CASE g # f
        BY <1>0, <1>4, <2>1, <2>3, <3>2 DEF Live, Current, RunRecs
    <3> QED BY <3>1, <3>2
  <2> QED BY <2>2, <2>3, <2>4, <2>5, <2>6 DEF Local, Live, Between
<1>8. \A q \in Runs \ {p} : run[q].at # "off" => ~run[q].alone
    BY <1>0 DEF InInv, AloneIsTrue
<1>9. ASSUME NEW q \in Runs \ {p}, NEW t, t = New(q)
      PROVE  /\ Local(t)' /\ (t.at = "written" => run[q].at = "written" /\ run[q].file = t.file)
             /\ (t.at = "off" <=> run[q].at = "off") /\ t.alone = run[q].alone
  <2>1. Local(run[q])
      BY DEF InInv
  <2>2. /\ Local(t) /\ (t.at = "written" => run[q].at = "written" /\ run[q].file = t.file)
        /\ (t.at = "off" <=> run[q].at = "off") /\ t.alone = run[q].alone
    <3>1. CASE At(q, "waiting") /\ run[q].file = f
      <4>1. t = Reject(run[q]) /\ run[q].at # "off" /\ run[q].file # NoDoc
          BY <1>0, <1>9, <3>1 DEF At
      <4> QED BY <1>0, <2>1, <4>1, RejectLocal
    <3>2. CASE ~(At(q, "waiting") /\ run[q].file = f)
        BY <1>9, <2>1, <3>2
    <3> QED BY <3>1, <3>2
  <2>3. ~(t.at # "off" /\ t.alone)
      BY <1>8, <2>2
  <2>4. \A g \in Files : disk[g] <= disk'[g]
    <3>1. \A v \in Versions : v <= v
        BY DEF Versions
    <3> QED BY <1>0, <1>1, <3>1 DEF World
  <2>5. \A c \in copies : \E d \in copies' : d.of = c.of /\ d.hash = c.hash
      BY <1>1
  <2>6. Local(t)'
      BY <1>0, <1>1, <1>6, <2>2, <2>3, <2>4, <2>5, LocalKept
  <2> QED BY <2>2, <2>6
<1> HIDE DEF New, mine
<1>10. \A q \in Runs : run'[q] = New(q)
    BY <1>1
<1>11. New(p) = mine
    BY DEF New
<1>12. \A q \in Runs : Local(run[q])'
  <2> SUFFICES ASSUME NEW q \in Runs PROVE Local(run[q])'
      OBVIOUS
  <2>1. ASSUME NEW t, t = run'[q] PROVE Local(t)'
    <3>1. CASE q = p
        BY <1>7, <1>10, <1>11, <2>1, <3>1
    <3>2. CASE q # p
        BY <1>9, <1>10, <2>1, <3>2
    <3> QED BY <3>1, <3>2
  <2> QED BY <2>1
<1>13. run'[p].at = "next" /\ run'[p].alone = s.alone
    BY <1>7, <1>10, <1>11
<1>14. \A q \in Runs \ {p} :
         /\ run'[q].at = "written" => run[q].at = "written" /\ run[q].file = run'[q].file
         /\ run'[q].at = "off" <=> run[q].at = "off"
         /\ run'[q].alone = run[q].alone
    BY <1>9, <1>10
<1>15. OneHolder'
    BY <1>13, <1>14 DEF InInv, OneHolder
<1>16. AloneIsTrue'
    BY <1>0, <1>13, <1>14 DEF InInv, AloneIsTrue
<1> QED BY <1>1, <1>5, <1>6, <1>12, <1>15, <1>16 DEF InInv

LEMMA EndKeeps ==
  ASSUME InInv, NEW p \in Runs, run[p].at # "off", Put(p, Ended),
         UNCHANGED <<target, disk, copies, docs, marker>>
  PROVE  InInv'
<1>1. Ended.at # "written"
    BY DEF Ended
<1> DEFINE r == Ended
<1>2. Local(r) /\ r.at = "off" /\ run' = [run EXCEPT ![p] = r]
    BY EndedIsLocal DEF Put
<1> HIDE DEF r
<1> QED BY <1>2, Quiet

LEMMA TurnKeeps ==
  ASSUME InInv, NEW p \in Runs, run[p].at \notin Between, Turned(p),
         UNCHANGED <<target, disk, copies, docs, marker>>
  PROVE  InInv'
<1>1. World /\ Local(run[p]) /\ run[p].at # "off" /\ run[p].file # NoDoc
    BY DEF InInv, Local, Between
<1>2. Local(Reject(run[p])) /\ Reject(run[p]).at = "next" /\ Reject(run[p]).alone = run[p].alone
    BY <1>1, RejectLocal
<1>3. PICK r : r = Reject(run[p])
    OBVIOUS
<1>4. run' = [run EXCEPT ![p] = r] /\ Local(r) /\ r.at = "next" /\ r.alone = run[p].alone
    BY <1>2, <1>3 DEF Turned, Put
<1> QED BY <1>1, <1>4, Quiet

LEMMA MoveKeeps ==
  ASSUME InInv, NEW p \in Runs, run[p].at \in HasRead, NEW stage \in {"tx", "waiting", "written"},
         MoveTo(p, stage), stage = "written" => Holder(run[p].file) = {},
         UNCHANGED <<target, disk, copies, docs, marker>>
  PROVE  InInv'
<1>1. World /\ Local(run[p]) /\ run[p].at # "off" /\ run[p].at \notin Between
    BY DEF InInv, Between, HasRead
<1>2. PICK r : r = [run[p] EXCEPT !.at = stage]
    OBVIOUS
<1>3. stage \in Stages \ Between /\ stage \in HasRead /\ run[p].at \in Hashed
    BY DEF Stages, Between, HasRead, Hashed
<1>4. Local(r) /\ r.at = stage /\ r.alone = run[p].alone /\ r.file = run[p].file
    BY <1>1, <1>2, <1>3, MoveLocal
<1>5. run' = [run EXCEPT ![p] = r]
    BY <1>2 DEF MoveTo, Put
<1>6. r.at = "written" => \A q \in Runs \ {p} : run[q].at = "written" => run[q].file # r.file
    BY <1>4 DEF Holder, At
<1> QED BY <1>1, <1>4, <1>5, <1>6, Quiet

\* A step that a lemma above describes by the record it leaves.
LEMMA RecordKeeps ==
  ASSUME InInv, NEW p \in Runs, run[p].at # "off", NEW r, run' = [run EXCEPT ![p] = r],
         Local(r), r.at # "written", r.alone = run[p].alone,
         UNCHANGED <<target, disk, copies, docs, marker>>
  PROVE  InInv'
BY Quiet

LEMMA InInvStep == InInv /\ [InNext]_inVars => InInv'
<1> SUFFICES ASSUME InInv, [InNext]_inVars PROVE InInv'
    OBVIOUS
<1>0. CASE UNCHANGED inVars
  <2>1. UNCHANGED <<target, disk, copies, docs, marker, run>>
      BY <1>0 DEF inVars
  <2>2. \A q \in Runs : Local(run[q])'
    <3> SUFFICES ASSUME NEW q \in Runs PROVE Local(run[q])'
        OBVIOUS
    <3>1. ASSUME NEW t, t = run[q] PROVE Local(t)'
      <4>1. Local(t)
          BY <3>1 DEF InInv
      <4> QED BY <2>1, <4>1 DEF Local, Live, Split, Ordered, Current, HasCopy
    <3> QED BY <2>1, <3>1
  <2> QED BY <2>1, <2>2 DEF InInv, World, OneHolder, AloneIsTrue
<1>1. ASSUME NEW f \in target, Save(f) PROVE InInv'
    BY <1>1, SaveKeeps
<1>2. ASSUME NEW provider \in Providers, NEW p \in Runs, Start(p, provider) PROVE InInv'
    BY <1>2, StartKeeps
<1>3. ASSUME NEW p \in Runs,
             \/ Take(p) \/ Convert(p) \/ Soffice(p) \/ Hash(p) \/ Select(p) \/ Read(p)
             \/ Embed(p) \/ Replace(p) \/ Commit(p) \/ Woken(p) \/ Finish(p) \/ Exit(p)
      PROVE  InInv'
  <2>0. World /\ Local(run[p])
      BY DEF InInv
  <2>1. CASE Take(p)
    <3>1. PICK f \in run[p].todo :
            Put(p, [run[p] EXCEPT !.todo = @ \ {f}, !.file = f,
                                  !.at = IF f \in Convertible THEN "convert" ELSE "hash"])
        BY <2>1 DEF Take
    <3>2. PICK stage \in {"convert", "hash"} : stage = IF f \in Convertible THEN "convert" ELSE "hash"
        OBVIOUS
    <3>7. stage = "convert" <=> f \in Convertible
        BY <3>2
    <3>3. PICK r : r = Taken(run[p], f, stage)
        OBVIOUS
    <3>4. run' = [run EXCEPT ![p] = r]
        BY <3>1, <3>2, <3>3 DEF Put, Taken
    <3>5. run[p].at = "next" /\ UNCHANGED <<target, disk, copies, docs, marker>>
        BY <2>1 DEF Take, At
    <3>6. Local(r) /\ r.at = stage /\ r.alone = run[p].alone
        BY <2>0, <3>3, <3>5, <3>7, TakeLocal
    <3> QED BY <3>2, <3>4, <3>5, <3>6, RecordKeeps
  <2>2. CASE Convert(p)
    <3>0. run[p].at = "convert" /\ UNCHANGED <<target, disk, copies, docs, marker>>
        BY <2>2 DEF Convert, At
    <3>1. CASE Turned(p)
        BY <3>0, <3>1, TurnKeeps DEF Between
    <3>2. CASE ~Turned(p)
      <4>1. PICK stage \in {"soffice", "hash"} :
              stage = IF {c \in copies : c.of = run[p].file /\ c.hash = disk[run[p].file]} = {}
                      THEN "soffice" ELSE "hash"
          OBVIOUS
      <4>2. PICK r : r = Converted(run[p], stage)
          OBVIOUS
      <4>3. run' = [run EXCEPT ![p] = r]
          BY <2>2, <3>2, <4>1, <4>2 DEF Convert, Put, Converted
      <4>4. Local(r) /\ r.at = stage /\ r.alone = run[p].alone
        <5>1. stage = "hash" => \E c \in copies : c.of = run[p].file /\ c.hash = disk[run[p].file]
            BY <4>1
        <5> QED BY <2>0, <3>0, <4>2, <5>1, ConvertLocal
      <4> QED BY <3>0, <4>1, <4>3, <4>4, RecordKeeps
    <3> QED BY <3>1, <3>2
  <2>3. CASE Soffice(p)
    <3>1. CASE Turned(p) /\ UNCHANGED copies
        BY <2>3, <3>1, TurnKeeps DEF Soffice, At, Between
    <3>2. CASE ~Turned(p)
        BY <2>3, <3>2, SofficeKeeps
    <3>3. CASE Turned(p) /\ ~UNCHANGED copies
      <4>1. run' = [run EXCEPT ![p] = [run[p] EXCEPT !.at = "hash"]]
          BY <2>3, <3>3 DEF Soffice, MoveTo, Put
      <4>2. run' = [run EXCEPT ![p] = Reject(run[p])]
          BY <3>3 DEF Turned, Put
      <4>3. Reject(run[p]).at = "next"
          BY <2>0, <2>3, RejectLocal DEF Soffice, At, Local, Between
      <4>4. run'[p].at = "hash"
          BY <2>0, <4>1 DEF InInv, Local, RunRecs
      <4> QED BY <4>2, <4>3, <4>4 DEF InInv
    <3> QED BY <3>1, <3>2, <3>3
  <2>4. CASE Hash(p)
    <3>1. run[p].at = "hash" /\ UNCHANGED <<target, disk, copies, docs, marker>>
        BY <2>4 DEF Hash, At
    <3>2. PICK r : r = [run[p] EXCEPT !.hash = disk[run[p].file], !.at = "select"]
        OBVIOUS
    <3>3. run' = [run EXCEPT ![p] = r]
        BY <2>4, <3>2 DEF Hash, Put
    <3>4. Local(r) /\ r.at = "select" /\ r.alone = run[p].alone
        BY <2>0, <3>1, <3>2, HashLocal
    <3> QED BY <3>1, <3>3, <3>4, RecordKeeps
  <2>5. CASE Select(p)
    <3> DEFINE row == docs[run[p].file]
    <3>1. run[p].at = "select" /\ UNCHANGED <<target, disk, copies, docs, marker>>
        BY <2>5 DEF Select, At
    <3>2. CASE row # NoDoc /\ row.hash = run[p].hash
      <4>1. PICK r : r = Next_([run[p] EXCEPT !.unchanged = @ \cup {run[p].file}])
          OBVIOUS
      <4>2. run' = [run EXCEPT ![p] = r]
          BY <2>5, <3>2, <4>1 DEF Select, Put
      <4>3. Local(r) /\ r.at = "next" /\ r.alone = run[p].alone
          BY <2>0, <3>1, <3>2, <4>1, UnchangedLocal
      <4> QED BY <3>1, <4>2, <4>3, RecordKeeps
    <3>3. CASE ~(row # NoDoc /\ row.hash = run[p].hash)
      <4>1. PICK seen \in BOOLEAN : seen = (row # NoDoc)
          OBVIOUS
      <4>2. PICK r : r = [run[p] EXCEPT !.seen = seen, !.at = "read"]
          OBVIOUS
      <4>3. run' = [run EXCEPT ![p] = r]
          BY <2>5, <3>3, <4>1, <4>2 DEF Select, Put
      <4>4. Local(r) /\ r.at = "read" /\ r.alone = run[p].alone
          BY <2>0, <3>1, <4>2, ToReadLocal
      <4> QED BY <3>1, <4>3, <4>4, RecordKeeps
    <3> QED BY <3>2, <3>3
  <2>6. CASE Read(p)
    <3>1. run[p].at = "read" /\ UNCHANGED <<target, disk, copies, docs, marker>>
        BY <2>6 DEF Read, At
    <3>2. CASE Turned(p)
        BY <3>1, <3>2, TurnKeeps DEF Between
    <3>3. CASE ~Turned(p)
      <4>1. PICK r : r = [run[p] EXCEPT !.body = Content(run[p]), !.at = "embed"]
          OBVIOUS
      <4>2. run' = [run EXCEPT ![p] = r]
          BY <2>6, <3>3, <4>1 DEF Read, Put
      <4>3. Local(r) /\ r.at = "embed" /\ r.alone = run[p].alone
          BY <2>0, <3>1, <4>1, ReadLocal
      <4> QED BY <3>1, <4>2, <4>3, RecordKeeps
    <3> QED BY <3>2, <3>3
  <2>7. CASE Embed(p)
    <3>1. run[p].at = "embed" /\ UNCHANGED <<target, disk, copies, docs, marker>>
        BY <2>7 DEF Embed, At
    <3>2. MoveTo(p, "tx") \/ Put(p, Ended) \/ Turned(p)
        BY <2>7 DEF Embed
    <3> QED BY <3>1, <3>2, MoveKeeps, EndKeeps, TurnKeeps DEF HasRead, Between
  <2>8. CASE Replace(p)
    <3>1. run[p].at = "tx" /\ UNCHANGED <<target, disk, copies, docs, marker>>
        BY <2>8 DEF Replace, At
    <3>2. \/ MoveTo(p, "waiting")
          \/ MoveTo(p, "written") /\ Holder(run[p].file) = {}
          \/ Turned(p)
        BY <2>8 DEF Replace
    <3> QED BY <3>1, <3>2, MoveKeeps, TurnKeeps DEF HasRead, Between
  <2>9. CASE Commit(p)
      BY <2>9, CommitKeeps
  <2>10. CASE Woken(p)
    <3>1. run[p].at = "waiting" /\ MoveTo(p, "tx") /\ UNCHANGED <<target, disk, copies, docs, marker>>
        BY <2>10 DEF Woken, At
    <3> QED BY <3>1, MoveKeeps DEF HasRead
  <2>11. CASE Finish(p)
    <3>1. run[p].at = "next" /\ run[p].todo = {} /\ UNCHANGED <<target, disk, copies, docs, marker>>
        BY <2>11 DEF Finish, At
    <3>2. PICK r : r = [run[p] EXCEPT !.at = "done"]
        OBVIOUS
    <3>3. run' = [run EXCEPT ![p] = r]
        BY <2>11, <3>2 DEF Finish, MoveTo, Put
    <3>4. Local(r) /\ r.at = "done" /\ r.alone = run[p].alone
        BY <2>0, <3>1, <3>2, FinishLocal
    <3> QED BY <3>1, <3>3, <3>4, RecordKeeps
  <2>12. CASE Exit(p)
      BY <2>12, EndKeeps DEF Exit, At
  <2> QED
      BY <1>3, <2>1, <2>2, <2>3, <2>4, <2>5, <2>6, <2>7, <2>8, <2>9, <2>10, <2>11, <2>12
<1> QED BY <1>0, <1>1, <1>2, <1>3 DEF InNext

\* What a run has read about its file, the copies it works on and the rows of the table keep
\* their order in time, with saves, kills and other runs between any two lines
\* (ingest.py:99-183).
THEOREM IngestInvariant == InSpec => []InInv
<1> QED BY InInvInit, InInvStep, PTL DEF InSpec

\* The states keep the shape the code gives them, and one open transaction holds a
\* document's row (ingest.py:125-183).
THEOREM IngestTypeCorrect == InSpec => []InTypeOK
<1>1. InInv => InTypeOK
  <2> SUFFICES ASSUME InInv PROVE InTypeOK
      OBVIOUS
  <2>1. ASSUME NEW p \in Runs
        PROVE  /\ run[p].at \in Stages /\ run[p].provider \in Providers
               /\ run[p].file \in Files \cup {NoDoc}
               /\ run[p].file = NoDoc <=> run[p].at \in {"off", "next", "done"}
               /\ {run[p].known, run[p].hash, run[p].body} \subseteq 0..MaxVersion
      BY <2>1 DEF InInv, Local, RunRecs, Between
  <2> QED BY <2>1 DEF InInv, World, OneHolder, InTypeOK
<1> QED BY <1>1, IngestInvariant, PTL

\* A hash that matches the file on disk stands for chunks of that version, with files saved
\* at any moment and runs that overlap or are killed.
THEOREM UnchangedIsAlwaysTrue == InSpec => []UnchangedIsTrue
<1>1. InInv => UnchangedIsTrue
  <2> SUFFICES ASSUME InInv, NEW f \in Files \ Convertible, docs[f] # NoDoc, docs[f].hash = disk[f]
               PROVE  docs[f].body = disk[f]
      BY DEF UnchangedIsTrue
  <2>1. docs[f] \in Rows /\ disk[f] \in Versions
      BY DEF InInv, World
  <2>2. docs[f].body \in Nat /\ disk[f] \in Nat
      BY <2>1, IngestAssumption DEF Rows, Versions
  <2>3. docs[f].hash <= docs[f].body /\ docs[f].body <= disk[f]
      BY DEF InInv, World
  <2> QED BY <2>2, <2>3
<1> QED BY <1>1, IngestInvariant, PTL

\* No step takes a document's row away without putting another there.
LEMMA LossStep == InInv /\ [InNext]_inVars => [NeverLost]_inVars
<1> SUFFICES ASSUME InInv, InNext PROVE \A f \in Files : docs[f] # NoDoc => docs'[f] # NoDoc
    BY DEF NeverLost
<1>1. CASE \E p \in Runs : Commit(p)
    BY <1>1, CommitKeeps
<1>2. CASE docs' = docs
    BY <1>2
<1> QED
    BY <1>1, <1>2
       DEF InNext, Save, Start, Take, Convert, Soffice, Hash, Select, Read, Embed, Replace, Woken,
           Finish, Exit

\* A document that was found stays found: ingest.py deletes and inserts in one transaction.
THEOREM NothingIsLost == InSpec => [][NeverLost]_inVars
<1> QED BY LossStep, IngestInvariant, PTL DEF InSpec

\* The report of a run that ended names every file once; without a refusal and without an
\* overlapping run the corpus is at least as new as the directory it found.
THEOREM ReportIsTrue == InSpec => []OkMeansCurrent
<1>1. InInv => OkMeansCurrent
  <2> SUFFICES ASSUME InInv, NEW p \in Runs, run[p].at = "done"
               PROVE  LET r == run[p] IN
                      /\ r.loaded \cup r.unchanged \cup r.rejected = target
                      /\ {r.loaded \cap r.unchanged, r.loaded \cap r.rejected,
                          r.unchanged \cap r.rejected} = {{}}
                      /\ (r.rejected = {} /\ r.alone) =>
                           \A f \in target \ Convertible : docs[f] # NoDoc /\ docs[f].body >= r.base[f]
      BY DEF OkMeansCurrent, At
  <2>1. Live(run[p]) /\ run[p].file = NoDoc /\ run[p].todo = {} /\ World /\ run[p] \in RunRecs
      BY DEF InInv, Local, Live, Between
  <2>2. run[p].loaded \cup run[p].unchanged \cup run[p].rejected = target
      BY <2>1 DEF Live, Split
  <2>3. /\ run[p].loaded \cap run[p].unchanged = {} /\ run[p].loaded \cap run[p].rejected = {}
        /\ run[p].unchanged \cap run[p].rejected = {}
      BY <2>1 DEF Live, Split
  <2>4. ASSUME run[p].rejected = {}, run[p].alone, NEW f \in target \ Convertible
        PROVE  docs[f] # NoDoc /\ docs[f].body >= run[p].base[f]
    <3>1. f \in (run[p].loaded \cup run[p].unchanged) \ Convertible /\ f \in Files
        BY <2>1, <2>2, <2>4, IngestAssumption DEF World
    <3>2. docs[f] # NoDoc /\ run[p].base[f] <= docs[f].body
        BY <2>1, <2>4, <3>1 DEF Live, Current
    <3>3. docs[f] \in Rows /\ run[p].base[f] \in Nat
      <4>1. run[p].base \in [Files -> 0..MaxVersion] /\ 0..MaxVersion \subseteq Nat
          BY <2>1, IngestAssumption DEF RunRecs
      <4> QED BY <2>1, <3>1, <3>2, <4>1 DEF World
    <3>4. docs[f].body \in Nat
        BY <3>3, IngestAssumption DEF Rows, Versions
    <3> QED BY <3>2, <3>3, <3>4
  <2> QED BY <2>2, <2>3, <2>4
<1> QED BY <1>1, IngestInvariant, PTL

\* Every step leaves a corpus whose hashes are true, whose reports are true and in which
\* nothing was lost: the promises together, for any number of files, runs and saves.
THEOREM CorpusAlwaysTrue == InSpec => CorpusIsTrue
<1>1. InSpec => [](InTypeOK /\ UnchangedIsTrue /\ OkMeansCurrent)
    BY IngestTypeCorrect, UnchangedIsAlwaysTrue, ReportIsTrue, PTL
<1> QED BY <1>1, NothingIsLost, PTL DEF CorpusIsTrue

-----------------------------------------------------------------------------
(* The reading of pages, for every number of keys, calls, pages and documents. *)

Places == {"page", "read_table", "call", "tables", "built"}
Pages == [text : BOOLEAN, lines : BOOLEAN, grid : BOOLEAN, vision : BOOLEAN,
          tables : BOOLEAN, warned : BOOLEAN]

PgShape ==
  /\ place \in [at : Places, document : 1..MaxDocuments, calls : Nat]
  /\ page \in Pages /\ pages \in Seq(Pages)
  /\ reader \in [calls : Nat, key : Nat, on : BOOLEAN]
  /\ log \in [store : {"untried", "up", "down"}, rows : Nat, lost : Nat, warned : Nat]

\* A page that is past its reading has a warning or something to show.
Told(p) == p.warned \/ p.text \/ p.lines \/ p.tables
\* The vector layer replaces OCR's reading as a whole.
Apart(p) == p.tables => ~p.lines /\ ~p.grid

\* The page under way.
PageInv ==
  /\ place.at \in {"read_table", "call", "tables"} => Len(pages) < MaxPages /\ Told(page)
  /\ place.at \in {"read_table", "call"} => ~page.text
  /\ page.text => ~page.lines /\ ~page.vision
  /\ ~page.tables
\* The pages done.
PagesInv ==
  /\ Len(pages) <= MaxPages
  /\ \A i \in DOMAIN pages : Told(pages[i]) /\ Apart(pages[i])
\* Within one page each further call costs a key.
CallInv ==
  /\ place.at \in {"read_table", "call"} => reader.on
  /\ place.at = "call" => VisionKeys # 0 /\ reader.calls <= MaxCalls - 1 + reader.key
  /\ reader.calls <= MaxCalls + VisionKeys - 1
  /\ reader.key < VisionKeys \/ reader.key = 0

PgInv == PgShape /\ PageInv /\ PagesInv /\ CallInv /\ LogHoldsCalls

LEMMA PgInvInit == PgInit => PgInv
BY PageReaderAssumption
   DEF PgInit, PgInv, PgShape, PageInv, PagesInv, CallInv, LogHoldsCalls, NewPage, NewReader,
       Places, Pages, Told, Apart

\* A row of the log is written or counted as lost, once.
LEMMA LoggedOnce ==
  ASSUME PgShape, LogHoldsCalls, Logged, place'.calls = place.calls + 1
  PROVE  /\ log' \in [store : {"untried", "up", "down"}, rows : Nat, lost : Nat, warned : Nat]
         /\ LogHoldsCalls'
<1>1. CASE log.store # "down" /\ log' = [log EXCEPT !.store = "up", !.rows = @ + 1]
  <2>1. log' = [store |-> "up", rows |-> log.rows + 1, lost |-> log.lost, warned |-> log.warned]
      BY <1>1 DEF PgShape
  <2> QED BY <2>1 DEF PgShape, LogHoldsCalls
<1>2. CASE log' = [log EXCEPT !.store = IF @ = "untried" THEN "down" ELSE @, !.lost = @ + 1,
                              !.warned = @ + 1]
  <2>1. log' = [store |-> IF log.store = "untried" THEN "down" ELSE log.store,
                rows |-> log.rows, lost |-> log.lost + 1, warned |-> log.warned + 1]
      BY <1>2 DEF PgShape
  <2> QED BY <2>1 DEF PgShape, LogHoldsCalls
<1> QED BY <1>1, <1>2 DEF Logged

LEMMA PgInvStep == PgInv /\ [PgNext]_pgVars => PgInv'
<1> SUFFICES ASSUME PgInv, [PgNext]_pgVars PROVE PgInv'
    OBVIOUS
<1> USE PageReaderAssumption DEF Places
<1>0. CASE UNCHANGED pgVars
    BY <1>0 DEF pgVars, PgInv, PgShape, PageInv, PagesInv, CallInv, LogHoldsCalls, Told, Apart
<1>1. CASE TextPage
  <2>1. PgShape' /\ PageInv'
      BY <1>1 DEF TextPage, Go, NewPage, PgInv, PgShape, PageInv, PagesInv, Pages, Told
  <2>2. PagesInv' /\ CallInv' /\ LogHoldsCalls'
      BY <1>1 DEF TextPage, Go, PgInv, PgShape, PagesInv, CallInv, LogHoldsCalls
  <2> QED BY <2>1, <2>2 DEF PgInv
<1>2. ASSUME NEW reading \in Readings, NEW gridFailed \in BOOLEAN, NEW decision \in Decisions,
             ImagePage(reading, gridFailed, decision)
      PROVE PgInv'
  <2>1. place'.at = IF decision = "call" /\ reader.on THEN "read_table" ELSE "tables"
      BY <1>2 DEF ImagePage, Go, PgInv, PgShape
  <2>2. PgShape' /\ PageInv'
      BY <1>2, <2>1 DEF ImagePage, Go, NewPage, Warns, Readings, Decisions, PgInv, PgShape,
                        PageInv, PagesInv, Pages, Told
  <2>3. PagesInv' /\ CallInv' /\ LogHoldsCalls'
      BY <1>2, <2>1 DEF ImagePage, Go, PgInv, PgShape, PagesInv, CallInv, LogHoldsCalls
  <2> QED BY <2>2, <2>3 DEF PgInv
<1>3. CASE Refuse
  <2>1. PgShape' /\ PageInv'
      BY <1>3 DEF Refuse, Came, Go, PgInv, PgShape, PageInv, Pages, Told
  <2>2. PagesInv' /\ CallInv' /\ LogHoldsCalls'
      BY <1>3 DEF Refuse, Came, Go, PgInv, PgShape, PagesInv, CallInv, LogHoldsCalls
  <2> QED BY <2>1, <2>2 DEF PgInv
<1>4. CASE Proceed
  <2>1. PgShape' /\ PageInv'
      BY <1>4 DEF Proceed, Go, PgInv, PgShape, PageInv, Pages, Told
  <2>2. PagesInv' /\ CallInv' /\ LogHoldsCalls'
      BY <1>4 DEF Proceed, AtCap, Go, PgInv, PgShape, PagesInv, CallInv, LogHoldsCalls
  <2> QED BY <2>1, <2>2 DEF PgInv
<1>5. CASE RateLimited
  <2>1. place' = [at |-> IF HasNext THEN "call" ELSE "tables", document |-> place.document,
                  calls |-> place.calls + 1]
      BY <1>5 DEF RateLimited, PgInv, PgShape
  <2>2. LogHoldsCalls' /\ log' \in [store : {"untried", "up", "down"}, rows : Nat, lost : Nat, warned : Nat]
      BY <1>5, <2>1, LoggedOnce DEF RateLimited, LogCall, PgInv
  <2>3. place.at = "call" /\ pages' = pages
      BY <1>5 DEF RateLimited
  <2>4. CASE HasNext
    <3>1. reader' = [calls |-> reader.calls + 1, key |-> reader.key + 1, on |-> reader.on] /\ page' = page
        BY <1>5, <2>4 DEF RateLimited, PgInv, PgShape
    <3>2. place'.at = "call"
        BY <2>1, <2>4
    <3>3. PgShape' /\ PageInv'
        BY <2>1, <2>2, <2>3, <2>4, <3>1 DEF PgInv, PgShape, PageInv, Told
    <3>4. PagesInv' /\ CallInv'
        BY <2>3, <2>4, <3>1, <3>2 DEF HasNext, PgInv, PgShape, PagesInv, CallInv
    <3> QED BY <2>2, <3>3, <3>4 DEF PgInv
  <2>5. CASE ~HasNext
    <3>1. reader' = [calls |-> reader.calls + 1, key |-> 0, on |-> FALSE]
          /\ page' = [page EXCEPT !.warned = TRUE]
        BY <1>5, <2>5 DEF RateLimited, PgInv, PgShape
    <3>2. place'.at = "tables"
        BY <2>1, <2>5
    <3>3. page' \in Pages /\ PageInv'
        BY <2>3, <3>1, <3>2 DEF PgInv, PgShape, PageInv, Pages, Told
    <3>4. PgShape'
        BY <2>1, <2>2, <2>3, <2>5, <3>1, <3>3 DEF PgInv, PgShape
    <3>5. PagesInv' /\ CallInv'
        BY <2>3, <2>5, <3>1, <3>2 DEF HasNext, PgInv, PgShape, PagesInv, CallInv
    <3> QED BY <2>2, <3>3, <3>4, <3>5 DEF PgInv
  <2> QED BY <2>4, <2>5
<1>6. ASSUME NEW outcome \in Outcomes, Answer(outcome) PROVE PgInv'
  <2>1. place' = [at |-> "tables", document |-> place.document, calls |-> place.calls + 1]
      BY <1>6 DEF Answer, PgInv, PgShape
  <2>2. LogHoldsCalls' /\ log' \in [store : {"untried", "up", "down"}, rows : Nat, lost : Nat, warned : Nat]
      BY <1>6, <2>1, LoggedOnce DEF Answer, LogCall, PgInv
  <2>3. /\ reader' = [calls |-> reader.calls + 1, key |-> reader.key, on |-> reader.on]
        /\ page' = [text |-> page.text, lines |-> page.lines, grid |-> page.grid,
                    vision |-> outcome = "ok", tables |-> page.tables, warned |-> TRUE]
        /\ pages' = pages /\ place.at = "call"
      BY <1>6 DEF Answer, PgInv, PgShape, Pages
  <2>4. page' \in Pages /\ PageInv'
      BY <2>1, <2>3 DEF PgInv, PgShape, PageInv, Pages, Told
  <2>5. PgShape'
      BY <2>1, <2>2, <2>3, <2>4 DEF PgInv, PgShape
  <2>6. PagesInv' /\ CallInv'
      BY <2>1, <2>3 DEF PgInv, PgShape, PagesInv, CallInv
  <2> QED BY <2>2, <2>4, <2>5, <2>6 DEF PgInv
<1>7. ASSUME NEW found \in BOOLEAN, PageDone(found) PROVE PgInv'
  <2> DEFINE p == IF found THEN Rebuilt(page) ELSE page
  <2> DEFINE w == page.warned \/ page.lines
  <2>a. w \in BOOLEAN /\ Rebuilt(page) = [page EXCEPT !.tables = TRUE, !.lines = FALSE, !.grid = FALSE,
                                                   !.warned = w]
      BY DEF Rebuilt
  <2> HIDE DEF w
  <2>0. Rebuilt(page) = [text |-> page.text, lines |-> FALSE, grid |-> FALSE, vision |-> page.vision,
                         tables |-> TRUE, warned |-> w]
      BY <2>a DEF PgInv, PgShape, Pages
  <2>1. p \in Pages /\ Told(p) /\ Apart(p)
      BY <1>7, <2>a, <2>0 DEF PageDone, PgInv, PgShape, PageInv, Pages, Told, Apart
  <2>2. pages' = Append(pages, p) /\ pages \in Seq(Pages)
      BY <1>7 DEF PageDone, PgInv, PgShape
  <2> HIDE DEF p
  <2>3. PagesInv'
      BY <1>7, <2>1, <2>2 DEF PageDone, PgInv, PagesInv, PageInv
  <2>4. PgShape' /\ PageInv'
    <3>1. page' \in Pages /\ PageInv' /\ place' \in [at : Places, document : 1..MaxDocuments, calls : Nat]
        BY <1>7 DEF PageDone, Go, NewPage, PgInv, PgShape, PageInv, Pages
    <3>2. pages' \in Seq(Pages)
        BY <2>1, <2>2
    <3> QED BY <1>7, <3>1, <3>2 DEF PageDone, PgInv, PgShape
  <2>5. CallInv' /\ LogHoldsCalls'
      BY <1>7 DEF PageDone, Go, PgInv, PgShape, CallInv, LogHoldsCalls
  <2> QED BY <2>3, <2>4, <2>5 DEF PgInv
<1>8. CASE Build
    BY <1>8 DEF Build, Go, PgInv, PgShape, PageInv, PagesInv, CallInv, LogHoldsCalls
<1>9. CASE NextDocument
  <2>0. place' = [at |-> "page", document |-> place.document + 1, calls |-> place.calls]
      BY <1>9 DEF NextDocument, PgInv, PgShape
  <2>1. PgShape' /\ PageInv' /\ PagesInv'
      BY <1>9, <2>0 DEF NextDocument, NewReader, PgInv, PgShape, PageInv, PagesInv
  <2>2. CallInv' /\ LogHoldsCalls'
      BY <1>9, <2>0 DEF NextDocument, NewReader, PgInv, PgShape, CallInv, LogHoldsCalls
  <2> QED BY <2>1, <2>2 DEF PgInv
<1> QED
    BY <1>0, <1>1, <1>2, <1>3, <1>4, <1>5, <1>6, <1>7, <1>8, <1>9 DEF PgNext

\* The reader's page, its open call and the pages behind it agree at every line at which
\* another call, a lost row or the next document may come in (vision.py:238-341).
THEOREM PgInvariant == PgSpec => []PgInv
<1>1. PgInit => PgInv
    BY PgInvInit
<1>2. PgInv /\ [PgNext]_pgVars => PgInv'
    BY PgInvStep
<1> QED BY <1>1, <1>2, PTL DEF PgSpec

\* The states keep the shape the code gives them (vision.py:238-272, call_log.py:50-75).
THEOREM PgTypeCorrect == PgSpec => []PgTypeOK
<1>1. PgInv => PgTypeOK
    BY PageReaderAssumption DEF PgInv, PgShape, PageInv, PagesInv, CallInv, PgTypeOK, Places
<1> QED BY <1>1, PgInvariant, PTL

\* The log accounts for every call, with a store that fails at any moment.
THEOREM LogAccountsForCalls == PgSpec => []LogHoldsCalls
<1>1. PgInv => LogHoldsCalls
    BY DEF PgInv
<1> QED BY <1>1, PgInvariant, PTL

\* The calls of a document never pass the cap by more than the keys after the first.
THEOREM CapIsKept == PgSpec => []CapHolds
<1>1. PgInv => CapHolds
    BY DEF PgInv, CallInv, CapHolds
<1> QED BY <1>1, PgInvariant, PTL

\* No page of a document is lost in silence.
THEOREM PagesAreTold == PgSpec => []NoPageSilent
<1>1. PgInv => NoPageSilent
    BY DEF PgInv, PagesInv, NoPageSilent, Told
<1> QED BY <1>1, PgInvariant, PTL

\* Vector tables are shown, or the vision model's reading replaced the page.
THEOREM TablesAreShown == PgSpec => []TablesShown
<1>1. PgInv => TablesShown
    BY DEF PgInv, PagesInv, TablesShown, Apart, Source, ShowsTables
<1> QED BY <1>1, PgInvariant, PTL

\* Every call is logged or its loss is told, and a document's calls pass the cap by the keys
\* after the first at most, for any number of keys, pages and documents (vision.py:285-363).
THEOREM CallsAlwaysAccounted == PgSpec => []CallsAccounted
<1> QED BY PgTypeCorrect, LogAccountsForCalls, CapIsKept, PTL DEF CallsAccounted

\* What a document's page lost is said, and what it shows is one reading of it, not two.
THEOREM PagesAlwaysTold == PgSpec => []PagesTold
<1> QED BY PagesAreTold, TablesAreShown, PTL DEF PagesTold
=============================================================================
