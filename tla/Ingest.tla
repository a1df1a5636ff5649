------------------------------- MODULE Ingest -------------------------------
(***************************************************************************)
(* Loading documents into the retrieval corpus (backend/src/rag/ingest.py, *)
(* convert.py, embed.py).  A run walks the files, skips those whose        *)
(* content hash is already stored, and replaces the others in one          *)
(* transaction each.  People save files while a run is under way, two runs *)
(* may overlap, and a run may be killed anywhere.                          *)
(***************************************************************************)
EXTENDS Naturals, FiniteSets

CONSTANTS Files,        \* the documents
          CommandLines,      \* the sets of files a command line may name (a file, a directory)
          Convertible,  \* those LibreOffice must convert first (.doc, .xls ...)
          Runs,         \* ingest processes that may overlap
          MaxVersion,   \* bound: versions of a file
          NoDoc         \* no row, no file

ASSUME IngestAssumption ==
  /\ Convertible \subseteq Files /\ CommandLines \subseteq SUBSET Files /\ MaxVersion \in Nat \ {0}
  /\ NoDoc \notin Files /\ NoDoc \notin [hash : 1..MaxVersion, body : 1..MaxVersion]

VARIABLES target,  \* what the runs of this behaviour walk
          disk,    \* the version of each file as saved; the hash tells versions apart
          copies,  \* convert.py's cache: [of, hash, body], hash names its directory
          docs,    \* rag_documents and its chunks: [hash, body] or NoDoc
          marker,  \* rag_embedding_marker: the provider, or ""
          run      \* the ingest processes

inVars == <<target, disk, copies, docs, marker, run>>

Versions == 1..MaxVersion
Providers == {"ollama", "gemini"}
\* The column is vector(1024): bge-m3 fits, the 3072 numbers of Gemini do not.
Fits(provider) == provider = "ollama"

Stages == {"off", "next", "convert", "soffice", "hash", "select", "read", "embed",
           "tx", "waiting", "written", "done"}
Rows == [hash : Versions, body : Versions]
Ended == [at |-> "off", provider |-> "ollama", todo |-> {}, file |-> NoDoc, known |-> 0,
          hash |-> 0, body |-> 0, seen |-> FALSE, loaded |-> {}, unchanged |-> {},
          rejected |-> {}, base |-> [f \in Files |-> 0], alone |-> TRUE]

InTypeOK ==
  /\ target \in CommandLines /\ disk \in [Files -> Versions]
  /\ copies \subseteq [of : Convertible, hash : Versions, body : Versions]
  /\ docs \in [Files -> Rows \cup {NoDoc}]
  /\ marker \in Providers \cup {""}
  /\ \A p \in Runs :
       LET r == run[p] IN
       /\ r.at \in Stages /\ r.provider \in Providers
       /\ r.file \in Files \cup {NoDoc} /\ (r.file = NoDoc <=> r.at \in {"off", "next", "done"})
       /\ {r.known, r.hash, r.body} \subseteq 0..MaxVersion
  \* the unique key: one open transaction holds a document's row
  /\ \A p, q \in Runs : run[p].at = "written" /\ run[q].at = "written" /\ p # q
                          => run[p].file # run[q].file

InInit ==
  /\ target \in CommandLines /\ disk = [f \in Files |-> 1] /\ copies = {} /\ docs = [f \in Files |-> NoDoc]
  /\ marker = "" /\ run = [p \in Runs |-> Ended]

Put(p, r) == run' = [run EXCEPT ![p] = r]
At(p, stage) == run[p].at = stage
MoveTo(p, stage) == Put(p, [run[p] EXCEPT !.at = stage])
Next_(r) == [r EXCEPT !.at = "next", !.file = NoDoc, !.known = 0, !.hash = 0, !.body = 0,
                      !.seen = FALSE]
\* A file ends in one of three lists of the report.
Reject(r) == Next_([r EXCEPT !.rejected = @ \cup {r.file}])
Turned(p) == Put(p, Reject(run[p]))

Save(f) ==
  /\ disk[f] < MaxVersion
  /\ disk' = [disk EXCEPT ![f] = @ + 1]
  /\ UNCHANGED <<target, copies, docs, marker, run>>

\* ingest_path: the marker is written if there is none, then the files are walked.
Start(p, provider) ==
  /\ At(p, "off")
  /\ marker' = IF marker = "" THEN provider ELSE marker
  /\ LET others == {q \in Runs \ {p} : ~At(q, "off")} IN
     run' = [q \in Runs |->
               IF q = p THEN [Ended EXCEPT !.at = "next", !.provider = provider, !.todo = target,
                                           !.base = disk, !.alone = others = {}]
               ELSE [run[q] EXCEPT !.alone = @ /\ q \notin others]]
  /\ UNCHANGED <<target, disk, copies, docs>>

\* _ingest_file: a format of today is read as it is, another goes through convert.py
\* under the hash of the file as it is now.
Take(p) ==
  /\ At(p, "next")
  /\ \E f \in run[p].todo :
       Put(p, [run[p] EXCEPT !.todo = @ \ {f}, !.file = f,
                             !.at = IF f \in Convertible THEN "convert" ELSE "hash"])
  /\ UNCHANGED <<target, disk, copies, docs, marker>>

\* convert_file: the copy of this hash is reused; without soffice the file is refused.
Convert(p) ==
  /\ At(p, "convert")
  /\ LET f == run[p].file
         old == {c \in copies : c.of = f /\ c.hash = disk[f]}
     IN \/ Put(p, [run[p] EXCEPT !.known = disk[f], !.at = IF old = {} THEN "soffice" ELSE "hash"])
        \/ old = {} /\ Turned(p)
  /\ UNCHANGED <<target, disk, copies, docs, marker>>

\* soffice reads the file now; the product is renamed into place whole, or the file is
\* refused (timeout, no output, not a package).  os.replace overwrites a copy that another
\* run put there in the meantime.
Soffice(p) ==
  /\ At(p, "soffice")
  /\ LET f == run[p].file
         stale == {c \in copies : c.of = f /\ c.hash = run[p].known}
     IN \/ /\ copies' = (copies \ stale)
                          \cup {[of |-> f, hash |-> run[p].known, body |-> disk[f]]}
           /\ MoveTo(p, "hash")
        \/ Turned(p) /\ UNCHANGED copies
  /\ UNCHANGED <<target, disk, docs, marker>>

\* _ingest_known: content_hash = _hash(origin), of the file as it is now.
Hash(p) ==
  /\ At(p, "hash")
  /\ Put(p, [run[p] EXCEPT !.hash = disk[run[p].file], !.at = "select"])
  /\ UNCHANGED <<target, disk, copies, docs, marker>>

Select(p) ==
  /\ At(p, "select")
  /\ LET r == run[p]
         row == docs[r.file]
     IN Put(p, IF row # NoDoc /\ row.hash = r.hash
               THEN Next_([r EXCEPT !.unchanged = @ \cup {r.file}])
               ELSE [r EXCEPT !.seen = row # NoDoc, !.at = "read"])
  /\ UNCHANGED <<target, disk, copies, docs, marker>>

\* What _chunks_for reads: the file itself, or the converted copy.
Content(r) ==
  IF r.file \in Convertible
  THEN (CHOOSE c \in copies : c.of = r.file /\ c.hash = r.known).body
  ELSE disk[r.file]

\* _chunks_for: a file that cannot be opened, or gives no chunk, is refused.
Read(p) ==
  /\ At(p, "read")
  /\ \/ Put(p, [run[p] EXCEPT !.body = Content(run[p]), !.at = "embed"])
     \/ Turned(p)
  /\ UNCHANGED <<target, disk, copies, docs, marker>>

\* embed_texts.  Ollama down raises EmbeddingError, which ends the whole run and its
\* report; Gemini's own exception is any other exception and refuses this file.
Embed(p) ==
  /\ At(p, "embed")
  /\ \/ MoveTo(p, "tx")
     \/ run[p].provider = "ollama" /\ Put(p, Ended)
     \/ run[p].provider = "gemini" /\ Turned(p)
  /\ UNCHANGED <<target, disk, copies, docs, marker>>

Holder(f) == {q \in Runs : At(q, "written") /\ run[q].file = f}

\* The transaction: DELETE if a row was seen, INSERT.  It waits for another open
\* transaction on this document; a row it did not see breaks the key, vectors of the
\* wrong length break the INSERT, and either refuses the file.
Replace(p) ==
  /\ At(p, "tx")
  /\ LET r == run[p] IN
     IF Holder(r.file) # {} THEN MoveTo(p, "waiting")
     ELSE IF Fits(r.provider) /\ (r.seen \/ docs[r.file] = NoDoc) THEN MoveTo(p, "written")
     ELSE Turned(p)
  /\ UNCHANGED <<target, disk, copies, docs, marker>>

NewRow_HashedLate(r) == [hash |-> disk[r.file], body |-> r.body]
NewRow(r) == [hash |-> r.hash, body |-> r.body]
\* At commit a waiting transaction finds the key taken.
Commit(p) ==
  /\ At(p, "written")
  /\ LET r == run[p] IN
     /\ docs' = [docs EXCEPT ![r.file] = NewRow(r)]
     /\ run' = [q \in Runs |->
                  IF q = p THEN Next_([r EXCEPT !.loaded = @ \cup {r.file}])
                  ELSE IF At(q, "waiting") /\ run[q].file = r.file THEN Reject(run[q])
                  ELSE run[q]]
  /\ UNCHANGED <<target, disk, copies, marker>>

\* The holder rolled back: the waiting transaction goes on.
Woken(p) ==
  /\ At(p, "waiting") /\ Holder(run[p].file) = {}
  /\ MoveTo(p, "tx")
  /\ UNCHANGED <<target, disk, copies, docs, marker>>

\* The walk is over: render() and the exit code speak of the three lists.
Finish(p) ==
  /\ At(p, "next") /\ run[p].todo = {}
  /\ MoveTo(p, "done")
  /\ UNCHANGED <<target, disk, copies, docs, marker>>

\* The process exits, or is killed; an open transaction is rolled back.
Exit(p) ==
  /\ ~At(p, "off")
  /\ Put(p, Ended)
  /\ UNCHANGED <<target, disk, copies, docs, marker>>

InNext ==
  \/ \E f \in target : Save(f)
  \/ \E provider \in Providers, p \in Runs : Start(p, provider)
  \/ \E p \in Runs : \/ Take(p) \/ Convert(p) \/ Soffice(p) \/ Hash(p) \/ Select(p) \/ Read(p)
                     \/ Embed(p) \/ Replace(p) \/ Commit(p) \/ Woken(p) \/ Finish(p) \/ Exit(p)

InSpec == InInit /\ [][InNext]_inVars
-----------------------------------------------------------------------------
(* Properties *)

\* "unchanged" is told from the hash alone.  While a file is on disk as its row's hash says,
\* the row's chunks are of that version, or the file is never read again.
\* (ingest.py:147-152: hash before read.)  Not so of a converted file: it is hashed before
\* soffice reads it and once more after (ingest.py:129 and :147).
UnchangedIsTrue ==
  \A f \in Files \ Convertible :
    docs[f] # NoDoc /\ docs[f].hash = disk[f] => docs[f].body = disk[f]

\* A document that is in the corpus stays findable: no run, failure or kill takes its row
\* away without putting another there (ingest.py:169, one transaction).
NeverLost == \A f \in Files : docs[f] # NoDoc => docs'[f] # NoDoc

\* Each file of a run that ended is in exactly one of the three lists, and a run with no
\* refusal that no other run overlapped left the corpus at least as new as it found the
\* directory: what the exit code 0 of main() promises to a script.
OkMeansCurrent ==
  \A p \in Runs : At(p, "done") =>
    LET r == run[p] IN
    /\ r.loaded \cup r.unchanged \cup r.rejected = target
    /\ {r.loaded \cap r.unchanged, r.loaded \cap r.rejected, r.unchanged \cap r.rejected} = {{}}
    /\ (r.rejected = {} /\ r.alone) =>
         \A f \in target \ Convertible : docs[f] # NoDoc /\ docs[f].body >= r.base[f]

\* The corpus is what its hashes and the reports of its runs say, and loses nothing, while
\* files are saved and runs overlap and die (ingest.py:148).
CorpusIsTrue == [][(InTypeOK /\ UnchangedIsTrue /\ OkMeansCurrent)' /\ NeverLost]_inVars
=============================================================================
