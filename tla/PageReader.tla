----------------------------- MODULE PageReader -----------------------------
(***************************************************************************)
(* Reading the pages of PDF files (backend/src/rag/parse.py, parse_pdf)    *)
(* and the vision model that is asked about scanned statements             *)
(* (ocr/vision.py, ocr/call_log.py).  A page is what the steps see of it:  *)
(* has it a text layer, what did OCR give, did the rules ask for the       *)
(* vision model, were vector tables found.                                 *)
(***************************************************************************)
EXTENDS Naturals, Sequences, FiniteSets

CONSTANTS VisionKeys,    \* keys of YOUDOO_VLM_API_KEY
          MaxCalls,      \* VLM_MAX_CALLS_PER_INGEST
          MaxPages,      \* bound: pages of a document
          MaxDocuments   \* bound: documents of an ingest

ASSUME PageReaderAssumption ==
  VisionKeys \in Nat /\ MaxCalls \in Nat \ {0} /\ MaxPages \in Nat /\ MaxDocuments \in Nat \ {0}

VARIABLES place,   \* where the walk is: document, and what is done next
          page,    \* the page under way
          pages,   \* the pages read of this document
          reader,  \* the VisionReader of this document, its key ring, the stop flag
          log      \* vlm_call_log: the process's store, rows, rows lost, warnings of loss

pgVars == <<place, page, pages, reader, log>>

Readings == {"none", "lines", "grid"}
Decisions == {"no", "vouched", "call"}
\* lines, grid: OCR's, as far as they are still to be used; vision: blocks of the vision
\* model; warned: a warning of the report has this page's number.
NewPage == [text |-> TRUE, lines |-> FALSE, grid |-> FALSE, vision |-> FALSE, tables |-> FALSE,
            warned |-> FALSE]
NewReader == [calls |-> 0, key |-> 0, on |-> TRUE]

PgTypeOK ==
  /\ place.at \in {"page", "read_table", "call", "tables", "built"}
  /\ place.document \in 1..MaxDocuments /\ Len(pages) <= MaxPages
  /\ place.calls \in Nat
  /\ page.text => ~page.lines /\ ~page.vision
  /\ reader.key \in 0..(IF VisionKeys = 0 THEN 0 ELSE VisionKeys - 1)
  /\ log.store \in {"untried", "up", "down"}

PgInit ==
  /\ place = [at |-> "page", document |-> 1, calls |-> 0]
  /\ page = NewPage /\ pages = <<>> /\ reader = NewReader
  /\ log = [store |-> "untried", rows |-> 0, lost |-> 0, warned |-> 0]

Go(at) == place' = [place EXCEPT !.at = at]

\* A page with a text layer is taken from it.
TextPage ==
  /\ place.at = "page" /\ Len(pages) < MaxPages
  /\ page' = NewPage /\ Go("tables") /\ UNCHANGED <<pages, reader, log>>

\* Any other is read as an image.  No line is a warning with the page's name; a grid that
\* could not be built is one too; a page that arithmetic vouches for says so.
Warns_GridOnly(reading, gridFailed, decision) == gridFailed \/ (reader.on /\ decision = "vouched")
Warns(reading, gridFailed, decision) ==
  reading = "none" \/ gridFailed \/ (reader.on /\ decision = "vouched")
ImagePage(reading, gridFailed, decision) ==
  /\ place.at = "page" /\ Len(pages) < MaxPages
  /\ gridFailed => reading = "lines"
  /\ reading = "none" => decision = "no"
  /\ page' = [NewPage EXCEPT !.text = FALSE, !.lines = reading # "none", !.grid = reading = "grid",
                             !.warned = Warns(reading, gridFailed, decision)]
  /\ IF decision = "call" /\ reader.on
     THEN Go("read_table") ELSE Go("tables")
  /\ UNCHANGED <<pages, reader, log>>

\* The page's vision blocks, the warning if there is one, and whether to go on asking.
Came(vision, warning, stop) ==
  /\ page' = [page EXCEPT !.vision = vision, !.warned = @ \/ warning]
  /\ reader' = [reader EXCEPT !.on = ~stop]
  /\ Go("tables")

AtCap == reader.calls >= MaxCalls

\* read_table: no key is silent, the cap is a warning; both stop it for this document.
Refuse ==
  /\ place.at = "read_table" /\ (VisionKeys = 0 \/ AtCap)
  /\ Came(FALSE, VisionKeys # 0, TRUE) /\ UNCHANGED <<pages, log>>
Proceed ==
  /\ place.at = "read_table" /\ VisionKeys # 0 /\ ~AtCap
  /\ Go("call") /\ UNCHANGED <<page, pages, reader, log>>

\* _log_call: one row a call.  The store is opened on the first and never tried again; a
\* row that is not written is a warning.
Logged ==
  \/ log.store # "down" /\ log' = [log EXCEPT !.store = "up", !.rows = @ + 1]
  \/ log' = [log EXCEPT !.store = IF @ = "untried" THEN "down" ELSE @, !.lost = @ + 1,
                        !.warned = @ + 1]
Logged_OkOnly(outcome) == IF outcome = "rate_limited" THEN UNCHANGED log ELSE Logged
LogCall(outcome) == Logged

Outcomes == {"ok", "rejected", "off_contract", "bad_response", "error"}

HasNext == reader.key + 1 < VisionKeys
\* One press of the API.  A 429 turns to the next key and asks again in the same loop,
\* without looking at the cap; at the last key the ring starts over and vision stops.
RateLimited ==
  /\ place.at = "call" /\ LogCall("rate_limited")
  /\ place' = [place EXCEPT !.calls = @ + 1,
                            !.at = IF HasNext THEN "call" ELSE "tables"]
  /\ IF HasNext
     THEN /\ reader' = [reader EXCEPT !.calls = @ + 1, !.key = @ + 1]
          /\ UNCHANGED page
     ELSE /\ reader' = [reader EXCEPT !.calls = @ + 1, !.key = 0, !.on = FALSE]
          /\ page' = [page EXCEPT !.warned = TRUE]
  /\ UNCHANGED pages

\* Every other answer is a warning on the page: blocks of the rows that arithmetic did not
\* reject (perhaps none), or Tesseract's reading kept.
Answer(outcome) ==
  /\ place.at = "call" /\ LogCall(outcome)
  /\ place' = [place EXCEPT !.calls = @ + 1, !.at = "tables"]
  /\ reader' = [reader EXCEPT !.calls = @ + 1]
  /\ page' = [page EXCEPT !.vision = outcome = "ok", !.warned = TRUE]
  /\ UNCHANGED pages

\* find_tables: a page with tables is rebuilt from the vector layer, OCR's lines and grid
\* are taken back and the page is told to have lost them.
Rebuilt(p) == [p EXCEPT !.tables = TRUE, !.lines = FALSE, !.grid = FALSE,
                        !.warned = @ \/ p.lines]
PageDone(found) ==
  /\ place.at = "tables"
  /\ pages' = Append(pages, IF found THEN Rebuilt(page) ELSE page)
  /\ page' = NewPage /\ Go("page") /\ UNCHANGED <<reader, log>>

\* The second pass: the source of each page's blocks.
Source(p) ==
  IF p.vision THEN "vision" ELSE IF p.grid THEN "grid" ELSE IF p.lines THEN "ocr" ELSE "vector"
ShowsTables(p) == p.tables /\ Source(p) \in {"ocr", "vector"}

Build ==
  /\ place.at = "page" /\ pages # <<>>
  /\ Go("built") /\ UNCHANGED <<page, pages, reader, log>>

\* parse_pdf of the next document: VISION_READER_FACTORY makes another reader.
NextDocument ==
  /\ place.at = "built" /\ place.document < MaxDocuments
  /\ place' = [place EXCEPT !.at = "page", !.document = @ + 1]
  /\ pages' = <<>> /\ reader' = NewReader /\ UNCHANGED <<page, log>>

PgNext ==
  \/ TextPage \/ Refuse \/ Proceed \/ RateLimited \/ Build \/ NextDocument
  \/ \E reading \in Readings, gridFailed \in BOOLEAN, decision \in Decisions :
       ImagePage(reading, gridFailed, decision)
  \/ \E outcome \in Outcomes : Answer(outcome)
  \/ \E found \in BOOLEAN : PageDone(found)

PgSpec == PgInit /\ [][PgNext]_pgVars
-----------------------------------------------------------------------------
(* Properties *)

\* Each call to the API is one row of the log, whatever came of it, or one warning that the
\* row was lost (vision.py:285, "rows == self.calls").
LogHoldsCalls ==
  /\ log.rows + log.lost = place.calls
  /\ log.warned = log.lost

\* The cap is looked at once per page, so the keys after the first may pass it; never by
\* more, and a document that stopped asking does not ask again (vision.py:293, parse.py:914).
CapHolds ==
  /\ reader.calls <= MaxCalls + VisionKeys - 1
  /\ ~reader.on => place.at # "call"

\* Calls are counted, logged and capped together, whatever they come to.
CallsAccounted == PgTypeOK /\ LogHoldsCalls /\ CapHolds

\* No page is lost in silence: a page of a document that was built gives blocks, or a
\* warning has its name (parse.py:530 and :945).
NoPageSilent ==
  place.at = "built" =>
    \A i \in DOMAIN pages :
      pages[i].warned \/ pages[i].text \/ pages[i].lines \/ pages[i].tables

\* Vector tables are shown unless the vision model's reading replaced the page, and no text
\* of the vector layer is labelled with OCR's confidence (parse.py:957-978).
TablesShown ==
  place.at = "built" =>
    \A i \in DOMAIN pages :
      (pages[i].tables /\ ~pages[i].vision) => Source(pages[i]) = "vector" /\ ShowsTables(pages[i])

\* Every page is shown or told, with the tables the file holds for it (parse.py:945).
PagesTold == NoPageSilent /\ TablesShown
=============================================================================
