---------------------------- MODULE PageArithmetic ----------------------------
(***************************************************************************)
(* The arithmetic gate of financial statements (backend/src/ocr/so_hoc.py, *)
(* _khoi_tu_vlm and _khoi_tu_vlm_tm of rag/parse.py): a printed total is   *)
(* the signed sum of its parts, so a page carries its own answer.  The     *)
(* vision model reads a printed page row by row and may read it wrongly;   *)
(* then every row is verified, kept unverified, or rejected.  A note page  *)
(* has no codes: its sums come from the levels the model declared.         *)
(***************************************************************************)
EXTENDS Integers, Sequences, FiniteSets, SequencesExt

CONSTANTS Papers,     \* printed pages: [note, rows, elsewhere]
          Forms,      \* the tables of the circular: sets of constraints
          Columns,    \* the value columns
          Amounts,    \* what a misread cell may show
          MaxFaults   \* bound: mistakes in reading one page

VARIABLES paper,   \* the page as printed
          at,      \* the printed row to be read next
          got,     \* the rows read; `of` is the printed row (history)
          faults,  \* the mistakes made (history)
          report   \* the rows' verdicts and the constraints used, or <<>>

arVars == <<paper, at, got, faults, report>>

\* A row is [of, code, level, form, bang, cap, loai, cells, wide]: code 0 is none and a
\* negative one is not of the form of codes; level is _marker_level, 9 for None; form is the
\* set of the constraints printed in its label.  A cell is a number, a dash (zero), null,
\* unreadable, or missing from a row that is too short.
MIN_CODED_ROWS == 2
_LEVELS == 5
Num(n) == [kind |-> "num", n |-> n]
Mark(kind) == [kind |-> kind, n |-> 0]
Keys(terms) == {t[1] : t \in terms}
SignedSum(terms, value) == FoldSet(LAMBDA t, acc : acc + t[2] * value[t[1]], 0, terms)

\* evaluate, strict_absent = False: a part that is not on the page counts as zero, but a sum
\* that then differs proves nothing.
evaluate_Absent_Fails(c, lookup, col) ==
  LET present == {t \in c.terms : t[1] \in DOMAIN lookup}
      cell(key) == lookup[key].cells[col]
      unread == \E key \in {c.total} \cup Keys(present) : cell(key).kind \in {"null", "bad", "missing"}
  IN IF c.total \notin DOMAIN lookup \/ unread THEN "NA"
     ELSE IF SignedSum(present, [key \in Keys(present) |-> cell(key).n]) = cell(c.total).n THEN "PASS" ELSE "FAIL"
evaluate(c, lookup, col) ==
  LET present == {t \in c.terms : t[1] \in DOMAIN lookup}
      cell(key) == lookup[key].cells[col]
      unread == \E key \in Keys(present) \cup {c.total} : cell(key).kind \in {"null", "bad", "missing"}
  IN IF c.total \notin DOMAIN lookup \/ unread THEN "NA"
     ELSE IF SignedSum(present, [key \in Keys(present) |-> cell(key).n]) = cell(c.total).n THEN "PASS"
     ELSE IF present # c.terms THEN "NA" ELSE "FAIL"

\* derive_hierarchy: a row belongs to the open row above it of the nearest smaller level; a
\* row that prints its own formula closes all; only rows with two parts or more give a sum.
Close(state, level) ==
  LET closed == {u \in DOMAIN state.open : u >= level}
  IN [open |-> [u \in DOMAIN state.open \ closed |-> state.open[u]],
      done |-> state.done \cup {state.open[u] : u \in closed}]
Hang(state, row) ==
  LET above == {u \in DOMAIN state.open : u < row.level}
      up == CHOOSE u \in above : \A v \in above : v <= u
  IN IF row.code = 0 \/ above = {} THEN state
     ELSE [state EXCEPT !.open[up].parts = @ \cup {row.code}]
Walk(state, row) ==
  IF row.level = 9 THEN state
  ELSE IF row.form # {} THEN Close(state, 0)
  ELSE LET hung == Hang(Close(state, row.level), row)
       IN IF row.level = _LEVELS - 1 THEN hung
          ELSE [hung EXCEPT !.open = @ @@ (row.level :> [code |-> row.code, parts |-> {}])]
Plus(keys) == {<<k, 1>> : k \in keys}
derive_hierarchy(page) ==
  LET end == Close(FoldLeft(Walk, [open |-> <<>>, done |-> {}], page), 0)
  IN {[total |-> p.code, terms |-> Plus(p.parts), source |-> "phan_cap"] :
        p \in {q \in end.done : q.code # 0 /\ Cardinality(q.parts) >= 2}}

\* rang_buoc_tu_bang_con: a row belongs to the nearest row one level up, before it or else
\* after it, in its own table; the keys are the rows' indices.
Owner(page, j) ==
  LET ups == {i \in DOMAIN page : page[i].bang = page[j].bang /\ page[i].cap = page[j].cap - 1}
      before == {i \in ups : i < j}
  IN IF before # {} THEN CHOOSE i \in before : \A k \in before : k <= i
     ELSE IF ups # {} THEN CHOOSE i \in ups : \A k \in ups : i <= k
     ELSE 0
rang_buoc_tu_bang_con(page) ==
  LET parts(i) == {j \in DOMAIN page : page[j].bang # 0 /\ Owner(page, j) = i}
  IN {[total |-> i, terms |-> Plus(parts(i)), source |-> "bang_con"] :
        i \in {k \in DOMAIN page : page[k].loai = "cong_don" /\ Cardinality(parts(k)) >= 2}}

\* check_structure: what is wrong with a row whatever its sums.
Missing_cells(row) == {col \in Columns : row.cells[col].kind = "missing"}
Again(page, i) == page[i].code # 0 /\ \E j \in 1..(i - 1) : page[j].code = page[i].code
Unfit(page, i) ==
  \/ page[i].wide
  \/ Missing_cells(page[i]) # {} /\ (page[i].code # 0 \/ Missing_cells(page[i]) # Columns)
  \/ \E col \in Columns : page[i].cells[col].kind = "bad"
  \/ Again(page, i) \/ page[i].code < 0
InOrder(page) ==
  LET fine == {i \in DOMAIN page : page[i].code > 0 /\ ~Again(page, i)}
      previous(i) == {j \in fine : j < i}
  IN \A i \in fine : \A j \in previous(i) :
       (\A k \in previous(i) : k <= j) => page[j].code < page[i].code

\* classify_rows: the first rule that fits decides.
Lookup(page, byIndex) ==
  LET key(i) == IF byIndex THEN i ELSE page[i].code
      known == {i \in DOMAIN page : ~Unfit(page, i) /\ key(i) # 0}
  IN [k \in {key(i) : i \in known} |-> page[CHOOSE i \in known : key(i) = k]]
Covered(figures, passed) == figures \subseteq passed
Refs(c) == {c.total} \cup {t[1] : t \in c.terms}
classify_rows(page, constraints, note) ==
  LET lookup == Lookup(page, note)
      verdict == [c \in constraints, col \in Columns |-> evaluate(c, lookup, col)]
      touched(key, col, v) == \E c \in constraints : key \in Refs(c) /\ verdict[c, col] = v
      capped == ~note /\ (~InOrder(page) \/ Cardinality({i \in DOMAIN page : page[i].code # 0}) < MIN_CODED_ROWS)
      status(i) ==
        LET key == IF note THEN i ELSE page[i].code
            kinds == {page[i].cells[col].kind : col \in Columns}
            figures == {col \in Columns : page[i].cells[col].kind = "num"}
        IN IF Unfit(page, i) THEN "REJECTED"
           ELSE IF (note \/ key = 0) /\ figures = {} THEN "label"
           ELSE IF \E col \in Columns : touched(key, col, "FAIL") THEN IF note THEN "unverified" ELSE "REJECTED"
           ELSE IF capped \/ figures = {} \/ kinds \cap {"null", "missing"} # {}
                   \/ ~Covered(figures, {col \in Columns : touched(key, col, "PASS")})
                THEN "unverified"
           ELSE "verified"
  IN [i \in DOMAIN page |-> status(i)]

\* select_form: the table with the most sums that come out, the fewest that do not, the
\* fewest open; a draw or no sum at all is no table.
select_form(page) ==
  LET codes == {page[i].code : i \in DOMAIN page} \ {0}
      lookup == [k \in codes |-> page[CHOOSE i \in DOMAIN page :
                   page[i].code = k /\ \A j \in (i + 1)..Len(page) : page[j].code # k]]
      count(form, v) == Cardinality({cc \in form \X Columns : evaluate(cc[1], lookup, cc[2]) = v})
      rank(form) == <<count(form, "PASS"), count(form, "FAIL"), count(form, "NA")>>
      better(f, g) == \/ rank(f)[1] > rank(g)[1]
                      \/ rank(f)[1] = rank(g)[1] /\ rank(f)[2] < rank(g)[2]
                      \/ rank(f)[1] = rank(g)[1] /\ rank(f)[2] = rank(g)[2] /\ rank(f)[3] < rank(g)[3]
  IN {f \in Forms : rank(f)[1] > 0 /\ \A g \in Forms \ {f} : better(f, g)}

\* assess_page: printed formulas, the table, and the hierarchy only where there is no table;
\* merge_constraints keeps what the strongest layer says of a total.
merge_constraints(printed, table, derived) ==
  LET stronger == {c \in table : \A d \in printed : d.total # c.total}
  IN printed \cup stronger
       \cup {c \in derived : \A d \in printed \cup table : d.total # c.total}
Used(page, note) ==
  IF note THEN rang_buoc_tu_bang_con(page)
  ELSE LET table == UNION select_form(page)
       IN merge_constraints(UNION {page[i].form : i \in DOMAIN page}, table,
                            IF table = {} THEN derive_hierarchy(page) ELSE {})
-----------------------------------------------------------------------------
ArInit == paper \in Papers /\ at = 1 /\ got = <<>> /\ faults = {} /\ report = <<>>

Reading == at <= Len(paper.rows) /\ report = <<>>
Printed == [paper.rows[at] EXCEPT !.of = at]
Mistake(kind) == Cardinality(faults) < MaxFaults /\ faults' = faults \cup {[kind |-> kind, row |-> at]}
Takes(read) == got' = got \o read /\ at' = at + 1 /\ UNCHANGED <<paper, report>>

ReadRow == Reading /\ Takes(<<Printed>>) /\ UNCHANGED faults
\* One cell shows another amount, or nothing that can be read.
Misread(col, cell) ==
  /\ Reading /\ Printed.cells[col].kind \in {"num", "dash"}
  /\ cell.kind \in {"num", "dash"} => cell.n # Printed.cells[col].n
  /\ Mistake(IF cell.kind \in {"null", "dash"} THEN cell.kind ELSE "cell")
  /\ Takes(<<[Printed EXCEPT !.cells[col] = cell]>>)
LeaveOut == Reading /\ Mistake("left out") /\ Takes(<<>>)
ReadTwice == Reading /\ Mistake("twice") /\ Takes(<<Printed, Printed>>)
\* The note's level or kind of sum is declared wrongly.
Misplace(cap, loai) ==
  /\ Reading /\ paper.note /\ <<cap, loai>> # <<Printed.cap, Printed.loai>>
  /\ Mistake("shape") /\ Takes(<<[Printed EXCEPT !.cap = cap, !.loai = loai]>>)
\* A row has a cell too many, or lacks its last.
Ragged(col) ==
  /\ Reading /\ Mistake("width")
  /\ \/ Takes(<<[Printed EXCEPT !.wide = TRUE]>>)
     \/ Takes(<<[Printed EXCEPT !.cells[col] = Mark("missing")]>>)

Assess ==
  /\ at = Len(paper.rows) + 1 /\ report = <<>>
  /\ LET used == Used(got, paper.note)
     IN report' = [status |-> classify_rows(got, used, paper.note), used |-> used]
  /\ UNCHANGED <<paper, at, got, faults>>

ArNext ==
  \/ ReadRow \/ LeaveOut \/ ReadTwice \/ Assess
  \/ \E col \in Columns : Ragged(col)
  \/ \E col \in Columns, cell \in {Num(n) : n \in Amounts} \cup {Mark("dash"), Mark("null"), Mark("bad")} :
       Misread(col, cell)
  \/ \E cap \in 1..3, loai \in {"cong_don", "hieu", "thuong"} : Misplace(cap, loai)

ArSpec == ArInit /\ [][ArNext]_arVars
-----------------------------------------------------------------------------
(* Properties *)

Assessed == report # <<>>
\* What the paper prints for a key, on this page or on another; nothing is zero.
OnPaper(key, col) ==
  IF paper.note THEN paper.rows[got[key].of].cells[col].n
  ELSE LET row == {r \in ToSet(paper.rows) \cup paper.elsewhere : r.code = key}
       IN IF row = {} THEN 0 ELSE (CHOOSE r \in row : TRUE).cells[col].n
Holds(c) ==
  \A col \in Columns : SignedSum(c.terms, [key \in Keys(c.terms) |-> OnPaper(key, col)]) = OnPaper(c.total, col)
Kinds == {f.kind : f \in faults}

\* Whoever misreads one cell, the sums break: its row is never verified, if the sums used are
\* true of the paper and all that is not zero is on the page (so_hoc.py:6-8, :643-656; a sum
\* in one column does not vouch for another).  A number taken for a dash is caught only where
\* no part of a sum is left out: a dash needs no sum of its own, and the sum it breaks is NA.
Whole == \A c \in report.used : Refs(c) \subseteq {got[i].code : i \in DOMAIN got}
MisreadNotVerified ==
  /\ Assessed /\ paper.elsewhere = {}
  /\ \A c \in report.used : Holds(c)
  => \A f \in faults :
       faults = {f} /\ (f.kind \in {"cell", "null"} \/ (f.kind = "dash" /\ (paper.note \/ Whole))) =>
         \A i \in DOMAIN got : got[i].of = f.row => report.status[i] # "verified"

\* A row that was read right is not thrown away because others were left out, hidden, read
\* twice, are on the page before, or (in a note) were declared at the wrong level
\* (so_hoc.py:277-287, :627-640, both measured as lost rows).
TrueRowsKept ==
  /\ Assessed /\ Kinds \subseteq {"left out", "null", "twice", "shape"}
  /\ paper.note \/ \A c \in report.used : Holds(c)
  => \A i \in DOMAIN got : \E j \in DOMAIN got :
       got[j].of = got[i].of /\ report.status[j] # "REJECTED"

\* The one pass with a stack finds each row's parent: the nearest row above of a smaller
\* level that no row of that level or a smaller one, and no printed formula, follows
\* (so_hoc.py:319-395).
Parent(i) ==
  LET ups == {j \in 1..(i - 1) :
                /\ got[j].level < got[i].level /\ got[j].form = {}
                /\ \A k \in (j + 1)..(i - 1) :
                     got[k].level # 9 => got[k].form = {} /\ got[k].level > got[j].level}
  IN IF ups = {} THEN 0 ELSE CHOOSE j \in ups : \A k \in ups : k <= j
HierarchyIsNearest ==
  Assessed /\ ~paper.note =>
    LET parts(j) == {got[i].code : i \in {k \in DOMAIN got :
                       got[k].level # 9 /\ got[k].form = {} /\ got[k].code # 0 /\ Parent(k) = j}}
    IN {<<c.total, c.terms>> : c \in derive_hierarchy(got)}
         = {<<got[j].code, Plus(parts(j))>> :
              j \in {k \in DOMAIN got : got[k].code # 0 /\ Cardinality(parts(k)) >= 2}}

\* A page carries its own answer: its sums find the misread row and spare the true ones,
\* and are taken from the right rows (so_hoc.py:898).
SumsDecide == MisreadNotVerified /\ TrueRowsKept /\ HierarchyIsNearest
=============================================================================
