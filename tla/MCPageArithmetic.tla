-------------------------- MODULE MCPageArithmetic --------------------------
(* Five printed pages and the two tables they may belong to.                *)
EXTENDS PageArithmetic

PrintedRow(code, level, now, then) ==
  [of |-> 0, code |-> code, level |-> level, form |-> {}, bang |-> 0, cap |-> 0, loai |-> "thuong",
   cells |-> [now |-> now, then |-> then], wide |-> FALSE]
Dash == Mark("dash")
Null == Mark("null")
Note(cap, loai, now, then) == [PrintedRow(0, 4, now, then) EXCEPT !.bang = 1, !.cap = cap, !.loai = loai]
Adds(total, terms, source) == [total |-> total, terms |-> terms, source |-> source]

\* 13 is a dash and not printed.
BalanceTable == {Adds(10, {<<11,1>>, <<12,1>>, <<13,1>>}, "bang_tt"), Adds(30, {<<10,1>>, <<20,1>>}, "bang_tt")}
ResultTable == {Adds(30, {<<10,1>>, <<20,-1>>}, "bang_tt"), Adds(30, {<<31,1>>, <<32,1>>}, "bang_tt")}
MCForms == {BalanceTable, ResultTable}

Assets == <<PrintedRow(0, 0, Null, Null), PrintedRow(10, 1, Num(3), Num(2)), PrintedRow(11, 2, Num(1), Num(2)), PrintedRow(12, 2, Num(2), Dash),
            PrintedRow(20, 1, Num(1), Num(1)), PrintedRow(30, 4, Num(4), Num(3))>>
Profit == <<PrintedRow(10, 2, Num(5), Num(3)), PrintedRow(20, 2, Num(2), Num(3)), PrintedRow(30, 2, Num(3), Dash),
            PrintedRow(31, 9, Num(1), Dash), PrintedRow(32, 2, Num(2), Dash)>>
\* An older circular: no table, the last row prints its formula.
Older == <<PrintedRow(40, 1, Num(3), Num(3)), PrintedRow(41, 2, Num(1), Num(1)), PrintedRow(42, 4, Num(1), Num(1)),
           PrintedRow(43, 2, Num(2), Num(2)),
           [PrintedRow(50, 4, Num(3), Num(3)) EXCEPT !.form = {Adds(50, {<<40,1>>}, "in_san")}]>>
\* Ten and its parts are on the page before.
Continued == <<PrintedRow(20, 1, Num(1), Num(1)), PrintedRow(30, 4, Num(4), Num(4)), PrintedRow(31, 4, Num(1), Num(3)), PrintedRow(32, 4, Num(3), Num(1))>>
PageBefore == {PrintedRow(10, 1, Num(3), Num(3))}
Notes == <<Note(2, "cong_don", Num(3), Num(1)), Note(3, "thuong", Num(1), Num(1)), Note(3, "thuong", Num(2), Dash),
           Note(2, "thuong", Num(2), Num(1)), Note(1, "cong_don", Num(5), Num(2))>>

MCPapers ==
  {[note |-> FALSE, rows |-> r, elsewhere |-> {}] : r \in {Assets, Profit, Older}}
    \cup {[note |-> FALSE, rows |-> Continued, elsewhere |-> PageBefore],
          [note |-> TRUE, rows |-> Notes, elsewhere |-> {}]}
=============================================================================
