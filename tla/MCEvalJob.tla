------------------------------ MODULE MCEvalJob ------------------------------
EXTENDS EvalJob

Text(i, s, d) == [intent |-> i, sop |-> s, depth |-> d]

\* Two or three cases a set, each with the replies that tell its scores apart.
MCCases ==
  [intent |-> << [intent |-> "rag", replies |-> {Text("rag", None, None), Text("mixed", None, None)}],
                 [intent |-> "unknown", replies |-> {Text("garbage", None, None)}],
                 [intent |-> "erp_write", replies |-> {Text("erp_write", "nhap", "unsure"), Text("garbage", None, None)}] >>,
   sop_select |->
     << [asks |-> TRUE, intent |-> "rag", sop |-> None, depth |-> "none", route |-> "rag",
         replies |-> {Text("rag", None, "none"), Text("rag", "nhap", "garbage")}],
        [asks |-> FALSE, intent |-> "erp_write", sop |-> "nhap", depth |-> "full_sop", route |-> "nhap",
         replies |-> {Text("erp_write", "nhap", "full_sop"), Text("erp_write", "made up", "full_sop"), Text("erp_write", "nhap", "unsure")}],
        [asks |-> FALSE, intent |-> "erp_write", sop |-> "nhap", depth |-> "one_step", route |-> "erp_write",
         replies |-> {Text("erp_write", "nhap", "one_step"), Text("erp_write", None, "one_step")}] >>,
   planner |-> [i \in 1 .. 2 |->
     [tool |-> IF i = 2 THEN "other" ELSE "confirm_order",
      replies |-> [tool : {"confirm_order", "another write", "other"}, args : {TRUE}]
                    \cup {[tool |-> IF i = 1 THEN "garbled" ELSE "confirm_order", args |-> FALSE]}]],
   read |-> [i \in 1 .. 2 |->
     [tool |-> "stock",
      replies |-> {[tool |-> None, args |-> FALSE, invented |-> FALSE],
                   [tool |-> "stock", args |-> TRUE, invented |-> FALSE],
                   [tool |-> "stock", args |-> FALSE, invented |-> FALSE],
                   [tool |-> "orders", args |-> TRUE, invented |-> i = 1]}]],
   confirm |-> << [want |-> "confirm", ideal |-> {"CONFIRM"}, replies |-> [says : {{"CONFIRM"}, {"CANCEL"}}]],
                  [want |-> "cancel", ideal |-> {"CANCEL"}, replies |-> [says : {{"CANCEL"}, {"CONFIRM", "CANCEL"}}]],
                  [want |-> "unclear", ideal |-> {}, replies |-> [says : SUBSET {"CONFIRM", "CANCEL"}]] >>,
   chitchat |-> [i \in 1 .. 2 |-> [replies |-> [claims : BOOLEAN]]],
   localize |-> [i \in 1 .. 2 |-> [replies |-> [same : BOOLEAN]]],
   language |-> [i \in 1 .. 2 |->
     [want |-> IF i = 1 THEN "vi" ELSE "en", replies |-> [words : {{}, {"vi"}, {"en"}, {"vi", "en"}}]]],
   memory |-> [i \in 1 .. 3 |->
     [want |-> <<"none", "fact", "blocked">>[i],
      replies |-> [saves : SUBSET {<<"fact", "fact", "code">>[i]}, forgets : {FALSE}, cut : {FALSE}]
                    \cup {[saves |-> When(i # 1, "fact"), forgets |-> i = 1, cut |-> i = 2]}]],
   synthesis |-> [i \in 1 .. 2 |->
     [want |-> IF i = 1 THEN "insufficient" ELSE "answerable",
      replies |-> [refused : BOOLEAN, grounded : BOOLEAN]]],
   multi_source |-> [i \in 1 .. 2 |->
     [chunks |-> 1, derived |-> When(i = 1, "derived"),
      replies |-> {[doc |-> TRUE, erp |-> TRUE, cited |-> {1}, numbers |-> {"erp", "doc"}],
                  [doc |-> TRUE, erp |-> FALSE, cited |-> {}, numbers |-> {"doc"}],
                  [doc |-> TRUE, erp |-> TRUE, cited |-> {1}, numbers |-> {"derived"}],
                  [doc |-> TRUE, erp |-> TRUE, cited |-> {2}, numbers |-> {"own"}]}]],
   multi_source_gather |-> [i \in 1 .. 2 |->
     [chunks |-> 1, derived |-> {},
      replies |-> {[doc |-> d, erp |-> TRUE, cited |-> {1}, numbers |-> {"question"}] : d \in BOOLEAN}]],
   gather |-> [i \in 1 .. 2 |->
     [tools |-> {"stock"}, replies |-> [called : SUBSET {"stock"}, facts : {TRUE}]]],
   retrieval |-> [i \in 1 .. 2 |-> [replies |-> [rank : {1, 7, 21}]]],
   multiturn |-> << [kind |-> "elliptical", replies |-> [no_ctx : {1, 7}, with_ctx : {1, 7}]],
                    [kind |-> "independent", replies |-> [no_ctx : {1, 7}, with_ctx : {1, 7}]] >>,
   synthesis_live |-> [i \in 1 .. 2 |->
     [replies |-> [fact : BOOLEAN, refusal : {None}, citation : BOOLEAN]]],
   write_suggest |-> [i \in 1 .. 2 |->
     [replies |-> [marker : BOOLEAN, oracle : {TRUE, FALSE, None}]]]]

Plain == [role |-> "admin", dang_go |-> "co_dau", rerank |-> TRUE, mode |-> "blend",
          memory |-> None, save |-> FALSE, compare |-> FALSE]

\* The command lines: a baseline saved or compared, and for the sets that take
\* them the memory block, the role, the re-ranker and the spelling of the query.
MCOptions(s) ==
  {[Plain EXCEPT !.compare = TRUE]}
    \cup (IF s = "confirm" THEN {[Plain EXCEPT !.save = TRUE]} ELSE {})
    \cup (IF s = "retrieval"
          THEN {[Plain EXCEPT !.save = TRUE, !.dang_go = "khong_dau"],
                [Plain EXCEPT !.save = TRUE, !.rerank = FALSE],
                [Plain EXCEPT !.save = TRUE, !.role = "kho"]} ELSE {})
    \cup (IF s = "memory" THEN {[Plain EXCEPT !.memory = "block"]} ELSE {})
    \cup (IF s = "read" THEN {[Plain EXCEPT !.save = TRUE, !.memory = "block"]} ELSE {})

ASSUME NightlyIsGated ==
  GATED_FN = SelectSeq(EVAL_FN, LAMBDA s : s \notin {"gather", "multi_source_gather", "localize"})
=============================================================================
