------------------------------ MODULE EntityIndex ------------------------------
(***************************************************************************)
(* The mirror of Odoo's products (backend/src/erp_query/sync_index.py) and *)
(* what is found through it (semantic.py, resolve.py).  A product's id is  *)
(* its number, ids grow.  People change products while a sync reads them   *)
(* page by page and while a name is being resolved; each statement of a    *)
(* sync is committed by itself and the sync may die after any.             *)
(***************************************************************************)
EXTENDS Integers, FiniteSets, Sequences, SequencesExt, Lists

CONSTANTS MaxId,           \* bound: products ever made
          Names,           \* what products are called; the user asks for one of them
          NoProduct,       \* no such product (or archived), no row
          BATCH,           \* rows of a page
          MAX_CANDIDATES,  \* matches at most, of both ways together
          Limit,           \* matches of name_search at most
          Rankings,        \* what the cross-encoder may say: [name -> score]
          Gap, Floor,      \* ERP_RESOLVE_AUTOPICK_GAP and _FLOOR
          MaxEdits         \* bound: changes in Odoo

ASSUME EntityIndexAssumption ==
  /\ {MaxId, BATCH, MAX_CANDIDATES, Limit} \subseteq Nat \ {0} /\ MaxEdits \in Nat
  /\ Limit <= MAX_CANDIDATES
  /\ Rankings \subseteq [Names -> Nat] /\ {Gap, Floor} \subseteq Nat \ {0} /\ NoProduct \notin Names

VARIABLES odoo,    \* [id -> its name, or NoProduct]
          index,   \* erp_entity_index: [id -> the name it was stored under, or NoProduct]
          edits,   \* changes made
          sync,    \* the sync under way
          lookup   \* the name being resolved

exVars == <<odoo, index, edits, sync, lookup>>

ProductIds == 1..MaxId
Live(id) == odoo[id] # NoProduct
LiveIds == {id \in ProductIds : Live(id)}
Indexed == {id \in ProductIds : index[id] # NoProduct}
\* Odoo answers in the order of ids.
ById == [i \in ProductIds |-> i]

\* always, ever: what was live throughout and at some moment of the sync (history).
NoSync == [at |-> "off", last |-> 0, rows |-> <<>>, todo |-> 0, always |-> {}, ever |-> {}]
NoLookup == [at |-> "off", query |-> NoProduct, found |-> <<>>, extra |-> <<>>, during |-> {}, needs |-> FALSE,
             chosen |-> 0]

Named == ProductIds \X Names
ExTypeOK ==
  /\ odoo \in [ProductIds -> Names \cup {NoProduct}] /\ index \in [ProductIds -> Names \cup {NoProduct}]
  /\ sync.at \in {"off", "page", "embed", "upsert", "delete", "ended", "skipped"}
  /\ lookup.at \in {"off", "semantic", "verify", "score", "answered", "error"}
  \* one match a product, and never more than the limit
  /\ Len(lookup.found) <= MAX_CANDIDATES
  /\ \A i, j \in DOMAIN lookup.found : lookup.found[i][1] = lookup.found[j][1] => i = j

ExInit ==
  /\ odoo \in {[id \in ProductIds |-> IF id \in live THEN n ELSE NoProduct] : live \in SUBSET ProductIds, n \in Names}
  /\ index \in {odoo, [id \in ProductIds |-> NoProduct]} /\ edits = 0 /\ sync = NoSync /\ lookup = NoLookup

\* Odoo's users: a product is renamed, archived or restored.
Edit(id, name) ==
  /\ edits < MaxEdits /\ odoo[id] # name
  /\ odoo' = [odoo EXCEPT ![id] = name] /\ edits' = edits + 1
  /\ sync' = IF name = NoProduct THEN [sync EXCEPT !.always = @ \ {id}]
             ELSE [sync EXCEPT !.ever = @ \cup {id}]
  /\ lookup' = IF name = NoProduct THEN lookup
               ELSE [lookup EXCEPT !.during = @ \cup {<<id, name>>}]
  /\ UNCHANGED index

StartSync ==
  /\ sync.at \in {"off", "ended", "skipped"}
  /\ sync' = [NoSync EXCEPT !.at = "page", !.always = LiveIds, !.ever = LiveIds]
  /\ UNCHANGED <<odoo, index, edits, lookup>>

\* fetch_products: the BATCH smallest ids beyond the last, until a page is empty.
Page(last) ==
  LET beyond == {id \in LiveIds : id > last}
  IN First(BATCH, Within(ById, beyond))
After_Always(rows) == IF rows = <<>> THEN "delete" ELSE "embed"
\* An empty fetch may be Odoo failing: nothing is deleted.
After(rows) == IF rows = <<>> THEN "skipped" ELSE "embed"
FetchPage ==
  /\ sync.at = "page"
  /\ LET page == Page(sync.last) IN
     sync' = IF page = <<>> THEN [sync EXCEPT !.at = After(sync.rows)]
             ELSE [sync EXCEPT !.last = Last(page),
                               !.rows = @ \o [i \in DOMAIN page |-> <<page[i], odoo[page[i]]>>]]
  /\ UNCHANGED <<odoo, index, edits, lookup>>

\* Every text is embedded before the first row is written.
EmbedAll ==
  /\ sync.at = "embed" /\ sync' = [sync EXCEPT !.at = "upsert", !.todo = 1]
  /\ UNCHANGED <<odoo, index, edits, lookup>>

Upsert ==
  /\ sync.at = "upsert"
  /\ index' = [index EXCEPT ![sync.rows[sync.todo][1]] = sync.rows[sync.todo][2]]
  /\ sync' = [sync EXCEPT !.todo = @ + 1, !.at = IF sync.todo = Len(sync.rows) THEN "delete" ELSE @]
  /\ UNCHANGED <<odoo, edits, lookup>>

\* The rows of products that were not fetched.
Fetched == {sync.rows[i][1] : i \in DOMAIN sync.rows}
DeleteVanished ==
  /\ sync.at = "delete"
  /\ index' = [id \in ProductIds |-> IF id \in Fetched THEN index[id] ELSE NoProduct]
  /\ sync' = [sync EXCEPT !.at = "ended"] /\ UNCHANGED <<odoo, edits, lookup>>

\* Odoo, Ollama or Postgres raises, or the process dies: what was committed stays.
SyncDies ==
  /\ sync.at \notin {"off", "ended", "skipped"} /\ sync' = NoSync
  /\ UNCHANGED <<odoo, index, edits, lookup>>

\* resolve_entity of a product: first Odoo's own name_search.
ResolveName(query) ==
  /\ lookup.at \in {"off", "answered", "error"}
  /\ LET hits == Within(ById, {id \in LiveIds : odoo[id] = query})
         others == Within(ById, {id \in LiveIds : odoo[id] # query})
     IN \E found \in {First(Limit, hits), First(Limit, others \o hits)} :
          lookup' = [NoLookup EXCEPT
                       !.query = query, !.at = "semantic",
                       !.found = [i \in DOMAIN found |-> <<found[i], odoo[found[i]]>>],
                       !.during = {<<id, odoo[id]>> : id \in LiveIds}]
  /\ UNCHANGED <<odoo, index, edits, sync>>
ResolveFails ==
  /\ lookup.at \in {"off", "answered", "error"} /\ lookup' = [NoLookup EXCEPT !.at = "error"]
  /\ UNCHANGED <<odoo, index, edits, sync>>

Missing(ranked, found) == Within(ranked, ProductIds \ {found[i][1] : i \in DOMAIN found})
Extra(ranked, found) == First(MAX_CANDIDATES - Len(found), Missing(ranked, found))
\* semantic_candidates: rows of the index, best first, those already found left out.  The
\* index, the embedder or the database may fail, which leaves the lexical matches; so does
\* the kill switch, and then with KeepOrder this is _resolve_legacy.
Semantic(ranked) ==
  /\ lookup.at = "semantic"
  /\ LET extra == Extra(ranked, lookup.found)
     IN lookup' = [lookup EXCEPT !.at = IF extra = <<>> THEN "score" ELSE "verify", !.extra = extra]
  /\ UNCHANGED <<odoo, index, edits, sync>>

\* The candidates are read again in Odoo: those gone drop out, the name is today's.  If that
\* fails they are all thrown away.
Verified(extra) ==
  LET kept == Within(extra, LiveIds) IN [i \in DOMAIN kept |-> <<kept[i], odoo[kept[i]]>>]
Verify(up) ==
  /\ lookup.at = "verify"
  /\ lookup' = [lookup EXCEPT !.at = "score", !.extra = <<>>,
                              !.found = IF up THEN @ \o Verified(lookup.extra) ELSE @]
  /\ UNCHANGED <<odoo, index, edits, sync>>

\* The cross-encoder's scores depend on the name alone; without it, or on the old way, the
\* order stays.  One exact name decides; else the best if it is good and clear enough.
Better(found, score) ==
  LET says(i) == score[found[i][2]]
  IN {p \in (DOMAIN found) \X (DOMAIN found) :
        says(p[1]) > says(p[2]) \/ (says(p[1]) = says(p[2]) /\ p[1] < p[2])}
Scored_by(found, score) ==
  LET order == ByOrder(Len(found), Better(found, score))
  IN [p \in DOMAIN found |-> found[order[p]]]
Exact(found, query) == Within(found, ProductIds \X {query})
Needs_AnyExact(found, score, query) ==
  /\ Exact(found, query) = <<>>
  /\ ~ (Len(found) = 1 \/ score[found[1][2]] - score[found[2][2]] >= Gap)
Needs(found, score, query) ==
  /\ Len(Exact(found, query)) # 1
  /\ ~ /\ score[found[1][2]] >= Floor
       /\ Len(found) = 1 \/ score[found[1][2]] - score[found[2][2]] >= Gap

\* resolve_entity_for_order, _resolve_single: the exact name, else the best.
Chosen(found, query) ==
  IF Exact(found, query) # <<>> THEN Exact(found, query)[1][1] ELSE found[1][1]
Answer_with(found, needs) ==
  lookup' = [lookup EXCEPT !.at = "answered", !.found = found, !.needs = needs,
                           !.chosen = IF needs \/ found = <<>> THEN 0 ELSE Chosen(found, lookup.query)]
Rank_names(score) ==
  /\ lookup.at = "score" /\ lookup.found # <<>>
  /\ LET found == Scored_by(lookup.found, score)
     IN Answer_with(found, Needs(found, score, lookup.query))
  /\ UNCHANGED <<odoo, index, edits, sync>>
KeepOrder ==
  /\ lookup.at = "score"
  /\ Answer_with(lookup.found, Len(lookup.found) > 1 /\ Len(Exact(lookup.found, lookup.query)) # 1)
  /\ UNCHANGED <<odoo, index, edits, sync>>

ExNext ==
  \/ \E id \in ProductIds, name \in Names \cup {NoProduct} : Edit(id, name)
  \/ StartSync \/ FetchPage \/ EmbedAll \/ Upsert \/ DeleteVanished \/ SyncDies
  \/ \E query \in Names : ResolveName(query)
  \/ ResolveFails \/ KeepOrder
  \/ \E some \in SUBSET Indexed : Semantic(Reverse(Within(ById, some)))
  \/ \E up \in BOOLEAN : Verify(up)
  \/ \E score \in Rankings : Rank_names(score)

ExSpec == ExInit /\ [][ExNext]_exVars
-----------------------------------------------------------------------------
(* Properties *)

\* A sync that ended mirrors Odoo as far as Odoo held still: what was live throughout is in,
\* what was never live is out, though pages, rows and the delete are separate steps and
\* earlier syncs died anywhere (sync_index.py:51).
SyncedIsMirror ==
  sync.at = "ended" => sync.always \subseteq Indexed /\ Indexed \subseteq sync.ever

\* No sync empties the mirror, whatever it fetched and wherever it dies (sync_index.py:59).
NeverWiped == Indexed # {} => Indexed' # {}

\* The mirror stays what it is read for, through every sync that ends, fails or dies.
MirrorHolds == [][(ExTypeOK /\ SyncedIsMirror)' /\ NeverWiped]_exVars

\* The mirror proposes ids only: each match was in Odoo under that name at some moment of
\* this resolution (resolve.py:86).
OffersLive == \A i \in DOMAIN lookup.found : lookup.found[i] \in lookup.during

\* Two matches both called what the user said are asked about, unless a third name leads the
\* cross-encoder's order (then the first of the two is taken, not the third), and a single
\* one is picked however they are ranked (resolve.py:112-122, create_order.py:41).
ExactIds == {lookup.found[i][1] : i \in {k \in DOMAIN lookup.found : lookup.found[k][2] = lookup.query}}
TwinsAreAsked ==
  lookup.at = "answered" /\ lookup.chosen # 0 =>
    /\ Cardinality(ExactIds) > 1 => lookup.found[1][2] # lookup.query
    /\ Cardinality(ExactIds) = 1 => lookup.chosen \in ExactIds

\* A name is resolved to a product that is there, and only to one that was meant.
NamesAreSafe == OffersLive /\ TwinsAreAsked
=============================================================================
