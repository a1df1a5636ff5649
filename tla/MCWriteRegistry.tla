--------------------------- MODULE MCWriteRegistry ---------------------------
(* expand_chain over the whole registry, every pair of names a plan can hold. *)
EXTENDS WriteRegistry

VARIABLES first, until, chain, expanded

vars == <<first, until, chain, expanded>>

Init == /\ first \in AllTools
        /\ until \in AllTools \cup {None}
        /\ chain = None
        /\ expanded = FALSE

\* erp_write_planner: plan in hand, the declared chain is expanded.
Expand == /\ ~expanded /\ expanded' = TRUE
          /\ chain' = expand_chain(first, until)
          /\ UNCHANGED <<first, until>>

Spec == Init /\ [][Expand]_vars

\* The tools a chain into tool b may start from, found backwards from b.
Leading[n \in 0..Depth] ==
    [b \in AllTools |->
        LET near == IF n = 0 THEN {b} ELSE Leading[n - 1][b]
        IN  near \cup {a \in AllTools : Follower(a) \in near}]

Reaches(a, b) == \E c \in Leading[Depth][b] : Follower(a) = c

\* A plan asks for a chain exactly when its last tool can be reached from its
\* first one: nothing the user declared is silently reduced to one step, and
\* no invented name starts a chain (nodes.py: "an invented chain_until ->
\* None -> single step").
ChainIffReachable ==
    expanded => (chain # None <=> until # None /\ until # first /\ Reaches(first, until))

\* The steps run one after the other along NEXT_STEPS, stop at the tool asked
\* for and never pass a tool twice, the first one included.
ChainIsPath ==
    chain # None =>
        LET path == <<first>> \o chain IN
        /\ \A i \in 1..Len(chain) : path[i + 1] = Follower(path[i])
        /\ path[Len(path)] = until
        /\ \A i, j \in 1..Len(path) : path[i] = path[j] => i = j

\* The chain a plan declares is the chain that runs (write_registry.py:140).
ChainIsDeclared == ChainIffReachable /\ ChainIsPath
=============================================================================
