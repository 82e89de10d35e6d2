--------------------------- MODULE MCMenuTracker ---------------------------
(***************************************************************************)
(* Small menus for TLC: a root with two sections, each of which may hold a *)
(* section of its own.                                                     *)
(***************************************************************************)
EXTENDS MenuTracker

CONSTANTS R, A, B, C, D, None, p, sA, sB, a, sD, b, sC, c, d

MCModels == {R, A, B, C, D}
MCEntries == {p, sA, sB, a, sD, b, sC, c, d}
MCSectionOf == [e \in MCEntries |->
  CASE e = sA -> A [] e = sB -> B [] e = sC -> C [] e = sD -> D [] OTHER -> None]

EmptyMenu == [m \in MCModels |-> <<>>]
\* A second section whose rows come from a section inside it.
NestedMenu == [m \in MCModels |-> CASE m = R -> <<p, sB>> [] m = B -> <<sC>> [] OTHER -> <<>>]

\* Batches in which the plain items come before the sections.
OrderlyBatches == [m \in MCModels |->
  CASE m = R -> {<<p>>, <<sA>>, <<sB>>, <<p, sA>>, <<sA, sB>>, <<sB, sA>>, <<p, sB, sA>>}
    [] m = A -> {<<a>>, <<sD>>, <<a, sD>>}
    [] m = B -> {<<b>>, <<sC>>, <<b, sC>>}
    [] m = C -> {<<c>>}
    [] OTHER -> {<<d>>}]

\* Sections nest twice below the root.
MCHeight == [m \in MCModels |-> CASE m = R -> 3 [] m \in {A, B} -> 2 [] OTHER -> 1]

\* The same, and batches that have a plain item after a section.
AnyOrder == [m \in MCModels |-> OrderlyBatches[m] \cup
  (CASE m = R -> {<<sA, p>>, <<sA, p, sB>>} [] m = B -> {<<sC, b>>} [] OTHER -> {})]

NoNamespaces == [e \in MCEntries |-> <<>>]
SectionNamespaces == [e \in MCEntries |->
  CASE e = sA -> <<"x">> [] e = sC -> <<"y">> [] OTHER -> <<>>]
Indicator == <<"indicator">>
Unset == <<>>
=============================================================================
