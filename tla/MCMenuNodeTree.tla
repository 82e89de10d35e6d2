--------------------------- MODULE MCMenuNodeTree ---------------------------
(***************************************************************************)
(* A root with two submenus, one of which may have a section, and another  *)
(* root to be given instead.                                               *)
(***************************************************************************)
EXTENDS MenuNodeTree

CONSTANTS R, Q, A, B, C, p1, p2, eA, eB, eC, c

MCModels == {R, Q, A, B, C}
MCEntries == {p1, p2, eA, eB, eC, c}
MCLinkOf == [e \in MCEntries |-> CASE e = eA -> A [] e = eB -> B [] e = eC -> C [] OTHER -> NoModel]
EmptyMenu == [m \in MCModels |-> <<>>]

MCBatches == [m \in MCModels |->
  CASE m = R -> {<<p1>>, <<p2>>, <<eA>>, <<eB>>, <<eA, p1>>, <<p1, eB>>, <<eA, eB>>}
    [] m = A -> {<<eC>>}
    [] m = C -> {<<c>>}
    [] OTHER -> {}]
=============================================================================
