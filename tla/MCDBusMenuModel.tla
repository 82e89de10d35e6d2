-------------------------- MODULE MCDBusMenuModel ---------------------------
(***************************************************************************)
(* Two services, each with a menu at one path: R may link two submenus,    *)
(* one of which may have a section, and Q is empty.                        *)
(***************************************************************************)
EXTENDS DBusMenuModel

CONSTANTS s1, s2, path, R, Q, A, B, C, p1, eA, eB, eC, c

\* Any call from any handler, but those that disconnect inside serviceAppear and
\* those that start inside a setter.
TameReentry == [k \in Kinds |->
  CASE k = "appear" -> {"start"} [] k = "set" -> {"stop", "set"} [] OTHER -> Methods]

MCModels == {R, Q, A, B, C}
MCEntries == {p1, eA, eB, eC, c}
MCLinkOf == [e \in MCEntries |-> CASE e = eA -> A [] e = eB -> B [] e = eC -> C [] OTHER -> NoModel]
EmptyMenu == [m \in MCModels |-> <<>>]
MCMenuOf == [p \in [name : {s1, s2}, path : {path}] |-> IF p.name = s1 THEN R ELSE Q]

MCBatches == [m \in MCModels |->
  CASE m = R -> {<<p1>>, <<eA>>, <<eB>>, <<eA, p1>>, <<p1, eB>>}
    [] m = A -> {<<eC>>}
    [] m = C -> {<<c>>}
    [] OTHER -> {}]
=============================================================================
