--------------------------- MODULE DBusMenuModel ----------------------------
(***************************************************************************)
(* QDBusMenuModel (qdbusmenumodel.cpp): a QDBusObject whose proxy is the   *)
(* root of a QMenuModel.  The connection is module DBusObject, the rows    *)
(* are module MenuNodeTree; wherever the connection changes its proxy, in  *)
(* serviceAppear, serviceVanish or stop, a MenuModelEvent hands it to      *)
(* setMenuModel in the same step.                                          *)
(*                                                                         *)
(* The service goes on changing its menus while the application connects,  *)
(* disconnects and sets other names, from the main loop or from inside the *)
(* signals.  What comes from the main loop waits for the handlers.         *)
(***************************************************************************)
EXTENDS DBusObject

CONSTANTS
  Models, NoModel, Entries, LinkOf, InitialMenu, Batches, NoOp, MaxItems,
  MenuOf  \* [Proxies that are exported -> their menus]

VARIABLES menu, nodes, op, tidy

tree == <<menu, nodes, op, tidy>>

Roots == {MenuOf[p] : p \in DOMAIN MenuOf}

\* g_dbus_menu_model_get: one object for a name and a path, while it is in use.
RootOf(p) == IF p = NoProxy THEN NoModel ELSE MenuOf[p]

Tree == INSTANCE MenuNodeTree WITH root <- RootOf(proxy)

ASSUME MenuAssumption ==
  /\ Tree!TreeAssumption
  /\ DOMAIN MenuOf = [name : Services, path : Paths]
  /\ \A p, q \in DOMAIN MenuOf : MenuOf[p] = MenuOf[q] => p = q

-----------------------------------------------------------------------------

\* Mutant: setMenuModel's early return is taken whenever there is a root.
UseMenuOnce ==
  IF proxy' = proxy \/ (proxy # NoProxy /\ proxy' # NoProxy)
  THEN UNCHANGED tree
  ELSE Tree!SetMenuModel(RootOf(proxy'))

\* MenuModelEvent: setMenuModel, which returns early for the menu it has.
UseMenu ==
  IF proxy' = proxy THEN UNCHANGED tree ELSE Tree!SetMenuModel(RootOf(proxy'))

\* What the application calls.  stop() is not called from inside a row signal:
\* it would delete the node whose change is then committed.
Call ==
  /\ \/ Start
     \/ op = NoOp /\ Stop
     \/ \E b \in Buses \cup {Unset} : Set("bus", b)
     \/ \E n \in Services \cup {Unset} : Set("name", n)
     \/ \E p \in Paths \cup {Unset} : Set("path", p)
  /\ UseMenu

\* What the watch reports, and what is left of a handler after its signal.
Report ==
  /\ op = NoOp
  /\ Appeared \/ Vanished
  /\ UseMenu

Resume == Return /\ UseMenu

\* The menus change, and the views are told.
MenuChanges ==
  /\ calls = <<>>
  /\ UNCHANGED vars
  /\ \/ \E m \in Models : \E pos \in 0..Len(menu[m]) : \E removed \in 0..(Len(menu[m]) - pos),
          es \in Batches[m] \cup {<<>>} : Tree!ItemsChanged(m, pos, removed, es)
     \/ Tree!EndSignal

-----------------------------------------------------------------------------

ModelInit ==
  /\ Init
  /\ menu = InitialMenu
  /\ nodes = <<>>
  /\ op = NoOp
  /\ tidy = TRUE

ModelNext == Call \/ Report \/ Resume \/ MenuChanges

ModelSpec == ModelInit /\ [][ModelNext]_<<vars, tree>>

-----------------------------------------------------------------------------

\* Type invariant of both parts.
ModelTypeOK == TypeOK /\ Tree!TypeOK

\* Whatever row a view asks for, when a change has begun to be signalled or
\* after it, it reads the attributes of the entry that it knows there
\* (MenuNode::realPosition), with the connection coming and going; and while the
\* peer's changes are tidy, the roles hasSection and hasSubMenu are those of that
\* entry, unless a change at or before the row is pending (QMenuModel::hasLink).
RowsShowEntries == Tree!RowsShowEntries

\* As long as the peer's changes are tidy, the tree is that of the menu of the
\* proxy, and there is no node at all without one: nothing goes on listening to
\* a service that vanished, was stopped or was replaced.
TidyTreeMirrorsMenu == Tree!TidyTreeMirrorsMenu

\* A view that walks down from the root finds the rows of each submenu, and
\* back up the row it came from (QMenuModel::index and parent).
IndexesNavigate == Tree!IndexesNavigate

=============================================================================
