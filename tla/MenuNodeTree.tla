---------------------------- MODULE MenuNodeTree ----------------------------
(***************************************************************************)
(* QMenuModel (qmenumodel.cpp) and its tree of MenuNodes (menunode.cpp): a *)
(* node for each GMenuModel that is linked below the root, the positions   *)
(* of its linked items, and the row signals sent to the views.             *)
(*                                                                         *)
(* A change of a model is handled in steps, as the views see it: when a    *)
(* signal has begun they ask for the rows as they were, and when it ends   *)
(* for the rows as they are.                                               *)
(*                                                                         *)
(* A model is linked by one item at most, so that a node is known by its   *)
(* model, and an entry is one item of one menu.                            *)
(***************************************************************************)
EXTENDS Integers, SequencesExt

CONSTANTS
  Models, NoModel,
  Entries,           \* the menu items
  LinkOf,            \* [Entries -> Models \cup {NoModel}]: submenu or section
  Roots,             \* the models a QMenuModel is given
  InitialMenu,       \* [Models -> Seq(Entries)]
  Batches,           \* [Models -> set of the entry sequences a peer adds at once]
  NoOp,
  MaxItems           \* bound: the longest menu

VARIABLES
  menu,  \* the exported models
  root,  \* m_root, or NoModel
  nodes, \* the MenuNodes: a function of the models that have one
  op,    \* the change that is being signalled, or NoOp
  tidy   \* history: see Tidy

vars == <<menu, root, nodes, op, tidy>>

\* A change: what it is, the rows before it, and the signals that are to end.
Ops == [model : Models, pos : Nat \cup {-1}, added : Nat, removed : Nat, was : Seq(Entries),
        signals : Seq([kind : {"insert", "remove"}, first : Nat, last : Nat])]

Once(mu) ==
  \A m1, m2 \in Models : \A i1 \in DOMAIN mu[m1], i2 \in DOMAIN mu[m2] :
    mu[m1][i1] = mu[m2][i2] => m1 = m2 /\ i1 = i2

\* What is taken of the constants; the composition assumes it.
TreeAssumption ==
  /\ LinkOf \in [Entries -> Models \cup {NoModel}]
  /\ NoModel \notin Models
  /\ Roots \subseteq Models
  /\ \A e \in Entries : LinkOf[e] \notin Roots
  /\ \A e1, e2 \in Entries : LinkOf[e1] = LinkOf[e2] /\ e1 # e2 => LinkOf[e1] = NoModel
  /\ InitialMenu \in [Models -> Seq(Entries)] /\ Once(InitialMenu)
  /\ \A m \in Models : Batches[m] \subseteq {es \in Seq(Entries) : IsInjective(es)}
  /\ NoOp \notin Ops

-----------------------------------------------------------------------------
(* Nodes.  Positions are those of the code: they begin with 0.             *)

IsLink(es, i) == i \in 0..(Len(es) - 1) /\ LinkOf[es[i + 1]] # NoModel

\* MenuNode::create for the positions of a range of a model's entries.
Linked(es, range) ==
  [i \in {k \in range : IsLink(es, k)} |-> LinkOf[es[i + 1]]]

\* The models that entries link.
LinksOf(es) == {LinkOf[e] : e \in ToSet(es)} \ {NoModel}

\* m and all that is linked below it, where a model links those of links[k]: the
\* smallest set that has m and what its members link.
Below(links, m) ==
  {k \in Models : \A S \in SUBSET Models :
     m \in S /\ (\A j \in S : links[j] \subseteq S) => k \in S}

MenuBelow(mu, m) == Below([k \in Models |-> LinksOf(mu[k])], m)

\* The constructor makes the nodes of all the models below, too.
NewNodes(mu, ms) ==
  [k \in UNION {MenuBelow(mu, m) : m \in ms} |->
    [children |-> Linked(mu[k], 0..(Len(mu[k]) - 1)), size |-> Len(mu[k])]]

\* The destructor deletes the nodes below.
NodesBelow(ns, m) ==
  Below([k \in Models |-> IF k \in DOMAIN ns THEN Range(ns[k].children) ELSE {}], m)

Without(ns, ms) ==
  LET dead == UNION {NodesBelow(ns, m) : m \in ms} IN Restrict(ns, DOMAIN ns \ dead)

\* g in place of f where both are defined.
Merge(f, g) == [x \in DOMAIN f \cup DOMAIN g |-> IF x \in DOMAIN g THEN g[x] ELSE f[x]]

\* Moves the positions that satisfy From by n.
Moved(f, From(_), n) ==
  [i \in {IF From(k) THEN k + n ELSE k : k \in DOMAIN f} |->
     IF i - n \in DOMAIN f /\ From(i - n) THEN f[i - n] ELSE f[i]]

\* Mutant: the child at the position itself stays.
InsertedAfter(ns, mu, m, start, added) ==
  LET moved == Moved(ns[m].children, LAMBDA i: i > start, added)
      new == Linked(mu[m], start..(start + added - 1))
  IN  Merge([ns EXCEPT ![m] = [children |-> Merge(moved, new), size |-> @.size + added]],
            NewNodes(mu, {new[i] : i \in DOMAIN new}))

Inserted(ns, mu, m, start, added) ==
  LET moved == Moved(ns[m].children, LAMBDA i: i >= start, added)
      new == Linked(mu[m], start..(start + added - 1))
  IN  Merge([ns EXCEPT ![m] = [children |-> Merge(moved, new), size |-> @.size + added]],
            NewNodes(mu, {new[i] : i \in DOMAIN new}))

\* Mutant: the positions after the removed ones stay.
RemovedUnmoved(ns, m, start, removed) ==
  LET children == ns[m].children
      gone == {i \in DOMAIN children : i >= start /\ i <= start + removed}
  IN  [Without(ns, {children[i] : i \in gone}) EXCEPT
        ![m] = [children |-> Restrict(children, DOMAIN children \ gone), size |-> @.size - removed]]

\* The loop deletes one position more than was removed.
Removed(ns, m, start, removed) ==
  LET children == ns[m].children
      gone == {i \in DOMAIN children : i >= start /\ i <= start + removed}
      kept == Restrict(children, DOMAIN children \ gone)
  IN  [Without(ns, {children[i] : i \in gone}) EXCEPT
        ![m] = [children |-> Moved(kept, LAMBDA i: i > start + removed, -removed),
                size |-> @.size - removed]]

\* MenuNode::change: first what was added, then what was removed.
Change(ns, mu, m, start, added, removed) ==
  LET grown == IF added > 0 THEN Inserted(ns, mu, m, start, added) ELSE ns
  IN  IF removed > 0 THEN Removed(grown, m, start, removed) ELSE grown

-----------------------------------------------------------------------------
(* Where a row of a node is found in the model, which may have changed     *)
(* already: -1 when it has been removed.                                   *)

Pending(m) ==
  IF op # NoOp /\ op.model = m THEN op ELSE [pos |-> -1, added |-> 0, removed |-> 0]

\* Mutant: the rows that have been removed are not left out.
RealPositionShifted(m, row) ==
  LET p == Pending(m) IN
  IF row \notin 0..(nodes[m].size - 1) THEN -1
  ELSE IF row < p.pos THEN row ELSE row + p.added - p.removed

RealPosition(m, row) ==
  LET p == Pending(m) IN
  CASE row \notin 0..(nodes[m].size - 1) -> -1
    [] row \in p.pos..(p.pos + p.removed - 1) /\ p.removed > 0 -> -1
    [] row >= 0 /\ row < p.pos -> row
    [] OTHER -> row + p.added - p.removed

-----------------------------------------------------------------------------
(* What data() answers for a row that has a real position: the item whose  *)
(* action, label and extra attributes it reads, and the model linked by the *)
(* child that its roles hasSection and hasSubMenu look up.  Both are taken *)
(* at the real position, though the children only move when the change is  *)
(* committed.  The depth is that of the node, whatever the row.            *)

\* MenuNode::child
Child(m, pos) == IF pos \in DOMAIN nodes[m].children THEN nodes[m].children[pos] ELSE NoModel

Item(m, row) == menu[m][RealPosition(m, row) + 1]

\* QMenuModel::hasLink
Link(m, row) == Child(m, RealPosition(m, row))


-----------------------------------------------------------------------------
(* The indexes of the views: a row of a node, or Nowhere for the root.     *)

Nowhere == [row |-> -1, node |-> NoModel]
RowOf(m, row) == [row |-> row, node |-> m]

\* m_parent, and the position at which the parent has the node.
Parent(m) == CHOOSE p \in DOMAIN nodes : m \in Range(nodes[p].children)
Position(m) == CHOOSE i \in DOMAIN nodes[Parent(m)].children : nodes[Parent(m)].children[i] = m

\* QMenuModel::index.  A row without children stands for its own node.
Index(row, parent) ==
  IF parent = Nowhere THEN RowOf(root, row)
  ELSE IF parent.row \in DOMAIN nodes[parent.node].children
  THEN RowOf(nodes[parent.node].children[parent.row], row)
  ELSE RowOf(parent.node, row)

\* Mutant: the parent's row, but in the node itself.
ParentIndexSelf(index) ==
  IF index = Nowhere \/ index.node = root THEN Nowhere
  ELSE RowOf(index.node, Position(index.node))

\* QMenuModel::parent
ParentIndex(index) ==
  IF index = Nowhere \/ index.node = root THEN Nowhere
  ELSE RowOf(Parent(index.node), Position(index.node))

\* QMenuModel::rowCount
RowCount(index) ==
  IF index = Nowhere THEN (IF root = NoModel THEN 0 ELSE nodes[root].size)
  ELSE IF index.row \in DOMAIN nodes[index.node].children
  THEN nodes[nodes[index.node].children[index.row]].size
  ELSE 0

-----------------------------------------------------------------------------
(* The signals of a change.                                                *)

MenuNodeItemChangeEvent(position, removed, added) ==
  [position |-> position, removed |-> removed, added |-> added]

RowSignal(kind, e, n) == [kind |-> kind, first |-> e.position, last |-> e.position + n - 1]

\* QMenuModel::event.
Signals(e) ==
  (IF e.removed > 0 THEN <<RowSignal("remove", e, e.removed)>> ELSE <<>>) \o
  (IF e.added > 0 THEN <<RowSignal("insert", e, e.added)>> ELSE <<>>)

\* The changes whose row positions the code keeps right: an insertion, or a
\* removal that is not followed by a linked item.
Tidy(es, pos, removed, added) ==
  \/ removed = 0
  \/ added = 0 /\ ~IsLink(es, pos + removed)

InUse == UNION {ToSet(menu[m]) : m \in Models}

\* Entries that are not linked anywhere, nor have a node from an earlier link.
Fresh(es) ==
  /\ ToSet(es) \cap InUse = {}
  /\ \A e \in ToSet(es) : LinkOf[e] # NoModel => MenuBelow(menu, LinkOf[e]) \cap DOMAIN nodes = {}

\* The peer replaces "removed" entries of m at pos by es.  The node of m, if
\* there is one, sends the event, with the numbers in this order.
ItemsChanged(m, pos, removed, es) ==
  LET added == Len(es)
      after == SubSeq(menu[m], 1, pos) \o es \o SubSeq(menu[m], pos + removed + 1, Len(menu[m]))
  IN
  /\ op = NoOp
  /\ pos + removed <= Len(menu[m]) /\ removed + added > 0
  /\ Len(after) <= MaxItems
  /\ Fresh(es)
  /\ menu' = [menu EXCEPT ![m] = after]
  /\ IF m \in DOMAIN nodes
     THEN /\ op' = [model |-> m, pos |-> pos, added |-> added, removed |-> removed, was |-> menu[m],
                    signals |-> Signals(MenuNodeItemChangeEvent(pos, added, removed))]
          /\ tidy' = (tidy /\ Tidy(menu[m], pos, removed, added))
     ELSE UNCHANGED <<op, tidy>>
  /\ UNCHANGED <<root, nodes>>

\* The views have handled the beginning of a signal: what is pending is
\* committed, the signal ends and the next one begins.
EndSignal ==
  /\ op # NoOp
  /\ nodes' = Change(nodes, menu, op.model, op.pos, op.added, op.removed)
  /\ op' = IF Len(op.signals) = 1 THEN NoOp
           ELSE [op EXCEPT !.pos = -1, !.added = 0, !.removed = 0, !.signals = Tail(@)]
  /\ UNCHANGED <<menu, root, tidy>>

\* Mutant: the model that is given takes over the old one's nodes.
SetMenuModelKeeping(m) ==
  /\ op = NoOp
  /\ m # root
  /\ root' = m
  /\ nodes' = IF m = NoModel THEN nodes ELSE Merge(nodes, NewNodes(menu, {m}))
  /\ UNCHANGED <<menu, op, tidy>>

\* QMenuModel::setMenuModel: the whole tree is new, and the rows are reset.
SetMenuModel(m) ==
  /\ op = NoOp
  /\ m # root
  /\ root' = m
  /\ nodes' = IF m = NoModel THEN <<>> ELSE NewNodes(menu, {m})
  /\ tidy' = TRUE
  /\ UNCHANGED <<menu, op>>

-----------------------------------------------------------------------------

Init ==
  /\ menu = InitialMenu
  /\ root = NoModel
  /\ nodes = <<>>
  /\ op = NoOp
  /\ tidy = TRUE

Next ==
  \/ \E m \in Models : \E pos \in 0..Len(menu[m]) : \E removed \in 0..(Len(menu[m]) - pos),
       es \in Batches[m] \cup {<<>>} : ItemsChanged(m, pos, removed, es)
  \/ EndSignal
  \/ \E m \in Roots \cup {NoModel} : SetMenuModel(m)

Spec == Init /\ [][Next]_vars

-----------------------------------------------------------------------------

\* Type invariant.
TypeOK ==
  /\ menu \in [Models -> Seq(Entries)]
  /\ root \in Roots \cup {NoModel}
  /\ DOMAIN nodes \subseteq Models
  /\ \A m \in DOMAIN nodes :
       /\ nodes[m].size \in Nat
       /\ DOMAIN nodes[m].children \subseteq 0..(nodes[m].size - 1)
       /\ \A i \in DOMAIN nodes[m].children : nodes[m].children[i] \in DOMAIN nodes
  /\ op \in Ops \cup {NoOp}
  /\ tidy \in BOOLEAN

\* The entries a view knows as the rows of m: until a change is committed,
\* those from before it.
Rows(m) == IF Pending(m).pos = -1 THEN menu[m] ELSE op.was

\* The models below m, as a view knows them.
MenuBelowRows(m) == Below([k \in Models |-> LinksOf(Rows(k))], m)

\* Whatever row a view asks for, when a change has begun to be signalled or
\* after it, it reads the action, the label and the other attributes of the entry
\* that it knows there, or none of an entry that is gone.
RowsShowAttributes ==
  \A m \in DOMAIN nodes :
    /\ nodes[m].size = Len(Rows(m))
    /\ \A row \in 0..(nodes[m].size - 1) :
         LET at == RealPosition(m, row) IN
         IF at = -1
         THEN Rows(m)[row + 1] \notin ToSet(menu[m])
         ELSE at < Len(menu[m]) /\ Item(m, row) = Rows(m)[row + 1]

\* As long as the peer only makes tidy changes, a view that asks whether a row
\* has a section or a submenu is answered for the entry that it knows there,
\* when no change of the node is pending, and for the rows before one that is.
\* For the rows behind one the children have yet to move, and the answer is of
\* another row.
RowsShowLinks ==
  tidy => \A m \in DOMAIN nodes : \A row \in 0..(nodes[m].size - 1) :
    (Pending(m).pos = -1 \/ row < Pending(m).pos) => Link(m, row) = LinkOf[Rows(m)[row + 1]]

\* Whatever row a view asks for, during a signal or after it, it is told of the
\* entry that it knows there: its attributes always, and its links where no
\* pending change comes before it (QMenuModel::data).
RowsShowEntries == RowsShowAttributes /\ RowsShowLinks

\* The children are those of the linked entries, at their rows.
ChildrenMatchLinks ==
  op = NoOp => \A m \in DOMAIN nodes : nodes[m].children = Linked(menu[m], 0..(Len(menu[m]) - 1))

\* As long as the peer only makes tidy changes, after each of them the tree is
\* that of the menu: no node is lost, left over or in another's place.
TidyTreeMirrorsMenu ==
  tidy /\ op = NoOp =>
    /\ ChildrenMatchLinks
    /\ DOMAIN nodes = IF root = NoModel THEN {} ELSE MenuBelow(menu, root)

\* A view that walks down from the root finds under each row that it knows the
\* rows of the submenu there, and back up from them the row it came from, as
\* the test of the tree has it: also between the beginning and the end of a
\* signal, when menu and nodes disagree.
IndexesNavigate ==
  tidy /\ root # NoModel =>
    \A m \in MenuBelowRows(root) :
      LET parent == IF m = root THEN Nowhere ELSE RowOf(Parent(m), Position(m)) IN
      \A row \in 0..(RowCount(parent) - 1) :
        LET index == Index(row, parent)  e == Rows(m)[row + 1] IN
        /\ index = RowOf(m, row)
        /\ ParentIndex(index) = parent
        /\ RowCount(index) = IF LinkOf[e] = NoModel THEN 0 ELSE Len(Rows(LinkOf[e]))

\* The views are told of an insertion before rows are inserted, and of a
\* removal before rows are removed.
ChangesAnnounced ==
  op # NoOp => LET kind == Head(op.signals).kind IN
    /\ op.added > 0 => kind = "insert"
    /\ op.removed > 0 => kind = "remove"

=============================================================================
