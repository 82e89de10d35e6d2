------------------------- MODULE DBusMenuModelProofs --------------------------
(***************************************************************************)
(* Proofs about DBusMenuModel, for any services and menus, handlers nested *)
(* to any depth, and an application that is Tame in the sense of           *)
(* DBusObjectProofs, whose theorems are used of the connection.            *)
(*                                                                         *)
(* The properties of the rows are about nodes and menu, which disagree     *)
(* while a change is being signalled.  The invariant compares the nodes    *)
(* with the rows that a view knows, which are those of menu or of before.  *)
(***************************************************************************)
EXTENDS DBusMenuModel, DBusObjectProofs

\* The links of menus, and those of nodes.
Links(mu) == [k \in Models |-> Tree!LinksOf(mu[k])]
NodeLinks(ns) == [k \in Models |-> IF k \in DOMAIN ns THEN Tree!Range(ns[k].children) ELSE {}]

Positions(es) == 0..(Len(es) - 1)

-----------------------------------------------------------------------------
(* The invariant.                                                          *)

\* The menus as a view knows them.
RowMenus == [k \in Models |-> Tree!Rows(k)]

MenusOK(mu) == mu \in [Models -> Seq(Entries)] /\ Tree!Once(mu)

\* Nodes have the sizes they should have, and children that are nodes, each the
\* child of one node at one position.
NodesOK(ns, sizes) ==
  /\ DOMAIN ns \subseteq Models
  /\ \A k \in DOMAIN ns :
       /\ ns[k].size = sizes[k]
       /\ DOMAIN ns[k].children \subseteq 0..(sizes[k] - 1)
       /\ \A i \in DOMAIN ns[k].children : ns[k].children[i] \in DOMAIN ns
  /\ \A k1, k2 \in DOMAIN ns : \A i1 \in DOMAIN ns[k1].children, i2 \in DOMAIN ns[k2].children :
       ns[k1].children[i1] = ns[k2].children[i2] => k1 = k2 /\ i1 = i2

Sizes(mu) == [k \in Models |-> Len(mu[k])]

\* The tree is that of the menus below r.
Mirrors(ns, mu, r) ==
  /\ \A k \in DOMAIN ns : ns[k].children = Tree!Linked(mu[k], Positions(mu[k]))
  /\ DOMAIN ns = IF r = NoModel THEN {} ELSE Tree!Below(Links(mu), r)

\* after is before with "removed" entries at pos replaced by "added" others.
Spliced(after, before, pos, removed, added) ==
  /\ after \in Seq(Entries) /\ before \in Seq(Entries)
  /\ pos \in Nat /\ removed \in Nat /\ added \in Nat /\ removed + added > 0
  /\ pos + removed <= Len(before) /\ Len(after) = Len(before) - removed + added
  /\ \A i \in 1..pos : after[i] = before[i]
  /\ \A i \in (pos + removed + 1)..Len(before) : after[i - removed + added] = before[i]
  /\ \A i \in (pos + 1)..(pos + removed) : before[i] \notin Tree!ToSet(after)

\* What is new is not linked yet.
NewUnlinked(ns, mu, after, pos, added) ==
  \A i \in (pos + 1)..(pos + added) :
    LinkOf[after[i]] # NoModel => Tree!MenuBelow(mu, LinkOf[after[i]]) \cap DOMAIN ns = {}

\* A change that is pending is what happened to the menu.
OpOK ==
  op # NoOp =>
    /\ op \in Tree!Ops /\ op.signals # <<>>
    /\ op.pos = -1 => op.added = 0 /\ op.removed = 0
    /\ op.pos # -1 =>
         /\ op.model \in DOMAIN nodes
         /\ Spliced(menu[op.model], op.was, op.pos, op.removed, op.added)
         /\ NewUnlinked(nodes, menu, menu[op.model], op.pos, op.added)
         /\ tidy => Tree!Tidy(op.was, op.pos, op.removed, op.added)

\* The menus that are used are those of services.
ProxyOK == proxy \in DOMAIN MenuOf \cup {NoProxy}

TreeInv ==
  /\ MenusOK(menu) /\ MenusOK(RowMenus) /\ OpOK /\ ProxyOK /\ tidy \in BOOLEAN
  /\ NodesOK(nodes, Sizes(RowMenus))
  /\ tidy => Mirrors(nodes, RowMenus, RootOf(proxy))

-----------------------------------------------------------------------------
(* What is below a model.                                                  *)

LEMMA BelowClosed ==
  ASSUME NEW links \in [Models -> SUBSET Models], NEW m \in Models
  PROVE  /\ Tree!Below(links, m) \subseteq Models /\ m \in Tree!Below(links, m)
         /\ \A j \in Tree!Below(links, m) : links[j] \subseteq Tree!Below(links, m)
<1>1. Tree!Below(links, m) \subseteq Models /\ m \in Tree!Below(links, m)
  BY DEF Tree!Below
<1>2. ASSUME NEW j \in Tree!Below(links, m), NEW k \in links[j] PROVE k \in Tree!Below(links, m)
  <2>1. j \in Models /\ k \in Models
    BY <1>1, <1>2
  <2>2. ASSUME NEW S \in SUBSET Models, m \in S, \A l \in S : links[l] \subseteq S PROVE k \in S
    <3>1. j \in S
      BY <2>2 DEF Tree!Below
    <3> QED BY <1>2, <2>2, <3>1
  <2> QED BY <2>1, <2>2 DEF Tree!Below
<1> QED BY <1>1, <1>2

LEMMA BelowLeast ==
  ASSUME NEW links, NEW m, NEW S \in SUBSET Models, m \in S, \A j \in S : links[j] \subseteq S
  PROVE  Tree!Below(links, m) \subseteq S
BY DEF Tree!Below

\* What is below m, but not m, is linked from there.
LEMMA BelowLinked ==
  ASSUME NEW links \in [Models -> SUBSET Models], NEW m \in Models,
         NEW k \in Tree!Below(links, m), k # m
  PROVE  \E j \in Tree!Below(links, m) : k \in links[j]
<1> DEFINE D == Tree!Below(links, m)
           S == {m} \cup {l \in D : \E j \in D : l \in links[j]}
<1>1. D \subseteq Models /\ m \in D /\ \A j \in D : links[j] \subseteq D
  BY BelowClosed
<1> HIDE DEF D
<1>2. S \in SUBSET Models /\ m \in S /\ S \subseteq D
  BY <1>1
<1>3. \A j \in S : links[j] \subseteq S
  BY <1>1, <1>2
<1>4. D \subseteq S
  <2> HIDE DEF S
  <2> QED BY <1>2, <1>3, BelowLeast DEF D
<1> QED BY <1>4 DEF D

\* Links that differ elsewhere only do not matter.
LEMMA BelowAgrees ==
  ASSUME NEW l1 \in [Models -> SUBSET Models], NEW l2 \in [Models -> SUBSET Models], NEW m \in Models,
         \A j \in Tree!Below(l1, m) : l1[j] = l2[j]
  PROVE  Tree!Below(l1, m) = Tree!Below(l2, m)
<1>1. /\ Tree!Below(l1, m) \subseteq Models /\ m \in Tree!Below(l1, m)
      /\ \A j \in Tree!Below(l1, m) : l1[j] \subseteq Tree!Below(l1, m)
  BY BelowClosed
<1>2. /\ Tree!Below(l2, m) \subseteq Models /\ m \in Tree!Below(l2, m)
      /\ \A j \in Tree!Below(l2, m) : l2[j] \subseteq Tree!Below(l2, m)
  BY BelowClosed
<1>3. Tree!Below(l2, m) \subseteq Tree!Below(l1, m)
  BY <1>1, BelowLeast
<1> DEFINE S == Tree!Below(l1, m) \cap Tree!Below(l2, m)
<1>4. S \in SUBSET Models /\ m \in S /\ \A j \in S : l1[j] \subseteq S
  BY <1>1, <1>2
<1>5. Tree!Below(l1, m) \subseteq S
  <2> HIDE DEF S
  <2> QED BY <1>4, BelowLeast
<1> QED BY <1>3, <1>5

\* New links of m bring what is below them.
LEMMA BelowGrown ==
  ASSUME NEW l1 \in [Models -> SUBSET Models], NEW l2 \in [Models -> SUBSET Models],
         NEW r \in Models, NEW m \in Tree!Below(l1, r), NEW new \in SUBSET Models,
         l2[m] = l1[m] \cup new, \A j \in Models \ {m} : l2[j] = l1[j]
  PROVE  Tree!Below(l2, r) = Tree!Below(l1, r) \cup UNION {Tree!Below(l2, k) : k \in new}
<1> DEFINE D == Tree!Below(l1, r)
           E == Tree!Below(l2, r)
           N == UNION {Tree!Below(l2, k) : k \in new}
<1>1. D \subseteq Models /\ r \in D /\ \A j \in D : l1[j] \subseteq D
  BY BelowClosed
<1>2. E \subseteq Models /\ r \in E /\ \A j \in E : l2[j] \subseteq E
  BY BelowClosed
<1>3. \A k \in new : /\ Tree!Below(l2, k) \subseteq Models /\ k \in Tree!Below(l2, k)
                     /\ \A j \in Tree!Below(l2, k) : l2[j] \subseteq Tree!Below(l2, k)
  BY BelowClosed
<1>4. N \subseteq Models /\ new \subseteq N /\ \A j \in N : l2[j] \subseteq N
  BY <1>3
<1>5. E \subseteq D \cup N
  <2>1. \A j \in D \cup N : l2[j] \subseteq D \cup N
    BY <1>1, <1>4
  <2>2. D \cup N \in SUBSET Models /\ r \in D \cup N
    BY <1>1, <1>4
  <2> HIDE DEF D, N
  <2> QED BY <2>1, <2>2, BelowLeast
<1>6. D \subseteq E
  <2>1. \A j \in E : l1[j] \subseteq E
    BY <1>2
  <2> HIDE DEF E
  <2> QED BY <1>2, <2>1, BelowLeast
<1>7. ASSUME NEW k \in new PROVE Tree!Below(l2, k) \subseteq E
  <2>1. m \in E /\ new \subseteq l2[m]
    BY <1>6
  <2>2. k \in E
    BY <1>2, <2>1
  <2> HIDE DEF E
  <2> QED BY <1>2, <2>2, BelowLeast
<1> QED BY <1>5, <1>6, <1>7

\* Links of m that go take with them what is below them, if nothing else links
\* any of that.
LEMMA BelowCut ==
  ASSUME NEW l1 \in [Models -> SUBSET Models], NEW l2 \in [Models -> SUBSET Models],
         NEW r \in Models, NEW m \in Tree!Below(l1, r), NEW gone \in SUBSET l1[m],
         l2[m] = l1[m] \ gone, \A j \in Models \ {m} : l2[j] = l1[j],
         \A j1, j2 \in Models : \A k \in l1[j1] \cap l1[j2] : j1 = j2,
         \A j \in Models : r \notin l1[j]
  PROVE  Tree!Below(l2, r) = Tree!Below(l1, r) \ UNION {Tree!Below(l1, k) : k \in gone}
<1> DEFINE D == Tree!Below(l1, r)
           E == Tree!Below(l2, r)
           X == UNION {Tree!Below(l1, k) : k \in gone}
<1>1. D \subseteq Models /\ r \in D /\ \A j \in D : l1[j] \subseteq D
  BY BelowClosed
<1>2. E \subseteq Models /\ r \in E /\ \A j \in E : l2[j] \subseteq E
  BY BelowClosed
<1>3. gone \subseteq Models /\ m \in Models
  BY <1>1
<1>4. \A k \in gone : /\ Tree!Below(l1, k) \subseteq Models /\ k \in Tree!Below(l1, k)
                      /\ \A j \in Tree!Below(l1, k) : l1[j] \subseteq Tree!Below(l1, k)
  BY <1>3, BelowClosed
<1>5. X \subseteq Models /\ gone \subseteq X /\ \A j \in X : l1[j] \subseteq X
  BY <1>4
<1>6. \A x \in X : x \in gone \/ \E j \in X : x \in l1[j]
  <2> SUFFICES ASSUME NEW k \in gone, NEW x \in Tree!Below(l1, k), x # k
               PROVE  \E j \in X : x \in l1[j]
    OBVIOUS
  <2>1. \E j \in Tree!Below(l1, k) : x \in l1[j]
    BY <1>3, BelowLinked
  <2> QED BY <2>1
<1> HIDE DEF D, E, X
<1>7. E \subseteq D \ X
  <2>1. r \in D \ X
    BY <1>1, <1>3, <1>5, <1>6
  <2>2. ASSUME NEW j \in D \ X, NEW k \in l2[j] PROVE k \in D \ X
    <3>1. k \in l1[j] /\ j \in Models
      BY <1>1, <2>2
    <3>2. k \in D
      BY <1>1, <3>1
    <3>3. ASSUME k \in X PROVE FALSE
      <4>1. CASE k \in gone
        <5>1. k \in l1[m]
          BY <4>1
        <5>2. j = m
          BY <1>3, <3>1, <5>1
        <5> QED BY <2>2, <4>1, <5>2
      <4>2. CASE \E i \in X : k \in l1[i]
        BY <1>5, <2>2, <3>1, <4>2
      <4> QED BY <1>6, <3>3, <4>1, <4>2
    <3> QED BY <3>2, <3>3
  <2>3. D \ X \in SUBSET Models
    BY <1>1
  <2> QED BY <2>1, <2>2, <2>3, BelowLeast DEF E
<1>8. D \subseteq E \cup X
  <2>1. ASSUME NEW j \in E \cup X, NEW k \in l1[j] PROVE k \in E \cup X
    <3>1. CASE j \in X
      BY <1>5, <2>1, <3>1
    <3>2. CASE j \in E /\ k \in l2[j]
      BY <1>2, <3>2
    <3>3. CASE j \in E /\ k \notin l2[j]
      BY <1>2, <1>5, <2>1, <3>3
    <3> QED BY <3>1, <3>2, <3>3
  <2>2. E \cup X \in SUBSET Models /\ r \in E \cup X
    BY <1>2, <1>5
  <2> QED BY <2>1, <2>2, BelowLeast DEF D
<1> QED BY <1>7, <1>8 DEF D, E, X

-----------------------------------------------------------------------------
(* The links of menus and of nodes.                                        *)

LEMMA EntryLinks ==
  /\ \A e \in Entries : LinkOf[e] \in Models \cup {NoModel}
  /\ NoModel \notin Models
  /\ \A e \in Entries : LinkOf[e] \notin Roots
  /\ \A e1, e2 \in Entries : LinkOf[e1] = LinkOf[e2] /\ e1 # e2 => LinkOf[e1] = NoModel
BY MenuAssumption DEF Tree!TreeAssumption

\* An entry of a sequence is linked, or is not.
LEMMA LinksOfEntries ==
  ASSUME NEW es \in Seq(Entries)
  PROVE  /\ Tree!LinksOf(es) \subseteq Models
         /\ \A i \in 1..Len(es) : LinkOf[es[i]] # NoModel => LinkOf[es[i]] \in Tree!LinksOf(es)
         /\ \A k \in Tree!LinksOf(es) : \E i \in 1..Len(es) : LinkOf[es[i]] = k /\ k # NoModel
<1>1. DOMAIN es = 1..Len(es) /\ \A i \in 1..Len(es) : es[i] \in Entries
  BY ElementOfSeq
<1> QED BY <1>1, EntryLinks DEF Tree!LinksOf, Tree!ToSet

LEMMA LinksTyped ==
  ASSUME NEW mu \in [Models -> Seq(Entries)]
  PROVE  /\ Links(mu) \in [Models -> SUBSET Models]
         /\ \A k \in Models : Links(mu)[k] = Tree!LinksOf(mu[k])
BY LinksOfEntries DEF Links

\* The children that a node of es should have.
LEMMA LinkedEntries ==
  ASSUME NEW es \in Seq(Entries), NEW range \in SUBSET Int
  PROVE  /\ DOMAIN Tree!Linked(es, range)
              = {i \in range : i \in 0..(Len(es) - 1) /\ LinkOf[es[i + 1]] # NoModel}
         /\ \A i \in DOMAIN Tree!Linked(es, range) :
              /\ i \in range /\ i + 1 \in 1..Len(es) /\ es[i + 1] \in Entries
              /\ Tree!Linked(es, range)[i] = LinkOf[es[i + 1]]
              /\ Tree!Linked(es, range)[i] \in Tree!LinksOf(es)
<1>1. Len(es) \in Nat
  BY LenProperties
<1>2. DOMAIN Tree!Linked(es, range)
        = {i \in range : i \in 0..(Len(es) - 1) /\ LinkOf[es[i + 1]] # NoModel}
  BY DEF Tree!Linked, Tree!IsLink
<1>3. ASSUME NEW i \in DOMAIN Tree!Linked(es, range)
      PROVE  /\ i \in range /\ i + 1 \in 1..Len(es) /\ es[i + 1] \in Entries
             /\ Tree!Linked(es, range)[i] = LinkOf[es[i + 1]]
             /\ Tree!Linked(es, range)[i] \in Tree!LinksOf(es)
  <2>1. i \in range /\ i + 1 \in 1..Len(es) /\ LinkOf[es[i + 1]] # NoModel
    BY <1>1, <1>2
  <2>2. es[i + 1] \in Entries
    BY <2>1, ElementOfSeq
  <2>3. Tree!Linked(es, range)[i] = LinkOf[es[i + 1]]
    BY <1>3 DEF Tree!Linked
  <2> QED BY <2>1, <2>2, <2>3, LinksOfEntries
<1> QED BY <1>2, <1>3

\* Linking the entries of menus in which each is one item links each model once.
LEMMA LinkedOnce ==
  ASSUME NEW mu, MenusOK(mu), NEW k1 \in Models, NEW k2 \in Models,
         NEW i1 \in 1..Len(mu[k1]), NEW i2 \in 1..Len(mu[k2]),
         LinkOf[mu[k1][i1]] = LinkOf[mu[k2][i2]], LinkOf[mu[k1][i1]] # NoModel
  PROVE  k1 = k2 /\ i1 = i2
<1>1. mu[k1] \in Seq(Entries) /\ mu[k2] \in Seq(Entries)
  BY DEF MenusOK
<1>2. mu[k1][i1] \in Entries /\ mu[k2][i2] \in Entries
  BY <1>1, ElementOfSeq
<1>3. mu[k1][i1] = mu[k2][i2]
  BY <1>2, EntryLinks
<1>4. i1 \in DOMAIN mu[k1] /\ i2 \in DOMAIN mu[k2]
  BY <1>1
<1> QED BY <1>3, <1>4 DEF MenusOK, Tree!Once

\* So the links of such menus have one parent each, and roots have none.
LEMMA OneParent ==
  ASSUME NEW mu, MenusOK(mu)
  PROVE  /\ \A j1, j2 \in Models : \A k \in Links(mu)[j1] \cap Links(mu)[j2] : j1 = j2
         /\ \A r \in Roots : \A j \in Models : r \notin Links(mu)[j]
<1>1. \A j \in Models : mu[j] \in Seq(Entries) /\ Links(mu)[j] = Tree!LinksOf(mu[j])
  BY LinksTyped DEF MenusOK
<1>2. \A j \in Models : \A k \in Links(mu)[j] :
        \E i \in 1..Len(mu[j]) : LinkOf[mu[j][i]] = k /\ k # NoModel
  BY <1>1, LinksOfEntries
<1>3. ASSUME NEW j1 \in Models, NEW j2 \in Models, NEW k \in Links(mu)[j1] \cap Links(mu)[j2]
      PROVE  j1 = j2
  <2>1. PICK i1 \in 1..Len(mu[j1]) : LinkOf[mu[j1][i1]] = k /\ k # NoModel
    BY <1>2, <1>3
  <2>2. PICK i2 \in 1..Len(mu[j2]) : LinkOf[mu[j2][i2]] = k
    BY <1>2, <1>3
  <2> QED BY <2>1, <2>2, LinkedOnce
<1>4. ASSUME NEW r \in Roots, NEW j \in Models, r \in Links(mu)[j] PROVE FALSE
  <2>1. PICK i \in 1..Len(mu[j]) : LinkOf[mu[j][i]] = r
    BY <1>2, <1>4
  <2>2. mu[j][i] \in Entries
    BY <1>1, <2>1, ElementOfSeq
  <2> QED BY <2>1, <2>2, EntryLinks
<1> QED BY <1>3, <1>4

LEMMA NodeLinksTyped ==
  ASSUME NEW ns, NEW sizes, NodesOK(ns, sizes)
  PROVE  /\ NodeLinks(ns) \in [Models -> SUBSET Models]
         /\ \A k \in DOMAIN ns : NodeLinks(ns)[k] = {ns[k].children[i] : i \in DOMAIN ns[k].children}
         /\ \A k \in Models \ DOMAIN ns : NodeLinks(ns)[k] = {}
BY DEF NodeLinks, NodesOK, Tree!Range

\* The nodes made for the models ms are those of the menus below.
LEMMA NodesMade ==
  ASSUME NEW mu, MenusOK(mu), NEW ms \in SUBSET Models
  PROVE  /\ DOMAIN Tree!NewNodes(mu, ms) = UNION {Tree!Below(Links(mu), k) : k \in ms}
         /\ DOMAIN Tree!NewNodes(mu, ms) \subseteq Models
         /\ ms \subseteq DOMAIN Tree!NewNodes(mu, ms)
         /\ \A k \in DOMAIN Tree!NewNodes(mu, ms) :
              /\ Tree!NewNodes(mu, ms)[k].children = Tree!Linked(mu[k], Positions(mu[k]))
              /\ Tree!NewNodes(mu, ms)[k].size = Len(mu[k])
              /\ Links(mu)[k] \subseteq DOMAIN Tree!NewNodes(mu, ms)
<1> DEFINE D == UNION {Tree!Below(Links(mu), k) : k \in ms}
<1>1. Tree!NewNodes(mu, ms) =
        [k \in D |-> [children |-> Tree!Linked(mu[k], Positions(mu[k])), size |-> Len(mu[k])]]
  BY DEF Tree!NewNodes, Tree!MenuBelow, Links, Positions
<1>2. \A k \in ms : /\ Tree!Below(Links(mu), k) \subseteq Models /\ k \in Tree!Below(Links(mu), k)
                    /\ \A j \in Tree!Below(Links(mu), k) : Links(mu)[j] \subseteq Tree!Below(Links(mu), k)
  BY LinksTyped, BelowClosed DEF MenusOK
<1>3. D \subseteq Models /\ ms \subseteq D /\ \A j \in D : Links(mu)[j] \subseteq D
  BY <1>2
<1> HIDE DEF D
<1> QED BY <1>1, <1>3 DEF D

\* Their children are linked by the menus, and are among them.
LEMMA MadeChildren ==
  ASSUME NEW mu, MenusOK(mu), NEW ms \in SUBSET Models, NEW ns, ns = Tree!NewNodes(mu, ms),
         NEW k \in DOMAIN ns
  PROVE  \A i \in DOMAIN ns[k].children :
           /\ i \in 0..(Len(mu[k]) - 1) /\ i + 1 \in 1..Len(mu[k])
           /\ LinkOf[mu[k][i + 1]] # NoModel
           /\ ns[k].children[i] = LinkOf[mu[k][i + 1]] /\ ns[k].children[i] \in DOMAIN ns
<1>1. /\ DOMAIN ns \subseteq Models
      /\ ns[k].children = Tree!Linked(mu[k], Positions(mu[k])) /\ Links(mu)[k] \subseteq DOMAIN ns
  BY NodesMade
<1>2. mu[k] \in Seq(Entries) /\ Links(mu)[k] = Tree!LinksOf(mu[k])
  BY <1>1, LinksTyped DEF MenusOK
<1> DEFINE cs == Tree!Linked(mu[k], Positions(mu[k]))
<1>3. /\ DOMAIN cs = {i \in Positions(mu[k]) : i \in 0..(Len(mu[k]) - 1) /\ LinkOf[mu[k][i + 1]] # NoModel}
      /\ \A i \in DOMAIN cs : /\ i \in Positions(mu[k]) /\ i + 1 \in 1..Len(mu[k]) /\ mu[k][i + 1] \in Entries
                            /\ cs[i] = LinkOf[mu[k][i + 1]] /\ cs[i] \in Tree!LinksOf(mu[k])
  <2>1. Positions(mu[k]) \in SUBSET Int
    BY DEF Positions
  <2> QED BY <1>2, <2>1, LinkedEntries
<1> HIDE DEF cs
<1>4. ns[k].children = cs /\ Tree!LinksOf(mu[k]) \subseteq DOMAIN ns
  BY <1>1, <1>2 DEF cs
<1> QED BY <1>3, <1>4

\* They are in order.
LEMMA MadeOK ==
  ASSUME NEW mu, MenusOK(mu), NEW ms \in SUBSET Models
  PROVE  NodesOK(Tree!NewNodes(mu, ms), Sizes(mu))
<1> DEFINE ns == Tree!NewNodes(mu, ms)
<1>1. /\ DOMAIN ns \subseteq Models
      /\ \A k \in DOMAIN ns : /\ ns[k].children = Tree!Linked(mu[k], Positions(mu[k]))
                              /\ ns[k].size = Len(mu[k]) /\ Links(mu)[k] \subseteq DOMAIN ns
  BY NodesMade
<1> HIDE DEF ns
<1>2. \A k \in Models : mu[k] \in Seq(Entries) /\ Links(mu)[k] = Tree!LinksOf(mu[k])
  BY LinksTyped DEF MenusOK
<1>3. ASSUME NEW k \in DOMAIN ns
      PROVE  \A i \in DOMAIN ns[k].children :
               /\ i \in 0..(Len(mu[k]) - 1) /\ i + 1 \in 1..Len(mu[k])
               /\ LinkOf[mu[k][i + 1]] # NoModel
               /\ ns[k].children[i] = LinkOf[mu[k][i + 1]] /\ ns[k].children[i] \in DOMAIN ns
  BY <1>3, MadeChildren DEF ns
<1>4. ASSUME NEW k1 \in DOMAIN ns, NEW k2 \in DOMAIN ns,
             NEW i1 \in DOMAIN ns[k1].children, NEW i2 \in DOMAIN ns[k2].children,
             ns[k1].children[i1] = ns[k2].children[i2]
      PROVE  k1 = k2 /\ i1 = i2
  <2>1. /\ i1 + 1 \in 1..Len(mu[k1]) /\ i2 + 1 \in 1..Len(mu[k2])
        /\ LinkOf[mu[k1][i1 + 1]] = LinkOf[mu[k2][i2 + 1]] /\ LinkOf[mu[k1][i1 + 1]] # NoModel
    BY <1>3, <1>4
  <2>2. k1 = k2 /\ i1 + 1 = i2 + 1
    BY <1>1, <2>1, LinkedOnce
  <2>3. i1 \in Int /\ i2 \in Int
    BY <1>3
  <2> QED BY <2>2, <2>3
<1>5. \A k \in DOMAIN ns : /\ Sizes(mu)[k] = Len(mu[k])
                          /\ DOMAIN ns[k].children \subseteq 0..(Len(mu[k]) - 1)
  BY <1>1, <1>3 DEF Sizes
<1>6. NodesOK(ns, Sizes(mu))
  BY <1>1, <1>3, <1>4, <1>5, Zenon DEF NodesOK
<1> QED BY <1>6 DEF ns

-----------------------------------------------------------------------------
(* A change of a menu.                                                     *)

Splice(before, pos, removed, es) ==
  SubSeq(before, 1, pos) \o es \o SubSeq(before, pos + removed + 1, Len(before))

\* Where the entries of a menu go in a change, with the lengths L and N.
Goes(after, before, pos, removed, es, L, N) ==
  /\ after \in Seq(Entries) /\ Len(after) = L - removed + N
  /\ \A i \in 1..pos : after[i] = before[i]
  /\ \A i \in 1..N : after[pos + i] = es[i]
  /\ \A i \in (pos + removed + 1)..L : after[i - removed + N] = before[i]

\* Where those of two sequences go when they are joined.
LEMMA Joined ==
  ASSUME NEW s1 \in Seq(Entries), NEW s2 \in Seq(Entries)
  PROVE  /\ s1 \o s2 \in Seq(Entries) /\ Len(s1 \o s2) = Len(s1) + Len(s2)
         /\ \A i \in 1..Len(s1) : (s1 \o s2)[i] = s1[i]
         /\ \A i \in 1..Len(s2) : (s1 \o s2)[Len(s1) + i] = s2[i]
<1> DEFINE v == s1 \o s2
           n1 == Len(s1)
           n2 == Len(s2)
<1>1. /\ v \in Seq(Entries) /\ Len(v) = n1 + n2
      /\ \A i \in 1..(n1 + n2) : v[i] = IF i <= n1 THEN s1[i] ELSE s2[i - n1]
  BY ConcatProperties
<1>2. n1 \in Nat /\ n2 \in Nat
  BY LenProperties
<1> HIDE DEF v, n1, n2
<1>3. \A i \in 1..n1 : v[i] = s1[i]
  BY <1>1, <1>2
<1>4. ASSUME NEW i \in 1..n2 PROVE v[n1 + i] = s2[i]
  <2>1. PICK k \in 1..(n1 + n2) : k = n1 + i /\ ~(k <= n1) /\ k - n1 = i
    BY <1>2
  <2>2. v[k] = s2[k - n1]
    BY <1>1, <2>1
  <2>3. v[k] = s2[i]
    BY <2>1, <2>2, Zenon
  <2> QED BY <2>1, <2>3, Zenon
<1>5. v \in Seq(Entries) /\ Len(v) = n1 + n2
  BY <1>1
<1> QED BY <1>3, <1>4, <1>5 DEF v, n1, n2

LEMMA SpliceEntries ==
  ASSUME NEW before \in Seq(Entries), NEW es \in Seq(Entries),
         NEW pos \in Nat, NEW removed \in Nat, pos + removed <= Len(before)
  PROVE  Goes(Splice(before, pos, removed, es), before, pos, removed, es, Len(before), Len(es))
<1> DEFINE L == Len(before)
           N == Len(es)
           s == SubSeq(before, 1, pos)
           t == SubSeq(before, pos + removed + 1, L)
           u == s \o es
           v == u \o t
<1>1. L \in Nat /\ N \in Nat /\ pos + removed <= L /\ \A i \in 1..L : before[i] \in Entries
  BY LenProperties, ElementOfSeq
<1> HIDE DEF L, N
<1>2. /\ s \in Seq(Entries) /\ Len(s) = IF 1 <= pos THEN pos - 1 + 1 ELSE 0
      /\ \A i \in 1..(pos - 1 + 1) : s[i] = before[1 + i - 1]
  <2>1. \A i \in 1..pos : before[i] \in Entries
    BY <1>1
  <2> QED BY <2>1, SubSeqProperties
<1>3. s \in Seq(Entries) /\ Len(s) = pos /\ \A i \in 1..pos : s[i] = before[i]
  BY <1>2
<1>4. /\ t \in Seq(Entries)
      /\ Len(t) = IF pos + removed + 1 <= L THEN L - (pos + removed + 1) + 1 ELSE 0
      /\ \A i \in 1..(L - (pos + removed + 1) + 1) : t[i] = before[pos + removed + 1 + i - 1]
  <2>1. \A i \in (pos + removed + 1)..L : before[i] \in Entries
    BY <1>1
  <2>2. pos + removed + 1 \in Int /\ L \in Int
    BY <1>1
  <2> QED BY <2>1, <2>2, SubSeqProperties
<1>5. /\ t \in Seq(Entries) /\ Len(t) = L - pos - removed
      /\ \A i \in 1..(L - pos - removed) : t[i] = before[pos + removed + i]
  BY <1>1, <1>4
<1> HIDE DEF s, t
<1>6. /\ u \in Seq(Entries) /\ Len(u) = Len(s) + Len(es)
      /\ \A i \in 1..Len(s) : u[i] = s[i]
      /\ \A i \in 1..Len(es) : u[Len(s) + i] = es[i]
  BY <1>3, Joined
<1> HIDE DEF u
<1>7. /\ u \in Seq(Entries) /\ Len(u) = pos + N
      /\ \A i \in 1..pos : u[i] = s[i]
      /\ \A i \in 1..N : u[pos + i] = es[i]
  BY <1>3, <1>6 DEF N
<1> DEFINE T == L - pos - removed
<1>8. T \in Nat /\ Len(t) = T /\ \A i \in 1..T : t[i] = before[pos + removed + i]
  BY <1>1, <1>5
<1> HIDE DEF T
<1>9. /\ v \in Seq(Entries) /\ Len(v) = Len(u) + Len(t)
      /\ \A i \in 1..Len(u) : v[i] = u[i]
      /\ \A i \in 1..Len(t) : v[Len(u) + i] = t[i]
  BY <1>5, <1>7, Joined
<1> HIDE DEF v
<1>10. /\ v \in Seq(Entries) /\ Len(v) = pos + N + T
       /\ \A i \in 1..(pos + N) : v[i] = u[i]
       /\ \A i \in 1..T : v[pos + N + i] = t[i]
  BY <1>7, <1>8, <1>9
<1>11. Len(v) = L - removed + N
  BY <1>1, <1>10 DEF T
<1>12. \A i \in 1..pos : v[i] = before[i]
  BY <1>1, <1>3, <1>7, <1>10
<1>13. \A i \in 1..N : v[pos + i] = es[i]
  BY <1>1, <1>7, <1>10
<1>14. ASSUME NEW i \in (pos + removed + 1)..L PROVE v[i - removed + N] = before[i]
  <2>1. PICK j \in 1..T : i = pos + removed + j
    <3>1. i - pos - removed \in 1..T /\ i = pos + removed + (i - pos - removed)
      BY <1>1 DEF T
    <3> QED BY <3>1
  <2>2. t[j] = before[i]
    BY <1>8, <2>1
  <2>3. i - removed + N = pos + N + j
    BY <1>1, <2>1
  <2> QED BY <1>10, <2>1, <2>2, <2>3
<1>15. Splice(before, pos, removed, es) = v
  BY DEF Splice, u, v, s, t, L
<1>16. Goes(v, before, pos, removed, es, L, N)
  BY <1>10, <1>11, <1>12, <1>13, <1>14 DEF Goes
<1> QED BY <1>15, <1>16 DEF N, L

\* Read from behind: an entry after the change was there before, and was not
\* removed, or it is new.
Origin(after, before, pos, removed, es, L, N) ==
  \A i \in 1..Len(after) :
    \/ i <= pos /\ i \in 1..L /\ after[i] = before[i]
    \/ i > pos /\ i - pos \in 1..N /\ after[i] = es[i - pos]
    \/ /\ i > pos + N /\ i + removed - N \in 1..L
       /\ i + removed - N > pos + removed /\ after[i] = before[i + removed - N]

LEMMA SpliceOrigin ==
  ASSUME NEW before, NEW es, NEW v, NEW pos \in Nat, NEW removed \in Nat, NEW L \in Nat, NEW N \in Nat,
         pos + removed <= L, Goes(v, before, pos, removed, es, L, N)
  PROVE  Origin(v, before, pos, removed, es, L, N)
<1> SUFFICES ASSUME NEW i \in 1..Len(v)
             PROVE  \/ i <= pos /\ i \in 1..L /\ v[i] = before[i]
                    \/ i > pos /\ i - pos \in 1..N /\ v[i] = es[i - pos]
                    \/ /\ i > pos + N /\ i + removed - N \in 1..L
                       /\ i + removed - N > pos + removed /\ v[i] = before[i + removed - N]
  BY DEF Origin
<1>1. /\ Len(v) = L - removed + N
      /\ \A k \in 1..pos : v[k] = before[k]
      /\ \A k \in 1..N : v[pos + k] = es[k]
      /\ \A k \in (pos + removed + 1)..L : v[k - removed + N] = before[k]
  BY DEF Goes
<1>2. i \in 1..(L - removed + N)
  BY <1>1
<1>3. CASE i <= pos
  <2>1. i \in 1..L /\ i \in 1..pos
    BY <1>2, <1>3
  <2> QED BY <1>1, <1>3, <2>1
<1>4. CASE i > pos /\ i <= pos + N
  <2>1. i - pos \in 1..N /\ pos + (i - pos) = i
    BY <1>2, <1>4
  <2>2. v[i] = es[i - pos]
    BY <1>1, <2>1
  <2> QED BY <1>4, <2>1, <2>2
<1>5. CASE i > pos + N
  <2>1. PICK k \in (pos + removed + 1)..L : k = i + removed - N
    <3>1. i + removed - N \in (pos + removed + 1)..L
      BY <1>2, <1>5
    <3> QED BY <3>1
  <2>2. k - removed + N = i /\ k \in 1..L /\ k > pos + removed
    BY <1>2, <2>1
  <2>3. v[k - removed + N] = before[k]
    BY <1>1, <2>1
  <2>4. v[i] = before[k]
    BY <2>2, <2>3
  <2>5. /\ i > pos + N /\ k \in 1..L /\ k > pos + removed /\ v[i] = before[k]
    BY <1>5, <2>2, <2>4
  <2> QED BY <2>1, <2>5
<1>6. i <= pos \/ (i > pos /\ i <= pos + N) \/ i > pos + N
  BY <1>2
<1> QED BY <1>3, <1>4, <1>5, <1>6

\* As the entries that a peer adds are new, each is still one item of one menu,
\* and what was removed is in no menu.
LEMMA SpliceOnce ==
  ASSUME NEW mu, MenusOK(mu), NEW m \in Models, NEW es \in Seq(Entries), Tree!IsInjective(es),
         NEW pos \in Nat, NEW removed \in Nat, pos + removed <= Len(mu[m]), removed + Len(es) > 0,
         \A k \in Models : Tree!ToSet(es) \cap Tree!ToSet(mu[k]) = {}
  PROVE  /\ MenusOK([mu EXCEPT ![m] = Splice(mu[m], pos, removed, es)])
         /\ Spliced(Splice(mu[m], pos, removed, es), mu[m], pos, removed, Len(es))
<1> DEFINE after == Splice(mu[m], pos, removed, es)
           mu2 == [mu EXCEPT ![m] = after]
           N == Len(es)
           L == Len(mu[m])
<1>1. mu \in [Models -> Seq(Entries)] /\ mu[m] \in Seq(Entries) /\ L \in Nat /\ N \in Nat
  BY LenProperties DEF MenusOK
<1>2. \A m1, m2 \in Models : \A i1 \in 1..Len(mu[m1]), i2 \in 1..Len(mu[m2]) :
        mu[m1][i1] = mu[m2][i2] => m1 = m2 /\ i1 = i2
  <2>1. \A k \in Models : DOMAIN mu[k] = 1..Len(mu[k])
    BY <1>1
  <2> SUFFICES ASSUME NEW m1 \in Models, NEW m2 \in Models,
                      NEW i1 \in 1..Len(mu[m1]), NEW i2 \in 1..Len(mu[m2]), mu[m1][i1] = mu[m2][i2]
               PROVE  m1 = m2 /\ i1 = i2
    OBVIOUS
  <2> QED BY <2>1 DEF MenusOK, Tree!Once
<1>3. Goes(after, mu[m], pos, removed, es, L, N)
  BY <1>1, SpliceEntries
<1>4. Origin(after, mu[m], pos, removed, es, L, N)
  <2> HIDE DEF after, N, L
  <2>1. pos + removed <= L
    BY DEF L
  <2> QED BY <1>1, <1>3, <2>1, SpliceOrigin
<1>5. /\ after \in Seq(Entries)
      /\ Len(after) = L - removed + N
      /\ \A i \in 1..pos : after[i] = mu[m][i]
      /\ \A i \in (pos + removed + 1)..L : after[i - removed + N] = mu[m][i]
  <2> HIDE DEF after, N, L
  <2> QED BY <1>3 DEF Goes
<1>6. \A i \in 1..Len(after) :
         \/ i <= pos /\ i \in 1..L /\ after[i] = mu[m][i]
         \/ i > pos /\ i - pos \in 1..N /\ after[i] = es[i - pos]
         \/ /\ i > pos + N /\ i + removed - N \in 1..L
            /\ i + removed - N > pos + removed /\ after[i] = mu[m][i + removed - N]
  <2> HIDE DEF after, N, L
  <2> QED BY <1>4 DEF Origin
<1>7. \A i1, i2 \in 1..N : es[i1] = es[i2] => i1 = i2
  BY DEF Tree!IsInjective
<1>8. \A i \in 1..N : \A k \in Models : \A j \in 1..Len(mu[k]) : es[i] # mu[k][j]
  <2> SUFFICES ASSUME NEW i \in 1..N, NEW k \in Models, NEW j \in 1..Len(mu[k]), es[i] = mu[k][j]
               PROVE  FALSE
    OBVIOUS
  <2>1. mu[k] \in Seq(Entries)
    BY <1>1
  <2>2. es[i] \in Tree!ToSet(es) /\ mu[k][j] \in Tree!ToSet(mu[k])
    BY <2>1 DEF Tree!ToSet
  <2> QED BY <2>2
<1> HIDE DEF after, N, L
<1>9. \A i1, i2 \in 1..Len(after) : after[i1] = after[i2] => i1 = i2
  <2> SUFFICES ASSUME NEW i1 \in 1..Len(after), NEW i2 \in 1..Len(after), after[i1] = after[i2]
               PROVE  i1 = i2
    OBVIOUS
  <2>1. \A j1, j2 \in 1..L : mu[m][j1] = mu[m][j2] => j1 = j2
    BY <1>2 DEF L
  <2>2. \A i \in 1..N : \A j \in 1..L : es[i] # mu[m][j]
    BY <1>8 DEF L
  <2>3. i1 \in Int /\ i2 \in Int
    OBVIOUS
  <2>4. CASE i1 <= pos /\ i1 \in 1..L /\ after[i1] = mu[m][i1]
    <3>1. ~(i2 > pos /\ i2 - pos \in 1..N /\ after[i2] = es[i2 - pos])
      BY <2>2, <2>4
    <3>2. CASE i2 <= pos /\ i2 \in 1..L /\ after[i2] = mu[m][i2]
      BY <2>1, <2>4, <3>2
    <3>3. CASE /\ i2 > pos + N /\ i2 + removed - N \in 1..L
               /\ i2 + removed - N > pos + removed /\ after[i2] = mu[m][i2 + removed - N]
      <4>1. i1 = i2 + removed - N
        BY <2>1, <2>4, <3>3
      <4> QED BY <1>1, <2>3, <2>4, <3>3, <4>1
    <3> QED BY <1>6, <3>1, <3>2, <3>3
  <2>5. CASE i1 > pos /\ i1 - pos \in 1..N /\ after[i1] = es[i1 - pos]
    <3>1. i2 > pos /\ i2 - pos \in 1..N /\ after[i2] = es[i2 - pos]
      BY <1>6, <2>2, <2>5
    <3>2. i1 - pos = i2 - pos
      BY <1>7, <2>5, <3>1
    <3> QED BY <2>3, <3>2
  <2>6. CASE /\ i1 > pos + N /\ i1 + removed - N \in 1..L
             /\ i1 + removed - N > pos + removed /\ after[i1] = mu[m][i1 + removed - N]
    <3>1. ~(i2 > pos /\ i2 - pos \in 1..N /\ after[i2] = es[i2 - pos])
      BY <2>2, <2>6
    <3>2. CASE i2 <= pos /\ i2 \in 1..L /\ after[i2] = mu[m][i2]
      <4>1. i1 + removed - N = i2
        BY <2>1, <2>6, <3>2
      <4> QED BY <1>1, <2>3, <2>6, <3>2, <4>1
    <3>3. CASE /\ i2 > pos + N /\ i2 + removed - N \in 1..L
               /\ i2 + removed - N > pos + removed /\ after[i2] = mu[m][i2 + removed - N]
      <4>1. i1 + removed - N = i2 + removed - N
        BY <2>1, <2>6, <3>3
      <4> QED BY <1>1, <2>3, <4>1
    <3> QED BY <1>6, <3>1, <3>2, <3>3
  <2> QED BY <1>6, <2>4, <2>5, <2>6
<1>10. \A k \in Models \ {m} : \A j \in 1..Len(mu[k]) : \A i \in 1..Len(after) : after[i] # mu[k][j]
  <2> SUFFICES ASSUME NEW k \in Models \ {m}, NEW j \in 1..Len(mu[k]), NEW i \in 1..Len(after),
                      after[i] = mu[k][j]
               PROVE  FALSE
    OBVIOUS
  <2>1. \A l \in 1..L : mu[m][l] # mu[k][j]
    BY <1>2 DEF L
  <2>2. \A l \in 1..N : es[l] # mu[k][j]
    BY <1>8
  <2> QED BY <1>6, <2>1, <2>2
<1>11. MenusOK(mu2)
  <2>1. mu2 \in [Models -> Seq(Entries)] /\ mu2[m] = after /\ \A k \in Models \ {m} : mu2[k] = mu[k]
    BY <1>1, <1>5
  <2>2. \A k \in Models : DOMAIN mu2[k] = 1..Len(mu2[k])
    BY <2>1
  <2> HIDE DEF mu2
  <2>3. ASSUME NEW m1 \in Models, NEW m2 \in Models,
               NEW i1 \in 1..Len(mu2[m1]), NEW i2 \in 1..Len(mu2[m2]), mu2[m1][i1] = mu2[m2][i2]
        PROVE  m1 = m2 /\ i1 = i2
    <3>1. CASE m1 = m /\ m2 = m
      BY <1>9, <2>1, <2>3, <3>1
    <3>2. CASE m1 = m /\ m2 # m
      BY <1>10, <2>1, <2>3, <3>2
    <3>3. CASE m1 # m /\ m2 = m
      BY <1>10, <2>1, <2>3, <3>3
    <3>4. CASE m1 # m /\ m2 # m
      BY <1>2, <2>1, <2>3, <3>4
    <3> QED BY <3>1, <3>2, <3>3, <3>4
  <2>4. Tree!Once(mu2)
    <3> SUFFICES ASSUME NEW m1 \in Models, NEW m2 \in Models,
                        NEW i1 \in DOMAIN mu2[m1], NEW i2 \in DOMAIN mu2[m2], mu2[m1][i1] = mu2[m2][i2]
                 PROVE  m1 = m2 /\ i1 = i2
      BY DEF Tree!Once
    <3>1. i1 \in 1..Len(mu2[m1]) /\ i2 \in 1..Len(mu2[m2])
      BY <2>2, Zenon
    <3> QED BY <2>3, <3>1, Zenon
  <2> QED BY <2>1, <2>4 DEF MenusOK
<1>12. \A j \in (pos + 1)..(pos + removed) : mu[m][j] \notin Tree!ToSet(after)
  <2> SUFFICES ASSUME NEW j \in (pos + 1)..(pos + removed), NEW i \in 1..Len(after),
                      mu[m][j] = after[i]
               PROVE  FALSE
    BY <1>5 DEF Tree!ToSet
  <2>1. j \in 1..L
    BY <1>1 DEF L
  <2>2. \A l \in 1..L : mu[m][l] = mu[m][j] => l = j
    BY <1>2, <2>1 DEF L
  <2>3. \A l \in 1..N : es[l] # mu[m][j]
    BY <1>8, <2>1 DEF L
  <2> QED BY <1>1, <1>6, <2>1, <2>2, <2>3
<1>13. Spliced(after, mu[m], pos, removed, N)
  <2>1. removed + N > 0 /\ pos + removed <= L
    BY DEF N, L
  <2> QED BY <1>1, <1>5, <1>12, <2>1 DEF Spliced, L
<1> QED BY <1>11, <1>13 DEF after, N
-----------------------------------------------------------------------------
(* The nodes after an insertion.                                           *)

\* g is f, moved from start on to make room for what is new.
Grown(g, f, new, start, added) ==
  /\ g = [i \in DOMAIN g |-> g[i]] /\ DOMAIN g \subseteq Int
  /\ \A i \in Int :
       /\ i < start =>
            (i \in DOMAIN g <=> i \in DOMAIN f) /\ (i \in DOMAIN g => g[i] = f[i])
       /\ i \in start..(start + added - 1) =>
            (i \in DOMAIN g <=> i \in DOMAIN new) /\ (i \in DOMAIN g => g[i] = new[i])
       /\ i >= start + added =>
            (i \in DOMAIN g <=> i - added \in DOMAIN f) /\ (i \in DOMAIN g => g[i] = f[i - added])

LEMMA ChildrenGrown ==
  ASSUME NEW f, DOMAIN f \subseteq Int, NEW start \in Nat, NEW added \in Nat,
         NEW new, DOMAIN new \subseteq start..(start + added - 1)
  PROVE  Grown(Tree!Merge(Tree!Moved(f, LAMBDA i: i >= start, added), new), f, new, start, added)
<1> DEFINE mv == Tree!Moved(f, LAMBDA i: i >= start, added)
           g == Tree!Merge(mv, new)
<1>1. mv = [i \in {IF k >= start THEN k + added ELSE k : k \in DOMAIN f} |->
              IF i - added \in DOMAIN f /\ i - added >= start THEN f[i - added] ELSE f[i]]
  BY DEF Tree!Moved
<1> HIDE DEF mv
<1>2. DOMAIN mv = {IF k >= start THEN k + added ELSE k : k \in DOMAIN f}
  BY <1>1
<1>3. DOMAIN mv \subseteq Int
  <2> SUFFICES ASSUME NEW k \in DOMAIN f PROVE (IF k >= start THEN k + added ELSE k) \in Int
    BY <1>2
  <2> QED OBVIOUS
<1>4. \A i \in Int : /\ i < start => (i \in DOMAIN mv <=> i \in DOMAIN f)
                     /\ i >= start => (i \in DOMAIN mv <=> i >= start + added /\ i - added \in DOMAIN f)
  <2> SUFFICES ASSUME NEW i \in Int
               PROVE  /\ i < start => (i \in DOMAIN mv <=> i \in DOMAIN f)
                      /\ i >= start => (i \in DOMAIN mv <=> i >= start + added /\ i - added \in DOMAIN f)
    OBVIOUS
  <2>1. ASSUME i \in DOMAIN mv
        PROVE  (i < start /\ i \in DOMAIN f) \/ (i >= start + added /\ i - added \in DOMAIN f)
    <3>1. PICK k \in DOMAIN f : i = IF k >= start THEN k + added ELSE k
      BY <1>2, <2>1
    <3>2. k \in Int
      OBVIOUS
    <3> QED BY <3>1, <3>2
  <2>2. ASSUME i < start, i \in DOMAIN f PROVE i \in DOMAIN mv
    BY <1>2, <2>2
  <2>3. ASSUME i >= start + added, i - added \in DOMAIN f PROVE i \in DOMAIN mv
    <3>1. PICK k \in DOMAIN f : k = i - added
      BY <2>3
    <3>2. k >= start /\ k + added = i
      BY <2>3, <3>1
    <3> QED BY <1>2, <3>2
  <2> QED BY <2>1, <2>2, <2>3
<1>5. \A i \in DOMAIN mv : mv[i] = IF i >= start + added THEN f[i - added] ELSE f[i]
  <2> SUFFICES ASSUME NEW i \in DOMAIN mv
               PROVE  mv[i] = IF i >= start + added THEN f[i - added] ELSE f[i]
    OBVIOUS
  <2>1. mv[i] = IF i - added \in DOMAIN f /\ i - added >= start THEN f[i - added] ELSE f[i]
    BY <1>1
  <2>2. i \in Int
    BY <1>3
  <2>3. i >= start + added <=> i - added >= start
    BY <2>2
  <2>4. i >= start + added => i - added \in DOMAIN f
    BY <1>4, <2>2
  <2> QED BY <2>1, <2>3, <2>4
<1>6. g = [i \in DOMAIN mv \cup DOMAIN new |-> IF i \in DOMAIN new THEN new[i] ELSE mv[i]]
  BY DEF Tree!Merge
<1>7. /\ g = [i \in DOMAIN g |-> g[i]] /\ DOMAIN g = DOMAIN mv \cup DOMAIN new
      /\ \A i \in DOMAIN g : g[i] = IF i \in DOMAIN new THEN new[i] ELSE mv[i]
  BY <1>6
<1> HIDE DEF g
<1>8. DOMAIN g \subseteq Int
  BY <1>3, <1>7
<1>9. ASSUME NEW i \in Int, i < start
      PROVE  (i \in DOMAIN g <=> i \in DOMAIN f) /\ (i \in DOMAIN g => g[i] = f[i])
  <2>1. i \notin DOMAIN new /\ ~(i >= start + added)
    BY <1>9
  <2> QED BY <1>4, <1>5, <1>7, <1>9, <2>1
<1>10. ASSUME NEW i \in Int, i \in start..(start + added - 1)
       PROVE  (i \in DOMAIN g <=> i \in DOMAIN new) /\ (i \in DOMAIN g => g[i] = new[i])
  <2>1. i >= start /\ ~(i >= start + added)
    BY <1>10
  <2>2. i \notin DOMAIN mv
    BY <1>4, <2>1
  <2> QED BY <1>7, <2>2
<1>11. ASSUME NEW i \in Int, i >= start + added
       PROVE  (i \in DOMAIN g <=> i - added \in DOMAIN f) /\ (i \in DOMAIN g => g[i] = f[i - added])
  <2>1. i \notin DOMAIN new /\ i >= start
    BY <1>11
  <2> QED BY <1>4, <1>5, <1>7, <1>11, <2>1
<1>12. Grown(g, f, new, start, added)
  BY <1>7, <1>8, <1>9, <1>10, <1>11 DEF Grown
<1> QED BY <1>12 DEF g, mv

\* What is inserted: the links of the new entries, and the nodes for them.
NewLinks(mu, m, start, added) == Tree!Linked(mu[m], start..(start + added - 1))
NewModels(mu, m, start, added) == Tree!Range(NewLinks(mu, m, start, added))

\* An insertion adds the nodes made for the links ms of the new entries, apart
\* from those that are there, and moves the children of m.
Insertion(ins, ns, mu, m, start, added, new, ms, made) ==
  /\ ms \subseteq Models /\ DOMAIN new \subseteq start..(start + added - 1)
  /\ \A i \in DOMAIN new : /\ i + 1 \in 1..Len(mu[m]) /\ LinkOf[mu[m][i + 1]] # NoModel
                           /\ new[i] = LinkOf[mu[m][i + 1]] /\ new[i] \in ms
  /\ DOMAIN made \cap DOMAIN ns = {}
  /\ DOMAIN ins = DOMAIN ns \cup DOMAIN made
  /\ \A k \in DOMAIN made : ins[k] = made[k]
  /\ \A k \in DOMAIN ns \ {m} : ins[k] = ns[k]
  /\ ins[m].size = ns[m].size + added
  /\ Grown(ins[m].children, ns[m].children, new, start, added)

LEMMA InsertedNodes ==
  ASSUME NEW ns, NEW sizes, NodesOK(ns, sizes), NEW mu, MenusOK(mu), NEW m \in DOMAIN ns,
         NEW start \in Nat, NEW added \in Nat, start + added <= Len(mu[m]),
         NewUnlinked(ns, mu, mu[m], start, added)
  PROVE  Insertion(Tree!Inserted(ns, mu, m, start, added), ns, mu, m, start, added,
                   NewLinks(mu, m, start, added), NewModels(mu, m, start, added),
                   Tree!NewNodes(mu, NewModels(mu, m, start, added)))
<1> DEFINE ins == Tree!Inserted(ns, mu, m, start, added)
           new == NewLinks(mu, m, start, added)
           ms == NewModels(mu, m, start, added)
           made == Tree!NewNodes(mu, ms)
<1> HIDE DEF ins, new, ms, made
<1>1. m \in Models /\ DOMAIN ns \subseteq Models /\ mu \in [Models -> Seq(Entries)]
  BY DEF NodesOK, MenusOK
<1>2. /\ DOMAIN new \subseteq start..(start + added - 1)
      /\ \A i \in DOMAIN new : /\ i + 1 \in 1..Len(mu[m]) /\ mu[m][i + 1] \in Entries
                               /\ new[i] = LinkOf[mu[m][i + 1]] /\ LinkOf[mu[m][i + 1]] # NoModel
                               /\ new[i] \in Models
  <2> DEFINE range == start..(start + added - 1)
             cs == Tree!Linked(mu[m], range)
  <2>1. mu[m] \in Seq(Entries) /\ range \in SUBSET Int
    BY <1>1
  <2> HIDE DEF range
  <2>2. /\ DOMAIN cs = {i \in range : i \in 0..(Len(mu[m]) - 1) /\ LinkOf[mu[m][i + 1]] # NoModel}
        /\ \A i \in DOMAIN cs : /\ i \in range /\ i + 1 \in 1..Len(mu[m]) /\ mu[m][i + 1] \in Entries
                              /\ cs[i] = LinkOf[mu[m][i + 1]] /\ cs[i] \in Tree!LinksOf(mu[m])
    BY <2>1, LinkedEntries
  <2>3. Tree!LinksOf(mu[m]) \subseteq Models
    BY <2>1, LinksOfEntries
  <2>4. new = cs
    BY DEF NewLinks, range, new
  <2> HIDE DEF cs
  <2>5. DOMAIN new \subseteq range
    BY <2>2, <2>4
  <2> QED BY <2>2, <2>3, <2>4, <2>5 DEF range
<1>3. ms = {new[i] : i \in DOMAIN new} /\ ms \subseteq Models
  BY <1>2 DEF NewModels, Tree!Range, ms, new
<1>4. \A k \in ms : Tree!MenuBelow(mu, k) \cap DOMAIN ns = {}
  <2> SUFFICES ASSUME NEW i \in DOMAIN new PROVE Tree!MenuBelow(mu, new[i]) \cap DOMAIN ns = {}
    BY <1>3
  <2>1. i \in start..(start + added - 1)
    BY <1>2
  <2>2. i + 1 \in (start + 1)..(start + added)
    BY <2>1
  <2> QED BY <1>2, <2>2 DEF NewUnlinked
<1>5. DOMAIN made = UNION {Tree!Below(Links(mu), k) : k \in ms}
  <2>1. ms \in SUBSET Models
    BY <1>3
  <2>2. DOMAIN Tree!NewNodes(mu, ms) = UNION {Tree!Below(Links(mu), k) : k \in ms}
    BY <2>1, NodesMade
  <2> QED BY <2>2 DEF made
<1>6. \A k \in ms : Tree!MenuBelow(mu, k) = Tree!Below(Links(mu), k)
  BY DEF Tree!MenuBelow, Links
<1>7. DOMAIN made \cap DOMAIN ns = {}
  BY <1>4, <1>5, <1>6
<1> DEFINE g == Tree!Merge(Tree!Moved(ns[m].children, LAMBDA i: i >= start, added), new)
           ns2 == [ns EXCEPT ![m] = [children |-> g, size |-> @.size + added]]
<1>8. Grown(g, ns[m].children, new, start, added)
  <2>1. DOMAIN ns[m].children \subseteq Int
    BY DEF NodesOK
  <2> QED BY <1>2, <2>1, ChildrenGrown
<1>9. ins = Tree!Merge(ns2, made)
  BY <1>3 DEF Tree!Inserted, NewLinks, ins, new, made
<1> HIDE DEF g
<1>10. /\ DOMAIN ns2 = DOMAIN ns /\ ns2[m] = [children |-> g, size |-> ns[m].size + added]
       /\ \A k \in DOMAIN ns \ {m} : ns2[k] = ns[k]
  OBVIOUS
<1> HIDE DEF ns2
<1>11. ins = [k \in DOMAIN ns2 \cup DOMAIN made |-> IF k \in DOMAIN made THEN made[k] ELSE ns2[k]]
  BY <1>9 DEF Tree!Merge
<1>12. /\ DOMAIN ins = DOMAIN ns \cup DOMAIN made
       /\ \A k \in DOMAIN made : ins[k] = made[k]
       /\ \A k \in DOMAIN ns : ins[k] = ns2[k]
  BY <1>7, <1>10, <1>11
<1>13. ins[m].size = ns[m].size + added /\ ins[m].children = g
  BY <1>10, <1>12
<1>14. \A i \in DOMAIN new : new[i] \in ms
  BY <1>3
<1>15. Insertion(ins, ns, mu, m, start, added, new, ms, made)
  BY <1>2, <1>3, <1>7, <1>8, <1>10, <1>12, <1>13, <1>14 DEF Insertion
<1> QED BY <1>15 DEF ins, new, ms, made
\* So they are in order after an insertion, with the size of m grown.
LEMMA InsertedOK ==
  ASSUME NEW ns, NEW sizes, NodesOK(ns, sizes), NEW mu, MenusOK(mu), NEW m \in DOMAIN ns,
         NEW start \in Nat, NEW added \in Nat, start + added <= Len(mu[m]),
         NewUnlinked(ns, mu, mu[m], start, added),
         sizes[m] \in Nat, start <= sizes[m], NEW sizes2, sizes2[m] = sizes[m] + added,
         \A k \in DOMAIN ns \ {m} : sizes2[k] = sizes[k],
         \A k \in Models \ DOMAIN ns : sizes2[k] = Len(mu[k])
  PROVE  NodesOK(Tree!Inserted(ns, mu, m, start, added), sizes2)
<1> DEFINE ins == Tree!Inserted(ns, mu, m, start, added)
           new == NewLinks(mu, m, start, added)
           ms == NewModels(mu, m, start, added)
           made == Tree!NewNodes(mu, ms)
           f == ns[m].children
           g == ins[m].children
<1> HIDE DEF ins, new, ms, made
<1>1. /\ ms \subseteq Models /\ DOMAIN new \subseteq start..(start + added - 1)
      /\ \A i \in DOMAIN new : /\ i + 1 \in 1..Len(mu[m]) /\ LinkOf[mu[m][i + 1]] # NoModel
                               /\ new[i] = LinkOf[mu[m][i + 1]] /\ new[i] \in ms
      /\ DOMAIN made \cap DOMAIN ns = {}
      /\ DOMAIN ins = DOMAIN ns \cup DOMAIN made
      /\ \A k \in DOMAIN made : ins[k] = made[k]
      /\ \A k \in DOMAIN ns \ {m} : ins[k] = ns[k]
      /\ ins[m].size = ns[m].size + added
      /\ Grown(g, f, new, start, added)
  <2>1. Insertion(ins, ns, mu, m, start, added, new, ms, made)
    BY InsertedNodes DEF ins, new, ms, made
  <2> HIDE DEF f, g
  <2> QED BY <2>1 DEF Insertion, f, g
<1>2. DOMAIN made \subseteq Models /\ ms \subseteq DOMAIN made
  BY <1>1, NodesMade DEF made
<1>3. \A k \in DOMAIN made : made[k].size = Len(mu[k])
  BY <1>1, NodesMade DEF made
<1>4. \A k \in DOMAIN made : \A i \in DOMAIN made[k].children :
        /\ i \in 0..(Len(mu[k]) - 1) /\ i + 1 \in 1..Len(mu[k])
        /\ LinkOf[mu[k][i + 1]] # NoModel
        /\ made[k].children[i] = LinkOf[mu[k][i + 1]] /\ made[k].children[i] \in DOMAIN made
  BY <1>1, MadeChildren DEF made
<1>5. /\ DOMAIN ns \subseteq Models
      /\ \A k \in DOMAIN ns :
           /\ ns[k].size = sizes[k]
           /\ DOMAIN ns[k].children \subseteq 0..(sizes[k] - 1)
           /\ \A i \in DOMAIN ns[k].children : ns[k].children[i] \in DOMAIN ns
  BY DEF NodesOK
<1>6. \A k1, k2 \in DOMAIN ns : \A i1 \in DOMAIN ns[k1].children, i2 \in DOMAIN ns[k2].children :
        ns[k1].children[i1] = ns[k2].children[i2] => k1 = k2 /\ i1 = i2
  BY DEF NodesOK
<1> HIDE DEF f, g
<1>7. ASSUME NEW i \in DOMAIN g
      PROVE  /\ i \in 0..(sizes2[m] - 1)
             /\ \/ i < start /\ i \in DOMAIN f /\ g[i] = f[i]
                \/ i \in DOMAIN new /\ g[i] = new[i]
                \/ i >= start + added /\ i - added \in DOMAIN f /\ g[i] = f[i - added]
  <2>1. DOMAIN f \subseteq 0..(sizes[m] - 1)
    BY <1>5 DEF f
  <2>2. i \in Int
    BY <1>1 DEF Grown
  <2>3. CASE i < start
    <3>1. i \in DOMAIN f /\ g[i] = f[i]
      BY <1>1, <2>2, <2>3 DEF Grown
    <3> QED BY <2>1, <2>2, <2>3, <3>1
  <2>4. CASE i \in start..(start + added - 1)
    <3>1. i \in DOMAIN new /\ g[i] = new[i]
      BY <1>1, <2>2, <2>4 DEF Grown
    <3> QED BY <2>2, <2>4, <3>1
  <2>5. CASE i >= start + added
    <3>1. i - added \in DOMAIN f /\ g[i] = f[i - added]
      BY <1>1, <2>2, <2>5 DEF Grown
    <3> QED BY <2>1, <2>2, <2>5, <3>1
  <2> QED BY <2>2, <2>3, <2>4, <2>5
<1>8. \A k \in DOMAIN ins :
        /\ ins[k].size = sizes2[k]
        /\ DOMAIN ins[k].children \subseteq 0..(sizes2[k] - 1)
        /\ \A i \in DOMAIN ins[k].children : ins[k].children[i] \in DOMAIN ins
  <2> SUFFICES ASSUME NEW k \in DOMAIN ins
               PROVE  /\ ins[k].size = sizes2[k]
                      /\ DOMAIN ins[k].children \subseteq 0..(sizes2[k] - 1)
                      /\ \A i \in DOMAIN ins[k].children : ins[k].children[i] \in DOMAIN ins
    OBVIOUS
  <2>1. CASE k = m
    <3>1. ins[k].size = sizes2[k]
      BY <1>1, <1>5, <2>1
    <3>2. ins[k].children = g /\ DOMAIN g \subseteq 0..(sizes2[k] - 1)
      BY <1>7, <2>1 DEF g
    <3>3. \A i \in DOMAIN f : f[i] \in DOMAIN ns
      BY <1>5 DEF f
    <3>4. \A i \in DOMAIN g : g[i] \in DOMAIN ins
      BY <1>1, <1>2, <1>7, <3>3
    <3> QED BY <3>1, <3>2, <3>4
  <2>2. CASE k \in DOMAIN ns \ {m}
    BY <1>1, <1>5, <2>2
  <2>3. CASE k \in DOMAIN made
    <3>1. k \in Models \ DOMAIN ns /\ ins[k] = made[k]
      BY <1>1, <1>2, <2>3
    <3>2. sizes2[k] = Len(mu[k])
      BY <3>1
    <3> QED BY <1>1, <1>3, <1>4, <2>3, <3>1, <3>2
  <2> QED BY <1>1, <2>1, <2>2, <2>3
<1> DEFINE IsOld(k, i) ==
             /\ k \in DOMAIN ns
             /\ \E j \in DOMAIN ns[k].children :
                  /\ ins[k].children[i] = ns[k].children[j]
                  /\ k # m => j = i
                  /\ k = m => (i < start /\ j = i) \/ (i >= start + added /\ j = i - added)
           IsNew(k, i) ==
             /\ i + 1 \in 1..Len(mu[k]) /\ LinkOf[mu[k][i + 1]] # NoModel
             /\ ins[k].children[i] = LinkOf[mu[k][i + 1]] /\ ins[k].children[i] \in DOMAIN made
<1>9. ASSUME NEW k \in DOMAIN ins, NEW i \in DOMAIN ins[k].children
      PROVE  IsOld(k, i) \/ IsNew(k, i)
  <2>1. CASE k = m
    <3>1. i \in DOMAIN g /\ ins[k].children = g /\ ns[k].children = f /\ i \in Int
      BY <1>7, <1>9, <2>1 DEF f, g
    <3>2. CASE i < start /\ i \in DOMAIN f /\ g[i] = f[i]
      BY <2>1, <3>1, <3>2
    <3>3. CASE i \in DOMAIN new /\ g[i] = new[i]
      BY <1>1, <1>2, <2>1, <3>1, <3>3
    <3>4. CASE i >= start + added /\ i - added \in DOMAIN f /\ g[i] = f[i - added]
      BY <2>1, <3>1, <3>4
    <3> QED BY <1>7, <3>1, <3>2, <3>3, <3>4
  <2>2. CASE k \in DOMAIN ns \ {m}
    BY <1>1, <1>9, <2>2
  <2>3. CASE k \in DOMAIN made
    BY <1>1, <1>4, <1>9, <2>3
  <2> QED BY <1>1, <2>1, <2>2, <2>3
<1>10. ASSUME NEW k1 \in DOMAIN ins, NEW k2 \in DOMAIN ins,
              NEW i1 \in DOMAIN ins[k1].children, NEW i2 \in DOMAIN ins[k2].children,
              ins[k1].children[i1] = ins[k2].children[i2]
       PROVE  k1 = k2 /\ i1 = i2
  <2>1. i1 \in Int /\ i2 \in Int
    BY <1>8, <1>10
  <2>2. ASSUME NEW k, NEW i, IsOld(k, i) PROVE ins[k].children[i] \in DOMAIN ns
    BY <1>5, <2>2
  <2>3. ~(IsOld(k1, i1) /\ IsNew(k2, i2)) /\ ~(IsNew(k1, i1) /\ IsOld(k2, i2))
    <3>1. IsNew(k1, i1) => ins[k1].children[i1] \in DOMAIN made
      OBVIOUS
    <3>2. IsNew(k2, i2) => ins[k2].children[i2] \in DOMAIN made
      OBVIOUS
    <3> HIDE DEF IsOld, IsNew
    <3> QED BY <1>1, <1>10, <2>2, <3>1, <3>2
  <2>4. CASE IsOld(k1, i1) /\ IsOld(k2, i2)
    <3>1. PICK j1 \in DOMAIN ns[k1].children :
            /\ ins[k1].children[i1] = ns[k1].children[j1]
            /\ k1 # m => j1 = i1
            /\ k1 = m => (i1 < start /\ j1 = i1) \/ (i1 >= start + added /\ j1 = i1 - added)
      BY <2>4
    <3>2. PICK j2 \in DOMAIN ns[k2].children :
            /\ ins[k2].children[i2] = ns[k2].children[j2]
            /\ k2 # m => j2 = i2
            /\ k2 = m => (i2 < start /\ j2 = i2) \/ (i2 >= start + added /\ j2 = i2 - added)
      BY <2>4
    <3>3. k1 \in DOMAIN ns /\ k2 \in DOMAIN ns
      BY <2>4
    <3> HIDE DEF IsOld, IsNew
    <3>4. ns[k1].children[j1] = ns[k2].children[j2]
      BY <1>10, <3>1, <3>2
    <3>5. k1 = k2 /\ j1 = j2
      BY <1>6, <3>3, <3>4
    <3> QED BY <2>1, <3>1, <3>2, <3>5
  <2>5. CASE IsNew(k1, i1) /\ IsNew(k2, i2)
    <3>1. k1 \in Models /\ k2 \in Models
      BY <1>1, <1>2, <1>5
    <3>2. /\ i1 + 1 \in 1..Len(mu[k1]) /\ i2 + 1 \in 1..Len(mu[k2])
          /\ LinkOf[mu[k1][i1 + 1]] = LinkOf[mu[k2][i2 + 1]] /\ LinkOf[mu[k1][i1 + 1]] # NoModel
      BY <1>10, <2>5
    <3>3. k1 = k2 /\ i1 + 1 = i2 + 1
      BY <3>1, <3>2, LinkedOnce
    <3> QED BY <2>1, <3>3
  <2> HIDE DEF IsOld, IsNew
  <2> QED BY <1>9, <2>3, <2>4, <2>5
<1>11. DOMAIN ins \subseteq Models
  BY <1>1, <1>2, <1>5
<1>12. NodesOK(ins, sizes2)
  BY <1>8, <1>10, <1>11, Zenon DEF NodesOK
<1> QED BY <1>12 DEF ins

-----------------------------------------------------------------------------
(* The nodes after a removal.                                              *)

\* g is f without what was at start and the "removed" positions after it, and
\* with what comes then moved up.
Shrunk(g, f, start, removed) ==
  /\ g = [i \in DOMAIN g |-> g[i]] /\ DOMAIN g \subseteq Int
  /\ \A i \in Int :
       /\ i < start => (i \in DOMAIN g <=> i \in DOMAIN f) /\ (i \in DOMAIN g => g[i] = f[i])
       /\ i = start => i \notin DOMAIN g
       /\ i > start =>
            (i \in DOMAIN g <=> i + removed \in DOMAIN f) /\ (i \in DOMAIN g => g[i] = f[i + removed])

GonePositions(f, start, removed) == {i \in DOMAIN f : i >= start /\ i <= start + removed}

LEMMA ChildrenShrunk ==
  ASSUME NEW f, DOMAIN f \subseteq Int, NEW start \in Nat, NEW removed \in Nat
  PROVE  Shrunk(Tree!Moved(Tree!Restrict(f, DOMAIN f \ GonePositions(f, start, removed)),
                           LAMBDA i: i > start + removed, -removed),
                f, start, removed)
<1> DEFINE S == DOMAIN f \ GonePositions(f, start, removed)
           kept == Tree!Restrict(f, S)
           g == Tree!Moved(kept, LAMBDA i: i > start + removed, -removed)
<1>1. DOMAIN kept = S /\ \A i \in S : kept[i] = f[i]
  BY DEF Tree!Restrict
<1>2. S \subseteq Int /\ \A i \in Int : i \in S <=> i \in DOMAIN f /\ (i < start \/ i > start + removed)
  <2>1. \A i \in Int : i \in S <=> i \in DOMAIN f /\ ~(i >= start /\ i <= start + removed)
    BY DEF GonePositions
  <2> HIDE DEF S
  <2>2. S \subseteq Int
    BY DEF S
  <2>3. \A i \in Int : (i >= start /\ i <= start + removed) <=> ~(i < start \/ i > start + removed)
    OBVIOUS
  <2> QED BY <2>1, <2>2, <2>3
<1> HIDE DEF kept, S
<1>3. g = [i \in {IF k > start + removed THEN k + (-removed) ELSE k : k \in S} |->
             IF i - (-removed) \in S /\ i - (-removed) > start + removed
             THEN kept[i - (-removed)] ELSE kept[i]]
  BY <1>1 DEF Tree!Moved
<1> HIDE DEF g
<1>4. DOMAIN g = {IF k > start + removed THEN k + (-removed) ELSE k : k \in S}
  BY <1>3
<1>5. ASSUME NEW i \in DOMAIN g
      PROVE  i \in Int /\ ((i < start /\ i \in S) \/ (i > start /\ i + removed \in S))
  <2>1. PICK k \in S : i = IF k > start + removed THEN k + (-removed) ELSE k
    BY <1>4
  <2>2. k \in Int /\ (k < start \/ k > start + removed)
    BY <1>2
  <2>3. CASE k < start
    <3>1. i = k
      BY <2>1, <2>2, <2>3
    <3> QED BY <2>2, <2>3, <3>1
  <2>4. CASE k > start + removed
    <3>1. i = k - removed
      BY <2>1, <2>2, <2>4
    <3>2. i + removed = k /\ i > start /\ i \in Int
      BY <2>2, <2>4, <3>1
    <3> QED BY <3>2
  <2> QED BY <2>2, <2>3, <2>4
<1>6. ASSUME NEW i \in Int, i < start, i \in S PROVE i \in DOMAIN g
  <2>1. ~(i > start + removed)
    BY <1>6
  <2> QED BY <1>4, <1>6, <2>1
<1>7. ASSUME NEW i \in Int, i > start, i + removed \in S PROVE i \in DOMAIN g
  <2>1. PICK k \in S : k = i + removed
    BY <1>7
  <2>2. k > start + removed /\ k + (-removed) = i
    BY <1>7, <2>1
  <2> QED BY <1>4, <2>2
<1>8. ASSUME NEW i \in DOMAIN g PROVE g[i] = IF i > start THEN f[i + removed] ELSE f[i]
  <2>1. i \in Int /\ i - (-removed) = i + removed /\ (i + removed > start + removed <=> i > start)
    BY <1>5
  <2>2. g[i] = IF i + removed \in S /\ i > start THEN kept[i + removed] ELSE kept[i]
    BY <1>3, <2>1
  <2>3. CASE i < start /\ i \in S
    <3>1. ~(i > start)
      BY <2>1, <2>3
    <3> QED BY <1>1, <2>2, <2>3, <3>1
  <2>4. CASE i > start /\ i + removed \in S
    BY <1>1, <2>2, <2>4
  <2> QED BY <1>5, <2>3, <2>4
<1>9. g = [i \in DOMAIN g |-> g[i]] /\ DOMAIN g \subseteq Int
  <2>1. g = [i \in DOMAIN g |-> g[i]]
    BY <1>3
  <2> QED BY <1>5, <2>1
<1>10. ASSUME NEW i \in Int, i < start
       PROVE  (i \in DOMAIN g <=> i \in DOMAIN f) /\ (i \in DOMAIN g => g[i] = f[i])
  <2>1. ~(i > start) /\ (i \in S <=> i \in DOMAIN f)
    BY <1>2, <1>10
  <2> QED BY <1>5, <1>6, <1>8, <1>10, <2>1
<1>11. ASSUME NEW i \in Int, i = start PROVE i \notin DOMAIN g
  BY <1>5, <1>11
<1>12. ASSUME NEW i \in Int, i > start
       PROVE  (i \in DOMAIN g <=> i + removed \in DOMAIN f) /\ (i \in DOMAIN g => g[i] = f[i + removed])
  <2>1. i + removed \in Int /\ i + removed > start + removed /\ ~(i < start)
    BY <1>12
  <2>2. i + removed \in S <=> i + removed \in DOMAIN f
    BY <1>2, <2>1
  <2> QED BY <1>5, <1>7, <1>8, <1>12, <2>1, <2>2
<1>13. Shrunk(g, f, start, removed)
  BY <1>9, <1>10, <1>11, <1>12 DEF Shrunk
<1> QED BY <1>13 DEF g, kept, S

\* What goes: the children at the positions that go, and all below them.
GoneModels(ns, m, start, removed) ==
  {ns[m].children[i] : i \in GonePositions(ns[m].children, start, removed)}
Dead(ns, ms) == UNION {Tree!Below(NodeLinks(ns), k) : k \in ms}

Removal(rem, ns, m, start, removed, dead) ==
  /\ DOMAIN rem = DOMAIN ns \ dead
  /\ \A k \in DOMAIN rem \ {m} : rem[k] = ns[k]
  /\ m \in DOMAIN rem =>
       /\ rem[m].size = ns[m].size - removed
       /\ Shrunk(rem[m].children, ns[m].children, start, removed)

LEMMA RemovedNodes ==
  ASSUME NEW ns, NEW sizes, NodesOK(ns, sizes), NEW m \in DOMAIN ns, NEW start \in Nat, NEW removed \in Nat
  PROVE  Removal(Tree!Removed(ns, m, start, removed), ns, m, start, removed,
                 Dead(ns, GoneModels(ns, m, start, removed)))
<1> DEFINE f == ns[m].children
           gone == GonePositions(f, start, removed)
           g == Tree!Moved(Tree!Restrict(f, DOMAIN f \ gone), LAMBDA i: i > start + removed, -removed)
           ms == {f[i] : i \in gone}
           without == Tree!Without(ns, ms)
           rem == Tree!Removed(ns, m, start, removed)
           dead == Dead(ns, GoneModels(ns, m, start, removed))
<1>1. rem = [without EXCEPT ![m] = [children |-> g, size |-> @.size - removed]]
  BY DEF Tree!Removed, GonePositions
<1>2. Shrunk(g, f, start, removed)
  <2>1. DOMAIN f \subseteq Int
    BY DEF NodesOK
  <2> HIDE DEF f
  <2> QED BY <2>1, ChildrenShrunk
<1>3. DOMAIN without = DOMAIN ns \ dead /\ \A k \in DOMAIN without : without[k] = ns[k]
  <2>1. \A k \in ms : Tree!NodesBelow(ns, k) = Tree!Below(NodeLinks(ns), k)
    BY DEF Tree!NodesBelow, NodeLinks
  <2>2. ms = GoneModels(ns, m, start, removed)
    BY DEF GoneModels
  <2> HIDE DEF ms
  <2>3. UNION {Tree!NodesBelow(ns, k) : k \in ms} = dead
    BY <2>1, <2>2 DEF Dead
  <2> HIDE DEF dead
  <2>4. without = [k \in DOMAIN ns \ dead |-> ns[k]]
    BY <2>3 DEF Tree!Without, Tree!Restrict
  <2> QED BY <2>4
<1> HIDE DEF f, g, without, rem, dead
<1>4. /\ DOMAIN rem = DOMAIN without
      /\ \A k \in DOMAIN rem \ {m} : rem[k] = without[k]
      /\ m \in DOMAIN rem => rem[m] = [children |-> g, size |-> without[m].size - removed]
  BY <1>1
<1>5. m \in DOMAIN rem => rem[m].size = ns[m].size - removed /\ rem[m].children = g
  BY <1>3, <1>4
<1>6. Removal(rem, ns, m, start, removed, dead)
  BY <1>2, <1>3, <1>4, <1>5 DEF Removal, f
<1> QED BY <1>6 DEF rem, dead

\* A node that goes takes its parent with it, or is a child that goes; one that
\* stays has a parent that stays, if any.
LEMMA DeadParent ==
  ASSUME NEW ns, NEW sizes, NodesOK(ns, sizes), NEW m \in DOMAIN ns, NEW start \in Nat, NEW removed \in Nat,
         NEW k \in DOMAIN ns, NEW j \in DOMAIN ns[k].children,
         ns[k].children[j] \in Dead(ns, GoneModels(ns, m, start, removed))
  PROVE  \/ k \in Dead(ns, GoneModels(ns, m, start, removed))
         \/ k = m /\ j \in GonePositions(ns[m].children, start, removed)
<1> DEFINE c == ns[k].children[j]
           links == NodeLinks(ns)
           ms == GoneModels(ns, m, start, removed)
<1>1. /\ DOMAIN ns \subseteq Models
      /\ \A k1 \in DOMAIN ns : \A i \in DOMAIN ns[k1].children : ns[k1].children[i] \in DOMAIN ns
  BY DEF NodesOK
<1>2. \A k1, k2 \in DOMAIN ns : \A i1 \in DOMAIN ns[k1].children, i2 \in DOMAIN ns[k2].children :
        ns[k1].children[i1] = ns[k2].children[i2] => k1 = k2 /\ i1 = i2
  BY DEF NodesOK
<1>3. /\ links \in [Models -> SUBSET Models]
      /\ \A l \in DOMAIN ns : links[l] = {ns[l].children[i] : i \in DOMAIN ns[l].children}
      /\ \A l \in Models \ DOMAIN ns : links[l] = {}
  BY NodeLinksTyped
<1>4. \A q \in ms : \E i \in GonePositions(ns[m].children, start, removed) : q = ns[m].children[i]
  BY DEF GoneModels
<1>5. GonePositions(ns[m].children, start, removed) \subseteq DOMAIN ns[m].children
  BY DEF GonePositions
<1>6. PICK q \in ms : c \in Tree!Below(links, q)
  BY DEF Dead
<1>7. q \in Models
  BY <1>1, <1>4, <1>5
<1> HIDE DEF c, links, ms
<1>8. CASE c = q
  <2>1. PICK i \in GonePositions(ns[m].children, start, removed) : q = ns[m].children[i]
    BY <1>4
  <2>2. k = m /\ j = i
    BY <1>2, <1>5, <1>8, <2>1 DEF c
  <2> QED BY <2>1, <2>2
<1>9. CASE c # q
  <2>1. PICK p \in Tree!Below(links, q) : c \in links[p]
    BY <1>3, <1>6, <1>7, <1>9, BelowLinked
  <2>2. p \in Models
    BY <1>3, <1>7, BelowClosed
  <2>3. p \in DOMAIN ns /\ \E i \in DOMAIN ns[p].children : c = ns[p].children[i]
    BY <1>3, <2>1, <2>2
  <2>4. k = p
    BY <1>2, <2>3 DEF c
  <2> QED BY <2>1, <2>4 DEF Dead, links, ms
<1> QED BY <1>8, <1>9

\* So the nodes are in order after a removal, with the size of m shrunk.
LEMMA RemovedOK ==
  ASSUME NEW ns, NEW sizes, NodesOK(ns, sizes), NEW m \in DOMAIN ns, NEW start \in Nat, NEW removed \in Nat,
         sizes[m] \in Nat, start + removed <= sizes[m],
         NEW sizes2, sizes2[m] = sizes[m] - removed, \A k \in DOMAIN ns \ {m} : sizes2[k] = sizes[k]
  PROVE  NodesOK(Tree!Removed(ns, m, start, removed), sizes2)
<1> DEFINE rem == Tree!Removed(ns, m, start, removed)
           dead == Dead(ns, GoneModels(ns, m, start, removed))
           f == ns[m].children
           g == rem[m].children
           gone == GonePositions(f, start, removed)
<1>1. Removal(rem, ns, m, start, removed, dead)
  BY RemovedNodes
<1>2. ASSUME NEW k \in DOMAIN ns, NEW j \in DOMAIN ns[k].children, ns[k].children[j] \in dead
      PROVE  k \in dead \/ (k = m /\ j \in gone)
  BY <1>2, DeadParent
<1> HIDE DEF rem, dead
<1>3. /\ DOMAIN rem = DOMAIN ns \ dead
      /\ \A k \in DOMAIN rem \ {m} : rem[k] = ns[k]
      /\ m \in DOMAIN rem => rem[m].size = ns[m].size - removed /\ Shrunk(g, f, start, removed)
  BY <1>1 DEF Removal
<1>4. /\ DOMAIN ns \subseteq Models
      /\ \A k \in DOMAIN ns :
           /\ ns[k].size = sizes[k]
           /\ DOMAIN ns[k].children \subseteq 0..(sizes[k] - 1)
           /\ \A i \in DOMAIN ns[k].children : ns[k].children[i] \in DOMAIN ns
  BY DEF NodesOK
<1>5. \A k1, k2 \in DOMAIN ns : \A i1 \in DOMAIN ns[k1].children, i2 \in DOMAIN ns[k2].children :
        ns[k1].children[i1] = ns[k2].children[i2] => k1 = k2 /\ i1 = i2
  BY DEF NodesOK
<1> HIDE DEF f, g
<1>6. ASSUME m \in DOMAIN rem, NEW i \in DOMAIN g
      PROVE  /\ i \in 0..(sizes2[m] - 1)
             /\ \/ i < start /\ i \in DOMAIN f /\ i \notin gone /\ g[i] = f[i]
                \/ /\ i > start /\ i + removed \in DOMAIN f /\ i + removed \notin gone
                   /\ g[i] = f[i + removed]
  <2>1. DOMAIN f \subseteq 0..(sizes[m] - 1)
    BY <1>4 DEF f
  <2>2. i \in Int /\ Shrunk(g, f, start, removed)
    BY <1>3, <1>6 DEF Shrunk
  <2>3. i # start
    BY <1>6, <2>2 DEF Shrunk
  <2>4. CASE i < start
    <3>1. i \in DOMAIN f /\ g[i] = f[i]
      BY <1>6, <2>2, <2>4 DEF Shrunk
    <3>2. i \notin gone
      BY <2>2, <2>4 DEF GonePositions
    <3>3. i \in 0..(sizes2[m] - 1)
      BY <2>1, <2>2, <2>4, <3>1
    <3> QED BY <2>4, <3>1, <3>2, <3>3
  <2>5. CASE i > start
    <3>1. i + removed \in DOMAIN f /\ g[i] = f[i + removed]
      BY <1>6, <2>2, <2>5 DEF Shrunk
    <3>2. i + removed > start + removed
      BY <2>2, <2>5
    <3>3. i + removed \notin gone
      BY <2>2, <3>2 DEF GonePositions
    <3>4. i \in 0..(sizes2[m] - 1)
      BY <2>1, <2>2, <2>5, <3>1
    <3> QED BY <2>5, <3>1, <3>3, <3>4
  <2> QED BY <2>2, <2>3, <2>4, <2>5
\* Each child is one that was there.
<1> DEFINE Was(k, i, j) ==
             /\ j \in DOMAIN ns[k].children /\ rem[k].children[i] = ns[k].children[j]
             /\ k # m => j = i
             /\ k = m => j \notin gone /\ ((i < start /\ j = i) \/ (i > start /\ j = i + removed))
<1>7. ASSUME NEW k \in DOMAIN rem, NEW i \in DOMAIN rem[k].children
      PROVE  \E j : Was(k, i, j)
  <2>1. CASE k = m
    <3>1. i \in DOMAIN g /\ rem[k].children = g /\ ns[k].children = f
      BY <1>7, <2>1 DEF f, g
    <3>2. CASE i < start /\ i \in DOMAIN f /\ i \notin gone /\ g[i] = f[i]
      <4>1. Was(k, i, i)
        BY <2>1, <3>1, <3>2
      <4> QED BY <4>1
    <3>3. CASE /\ i > start /\ i + removed \in DOMAIN f /\ i + removed \notin gone
               /\ g[i] = f[i + removed]
      <4>1. Was(k, i, i + removed)
        BY <2>1, <3>1, <3>3
      <4> QED BY <4>1
    <3> QED BY <1>6, <1>7, <2>1, <3>1, <3>2, <3>3
  <2>2. CASE k # m
    <3>1. Was(k, i, i)
      BY <1>3, <1>7, <2>2
    <3> QED BY <3>1
  <2> QED BY <2>1, <2>2
<1>8. \A k \in DOMAIN rem :
        /\ rem[k].size = sizes2[k]
        /\ DOMAIN rem[k].children \subseteq 0..(sizes2[k] - 1)
        /\ \A i \in DOMAIN rem[k].children : rem[k].children[i] \in DOMAIN rem
  <2> SUFFICES ASSUME NEW k \in DOMAIN rem
               PROVE  /\ rem[k].size = sizes2[k]
                      /\ DOMAIN rem[k].children \subseteq 0..(sizes2[k] - 1)
                      /\ \A i \in DOMAIN rem[k].children : rem[k].children[i] \in DOMAIN rem
    OBVIOUS
  <2>1. rem[k].size = sizes2[k] /\ DOMAIN rem[k].children \subseteq 0..(sizes2[k] - 1)
    <3>1. CASE k = m
      <4>1. rem[k].size = sizes2[k]
        BY <1>3, <1>4, <3>1
      <4>2. rem[k].children = g /\ DOMAIN g \subseteq 0..(sizes2[k] - 1)
        BY <1>6, <3>1 DEF g
      <4> QED BY <4>1, <4>2
    <3>2. CASE k # m
      BY <1>3, <1>4, <3>2
    <3> QED BY <3>1, <3>2
  <2>2. ASSUME NEW i \in DOMAIN rem[k].children PROVE rem[k].children[i] \in DOMAIN rem
    <3>1. PICK j : Was(k, i, j)
      BY <1>7, <2>2
    <3>2. k \in DOMAIN ns /\ k \notin dead
      BY <1>3
    <3>3. j \in DOMAIN ns[k].children /\ ~(k = m /\ j \in gone)
      BY <3>1
    <3>4. ns[k].children[j] \in DOMAIN ns /\ ns[k].children[j] \notin dead
      BY <1>2, <1>4, <3>2, <3>3
    <3> QED BY <1>3, <3>1, <3>4
  <2> QED BY <2>1, <2>2
<1>9. ASSUME NEW k1 \in DOMAIN rem, NEW k2 \in DOMAIN rem,
             NEW i1 \in DOMAIN rem[k1].children, NEW i2 \in DOMAIN rem[k2].children,
             rem[k1].children[i1] = rem[k2].children[i2]
      PROVE  k1 = k2 /\ i1 = i2
  <2>1. i1 \in Int /\ i2 \in Int
    BY <1>8, <1>9
  <2>2. PICK j1 : Was(k1, i1, j1)
    BY <1>7, <1>9
  <2>3. PICK j2 : Was(k2, i2, j2)
    BY <1>7, <1>9
  <2>4. k1 \in DOMAIN ns /\ k2 \in DOMAIN ns
    BY <1>3
  <2>5. /\ j1 \in DOMAIN ns[k1].children /\ j2 \in DOMAIN ns[k2].children
        /\ ns[k1].children[j1] = ns[k2].children[j2]
    BY <1>9, <2>2, <2>3
  <2>6. k1 = k2 /\ j1 = j2
    BY <1>5, <2>4, <2>5
  <2>7. i1 = i2
    <3>1. CASE k1 = m
      <4>1. (i1 < start /\ j1 = i1) \/ (i1 > start /\ j1 = i1 + removed)
        BY <2>2, <3>1
      <4>2. (i2 < start /\ j2 = i2) \/ (i2 > start /\ j2 = i2 + removed)
        BY <2>3, <2>6, <3>1
      <4> QED BY <2>1, <2>6, <4>1, <4>2
    <3>2. CASE k1 # m
      BY <2>2, <2>3, <2>6, <3>2
    <3> QED BY <3>1, <3>2
  <2> QED BY <2>6, <2>7
<1>10. DOMAIN rem \subseteq Models
  BY <1>3, <1>4
<1>11. NodesOK(rem, sizes2)
  BY <1>8, <1>9, <1>10, Zenon DEF NodesOK
<1> QED BY <1>11 DEF rem

-----------------------------------------------------------------------------
(* The tree after a tidy change.                                           *)

\* The children that are to be made for the positions of a range.
LEMMA LinkedAt ==
  ASSUME NEW es, NEW range, NEW cs, cs = Tree!Linked(es, range)
  PROVE  /\ cs = [i \in DOMAIN cs |-> cs[i]]
         /\ \A i : i \in DOMAIN cs <=> i \in range /\ i \in 0..(Len(es) - 1) /\ LinkOf[es[i + 1]] # NoModel
         /\ \A i \in DOMAIN cs : cs[i] = LinkOf[es[i + 1]]
BY DEF Tree!Linked, Tree!IsLink

\* Two such functions are the same if they are at each position.
LEMMA SameChildren ==
  ASSUME NEW f, NEW g, f = [i \in DOMAIN f |-> f[i]], g = [i \in DOMAIN g |-> g[i]],
         DOMAIN f \subseteq Int, DOMAIN g \subseteq Int,
         \A i \in Int : (i \in DOMAIN f <=> i \in DOMAIN g) /\ (i \in DOMAIN f => f[i] = g[i])
  PROVE  f = g
<1>1. DOMAIN f = DOMAIN g
  OBVIOUS
<1>2. \A i \in DOMAIN f : f[i] = g[i]
  OBVIOUS
<1> QED BY <1>1, <1>2

LEMMA GrownLinked ==
  ASSUME NEW after, NEW before, NEW start, NEW added, Spliced(after, before, start, 0, added),
         NEW g, Grown(g, Tree!Linked(before, Positions(before)),
                      Tree!Linked(after, start..(start + added - 1)), start, added)
  PROVE  g = Tree!Linked(after, Positions(after))
<1> DEFINE f == Tree!Linked(before, Positions(before))
           h == Tree!Linked(after, Positions(after))
           new == Tree!Linked(after, start..(start + added - 1))
           L == Len(before)
           M == Len(after)
<1>1. /\ after \in Seq(Entries) /\ before \in Seq(Entries) /\ start \in Nat /\ added \in Nat
      /\ start + 0 <= L /\ M = L - 0 + added
      /\ \A i \in 1..start : after[i] = before[i]
      /\ \A i \in (start + 0 + 1)..L : after[i - 0 + added] = before[i]
  BY DEF Spliced
<1>2. L \in Nat /\ M \in Nat
  BY <1>1, LenProperties
<1>3. \A i : i \in DOMAIN f <=> i \in Positions(before) /\ i \in 0..(L - 1) /\ LinkOf[before[i + 1]] # NoModel
  BY LinkedAt
<1>4. \A i \in DOMAIN f : f[i] = LinkOf[before[i + 1]]
  BY LinkedAt
<1>5. /\ h = [i \in DOMAIN h |-> h[i]]
      /\ \A i : i \in DOMAIN h <=> i \in Positions(after) /\ i \in 0..(M - 1) /\ LinkOf[after[i + 1]] # NoModel
  BY LinkedAt
<1>6. \A i \in DOMAIN h : h[i] = LinkOf[after[i + 1]]
  BY LinkedAt
<1>7. \A i : i \in DOMAIN new <=>
        i \in start..(start + added - 1) /\ i \in 0..(M - 1) /\ LinkOf[after[i + 1]] # NoModel
  <2> DEFINE range == start..(start + added - 1)
             cs == Tree!Linked(after, range)
  <2> HIDE DEF range
  <2>1. \A i : i \in DOMAIN cs <=> i \in range /\ i \in 0..(Len(after) - 1) /\ LinkOf[after[i + 1]] # NoModel
    BY LinkedAt
  <2> HIDE DEF cs
  <2>2. new = cs
    BY DEF cs, range
  <2> HIDE DEF new
  <2> QED BY <2>1, <2>2 DEF range
<1>8. \A i \in DOMAIN new : new[i] = LinkOf[after[i + 1]]
  BY LinkedAt
<1>9. Positions(before) = 0..(L - 1) /\ Positions(after) = 0..(M - 1)
  BY DEF Positions
<1> HIDE DEF f, h, new, L, M
<1>10. Grown(g, f, new, start, added)
  BY DEF f, new
<1>11. M = L + added /\ start <= L
  BY <1>1, <1>2
<1>12. ASSUME NEW i \in Int PROVE (i \in DOMAIN g <=> i \in DOMAIN h) /\ (i \in DOMAIN g => g[i] = h[i])
  <2>1. CASE i < start
    <3>1. (i \in DOMAIN g <=> i \in DOMAIN f) /\ (i \in DOMAIN g => g[i] = f[i])
      BY <1>1, <1>10, <2>1 DEF Grown
    <3>2. CASE i >= 0
      <4>1. i + 1 \in 1..start
        BY <1>1, <2>1, <3>2
      <4>2. after[i + 1] = before[i + 1] /\ i \in 0..(L - 1) /\ i \in 0..(M - 1)
        BY <1>1, <1>2, <1>11, <2>1, <3>2, <4>1
      <4> QED BY <1>3, <1>4, <1>5, <1>6, <1>9, <3>1, <4>2
    <3>3. CASE i < 0
      <4>1. i \notin DOMAIN f /\ i \notin DOMAIN h
        BY <1>2, <1>3, <1>5, <3>3
      <4> QED BY <3>1, <4>1
    <3> QED BY <3>2, <3>3
  <2>2. CASE i \in start..(start + added - 1)
    <3>1. (i \in DOMAIN g <=> i \in DOMAIN new) /\ (i \in DOMAIN g => g[i] = new[i])
      BY <1>10, <2>2 DEF Grown
    <3>2. i \in 0..(M - 1)
      BY <1>1, <1>2, <1>11, <2>2
    <3> QED BY <1>5, <1>6, <1>7, <1>8, <1>9, <2>2, <3>1, <3>2
  <2>3. CASE i >= start + added
    <3>1. (i \in DOMAIN g <=> i - added \in DOMAIN f) /\ (i \in DOMAIN g => g[i] = f[i - added])
      BY <1>10, <2>3 DEF Grown
    <3>2. PICK j \in Int : j = i - added /\ i = j + added
      BY <1>1
    <3>3. j >= start /\ (j \in 0..(L - 1) <=> i \in 0..(M - 1))
      BY <1>1, <1>2, <1>11, <2>3, <3>2
    <3>4. ASSUME j \in 0..(L - 1) PROVE after[i + 1] = before[j + 1]
      <4>1. j + 1 \in (start + 0 + 1)..L /\ j + 1 - 0 + added = i + 1
        BY <1>1, <1>2, <3>2, <3>3, <3>4
      <4> QED BY <1>1, <4>1
    <3> QED BY <1>3, <1>4, <1>5, <1>6, <1>9, <3>1, <3>2, <3>3, <3>4
  <2> QED BY <1>1, <2>1, <2>2, <2>3
<1>13. DOMAIN h \subseteq Int
  BY <1>2, <1>5
<1>14. g = [i \in DOMAIN g |-> g[i]] /\ DOMAIN g \subseteq Int
  BY <1>10 DEF Grown
<1>15. g = h
  BY <1>5, <1>12, <1>13, <1>14, SameChildren
<1> QED BY <1>15 DEF h

LEMMA ShrunkLinked ==
  ASSUME NEW after, NEW before, NEW start, NEW removed, Spliced(after, before, start, removed, 0),
         ~Tree!IsLink(before, start + removed),
         NEW g, Shrunk(g, Tree!Linked(before, Positions(before)), start, removed)
  PROVE  g = Tree!Linked(after, Positions(after))
<1> DEFINE f == Tree!Linked(before, Positions(before))
           h == Tree!Linked(after, Positions(after))
           L == Len(before)
           M == Len(after)
<1>1. /\ after \in Seq(Entries) /\ before \in Seq(Entries) /\ start \in Nat /\ removed \in Nat
      /\ start + removed <= L /\ M = L - removed + 0
      /\ \A i \in 1..start : after[i] = before[i]
      /\ \A i \in (start + removed + 1)..L : after[i - removed + 0] = before[i]
  BY DEF Spliced
<1>2. L \in Nat /\ M \in Nat
  BY <1>1, LenProperties
<1>3. \A i : i \in DOMAIN f <=> i \in Positions(before) /\ i \in 0..(L - 1) /\ LinkOf[before[i + 1]] # NoModel
  BY LinkedAt
<1>4. \A i \in DOMAIN f : f[i] = LinkOf[before[i + 1]]
  BY LinkedAt
<1>5. /\ h = [i \in DOMAIN h |-> h[i]]
      /\ \A i : i \in DOMAIN h <=> i \in Positions(after) /\ i \in 0..(M - 1) /\ LinkOf[after[i + 1]] # NoModel
  BY LinkedAt
<1>6. \A i \in DOMAIN h : h[i] = LinkOf[after[i + 1]]
  BY LinkedAt
<1>7. start + removed \in 0..(L - 1) => LinkOf[before[start + removed + 1]] = NoModel
  BY DEF Tree!IsLink
<1>8. Positions(before) = 0..(L - 1) /\ Positions(after) = 0..(M - 1)
  BY DEF Positions
<1> HIDE DEF f, h, L, M
<1>9. Shrunk(g, f, start, removed)
  BY DEF f
<1>10. M = L - removed
  BY <1>1, <1>2
<1>11. ASSUME NEW i \in Int, i >= start, i \in 0..(M - 1)
      PROVE  i + removed \in 0..(L - 1) /\ after[i + 1] = before[i + removed + 1]
  <2>1. PICK j \in Int : j = i + removed + 1
    BY <1>1
  <2>2. j \in (start + removed + 1)..L /\ j - removed + 0 = i + 1 /\ i + removed \in 0..(L - 1)
    BY <1>1, <1>2, <1>11, <1>10, <2>1
  <2>3. after[i + 1] = before[j]
    BY <1>1, <2>2
  <2> QED BY <2>1, <2>2, <2>3
<1>12. ASSUME NEW i \in Int PROVE (i \in DOMAIN g <=> i \in DOMAIN h) /\ (i \in DOMAIN g => g[i] = h[i])
  <2>1. CASE i < start
    <3>1. (i \in DOMAIN g <=> i \in DOMAIN f) /\ (i \in DOMAIN g => g[i] = f[i])
      BY <1>1, <1>9, <2>1 DEF Shrunk
    <3>2. CASE i >= 0
      <4>1. i + 1 \in 1..start
        BY <1>1, <2>1, <3>2
      <4>2. after[i + 1] = before[i + 1] /\ i \in 0..(L - 1) /\ i \in 0..(M - 1)
        BY <1>1, <1>2, <1>10, <2>1, <3>2, <4>1
      <4> QED BY <1>3, <1>4, <1>5, <1>6, <1>8, <3>1, <4>2
    <3>3. CASE i < 0
      <4>1. i \notin DOMAIN f /\ i \notin DOMAIN h
        BY <1>2, <1>3, <1>5, <3>3
      <4> QED BY <3>1, <4>1
    <3> QED BY <3>2, <3>3
  <2>2. CASE i = start
    <3>1. i \notin DOMAIN g
      BY <1>9, <2>2 DEF Shrunk
    <3>2. ASSUME i \in DOMAIN h PROVE FALSE
      <4>1. i \in 0..(M - 1) /\ LinkOf[after[i + 1]] # NoModel
        BY <1>5, <3>2
      <4>2. i + removed \in 0..(L - 1) /\ after[i + 1] = before[i + removed + 1]
        BY <1>1, <1>11, <2>2, <4>1
      <4> QED BY <1>7, <2>2, <4>1, <4>2
    <3> QED BY <3>1, <3>2
  <2>3. CASE i > start
    <3>1. (i \in DOMAIN g <=> i + removed \in DOMAIN f) /\ (i \in DOMAIN g => g[i] = f[i + removed])
      BY <1>9, <2>3 DEF Shrunk
    <3>2. PICK j \in Int : j = i + removed
      BY <1>1
    <3>3. j \in 0..(L - 1) <=> i \in 0..(M - 1)
      BY <1>1, <1>2, <1>10, <2>3, <3>2
    <3>4. ASSUME i \in 0..(M - 1) PROVE after[i + 1] = before[j + 1]
      <4>1. i >= start
        BY <1>1, <2>3
      <4> QED BY <1>11, <3>2, <3>4, <4>1
    <3> QED BY <1>3, <1>4, <1>5, <1>6, <1>8, <3>1, <3>2, <3>3, <3>4
  <2> QED BY <1>1, <2>1, <2>2, <2>3
<1>13. DOMAIN h \subseteq Int
  BY <1>2, <1>5
<1>14. g = [i \in DOMAIN g |-> g[i]] /\ DOMAIN g \subseteq Int
  BY <1>9 DEF Shrunk
<1>15. g = h
  BY <1>5, <1>12, <1>13, <1>14, SameChildren
<1> QED BY <1>15 DEF h

\* The models that are linked, by their positions.
LEMMA LinksAt ==
  ASSUME NEW es \in Seq(Entries), NEW n, n = Len(es), NEW k
  PROVE  k \in Tree!LinksOf(es) <=> \E i \in 0..(n - 1) : LinkOf[es[i + 1]] = k /\ k # NoModel
<1>1. n \in Nat
  BY LenProperties
<1>2. ASSUME k \in Tree!LinksOf(es)
      PROVE  \E i \in 0..(n - 1) : LinkOf[es[i + 1]] = k /\ k # NoModel
  <2>1. PICK j \in 1..n : LinkOf[es[j]] = k /\ k # NoModel
    BY <1>2, LinksOfEntries
  <2>2. j - 1 \in 0..(n - 1) /\ j - 1 + 1 = j
    BY <1>1
  <2> QED BY <2>1, <2>2
<1>3. ASSUME NEW i \in 0..(n - 1), LinkOf[es[i + 1]] = k, k # NoModel PROVE k \in Tree!LinksOf(es)
  <2>1. PICK j \in 1..n : j = i + 1
    BY <1>1
  <2>2. LinkOf[es[j]] = k
    BY <1>3, <2>1
  <2> QED BY <1>3, <2>1, <2>2, LinksOfEntries
<1> QED BY <1>2, <1>3

LEMMA LinksGrown ==
  ASSUME NEW after, NEW before, NEW start, NEW added, Spliced(after, before, start, 0, added)
  PROVE  Tree!LinksOf(after)
           = Tree!LinksOf(before) \cup Tree!Range(Tree!Linked(after, start..(start + added - 1)))
<1> DEFINE L == Len(before)
           M == Len(after)
           range == start..(start + added - 1)
           new == Tree!Linked(after, range)
<1>1. /\ after \in Seq(Entries) /\ before \in Seq(Entries) /\ start \in Nat /\ added \in Nat
      /\ start + 0 <= L /\ M = L - 0 + added
      /\ \A i \in 1..start : after[i] = before[i]
      /\ \A i \in (start + 0 + 1)..L : after[i - 0 + added] = before[i]
  BY DEF Spliced
<1>2. L \in Nat /\ M \in Nat
  BY <1>1, LenProperties
<1>3. \A k : k \in Tree!LinksOf(before) <=> \E i \in 0..(L - 1) : LinkOf[before[i + 1]] = k /\ k # NoModel
  BY <1>1, LinksAt
<1>4. \A k : k \in Tree!LinksOf(after) <=> \E i \in 0..(M - 1) : LinkOf[after[i + 1]] = k /\ k # NoModel
  BY <1>1, LinksAt
<1>5. \A k : k \in Tree!Range(new) <=>
        \E i \in range : i \in 0..(M - 1) /\ LinkOf[after[i + 1]] = k /\ k # NoModel
  <2> HIDE DEF range
  <2>1. /\ \A i : i \in DOMAIN new <=> i \in range /\ i \in 0..(M - 1) /\ LinkOf[after[i + 1]] # NoModel
        /\ \A i \in DOMAIN new : new[i] = LinkOf[after[i + 1]]
    BY LinkedAt
  <2> HIDE DEF new, M
  <2> QED BY <2>1 DEF Tree!Range
<1> HIDE DEF L, M, new
<1>6. M = L + added /\ start <= L
  BY <1>1, <1>2
<1>7. \A i \in 0..(start - 1) : after[i + 1] = before[i + 1] /\ i \in 0..(L - 1) /\ i \in 0..(M - 1)
  BY <1>1, <1>2, <1>6
<1>8. ASSUME NEW i \in start..(L - 1)
      PROVE  after[i + added + 1] = before[i + 1] /\ i + added \in 0..(M - 1)
  <2>1. PICK j \in (start + 0 + 1)..L : j = i + 1 /\ j - 0 + added = i + added + 1
    BY <1>1, <1>2
  <2>2. after[i + added + 1] = before[j]
    BY <1>1, <2>1
  <2>3. i + added \in 0..(M - 1)
    BY <1>1, <1>2, <1>6
  <2> QED BY <2>1, <2>2, <2>3
<1>9. ASSUME NEW k \in Tree!LinksOf(after), k \notin Tree!Range(new) PROVE k \in Tree!LinksOf(before)
  <2>1. PICK i \in 0..(M - 1) : LinkOf[after[i + 1]] = k /\ k # NoModel
    BY <1>4
  <2>2. i \notin range
    BY <1>5, <1>9, <2>1
  <2>3. CASE i < start
    <3>1. i \in 0..(start - 1)
      BY <1>1, <2>3
    <3> QED BY <1>3, <1>7, <2>1, <3>1
  <2>4. CASE i >= start + added
    <3>1. PICK j \in start..(L - 1) : i = j + added
      <4>1. i - added \in start..(L - 1) /\ i = i - added + added
        BY <1>1, <1>2, <1>6, <2>4
      <4> QED BY <4>1
    <3>2. LinkOf[before[j + 1]] = k /\ j \in 0..(L - 1)
      BY <1>1, <1>8, <2>1, <3>1
    <3> QED BY <1>3, <2>1, <3>2
  <2> QED BY <1>1, <2>2, <2>3, <2>4
<1>10. ASSUME NEW k \in Tree!LinksOf(before) PROVE k \in Tree!LinksOf(after)
  <2>1. PICK i \in 0..(L - 1) : LinkOf[before[i + 1]] = k /\ k # NoModel
    BY <1>3
  <2>2. CASE i < start
    <3>1. i \in 0..(start - 1)
      BY <1>1, <2>2
    <3> QED BY <1>4, <1>7, <2>1, <3>1
  <2>3. CASE i >= start
    <3>1. i \in start..(L - 1)
      BY <1>1, <1>2, <2>3
    <3>2. LinkOf[after[i + added + 1]] = k /\ i + added \in 0..(M - 1)
      BY <1>8, <2>1, <3>1
    <3> QED BY <1>4, <2>1, <3>2
  <2> QED BY <1>1, <2>2, <2>3
<1>11. Tree!Range(new) \subseteq Tree!LinksOf(after)
  BY <1>4, <1>5
<1> QED BY <1>9, <1>10, <1>11 DEF new

GoneLinks(before, start, removed) ==
  LET f == Tree!Linked(before, Positions(before))
  IN  {f[i] : i \in GonePositions(f, start, removed)}

LEMMA LinksShrunk ==
  ASSUME NEW after, NEW before, NEW start, NEW removed, Spliced(after, before, start, removed, 0),
         ~Tree!IsLink(before, start + removed),
         \A i1, i2 \in 1..Len(before) :
           LinkOf[before[i1]] = LinkOf[before[i2]] /\ LinkOf[before[i1]] # NoModel => i1 = i2
  PROVE  Tree!LinksOf(after) = Tree!LinksOf(before) \ GoneLinks(before, start, removed)
<1> DEFINE L == Len(before)
           M == Len(after)
           f == Tree!Linked(before, Positions(before))
           gone == GoneLinks(before, start, removed)
<1>1. /\ after \in Seq(Entries) /\ before \in Seq(Entries) /\ start \in Nat /\ removed \in Nat
      /\ start + removed <= L /\ M = L - removed + 0
      /\ \A i \in 1..start : after[i] = before[i]
      /\ \A i \in (start + removed + 1)..L : after[i - removed + 0] = before[i]
  BY DEF Spliced
<1>2. L \in Nat /\ M \in Nat
  BY <1>1, LenProperties
<1>3. \A k : k \in Tree!LinksOf(before) <=> \E i \in 0..(L - 1) : LinkOf[before[i + 1]] = k /\ k # NoModel
  BY <1>1, LinksAt
<1>4. \A k : k \in Tree!LinksOf(after) <=> \E i \in 0..(M - 1) : LinkOf[after[i + 1]] = k /\ k # NoModel
  BY <1>1, LinksAt
<1>5. start + removed \in 0..(L - 1) => LinkOf[before[start + removed + 1]] = NoModel
  BY DEF Tree!IsLink
<1>6. \A k : k \in gone <=>
        \E i \in 0..(L - 1) : /\ i >= start /\ i <= start + removed
                            /\ LinkOf[before[i + 1]] = k /\ k # NoModel
  <2>1. \A i : i \in DOMAIN f <=> i \in Positions(before) /\ i \in 0..(L - 1) /\ LinkOf[before[i + 1]] # NoModel
    BY LinkedAt
  <2>2. \A i \in DOMAIN f : f[i] = LinkOf[before[i + 1]]
    BY LinkedAt
  <2>3. Positions(before) = 0..(L - 1)
    BY DEF Positions
  <2>4. \A k : k \in gone <=> \E i \in DOMAIN f : i >= start /\ i <= start + removed /\ f[i] = k
    BY DEF GonePositions, GoneLinks
  <2> HIDE DEF L, f, gone
  <2>5. ASSUME NEW k, NEW i \in DOMAIN f, i >= start /\ i <= start + removed, f[i] = k
        PROVE  i \in 0..(L - 1) /\ LinkOf[before[i + 1]] = k /\ k # NoModel
    BY <2>1, <2>2, <2>5
  <2>6. ASSUME NEW k, NEW i \in 0..(L - 1), LinkOf[before[i + 1]] = k, k # NoModel
        PROVE  i \in DOMAIN f /\ f[i] = k
    <3>1. i \in DOMAIN f
      BY <2>1, <2>3, <2>6
    <3> QED BY <2>2, <2>6, <3>1
  <2> QED BY <2>4, <2>5, <2>6
<1>7. ASSUME NEW i1 \in 0..(L - 1), NEW i2 \in 0..(L - 1), LinkOf[before[i1 + 1]] = LinkOf[before[i2 + 1]],
             LinkOf[before[i1 + 1]] # NoModel
      PROVE  i1 = i2
  <2>1. PICK j1 \in 1..L : j1 = i1 + 1
    BY <1>2
  <2>2. PICK j2 \in 1..L : j2 = i2 + 1
    BY <1>2
  <2>3. LinkOf[before[j1]] = LinkOf[before[j2]] /\ LinkOf[before[j1]] # NoModel
    BY <1>7, <2>1, <2>2
  <2>4. j1 = j2
    BY <2>3
  <2> QED BY <2>1, <2>2, <2>4
<1> HIDE DEF L, M, f, gone
<1>8. M = L - removed /\ start <= M
  BY <1>1, <1>2
<1>9. \A i \in 0..(start - 1) : after[i + 1] = before[i + 1] /\ i \in 0..(L - 1) /\ i \in 0..(M - 1)
  BY <1>1, <1>2, <1>8
<1>10. ASSUME NEW i \in start..(M - 1)
       PROVE  after[i + 1] = before[i + removed + 1] /\ i + removed \in 0..(L - 1)
  <2>1. PICK j \in (start + removed + 1)..L : j = i + removed + 1 /\ j - removed + 0 = i + 1
    BY <1>1, <1>2, <1>8
  <2>2. after[i + 1] = before[j]
    BY <1>1, <2>1
  <2>3. i + removed \in 0..(L - 1)
    BY <1>1, <1>2, <1>8
  <2> QED BY <2>1, <2>2, <2>3
\* A linked entry that is still there was not among those that went.
<1>11. ASSUME NEW i \in 0..(L - 1), LinkOf[before[i + 1]] # NoModel, i < start \/ i > start + removed
       PROVE  LinkOf[before[i + 1]] \notin gone
  <2>1. ASSUME LinkOf[before[i + 1]] \in gone PROVE FALSE
    <3>1. PICK j \in 0..(L - 1) : /\ j >= start /\ j <= start + removed
                               /\ LinkOf[before[j + 1]] = LinkOf[before[i + 1]]
      BY <1>6, <2>1
    <3>2. j = i
      BY <1>7, <1>11, <3>1
    <3> QED BY <1>1, <1>11, <3>1, <3>2
  <2> QED BY <2>1
<1>12. ASSUME NEW k \in Tree!LinksOf(after) PROVE k \in Tree!LinksOf(before) \ gone
  <2>1. PICK i \in 0..(M - 1) : LinkOf[after[i + 1]] = k /\ k # NoModel
    BY <1>4
  <2>2. CASE i < start
    <3>1. i \in 0..(start - 1)
      BY <1>1, <2>2
    <3>2. LinkOf[before[i + 1]] = k /\ i \in 0..(L - 1)
      BY <1>9, <2>1, <3>1
    <3> QED BY <1>3, <1>11, <2>1, <2>2, <3>2
  <2>3. CASE i >= start
    <3>1. i \in start..(M - 1)
      BY <1>1, <2>3
    <3>2. PICK j \in 0..(L - 1) : j = i + removed
      BY <1>10, <3>1
    <3>3. LinkOf[before[j + 1]] = k
      BY <1>10, <2>1, <3>1, <3>2
    <3>4. j # start + removed
      BY <1>5, <2>1, <3>2, <3>3
    <3>5. j > start + removed
      BY <1>1, <2>3, <3>2, <3>4
    <3> QED BY <1>3, <1>11, <2>1, <3>3, <3>5
  <2> QED BY <1>1, <2>2, <2>3
<1>13. ASSUME NEW k \in Tree!LinksOf(before), k \notin gone PROVE k \in Tree!LinksOf(after)
  <2>1. PICK i \in 0..(L - 1) : LinkOf[before[i + 1]] = k /\ k # NoModel
    BY <1>3
  <2>2. ~(i >= start /\ i <= start + removed)
    BY <1>6, <1>13, <2>1
  <2>3. CASE i < start
    <3>1. i \in 0..(start - 1)
      BY <1>1, <2>3
    <3> QED BY <1>4, <1>9, <2>1, <3>1
  <2>4. CASE i > start + removed
    <3>1. PICK j \in start..(M - 1) : i = j + removed
      <4>1. i - removed \in start..(M - 1) /\ i = i - removed + removed
        BY <1>1, <1>2, <1>8, <2>4
      <4> QED BY <4>1
    <3>2. LinkOf[after[j + 1]] = k /\ j \in 0..(M - 1)
      BY <1>1, <1>10, <2>1, <3>1
    <3> QED BY <1>4, <2>1, <3>2
  <2> QED BY <1>1, <2>2, <2>3, <2>4
<1> QED BY <1>12, <1>13 DEF gone

\* An insertion that nothing was removed for leaves the tree of the new menus.
LEMMA InsertedMirrors ==
  ASSUME NEW ns, NEW sizes, NodesOK(ns, sizes), NEW m \in DOMAIN ns,
         NEW mu, MenusOK(mu), NEW mu0, MenusOK(mu0), \A k \in Models \ {m} : mu[k] = mu0[k],
         NEW r \in Roots, Mirrors(ns, mu0, r),
         NEW start, NEW added, Spliced(mu[m], mu0[m], start, 0, added),
         NewUnlinked(ns, mu, mu[m], start, added)
  PROVE  Mirrors(Tree!Inserted(ns, mu, m, start, added), mu, r)
<1> DEFINE ins == Tree!Inserted(ns, mu, m, start, added)
           new == NewLinks(mu, m, start, added)
           ms == NewModels(mu, m, start, added)
           made == Tree!NewNodes(mu, ms)
<1>1. r \in Models /\ r # NoModel /\ m \in Models
  BY MenuAssumption DEF Tree!TreeAssumption, NodesOK
<1>2. start \in Nat /\ added \in Nat /\ start + added <= Len(mu[m])
  <2>1. /\ mu[m] \in Seq(Entries) /\ mu0[m] \in Seq(Entries) /\ start \in Nat /\ added \in Nat
        /\ start + 0 <= Len(mu0[m]) /\ Len(mu[m]) = Len(mu0[m]) - 0 + added
    BY DEF Spliced
  <2>2. Len(mu0[m]) \in Nat
    BY <2>1, LenProperties
  <2> QED BY <2>1, <2>2
<1>3. Insertion(ins, ns, mu, m, start, added, new, ms, made)
  BY <1>2, InsertedNodes
<1> HIDE DEF ins, made
<1>4. /\ ms \subseteq Models
      /\ DOMAIN ins = DOMAIN ns \cup DOMAIN made /\ DOMAIN made \cap DOMAIN ns = {}
      /\ \A k \in DOMAIN made : ins[k] = made[k]
      /\ \A k \in DOMAIN ns \ {m} : ins[k] = ns[k]
      /\ Grown(ins[m].children, ns[m].children, new, start, added)
  <2> HIDE DEF ms, new
  <2> QED BY <1>3 DEF Insertion
<1>5. /\ \A k \in DOMAIN ns : ns[k].children = Tree!Linked(mu0[k], Positions(mu0[k]))
      /\ DOMAIN ns = Tree!Below(Links(mu0), r)
  BY <1>1 DEF Mirrors
<1>6. /\ DOMAIN made = UNION {Tree!Below(Links(mu), k) : k \in ms}
      /\ \A k \in DOMAIN made : made[k].children = Tree!Linked(mu[k], Positions(mu[k]))
  <2> HIDE DEF ms
  <2> QED BY <1>4, NodesMade DEF made
<1>7. ins[m].children = Tree!Linked(mu[m], Positions(mu[m]))
  <2>1. Grown(ins[m].children, Tree!Linked(mu0[m], Positions(mu0[m])),
              Tree!Linked(mu[m], start..(start + added - 1)), start, added)
    BY <1>4, <1>5 DEF NewLinks
  <2> QED BY <2>1, GrownLinked
<1>8. \A k \in DOMAIN ins : ins[k].children = Tree!Linked(mu[k], Positions(mu[k]))
  <2> SUFFICES ASSUME NEW k \in DOMAIN ins PROVE ins[k].children = Tree!Linked(mu[k], Positions(mu[k]))
    OBVIOUS
  <2>1. CASE k \in DOMAIN made
    BY <1>4, <1>6, <2>1
  <2>2. CASE k \in DOMAIN ns \ {m}
    <3>1. k \in Models
      BY <2>2 DEF NodesOK
    <3>2. mu[k] = mu0[k]
      BY <2>2, <3>1
    <3> QED BY <1>4, <1>5, <2>2, <3>2
  <2> QED BY <1>4, <1>7, <2>1, <2>2
<1>9. /\ Links(mu) \in [Models -> SUBSET Models] /\ Links(mu0) \in [Models -> SUBSET Models]
      /\ \A k \in Models \ {m} : Links(mu)[k] = Links(mu0)[k]
      /\ Links(mu)[m] = Tree!LinksOf(mu[m]) /\ Links(mu0)[m] = Tree!LinksOf(mu0[m])
  <2>1. mu \in [Models -> Seq(Entries)] /\ mu0 \in [Models -> Seq(Entries)]
    BY DEF MenusOK
  <2>2. Links(mu) \in [Models -> SUBSET Models] /\ \A k \in Models : Links(mu)[k] = Tree!LinksOf(mu[k])
    BY <2>1, LinksTyped
  <2>3. Links(mu0) \in [Models -> SUBSET Models] /\ \A k \in Models : Links(mu0)[k] = Tree!LinksOf(mu0[k])
    BY <2>1, LinksTyped
  <2> QED BY <1>1, <2>2, <2>3
<1>10. Links(mu)[m] = Links(mu0)[m] \cup ms
  BY <1>9, LinksGrown DEF NewModels, NewLinks
<1> HIDE DEF ms, new
<1>11. Tree!Below(Links(mu), r) = Tree!Below(Links(mu0), r) \cup UNION {Tree!Below(Links(mu), k) : k \in ms}
  BY <1>1, <1>4, <1>5, <1>9, <1>10, BelowGrown
<1>12. DOMAIN ins = Tree!Below(Links(mu), r)
  BY <1>4, <1>5, <1>6, <1>11
<1>13. Mirrors(ins, mu, r)
  BY <1>1, <1>8, <1>12 DEF Mirrors
<1> QED BY <1>13 DEF ins

\* As long as the tree is that of the menus, it has the same links.
LEMMA SameLinks ==
  ASSUME NEW ns, NEW sizes, NodesOK(ns, sizes), NEW mu0, MenusOK(mu0), NEW q \in DOMAIN ns,
         \A k \in DOMAIN ns : ns[k].children = Tree!Linked(mu0[k], Positions(mu0[k]))
  PROVE  Tree!Below(NodeLinks(ns), q) = Tree!Below(Links(mu0), q)
<1> DEFINE l1 == NodeLinks(ns)
           l2 == Links(mu0)
           S == DOMAIN ns
<1>1. /\ l1 \in [Models -> SUBSET Models]
      /\ \A k \in S : l1[k] = {ns[k].children[i] : i \in DOMAIN ns[k].children}
  BY NodeLinksTyped
<1>2. l2 \in [Models -> SUBSET Models] /\ \A k \in Models : l2[k] = Tree!LinksOf(mu0[k])
  BY LinksTyped DEF MenusOK
<1>3. S \subseteq Models /\ \A k \in S : \A i \in DOMAIN ns[k].children : ns[k].children[i] \in S
  BY DEF NodesOK
<1> HIDE DEF l1, l2
<1>4. \A k \in S : l1[k] \subseteq S
  BY <1>1, <1>3
<1>5. Tree!Below(l1, q) \subseteq S
  <2> HIDE DEF S
  <2>1. q \in S
    BY DEF S
  <2> QED BY <1>3, <1>4, <2>1, BelowLeast
<1>6. ASSUME NEW k \in S PROVE l1[k] = l2[k]
  <2> DEFINE es == mu0[k]
             cs == Tree!Linked(es, Positions(es))
  <2>1. es \in Seq(Entries) /\ Positions(es) = 0..(Len(es) - 1)
    BY <1>3 DEF MenusOK, Positions
  <2>2. \A i : i \in DOMAIN cs <=> i \in Positions(es) /\ i \in 0..(Len(es) - 1) /\ LinkOf[es[i + 1]] # NoModel
    BY LinkedAt
  <2>3. \A i \in DOMAIN cs : cs[i] = LinkOf[es[i + 1]]
    BY LinkedAt
  <2>4. \A c : c \in Tree!LinksOf(es) <=> \E i \in 0..(Len(es) - 1) : LinkOf[es[i + 1]] = c /\ c # NoModel
    BY <2>1, LinksAt
  <2>5. l1[k] = {cs[i] : i \in DOMAIN cs} /\ l2[k] = Tree!LinksOf(es)
    BY <1>1, <1>2, <1>3
  <2> HIDE DEF es, cs
  <2>6. \A c \in l1[k] : c \in l2[k]
    BY <2>1, <2>2, <2>3, <2>4, <2>5
  <2>7. \A c \in l2[k] : c \in l1[k]
    <3> SUFFICES ASSUME NEW c \in l2[k] PROVE c \in l1[k]
      OBVIOUS
    <3>1. PICK i \in 0..(Len(es) - 1) : LinkOf[es[i + 1]] = c /\ c # NoModel
      BY <2>4, <2>5
    <3>2. i \in DOMAIN cs /\ cs[i] = c
      BY <2>1, <2>2, <2>3, <3>1
    <3> QED BY <2>5, <3>2
  <2> QED BY <2>6, <2>7
<1>7. \A j \in Tree!Below(l1, q) : l1[j] = l2[j]
  BY <1>5, <1>6
<1>8. Tree!Below(l1, q) = Tree!Below(l2, q)
  BY <1>1, <1>2, <1>3, <1>7, BelowAgrees
<1> QED BY <1>8 DEF l1, l2

\* A removal that is not followed by a linked item leaves the tree of the new
\* menus.
LEMMA RemovedMirrors ==
  ASSUME NEW ns, NEW sizes, NodesOK(ns, sizes), NEW m \in DOMAIN ns,
         NEW mu, MenusOK(mu), NEW mu0, MenusOK(mu0), \A k \in Models \ {m} : mu[k] = mu0[k],
         NEW r \in Roots, Mirrors(ns, mu0, r),
         NEW start, NEW removed, Spliced(mu[m], mu0[m], start, removed, 0),
         ~Tree!IsLink(mu0[m], start + removed)
  PROVE  Mirrors(Tree!Removed(ns, m, start, removed), mu, r)
<1> DEFINE rem == Tree!Removed(ns, m, start, removed)
           ms == GoneModels(ns, m, start, removed)
           dead == Dead(ns, ms)
<1>1. r \in Models /\ r # NoModel /\ m \in Models /\ DOMAIN ns \subseteq Models
  BY MenuAssumption DEF Tree!TreeAssumption, NodesOK
<1>2. start \in Nat /\ removed \in Nat
  BY DEF Spliced
<1>3. Removal(rem, ns, m, start, removed, dead)
  BY <1>2, RemovedNodes
<1> HIDE DEF rem, dead
<1>4. /\ DOMAIN rem = DOMAIN ns \ dead
      /\ \A k \in DOMAIN rem \ {m} : rem[k] = ns[k]
      /\ m \in DOMAIN rem => Shrunk(rem[m].children, ns[m].children, start, removed)
  BY <1>3 DEF Removal
<1>5. /\ \A k \in DOMAIN ns : ns[k].children = Tree!Linked(mu0[k], Positions(mu0[k]))
      /\ DOMAIN ns = Tree!Below(Links(mu0), r)
  BY <1>1 DEF Mirrors
<1>6. m \in DOMAIN rem => rem[m].children = Tree!Linked(mu[m], Positions(mu[m]))
  <2> SUFFICES ASSUME m \in DOMAIN rem PROVE rem[m].children = Tree!Linked(mu[m], Positions(mu[m]))
    OBVIOUS
  <2>1. Shrunk(rem[m].children, Tree!Linked(mu0[m], Positions(mu0[m])), start, removed)
    BY <1>4, <1>5
  <2> QED BY <2>1, ShrunkLinked
<1>7. \A k \in DOMAIN rem : rem[k].children = Tree!Linked(mu[k], Positions(mu[k]))
  <2> SUFFICES ASSUME NEW k \in DOMAIN rem, k # m
               PROVE  rem[k].children = Tree!Linked(mu[k], Positions(mu[k]))
    BY <1>6
  <2>1. k \in DOMAIN ns /\ mu[k] = mu0[k]
    BY <1>1, <1>4
  <2> QED BY <1>4, <1>5, <2>1
<1>8. /\ Links(mu) \in [Models -> SUBSET Models] /\ Links(mu0) \in [Models -> SUBSET Models]
      /\ \A k \in Models \ {m} : Links(mu)[k] = Links(mu0)[k]
      /\ Links(mu)[m] = Tree!LinksOf(mu[m]) /\ Links(mu0)[m] = Tree!LinksOf(mu0[m])
  <2>1. mu \in [Models -> Seq(Entries)] /\ mu0 \in [Models -> Seq(Entries)]
    BY DEF MenusOK
  <2>2. Links(mu) \in [Models -> SUBSET Models] /\ \A k \in Models : Links(mu)[k] = Tree!LinksOf(mu[k])
    BY <2>1, LinksTyped
  <2>3. Links(mu0) \in [Models -> SUBSET Models] /\ \A k \in Models : Links(mu0)[k] = Tree!LinksOf(mu0[k])
    BY <2>1, LinksTyped
  <2> QED BY <1>1, <2>2, <2>3
<1>9. Tree!LinksOf(mu[m]) = Tree!LinksOf(mu0[m]) \ ms
  <2>1. \A i1, i2 \in 1..Len(mu0[m]) :
          LinkOf[mu0[m][i1]] = LinkOf[mu0[m][i2]] /\ LinkOf[mu0[m][i1]] # NoModel => i1 = i2
    BY <1>1, LinkedOnce
  <2>2. ms = GoneLinks(mu0[m], start, removed)
    BY <1>5 DEF GoneModels, GoneLinks
  <2> HIDE DEF ms
  <2> QED BY <2>1, <2>2, LinksShrunk
<1>10. ms \subseteq DOMAIN ns
  <2>1. \A i \in DOMAIN ns[m].children : ns[m].children[i] \in DOMAIN ns
    BY DEF NodesOK
  <2> QED BY <2>1 DEF GoneModels, GonePositions
<1>11. ms \subseteq Links(mu0)[m]
  <2> DEFINE es == mu0[m]
             cs == Tree!Linked(es, Positions(es))
  <2>1. es \in Seq(Entries) /\ Positions(es) = 0..(Len(es) - 1)
    BY <1>1 DEF MenusOK, Positions
  <2>2. \A i : i \in DOMAIN cs <=> i \in Positions(es) /\ i \in 0..(Len(es) - 1) /\ LinkOf[es[i + 1]] # NoModel
    BY LinkedAt
  <2>3. \A i \in DOMAIN cs : cs[i] = LinkOf[es[i + 1]]
    BY LinkedAt
  <2>4. \A c : c \in Tree!LinksOf(es) <=> \E i \in 0..(Len(es) - 1) : LinkOf[es[i + 1]] = c /\ c # NoModel
    BY <2>1, LinksAt
  <2>5. ms \subseteq {cs[i] : i \in DOMAIN cs}
    BY <1>5 DEF GoneModels, GonePositions
  <2> HIDE DEF ms, es, cs
  <2>6. \A i \in DOMAIN cs : cs[i] \in Tree!LinksOf(es)
    BY <2>2, <2>3, <2>4
  <2> QED BY <1>8, <2>5, <2>6 DEF es
<1> HIDE DEF ms
<1>12. dead = UNION {Tree!Below(Links(mu0), q) : q \in ms}
  <2>1. \A q \in ms : Tree!Below(NodeLinks(ns), q) = Tree!Below(Links(mu0), q)
    BY <1>5, <1>10, SameLinks
  <2> QED BY <2>1 DEF dead, Dead
<1>13. /\ \A j1, j2 \in Models : \A k \in Links(mu0)[j1] \cap Links(mu0)[j2] : j1 = j2
       /\ \A j \in Models : r \notin Links(mu0)[j]
  BY OneParent
<1>14. Tree!Below(Links(mu), r) = Tree!Below(Links(mu0), r) \ UNION {Tree!Below(Links(mu0), q) : q \in ms}
  <2> DEFINE l1 == Links(mu0)
             l2 == Links(mu)
  <2>1. /\ l1 \in [Models -> SUBSET Models] /\ l2 \in [Models -> SUBSET Models]
        /\ m \in Tree!Below(l1, r) /\ ms \in SUBSET l1[m] /\ l2[m] = l1[m] \ ms
        /\ \A j \in Models \ {m} : l2[j] = l1[j]
    BY <1>5, <1>8, <1>9, <1>11
  <2>2. /\ \A j1, j2 \in Models : \A k \in l1[j1] \cap l1[j2] : j1 = j2
        /\ \A j \in Models : r \notin l1[j]
    BY <1>13
  <2> HIDE DEF l1, l2
  <2>3. Tree!Below(l2, r) = Tree!Below(l1, r) \ UNION {Tree!Below(l1, q) : q \in ms}
    BY <1>1, <2>1, <2>2, BelowCut
  <2> QED BY <2>3 DEF l1, l2
<1>15. DOMAIN rem = Tree!Below(Links(mu), r)
  BY <1>4, <1>5, <1>12, <1>14
<1>16. Mirrors(rem, mu, r)
  BY <1>1, <1>7, <1>15 DEF Mirrors
<1> QED BY <1>16 DEF rem

-----------------------------------------------------------------------------
(* What a view knows, and the nodes, at the ends of a change.              *)

\* The rows are those of the menu, or of before a change that is pending.
LEMMA RowMenusAt ==
  /\ RowMenus = [k \in Models |-> RowMenus[k]]
  /\ \A k \in Models :
       RowMenus[k] = IF op # NoOp /\ op.model = k /\ op.pos # -1 THEN op.was ELSE menu[k]
BY DEF RowMenus, Tree!Rows, Tree!Pending

LEMMA NoChangeRows ==
  ASSUME menu \in [Models -> Seq(Entries)], op # NoOp => op.pos = -1
  PROVE  RowMenus = menu
<1>1. RowMenus = [k \in Models |-> RowMenus[k]] /\ \A k \in Models : RowMenus[k] = menu[k]
  BY RowMenusAt
<1> QED BY <1>1

\* Only the sizes of nodes matter.
LEMMA SameSizes ==
  ASSUME NEW ns, NEW sizes, NodesOK(ns, sizes), NEW sizes2, \A k \in DOMAIN ns : sizes2[k] = sizes[k]
  PROVE  NodesOK(ns, sizes2)
BY DEF NodesOK

\* The root is a menu of a service, if there is one.
LEMMA RootTyped ==
  ASSUME ProxyOK
  PROVE  /\ RootOf(proxy) \in Roots \cup {NoModel}
         /\ Roots \subseteq Models /\ NoModel \notin Models
<1>1. Roots \subseteq Models /\ NoModel \notin Models
  BY MenuAssumption DEF Tree!TreeAssumption
<1> QED BY <1>1 DEF RootOf, Roots, ProxyOK

\* The numbers of rows at first, when what was added is there and at the end.
LEMMA ChangeOK ==
  ASSUME TreeInv, op # NoOp, op.pos # -1
  PROVE  NodesOK(Tree!Change(nodes, menu, op.model, op.pos, op.added, op.removed), Sizes(menu))
<1> DEFINE m == op.model
           pos == op.pos
           added == op.added
           removed == op.removed
           grown == IF added > 0 THEN Tree!Inserted(nodes, menu, m, pos, added) ELSE nodes
           s0 == Sizes(RowMenus)
           s1 == [k \in Models |-> IF k = m THEN Len(op.was) + added ELSE Len(menu[k])]
           s2 == Sizes(menu)
<1>1. /\ m \in DOMAIN nodes /\ DOMAIN nodes \subseteq Models /\ m \in Models
      /\ Spliced(menu[m], op.was, pos, removed, added)
      /\ NewUnlinked(nodes, menu, menu[m], pos, added)
      /\ NodesOK(nodes, s0)
  BY DEF TreeInv, OpOK, NodesOK
<1>2. /\ op.was \in Seq(Entries) /\ menu[m] \in Seq(Entries)
      /\ pos \in Nat /\ removed \in Nat /\ added \in Nat
      /\ pos + removed <= Len(op.was) /\ Len(menu[m]) = Len(op.was) - removed + added
  BY <1>1 DEF Spliced
<1>3. Len(op.was) \in Nat /\ Len(menu[m]) \in Nat
  BY <1>2, LenProperties
<1>4. /\ \A k \in Models : s0[k] = IF k = m THEN Len(op.was) ELSE Len(menu[k])
      /\ \A k \in Models : s1[k] = IF k = m THEN Len(op.was) + added ELSE Len(menu[k])
      /\ \A k \in Models : s2[k] = IF k = m THEN Len(op.was) - removed + added ELSE Len(menu[k])
  <2>1. \A k \in Models : RowMenus[k] = IF k = m THEN op.was ELSE menu[k]
    BY RowMenusAt
  <2>2. \A k \in Models : s0[k] = Len(RowMenus[k])
    BY DEF Sizes
  <2>3. \A k \in Models : s2[k] = Len(menu[k])
    BY DEF Sizes
  <2> HIDE DEF s0, s2
  <2> QED BY <1>2, <2>1, <2>2, <2>3
<1> HIDE DEF s0, s1, s2
<1>5. NodesOK(grown, s1) /\ m \in DOMAIN grown /\ DOMAIN grown \subseteq Models
  <2>1. CASE added > 0
    <3> DEFINE ins == Tree!Inserted(nodes, menu, m, pos, added)
    <3>1. pos + added <= Len(menu[m]) /\ s0[m] \in Nat /\ pos <= s0[m]
      BY <1>1, <1>2, <1>3, <1>4
    <3>2. s1[m] = s0[m] + added
      BY <1>1, <1>4
    <3>3. \A k \in DOMAIN nodes \ {m} : s1[k] = s0[k]
      BY <1>1, <1>4
    <3>4. \A k \in Models \ DOMAIN nodes : s1[k] = Len(menu[k])
      BY <1>1, <1>4
    <3>5. MenusOK(menu)
      BY DEF TreeInv
    <3> HIDE DEF m, pos, added
    <3>6. NodesOK(ins, s1)
      BY <1>1, <1>2, <3>1, <3>2, <3>3, <3>4, <3>5, InsertedOK
    <3>7. Insertion(ins, nodes, menu, m, pos, added, NewLinks(menu, m, pos, added),
                    NewModels(menu, m, pos, added), Tree!NewNodes(menu, NewModels(menu, m, pos, added)))
      BY <1>1, <1>2, <3>1, <3>5, InsertedNodes
    <3> HIDE DEF ins
    <3>8. m \in DOMAIN ins
      BY <1>1, <3>7 DEF Insertion
    <3>9. grown = ins
      BY <2>1 DEF ins
    <3>10. DOMAIN ins \subseteq Models
      BY <3>6 DEF NodesOK
    <3> QED BY <3>6, <3>8, <3>9, <3>10
  <2>2. CASE ~(added > 0)
    <3>1. grown = nodes /\ added = 0
      BY <1>2, <2>2
    <3>2. \A k \in DOMAIN nodes : s1[k] = s0[k]
      BY <1>1, <1>3, <1>4, <3>1
    <3> HIDE DEF grown
    <3> QED BY <1>1, <3>1, <3>2, SameSizes
  <2> QED BY <2>1, <2>2
<1> HIDE DEF grown
<1>6. Tree!Change(nodes, menu, m, pos, added, removed)
        = IF removed > 0 THEN Tree!Removed(grown, m, pos, removed) ELSE grown
  BY DEF Tree!Change, grown
<1>7. CASE removed > 0
  <2>1. s1[m] \in Nat /\ pos + removed <= s1[m] /\ s2[m] = s1[m] - removed
    BY <1>1, <1>2, <1>3, <1>4
  <2>2. \A k \in DOMAIN grown \ {m} : s2[k] = s1[k]
    BY <1>4, <1>5
  <2>3. NodesOK(Tree!Removed(grown, m, pos, removed), s2)
    <3> HIDE DEF m, pos, removed
    <3> QED BY <1>2, <1>5, <2>1, <2>2, RemovedOK
  <2> QED BY <1>6, <1>7, <2>3 DEF s2
<1>8. CASE ~(removed > 0)
  <2>1. removed = 0
    BY <1>2, <1>8
  <2>2. \A k \in DOMAIN grown : s2[k] = s1[k]
    BY <1>2, <1>3, <1>4, <1>5, <2>1
  <2>3. NodesOK(grown, s2)
    BY <1>5, <2>2, SameSizes
  <2> QED BY <1>6, <1>8, <2>3 DEF s2
<1> QED BY <1>7, <1>8

\* After a tidy change, the tree is that of the menu again.
LEMMA ChangeMirrors ==
  ASSUME TreeInv, op # NoOp, op.pos # -1, tidy
  PROVE  Mirrors(Tree!Change(nodes, menu, op.model, op.pos, op.added, op.removed), menu, RootOf(proxy))
<1> DEFINE m == op.model
           pos == op.pos
           added == op.added
           removed == op.removed
           r == RootOf(proxy)
           mu0 == RowMenus
           next == Tree!Change(nodes, menu, m, pos, added, removed)
<1>1. /\ m \in DOMAIN nodes /\ m \in Models
      /\ Spliced(menu[m], op.was, pos, removed, added)
      /\ NewUnlinked(nodes, menu, menu[m], pos, added)
      /\ NodesOK(nodes, Sizes(mu0)) /\ MenusOK(menu) /\ MenusOK(mu0)
      /\ Tree!Tidy(op.was, pos, removed, added) /\ Mirrors(nodes, mu0, r)
  BY DEF TreeInv, OpOK, NodesOK
<1>2. pos \in Nat /\ removed \in Nat /\ added \in Nat /\ removed + added > 0
  BY <1>1 DEF Spliced
<1>3. mu0[m] = op.was /\ \A k \in Models \ {m} : menu[k] = mu0[k]
  BY <1>1, RowMenusAt
<1>4. r \in Roots
  <2>1. r # NoModel
    BY <1>1 DEF Mirrors
  <2> QED BY <2>1, RootTyped DEF TreeInv
<1>5. /\ added > 0 /\ ~(removed > 0) => next = Tree!Inserted(nodes, menu, m, pos, added)
      /\ ~(added > 0) /\ removed > 0 => next = Tree!Removed(nodes, m, pos, removed)
  BY DEF Tree!Change
<1> HIDE DEF m, pos, added, removed, r, mu0, next
<1>6. CASE removed = 0
  <2>1. next = Tree!Inserted(nodes, menu, m, pos, added)
    BY <1>2, <1>5, <1>6
  <2>2. Spliced(menu[m], mu0[m], pos, 0, added)
    BY <1>1, <1>3, <1>6
  <2>3. Mirrors(next, menu, r)
    BY <1>1, <1>3, <1>4, <2>1, <2>2, InsertedMirrors
  <2> QED BY <2>3 DEF next, m, pos, added, removed, r
<1>7. CASE added = 0 /\ ~Tree!IsLink(op.was, pos + removed)
  <2>1. next = Tree!Removed(nodes, m, pos, removed)
    BY <1>2, <1>5, <1>7
  <2>2. Spliced(menu[m], mu0[m], pos, removed, 0) /\ ~Tree!IsLink(mu0[m], pos + removed)
    BY <1>1, <1>3, <1>7
  <2>3. Mirrors(next, menu, r)
    BY <1>1, <1>3, <1>4, <2>1, <2>2, RemovedMirrors
  <2> QED BY <2>3 DEF next, m, pos, added, removed, r
<1> QED BY <1>1, <1>6, <1>7 DEF Tree!Tidy

-----------------------------------------------------------------------------
(* The steps.                                                              *)

\* The commit of a change.
LEMMA EndSignalStep ==
  ASSUME TreeInv, Tree!EndSignal, UNCHANGED proxy
  PROVE  TreeInv'
<1>1. /\ op # NoOp /\ op \in Tree!Ops /\ op.signals # <<>>
      /\ nodes' = Tree!Change(nodes, menu, op.model, op.pos, op.added, op.removed)
      /\ op' = IF Len(op.signals) = 1 THEN NoOp
               ELSE [op EXCEPT !.pos = -1, !.added = 0, !.removed = 0, !.signals = Tail(@)]
      /\ menu' = menu /\ tidy' = tidy /\ proxy' = proxy
  BY DEF Tree!EndSignal, TreeInv, OpOK
<1> DEFINE Kind == [kind : {"insert", "remove"}, first : Nat, last : Nat]
<1>2. op' # NoOp =>
        /\ op' \in Tree!Ops /\ op'.signals # <<>>
        /\ op'.pos = -1 /\ op'.added = 0 /\ op'.removed = 0
  <2> SUFFICES ASSUME op' # NoOp
               PROVE  /\ op' \in Tree!Ops /\ op'.signals # <<>>
                      /\ op'.pos = -1 /\ op'.added = 0 /\ op'.removed = 0
    OBVIOUS
  <2>1. op' = [op EXCEPT !.pos = -1, !.added = 0, !.removed = 0, !.signals = Tail(op.signals)]
    BY <1>1
  <2>2. op.signals \in Seq(Kind)
    BY <1>1 DEF Tree!Ops
  <2> HIDE DEF Kind
  <2>3. Len(op.signals) # 1
    BY <1>1
  <2>4. Tail(op.signals) \in Seq(Kind) /\ Len(Tail(op.signals)) = Len(op.signals) - 1
    BY <1>1, <2>2, HeadTailProperties
  <2>5. Len(op.signals) \in Nat
    BY <2>2, LenProperties
  <2> DEFINE rest == Tail(op.signals)
  <2>6. rest # <<>>
    <3> SUFFICES ASSUME rest = <<>> PROVE FALSE
      OBVIOUS
    <3>1. rest \in Seq(Kind) /\ Len(rest) = Len(op.signals) - 1
      BY <2>4
    <3> HIDE DEF rest
    <3>2. Len(op.signals) - 1 = 0
      BY <3>1, EmptySeq
    <3> QED BY <2>3, <2>5, <3>2
  <2>7. op' = [model |-> op.model, pos |-> -1, added |-> 0, removed |-> 0, was |-> op.was, signals |-> rest]
    BY <1>1, <2>1 DEF Tree!Ops
  <2>8. op.model \in Models /\ op.was \in Seq(Entries) /\ rest \in Seq(Kind)
    BY <1>1, <2>4 DEF Tree!Ops
  <2> HIDE DEF rest
  <2>9. op' \in Tree!Ops
    BY <2>7, <2>8 DEF Tree!Ops, Kind
  <2> QED BY <2>6, <2>7, <2>9
<1>3. MenusOK(menu)' /\ ProxyOK' /\ tidy' \in BOOLEAN /\ MenusOK(menu) /\ menu \in [Models -> Seq(Entries)]
  BY <1>1 DEF TreeInv, MenusOK, ProxyOK
<1>4. RowMenus' = menu
  <2>1. /\ RowMenus' = [k \in Models |-> RowMenus'[k]]
        /\ \A k \in Models :
             RowMenus'[k] = IF op' # NoOp /\ op'.model = k /\ op'.pos # -1 THEN op'.was ELSE menu'[k]
    BY DEF RowMenus, Tree!Rows, Tree!Pending
  <2>2. \A k \in Models : RowMenus'[k] = menu[k]
    BY <1>1, <1>2, <2>1
  <2> QED BY <1>3, <2>1, <2>2
<1>5. OpOK'
  BY <1>2 DEF OpOK
<1>6. NodesOK(nodes', Sizes(menu)) /\ (tidy => Mirrors(nodes', menu, RootOf(proxy)))
  <2>1. CASE op.pos = -1
    <3>1. op.added = 0 /\ op.removed = 0
      BY <1>1, <2>1 DEF TreeInv, OpOK
    <3>2. nodes' = nodes
      BY <1>1, <3>1 DEF Tree!Change
    <3>3. RowMenus = menu
      BY <1>3, <2>1, NoChangeRows
    <3> QED BY <3>2, <3>3 DEF TreeInv
  <2>2. CASE op.pos # -1
    BY <1>1, <2>2, ChangeOK, ChangeMirrors
  <2> QED BY <2>1, <2>2
<1>7. NodesOK(nodes, Sizes(RowMenus))' /\ (tidy => Mirrors(nodes, RowMenus, RootOf(proxy)))'
  <2>1. Sizes(RowMenus)' = Sizes(menu)
    BY <1>4 DEF Sizes
  <2>2. NodesOK(nodes, Sizes(RowMenus))' <=> NodesOK(nodes', Sizes(RowMenus)')
    BY DEF NodesOK
  <2>3. Mirrors(nodes, RowMenus, RootOf(proxy))' <=> Mirrors(nodes', RowMenus', RootOf(proxy)')
    BY DEF Mirrors
  <2>4. RootOf(proxy)' = RootOf(proxy)
    BY <1>1 DEF RootOf
  <2> QED BY <1>1, <1>4, <1>6, <2>1, <2>2, <2>3, <2>4
<1>8. MenusOK(RowMenus)'
  BY <1>1, <1>3, <1>4 DEF MenusOK
<1> QED BY <1>3, <1>5, <1>7, <1>8 DEF TreeInv

\* setMenuModel makes the tree of the menu that it is given.
LEMMA SetMenuModelStep ==
  ASSUME TreeInv, Tree!SetMenuModel(RootOf(proxy')), ProxyOK'
  PROVE  TreeInv'
<1> DEFINE r == RootOf(proxy')
<1>1. /\ op = NoOp /\ op' = NoOp /\ menu' = menu /\ tidy' = TRUE
      /\ nodes' = IF r = NoModel THEN <<>> ELSE Tree!NewNodes(menu, {r})
  BY DEF Tree!SetMenuModel
<1>2. r \in Roots \cup {NoModel} /\ Roots \subseteq Models
  <2>1. Roots \subseteq Models
    BY MenuAssumption DEF Tree!TreeAssumption
  <2> QED BY <2>1 DEF RootOf, Roots, ProxyOK
<1>3. MenusOK(menu) /\ menu \in [Models -> Seq(Entries)]
  BY DEF TreeInv, MenusOK
<1> HIDE DEF r
<1>4. RowMenus' = menu
  <2>1. /\ RowMenus' = [k \in Models |-> RowMenus'[k]]
        /\ \A k \in Models :
             RowMenus'[k] = IF op' # NoOp /\ op'.model = k /\ op'.pos # -1 THEN op'.was ELSE menu'[k]
    BY DEF RowMenus, Tree!Rows, Tree!Pending
  <2>2. \A k \in Models : RowMenus'[k] = menu[k]
    BY <1>1, <2>1
  <2> QED BY <1>3, <2>1, <2>2
<1>5. NodesOK(nodes', Sizes(menu)) /\ Mirrors(nodes', menu, r)
  <2>1. CASE r = NoModel
    <3>1. nodes' = <<>> /\ DOMAIN nodes' = {}
      BY <1>1, <2>1
    <3> QED BY <2>1, <3>1 DEF NodesOK, Mirrors
  <2>2. CASE r # NoModel
    <3>1. {r} \in SUBSET Models /\ nodes' = Tree!NewNodes(menu, {r})
      BY <1>1, <1>2, <2>2
    <3>2. /\ DOMAIN nodes' = UNION {Tree!Below(Links(menu), k) : k \in {r}}
          /\ \A k \in DOMAIN nodes' : nodes'[k].children = Tree!Linked(menu[k], Positions(menu[k]))
      BY <1>3, <3>1, NodesMade
    <3>3. DOMAIN nodes' = Tree!Below(Links(menu), r)
      BY <3>2
    <3>4. NodesOK(nodes', Sizes(menu))
      BY <1>3, <3>1, MadeOK
    <3> QED BY <2>2, <3>2, <3>3, <3>4 DEF Mirrors
  <2> QED BY <2>1, <2>2
<1>6. NodesOK(nodes, Sizes(RowMenus))' /\ Mirrors(nodes, RowMenus, RootOf(proxy))'
  <2>1. Sizes(RowMenus)' = Sizes(menu)
    BY <1>4 DEF Sizes
  <2>2. NodesOK(nodes, Sizes(RowMenus))' <=> NodesOK(nodes', Sizes(RowMenus)')
    BY DEF NodesOK
  <2>3. Mirrors(nodes, RowMenus, RootOf(proxy))' <=> Mirrors(nodes', RowMenus', RootOf(proxy)')
    BY DEF Mirrors
  <2>4. RootOf(proxy)' = r
    BY DEF RootOf, r
  <2> QED BY <1>4, <1>5, <2>1, <2>2, <2>3, <2>4
<1>7. MenusOK(menu)' /\ MenusOK(RowMenus)'
  BY <1>1, <1>3, <1>4 DEF MenusOK
<1>8. OpOK'
  BY <1>1 DEF OpOK
<1> QED BY <1>1, <1>6, <1>7, <1>8 DEF TreeInv

\* What a peer may do: add new entries, each once, or none, at a position.
LEMMA ChangedMenus ==
  ASSUME MenusOK(menu), NEW m \in Models, NEW pos \in 0..Len(menu[m]),
         NEW removed \in 0..(Len(menu[m]) - pos), NEW es \in Batches[m] \cup {<<>>},
         Tree!ItemsChanged(m, pos, removed, es)
  PROVE  /\ es \in Seq(Entries) /\ pos \in Nat /\ removed \in Nat /\ Len(es) \in Nat
         /\ menu' = [menu EXCEPT ![m] = Splice(menu[m], pos, removed, es)]
         /\ menu'[m] = Splice(menu[m], pos, removed, es)
         /\ \A k \in Models \ {m} : menu'[k] = menu[k]
         /\ MenusOK(menu') /\ Spliced(menu'[m], menu[m], pos, removed, Len(es))
         /\ \A i \in (pos + 1)..(pos + Len(es)) : menu'[m][i] \in Tree!ToSet(es)
<1>1. menu \in [Models -> Seq(Entries)] /\ menu[m] \in Seq(Entries)
  BY DEF MenusOK
<1>2. es \in Seq(Entries) /\ Tree!IsInjective(es)
  <2>1. CASE es \in Batches[m]
    <3>1. Batches[m] \subseteq {s \in Seq(Entries) : Tree!IsInjective(s)}
      BY MenuAssumption DEF Tree!TreeAssumption
    <3> QED BY <2>1, <3>1
  <2>2. CASE es = <<>>
    BY <2>2 DEF Tree!IsInjective
  <2> QED BY <2>1, <2>2
<1>3. pos \in Nat /\ removed \in Nat /\ Len(es) \in Nat
  <2>1. Len(menu[m]) \in Nat /\ Len(es) \in Nat
    BY <1>1, <1>2, LenProperties
  <2> QED BY <2>1
<1>4. /\ pos + removed <= Len(menu[m]) /\ removed + Len(es) > 0
      /\ menu' = [menu EXCEPT ![m] = Splice(menu[m], pos, removed, es)]
      /\ Tree!Fresh(es)
  BY DEF Tree!ItemsChanged, Splice
<1>5. \A k \in Models : Tree!ToSet(es) \cap Tree!ToSet(menu[k]) = {}
  BY <1>4 DEF Tree!Fresh, Tree!InUse
<1> DEFINE after == Splice(menu[m], pos, removed, es)
<1>6. MenusOK([menu EXCEPT ![m] = after]) /\ Spliced(after, menu[m], pos, removed, Len(es))
  BY <1>2, <1>3, <1>4, <1>5, SpliceOnce
<1>7. Goes(after, menu[m], pos, removed, es, Len(menu[m]), Len(es))
  BY <1>1, <1>2, <1>3, <1>4, SpliceEntries
<1> HIDE DEF after
<1>8. menu'[m] = after /\ \A k \in Models \ {m} : menu'[k] = menu[k]
  BY <1>1, <1>4 DEF after
<1>9. ASSUME NEW i \in (pos + 1)..(pos + Len(es)) PROVE after[i] \in Tree!ToSet(es)
  <2>1. PICK j \in 1..Len(es) : i = pos + j
    <3>1. i - pos \in 1..Len(es) /\ i = pos + (i - pos)
      BY <1>3
    <3> QED BY <3>1
  <2>2. after[pos + j] = es[j]
    BY <1>7, <2>1 DEF Goes
  <2>3. es[j] \in Tree!ToSet(es)
    BY <1>2, <2>1 DEF Tree!ToSet
  <2> QED BY <2>1, <2>2, <2>3
<1>10. MenusOK(menu') /\ Spliced(menu'[m], menu[m], pos, removed, Len(es))
  BY <1>4, <1>6, <1>8 DEF after
<1> QED BY <1>2, <1>3, <1>4, <1>8, <1>9, <1>10 DEF after

\* The signals of a change that adds or removes something.
LEMMA SignalsTyped ==
  ASSUME NEW pos \in Nat, NEW added \in Nat, NEW removed \in Nat, removed + added > 0
  PROVE  LET signals == Tree!Signals(Tree!MenuNodeItemChangeEvent(pos, added, removed)) IN
         /\ signals \in Seq([kind : {"insert", "remove"}, first : Nat, last : Nat])
         /\ signals # <<>>
<1> DEFINE Kind == [kind : {"insert", "remove"}, first : Nat, last : Nat]
           s == <<[kind |-> "remove", first |-> pos, last |-> pos + added - 1]>>
           t == <<[kind |-> "insert", first |-> pos, last |-> pos + removed - 1]>>
           a == IF added > 0 THEN s ELSE <<>>
           b == IF removed > 0 THEN t ELSE <<>>
<1>1. Tree!Signals(Tree!MenuNodeItemChangeEvent(pos, added, removed)) = a \o b
  BY DEF Tree!Signals, Tree!MenuNodeItemChangeEvent, Tree!RowSignal
<1>2. a \in Seq(Kind) /\ (added > 0 => Len(a) = 1) /\ Len(a) \in Nat
  <2>1. CASE added > 0
    <3>1. [kind |-> "remove", first |-> pos, last |-> pos + added - 1] \in Kind
      BY <2>1
    <3> HIDE DEF Kind
    <3>2. s \in Seq(Kind) /\ Len(s) = 1
      BY <3>1
    <3> QED BY <2>1, <3>2
  <2>2. CASE ~(added > 0)
    BY <2>2
  <2> QED BY <2>1, <2>2
<1>3. b \in Seq(Kind) /\ (removed > 0 => Len(b) = 1) /\ Len(b) \in Nat
  <2>1. CASE removed > 0
    <3>1. [kind |-> "insert", first |-> pos, last |-> pos + removed - 1] \in Kind
      BY <2>1
    <3> HIDE DEF Kind
    <3>2. t \in Seq(Kind) /\ Len(t) = 1
      BY <3>1
    <3> QED BY <2>1, <3>2
  <2>2. CASE ~(removed > 0)
    BY <2>2
  <2> QED BY <2>1, <2>2
<1> HIDE DEF a, b, Kind
<1>4. a \o b \in Seq(Kind) /\ Len(a \o b) = Len(a) + Len(b)
  BY <1>2, <1>3, ConcatProperties
<1>5. Len(a \o b) > 0
  BY <1>2, <1>3, <1>4
<1>6. a \o b # <<>>
  BY <1>4, <1>5, EmptySeq
<1> QED BY <1>1, <1>4, <1>6 DEF Kind

\* The menu of a model with a node changes: a view does not know yet.
LEMMA NodeChanged ==
  ASSUME TreeInv, NEW m \in DOMAIN nodes, NEW pos \in 0..Len(menu[m]),
         NEW removed \in 0..(Len(menu[m]) - pos), NEW es \in Batches[m] \cup {<<>>},
         Tree!ItemsChanged(m, pos, removed, es)
  PROVE  OpOK' /\ RowMenus' = menu /\ (tidy' => tidy) /\ tidy' \in BOOLEAN
<1> DEFINE change == [model |-> m, pos |-> pos, added |-> Len(es), removed |-> removed, was |-> menu[m],
                      signals |-> Tree!Signals(Tree!MenuNodeItemChangeEvent(pos, Len(es), removed))]
<1>1. /\ m \in Models /\ op = NoOp /\ nodes' = nodes /\ op' = change /\ Tree!Fresh(es)
      /\ tidy' = (tidy /\ Tree!Tidy(menu[m], pos, removed, Len(es))) /\ removed + Len(es) > 0
  BY DEF Tree!ItemsChanged, TreeInv, NodesOK
<1>2. /\ MenusOK(menu) /\ menu \in [Models -> Seq(Entries)] /\ menu[m] \in Seq(Entries)
      /\ tidy \in BOOLEAN
  BY <1>1 DEF TreeInv, MenusOK
<1>3. /\ es \in Seq(Entries) /\ pos \in Nat /\ removed \in Nat /\ Len(es) \in Nat
      /\ \A k \in Models \ {m} : menu'[k] = menu[k]
      /\ MenusOK(menu') /\ Spliced(menu'[m], menu[m], pos, removed, Len(es))
      /\ \A i \in (pos + 1)..(pos + Len(es)) : menu'[m][i] \in Tree!ToSet(es)
  BY <1>1, <1>2, ChangedMenus
<1>4. tidy' \in BOOLEAN
  BY <1>1
<1>5. op' \in Tree!Ops /\ op'.signals # <<>> /\ op' # NoOp
  <2> DEFINE signals == Tree!Signals(Tree!MenuNodeItemChangeEvent(pos, Len(es), removed))
             n == Len(es)
  <2>1. /\ signals \in Seq([kind : {"insert", "remove"}, first : Nat, last : Nat])
        /\ signals # <<>>
    BY <1>1, <1>3, SignalsTyped
  <2>2. op' = [model |-> m, pos |-> pos, added |-> n, removed |-> removed, was |-> menu[m],
               signals |-> signals]
    BY <1>1
  <2>3. n \in Nat
    BY <1>3
  <2> HIDE DEF signals, n
  <2>4. op' \in Tree!Ops
    BY <1>1, <1>2, <1>3, <2>1, <2>2, <2>3 DEF Tree!Ops
  <2>5. NoOp \notin Tree!Ops
    BY MenuAssumption DEF Tree!TreeAssumption
  <2> QED BY <2>1, <2>2, <2>4, <2>5
<1>6. /\ op'.model = m /\ op'.pos = pos /\ op'.added = Len(es) /\ op'.removed = removed
      /\ op'.was = menu[m] /\ op'.pos # -1
  BY <1>1, <1>3
<1>7. RowMenus' = menu
  <2>1. /\ RowMenus' = [k \in Models |-> RowMenus'[k]]
        /\ \A k \in Models :
             RowMenus'[k] = IF op' # NoOp /\ op'.model = k /\ op'.pos # -1 THEN op'.was ELSE menu'[k]
    BY DEF RowMenus, Tree!Rows, Tree!Pending
  <2>2. \A k \in Models : RowMenus'[k] = menu[k]
    BY <1>3, <1>5, <1>6, <2>1
  <2> QED BY <1>2, <2>1, <2>2
<1>8. NewUnlinked(nodes, menu', menu'[m], pos, Len(es))
  <2> SUFFICES ASSUME NEW i \in (pos + 1)..(pos + Len(es)), LinkOf[menu'[m][i]] # NoModel
               PROVE  Tree!MenuBelow(menu', LinkOf[menu'[m][i]]) \cap DOMAIN nodes = {}
    BY DEF NewUnlinked
  <2>1. PICK e \in Tree!ToSet(es) : e = menu'[m][i]
    BY <1>3
  <2>2. e \in Entries
    BY <1>3, <2>1 DEF Tree!ToSet
  <2>3. LinkOf[e] \in Models /\ LinkOf[e] # NoModel
    BY <2>1, <2>2, EntryLinks
  <2>4. Tree!MenuBelow(menu, LinkOf[e]) \cap DOMAIN nodes = {}
    BY <1>1, <2>3 DEF Tree!Fresh
  <2>5. /\ Tree!MenuBelow(menu, LinkOf[e]) = Tree!Below(Links(menu), LinkOf[e])
        /\ Tree!MenuBelow(menu', LinkOf[e]) = Tree!Below(Links(menu'), LinkOf[e])
    BY DEF Tree!MenuBelow, Links
  <2>6. Links(menu) \in [Models -> SUBSET Models] /\ \A k \in Models : Links(menu)[k] = Tree!LinksOf(menu[k])
    BY <1>2, LinksTyped
  <2>7. Links(menu') \in [Models -> SUBSET Models] /\ \A k \in Models : Links(menu')[k] = Tree!LinksOf(menu'[k])
    BY <1>3, LinksTyped DEF MenusOK
  <2>8. Tree!Below(Links(menu), LinkOf[e]) \subseteq Models
    BY <2>3, <2>6, BelowClosed
  <2>9. \A k \in Tree!Below(Links(menu), LinkOf[e]) : Links(menu)[k] = Links(menu')[k]
    BY <1>3, <2>4, <2>5, <2>6, <2>7, <2>8
  <2>10. Tree!Below(Links(menu), LinkOf[e]) = Tree!Below(Links(menu'), LinkOf[e])
    BY <2>3, <2>6, <2>7, <2>9, BelowAgrees
  <2> QED BY <2>1, <2>4, <2>5, <2>10
<1>9. OpOK'
  <2>1. tidy' => Tree!Tidy(menu[m], pos, removed, Len(es))
    BY <1>1
  <2>2. Tree!Tidy(op.was, op.pos, op.removed, op.added)' <=> Tree!Tidy(op'.was, op'.pos, op'.removed, op'.added)
    BY DEF Tree!Tidy, Tree!IsLink
  <2>3. NewUnlinked(nodes, menu, menu[op.model], op.pos, op.added)'
          <=> NewUnlinked(nodes', menu', menu'[op'.model], op'.pos, op'.added)
    BY DEF NewUnlinked, Tree!MenuBelow, Tree!Below, Tree!LinksOf, Tree!ToSet
  <2>4. Spliced(menu[op.model], op.was, op.pos, op.removed, op.added)'
          <=> Spliced(menu'[op'.model], op'.was, op'.pos, op'.removed, op'.added)
    BY DEF Spliced, Tree!ToSet
  <2>5. (op \in Tree!Ops)' <=> op' \in Tree!Ops
    BY DEF Tree!Ops
  <2> QED BY <1>1, <1>3, <1>5, <1>6, <1>8, <2>1, <2>2, <2>3, <2>4, <2>5 DEF OpOK
<1> QED BY <1>1, <1>4, <1>7, <1>9

\* The menu of a model without a node is none of those that are shown.
LEMMA OtherChanged ==
  ASSUME TreeInv, NEW m \in Models \ DOMAIN nodes, NEW pos \in 0..Len(menu[m]),
         NEW removed \in 0..(Len(menu[m]) - pos), NEW es \in Batches[m] \cup {<<>>},
         Tree!ItemsChanged(m, pos, removed, es)
  PROVE  /\ op' = NoOp /\ tidy' = tidy /\ RowMenus' = menu'
         /\ NodesOK(nodes, Sizes(menu'))
         /\ tidy => Mirrors(nodes, menu', RootOf(proxy))
<1>1. op = NoOp /\ nodes' = nodes /\ op' = op /\ tidy' = tidy
  BY DEF Tree!ItemsChanged
<1>2. MenusOK(menu) /\ menu \in [Models -> Seq(Entries)] /\ DOMAIN nodes \subseteq Models
  BY DEF TreeInv, MenusOK, NodesOK
<1>3. (\A k \in Models \ {m} : menu'[k] = menu[k]) /\ MenusOK(menu') /\ menu' \in [Models -> Seq(Entries)]
  BY <1>2, ChangedMenus DEF MenusOK
<1>4. RowMenus = menu
  BY <1>1, <1>2, NoChangeRows
<1>5. RowMenus' = menu'
  <2>1. /\ RowMenus' = [k \in Models |-> RowMenus'[k]]
        /\ \A k \in Models :
             RowMenus'[k] = IF op' # NoOp /\ op'.model = k /\ op'.pos # -1 THEN op'.was ELSE menu'[k]
    BY DEF RowMenus, Tree!Rows, Tree!Pending
  <2>2. \A k \in Models : RowMenus'[k] = menu'[k]
    BY <1>1, <2>1
  <2> QED BY <1>3, <2>1, <2>2
<1>6. NodesOK(nodes, Sizes(menu'))
  <2>1. NodesOK(nodes, Sizes(menu))
    BY <1>4 DEF TreeInv
  <2>2. \A k \in DOMAIN nodes : Sizes(menu')[k] = Sizes(menu)[k]
    BY <1>2, <1>3 DEF Sizes
  <2> QED BY <2>1, <2>2, SameSizes
<1>7. ASSUME tidy PROVE Mirrors(nodes, menu', RootOf(proxy))
  <2> DEFINE r == RootOf(proxy)
  <2>1. Mirrors(nodes, menu, r) /\ ProxyOK
    BY <1>4, <1>7 DEF TreeInv
  <2>2. r \in Roots \cup {NoModel} /\ Roots \subseteq Models
    BY <2>1, RootTyped
  <2> HIDE DEF r
  <2>3. \A k \in DOMAIN nodes : nodes[k].children = Tree!Linked(menu'[k], Positions(menu'[k]))
    BY <1>2, <1>3, <2>1 DEF Mirrors
  <2>4. ASSUME r # NoModel PROVE Tree!Below(Links(menu), r) = Tree!Below(Links(menu'), r)
    <3>1. DOMAIN nodes = Tree!Below(Links(menu), r) /\ r \in Models
      BY <2>1, <2>2, <2>4 DEF Mirrors
    <3>2. Links(menu) \in [Models -> SUBSET Models] /\ \A k \in Models : Links(menu)[k] = Tree!LinksOf(menu[k])
      BY <1>2, LinksTyped
    <3>3. /\ Links(menu') \in [Models -> SUBSET Models]
          /\ \A k \in Models : Links(menu')[k] = Tree!LinksOf(menu'[k])
      BY <1>3, LinksTyped
    <3>4. \A k \in Tree!Below(Links(menu), r) : Links(menu)[k] = Links(menu')[k]
      BY <1>2, <1>3, <3>1, <3>2, <3>3
    <3> QED BY <3>1, <3>2, <3>3, <3>4, BelowAgrees
  <2> QED BY <2>1, <2>3, <2>4 DEF Mirrors, r
<1> QED BY <1>1, <1>5, <1>6, <1>7

\* The peer changes its menus.
LEMMA ItemsChangedStep ==
  ASSUME TreeInv, NEW m \in Models, NEW pos \in 0..Len(menu[m]),
         NEW removed \in 0..(Len(menu[m]) - pos), NEW es \in Batches[m] \cup {<<>>},
         Tree!ItemsChanged(m, pos, removed, es), UNCHANGED proxy
  PROVE  TreeInv'
<1>1. op = NoOp /\ nodes' = nodes /\ proxy' = proxy
  BY DEF Tree!ItemsChanged
<1>2. MenusOK(menu) /\ menu \in [Models -> Seq(Entries)] /\ tidy \in BOOLEAN
  BY DEF TreeInv, MenusOK
<1>3. RowMenus = menu
  BY <1>1, <1>2, NoChangeRows
<1>4. MenusOK(menu)'
  <2>1. MenusOK(menu')
    BY <1>2, ChangedMenus
  <2> QED BY <2>1 DEF MenusOK
<1>5. ProxyOK'
  BY <1>1 DEF TreeInv, ProxyOK
<1>6. /\ OpOK' /\ MenusOK(RowMenus') /\ NodesOK(nodes, Sizes(RowMenus'))
      /\ tidy' \in BOOLEAN /\ (tidy' => Mirrors(nodes, RowMenus', RootOf(proxy)))
  <2>1. CASE m \in DOMAIN nodes
    <3>1. OpOK' /\ RowMenus' = menu /\ (tidy' => tidy) /\ tidy' \in BOOLEAN
      BY <2>1, NodeChanged
    <3> QED BY <1>2, <1>3, <3>1 DEF TreeInv
  <2>2. CASE m \notin DOMAIN nodes
    <3>1. /\ op' = NoOp /\ tidy' = tidy /\ RowMenus' = menu'
          /\ NodesOK(nodes, Sizes(menu'))
          /\ tidy => Mirrors(nodes, menu', RootOf(proxy))
      BY <2>2, OtherChanged
    <3>2. OpOK'
      BY <3>1 DEF OpOK
    <3>3. MenusOK(menu')
      BY <1>2, ChangedMenus
    <3> QED BY <1>2, <3>1, <3>2, <3>3
  <2> QED BY <2>1, <2>2
<1>7. NodesOK(nodes, Sizes(RowMenus))' /\ (tidy => Mirrors(nodes, RowMenus, RootOf(proxy)))'
  <2>1. Sizes(RowMenus)' = Sizes(RowMenus')
    BY DEF Sizes
  <2>2. NodesOK(nodes, Sizes(RowMenus))' <=> NodesOK(nodes', Sizes(RowMenus)')
    BY DEF NodesOK
  <2>3. Mirrors(nodes, RowMenus, RootOf(proxy))' <=> Mirrors(nodes', RowMenus', RootOf(proxy)')
    BY DEF Mirrors
  <2>4. RootOf(proxy)' = RootOf(proxy)
    BY <1>1 DEF RootOf
  <2> QED BY <1>1, <1>6, <2>1, <2>2, <2>3, <2>4
<1>8. MenusOK(RowMenus)'
  BY <1>6 DEF MenusOK
<1> QED BY <1>4, <1>5, <1>6, <1>7, <1>8 DEF TreeInv

\* Nothing that the tree depends on changes.
LEMMA NothingChanged ==
  ASSUME TreeInv, UNCHANGED <<tree, proxy>>
  PROVE  TreeInv'
<1>1. menu' = menu /\ nodes' = nodes /\ op' = op /\ tidy' = tidy /\ proxy' = proxy
  BY DEF tree
<1>2. RowMenus' = RowMenus
  BY <1>1 DEF RowMenus, Tree!Rows, Tree!Pending
<1>3. MenusOK(menu)' /\ MenusOK(RowMenus)' /\ ProxyOK' /\ tidy' \in BOOLEAN
  BY <1>1, <1>2 DEF TreeInv, MenusOK, ProxyOK
<1>4. OpOK'
  BY <1>1 DEF TreeInv, OpOK
<1>5. NodesOK(nodes, Sizes(RowMenus))'
  <2>1. Sizes(RowMenus)' = Sizes(RowMenus)
    BY <1>2 DEF Sizes
  <2>2. NodesOK(nodes, Sizes(RowMenus))' <=> NodesOK(nodes', Sizes(RowMenus)')
    BY DEF NodesOK
  <2> QED BY <1>1, <2>1, <2>2 DEF TreeInv
<1>6. (tidy => Mirrors(nodes, RowMenus, RootOf(proxy)))'
  <2>1. Mirrors(nodes, RowMenus, RootOf(proxy))' <=> Mirrors(nodes', RowMenus', RootOf(proxy)')
    BY DEF Mirrors
  <2>2. RootOf(proxy)' = RootOf(proxy)
    BY <1>1 DEF RootOf
  <2> QED BY <1>1, <1>2, <2>1, <2>2 DEF TreeInv
<1> QED BY <1>3, <1>4, <1>5, <1>6 DEF TreeInv

\* The proxy is used for the rows in the step that changes it.
LEMMA UseMenuStep ==
  ASSUME TreeInv, UseMenu, ProxyOK'
  PROVE  TreeInv'
<1>1. CASE proxy' = proxy
  <2>1. UNCHANGED <<tree, proxy>>
    BY <1>1 DEF UseMenu
  <2> QED BY <2>1, NothingChanged
<1>2. CASE proxy' # proxy
  <2>1. Tree!SetMenuModel(RootOf(proxy'))
    BY <1>2 DEF UseMenu
  <2> QED BY <2>1, SetMenuModelStep
<1> QED BY <1>1, <1>2

\* A service that appears under complete settings has a menu.
LEMMA ProxyStep ==
  ASSUME IInv, ProxyOK, [Next]_vars
  PROVE  ProxyOK'
<1>1. ASSUME Appeared PROVE ProxyOK'
  <2>1. Complete /\ settings \in Settings
    BY <1>1 DEF Appeared, IInv, TypeOK, WatchOK
  <2>2. settings["name"] \in Services /\ settings["path"] \in Paths
    BY <2>1 DEF Complete, Settings, Fields
  <2>3. proxy' \in [name : Services, path : Paths]
    BY <1>1, <2>2 DEF Appeared, ServiceMenu
  <2> QED BY <2>3, MenuAssumption DEF ProxyOK
<1>2. ASSUME ~Appeared PROVE proxy' = proxy \/ proxy' = NoProxy
  <2>1. ASSUME Return PROVE proxy' = proxy \/ proxy' = NoProxy
    <3>1. calls # <<>> /\ calls \in Seq(Frames)
      BY <2>1 DEF Return, IInv, TypeOK
    <3>2. Head(calls) \in Frames
      BY <3>1, HeadTailProperties
    <3>3. Head(calls).kind \in {"appear", "vanish", "stop", "set"}
      BY <3>2 DEF Frames, Kinds
    <3> QED BY <2>1, <3>3 DEF Return, Clear
  <2> QED BY <1>2, <2>1 DEF Next, Start, Stop, Set, Vanished, Disconnect, Clear, vars
<1> QED BY <1>1, <1>2 DEF ProxyOK

\* Every step of both parts is one of the connection, or leaves it as it is.
LEMMA ConnectionStep == [ModelNext]_<<vars, tree>> => [Next]_vars
BY DEF ModelNext, Call, Report, Resume, MenuChanges, Next, vars

LEMMA TreeStep ==
  ASSUME IInv, TreeInv, [ModelNext]_<<vars, tree>>
  PROVE  TreeInv'
<1>1. ProxyOK'
  <2>1. [Next]_vars /\ ProxyOK
    BY ConnectionStep DEF TreeInv
  <2> QED BY <2>1, ProxyStep
<1>2. CASE UseMenu
  BY <1>1, <1>2, UseMenuStep
<1>3. CASE MenuChanges
  <2>1. UNCHANGED proxy
    BY <1>3 DEF MenuChanges, vars
  <2>2. ASSUME NEW m \in Models, NEW pos \in 0..Len(menu[m]), NEW removed \in 0..(Len(menu[m]) - pos),
               NEW es \in Batches[m] \cup {<<>>}, Tree!ItemsChanged(m, pos, removed, es)
        PROVE  TreeInv'
    BY <2>1, <2>2, ItemsChangedStep
  <2>3. ASSUME Tree!EndSignal PROVE TreeInv'
    BY <2>1, <2>3, EndSignalStep
  <2> QED BY <1>3, <2>2, <2>3 DEF MenuChanges
<1>4. CASE UNCHANGED <<vars, tree>>
  <2>1. UNCHANGED <<tree, proxy>>
    BY <1>4 DEF vars
  <2> QED BY <2>1, NothingChanged
<1> QED BY <1>2, <1>3, <1>4 DEF ModelNext, Call, Report, Resume

LEMMA TreeInit == ModelInit => TreeInv
<1> SUFFICES ASSUME ModelInit PROVE TreeInv
  OBVIOUS
<1>1. menu = InitialMenu /\ nodes = <<>> /\ op = NoOp /\ tidy = TRUE /\ proxy = NoProxy
  BY DEF ModelInit, Init
<1>2. MenusOK(menu) /\ menu \in [Models -> Seq(Entries)]
  BY <1>1, MenuAssumption DEF Tree!TreeAssumption, MenusOK, Tree!Once
<1>3. RowMenus = menu
  BY <1>1, <1>2, NoChangeRows
<1>4. DOMAIN nodes = {} /\ RootOf(proxy) = NoModel
  BY <1>1 DEF RootOf
<1>5. NodesOK(nodes, Sizes(RowMenus)) /\ Mirrors(nodes, RowMenus, RootOf(proxy))
  BY <1>4 DEF NodesOK, Mirrors
<1> QED BY <1>1, <1>2, <1>3, <1>5 DEF TreeInv, OpOK, ProxyOK

\* The connection of a QDBusMenuModel is that of a QDBusObject: whatever the rows
\* do, no step is added to it.
THEOREM ModelImplementsObject == ModelSpec => Spec
<1>1. ModelInit => Init
  BY DEF ModelInit
<1> QED BY <1>1, ConnectionStep, PTL DEF ModelSpec, Spec

\* The invariant holds after any number of steps.
LEMMA TreeInvariance == ASSUME Tame PROVE ModelSpec => []TreeInv
<1>1. IInv /\ TreeInv /\ [ModelNext]_<<vars, tree>> => TreeInv'
  BY TreeStep
<1> QED BY TreeInit, <1>1, ModelImplementsObject, Invariance, PTL DEF ModelSpec

\* The rows of a QDBusMenuModel are those of a QMenuModel: whatever the connection
\* does, the tree takes its own steps only, with menus that it may be given.
THEOREM ModelImplementsTree == ASSUME Tame PROVE ModelSpec => Tree!Spec
<1>1. ModelInit => Tree!Init
  BY DEF ModelInit, Init, Tree!Init, RootOf
<1>2. ASSUME IInv, TreeInv, [ModelNext]_<<vars, tree>> PROVE [Tree!Next]_(Tree!vars)
  <2>1. CASE UNCHANGED <<tree, proxy>>
    BY <2>1 DEF tree, Tree!vars, RootOf
  <2>2. CASE Tree!SetMenuModel(RootOf(proxy'))
    <3>1. ProxyOK'
      <4>1. [Next]_vars /\ ProxyOK
        BY <1>2, ConnectionStep DEF TreeInv
      <4> QED BY <1>2, <4>1, ProxyStep
    <3>2. RootOf(proxy') \in Roots \cup {NoModel}
      BY <3>1 DEF RootOf, Roots, ProxyOK
    <3> QED BY <2>2, <3>2 DEF Tree!Next
  <2>3. CASE MenuChanges
    <3>1. Tree!Next
      BY <2>3 DEF MenuChanges, Tree!Next
    <3> QED BY <3>1
  <2> QED BY <1>2, <2>1, <2>2, <2>3 DEF ModelNext, Call, Report, Resume, UseMenu, vars
<1> QED BY <1>1, <1>2, TreeInvariance, ModelImplementsObject, Invariance, PTL DEF ModelSpec, Tree!Spec

-----------------------------------------------------------------------------
(* The properties.                                                         *)

\* Where a row is: what is pending of its model matters only.
LEMMA RowsAt ==
  ASSUME TreeInv, NEW m \in DOMAIN nodes, NEW row \in 0..(nodes[m].size - 1)
  PROVE  /\ nodes[m].size = Len(Tree!Rows(m))
         /\ Tree!RealPosition(m, row) =
              IF op # NoOp /\ op.model = m /\ op.pos # -1
              THEN IF row < op.pos THEN row
                   ELSE IF row < op.pos + op.removed THEN -1 ELSE row + op.added - op.removed
              ELSE row
<1>1. /\ m \in Models /\ nodes[m].size = Len(RowMenus[m]) /\ RowMenus[m] \in Seq(Entries)
      /\ RowMenus[m] = Tree!Rows(m)
  BY DEF TreeInv, NodesOK, MenusOK, Sizes, RowMenus
<1>2. Len(Tree!Rows(m)) \in Nat
  BY <1>1, LenProperties
<1>3. row \in Int /\ row >= 0
  BY <1>1, <1>2
<1>4. Tree!RealPosition(m, row) =
        CASE row \notin 0..(nodes[m].size - 1) -> -1
          [] row \in (Tree!Pending(m).pos)..(Tree!Pending(m).pos + Tree!Pending(m).removed - 1)
               /\ Tree!Pending(m).removed > 0 -> -1
          [] row >= 0 /\ row < Tree!Pending(m).pos -> row
          [] OTHER -> row + Tree!Pending(m).added - Tree!Pending(m).removed
  BY DEF Tree!RealPosition
<1>5. CASE op # NoOp /\ op.model = m /\ op.pos # -1
  <2>1. Tree!Pending(m) = op
    BY <1>5 DEF Tree!Pending
  <2>2. op.pos \in Nat /\ op.added \in Nat /\ op.removed \in Nat
    BY <1>5 DEF TreeInv, OpOK, Spliced
  <2> QED BY <1>1, <1>3, <1>4, <1>5, <2>1, <2>2
<1>6. CASE ~(op # NoOp /\ op.model = m /\ op.pos # -1)
  <2>1. /\ Tree!Pending(m).pos = -1 /\ Tree!Pending(m).added = 0 /\ Tree!Pending(m).removed = 0
    BY <1>6 DEF Tree!Pending, TreeInv, OpOK
  <2> QED BY <1>1, <1>3, <1>4, <1>6, <2>1
<1> QED BY <1>1, <1>5, <1>6

\* Both parts have their types.
THEOREM MenuModelTyped == ASSUME Tame PROVE ModelSpec => []ModelTypeOK
<1>1. TreeInv => Tree!TypeOK
  <2> SUFFICES ASSUME TreeInv PROVE Tree!TypeOK
    OBVIOUS
  <2>1. menu \in [Models -> Seq(Entries)] /\ tidy \in BOOLEAN
    BY DEF TreeInv, MenusOK
  <2>2. RootOf(proxy) \in Roots \cup {NoModel}
    BY RootTyped DEF TreeInv
  <2>3. op \in Tree!Ops \cup {NoOp}
    BY DEF TreeInv, OpOK
  <2>4. /\ DOMAIN nodes \subseteq Models
        /\ \A m \in DOMAIN nodes :
             /\ nodes[m].size = Len(RowMenus[m]) /\ RowMenus[m] \in Seq(Entries)
             /\ DOMAIN nodes[m].children \subseteq 0..(nodes[m].size - 1)
             /\ \A i \in DOMAIN nodes[m].children : nodes[m].children[i] \in DOMAIN nodes
    <3>1. DOMAIN nodes \subseteq Models /\ RowMenus \in [Models -> Seq(Entries)]
      BY DEF TreeInv, NodesOK, MenusOK
    <3>2. \A m \in DOMAIN nodes : Sizes(RowMenus)[m] = Len(RowMenus[m])
      BY <3>1 DEF Sizes
    <3> QED BY <3>1, <3>2 DEF TreeInv, NodesOK
  <2>5. \A m \in DOMAIN nodes : nodes[m].size \in Nat
    BY <2>4, LenProperties
  <2> QED BY <2>1, <2>2, <2>3, <2>4, <2>5 DEF Tree!TypeOK
<1>2. TreeInv /\ IInv => ModelTypeOK
  BY <1>1 DEF ModelTypeOK, IInv
<1> QED BY TreeInvariance, Invariance, ModelImplementsObject, <1>2, PTL

\* The promises of the connection hold of a QDBusMenuModel, whatever its menus do.
THEOREM ModelConnection ==
  ASSUME Tame
  PROVE  ModelSpec => [](/\ WatchedUnlessDisconnected /\ WatchOnSettings
                         /\ ConnectedUsesService /\ VanishedUnused)
<1>1. IInv => /\ WatchedUnlessDisconnected /\ WatchOnSettings
              /\ ConnectedUsesService /\ VanishedUnused
  BY DEF IInv, WatchOK, WatchOnSettings, ConnectedOK, ConnectedUsesService, ServiceMenu, VanishedUnused
<1> QED BY ModelImplementsObject, Invariance, <1>1, PTL

\* A view reads the attributes of the entry that it knows at a row, or none when
\* that is gone: in the middle of a signal, too, and whatever the peer's changes
\* are.
LEMMA ViewsReadAttributes == ASSUME Tame PROVE ModelSpec => []Tree!RowsShowAttributes
<1>1. TreeInv => Tree!RowsShowAttributes
  <2> SUFFICES ASSUME TreeInv, NEW m \in DOMAIN nodes
               PROVE  /\ nodes[m].size = Len(Tree!Rows(m))
                      /\ \A row \in 0..(nodes[m].size - 1) :
                           LET at == Tree!RealPosition(m, row) IN
                           IF at = -1
                           THEN Tree!Rows(m)[row + 1] \notin Tree!ToSet(menu[m])
                           ELSE at < Len(menu[m]) /\ menu[m][at + 1] = Tree!Rows(m)[row + 1]
    BY DEF Tree!RowsShowAttributes, Tree!Item
  <2>1. m \in Models /\ RowMenus[m] = Tree!Rows(m) /\ RowMenus[m] \in Seq(Entries)
    BY DEF TreeInv, NodesOK, MenusOK, RowMenus
  <2>2. nodes[m].size = Len(Tree!Rows(m))
    BY <2>1 DEF TreeInv, NodesOK, Sizes
  <2>3. Len(Tree!Rows(m)) \in Nat
    BY <2>1, LenProperties
  <2>4. ASSUME NEW row \in 0..(nodes[m].size - 1), NEW at, at = Tree!RealPosition(m, row)
        PROVE  IF at = -1
               THEN Tree!Rows(m)[row + 1] \notin Tree!ToSet(menu[m])
               ELSE at < Len(menu[m]) /\ menu[m][at + 1] = Tree!Rows(m)[row + 1]
    <3>1. CASE op # NoOp /\ op.model = m /\ op.pos # -1
      <4> DEFINE L == Len(op.was)
                 M == Len(menu[m])
      <4>1. Tree!Rows(m) = op.was /\ nodes[m].size = L
        BY <2>1, <2>2, <3>1, RowMenusAt
      <4>2. at = IF row < op.pos THEN row
                 ELSE IF row < op.pos + op.removed THEN -1 ELSE row + op.added - op.removed
        BY <2>4, <3>1, RowsAt
      <4>3. /\ op.pos \in Nat /\ op.removed \in Nat /\ op.added \in Nat
            /\ op.pos + op.removed <= L /\ M = L - op.removed + op.added
            /\ \A i \in 1..op.pos : menu[m][i] = op.was[i]
            /\ \A i \in (op.pos + op.removed + 1)..L : menu[m][i - op.removed + op.added] = op.was[i]
            /\ \A i \in (op.pos + 1)..(op.pos + op.removed) : op.was[i] \notin Tree!ToSet(menu[m])
        BY <3>1 DEF TreeInv, OpOK, Spliced
      <4>4. L \in Nat
        BY <2>3, <4>1
      <4> HIDE DEF L, M
      <4>5. row \in 0..(L - 1)
        BY <2>4, <4>1
      <4>6. CASE row < op.pos
        <5>1. at = row /\ row + 1 \in 1..op.pos /\ row < M
          BY <4>2, <4>3, <4>4, <4>5, <4>6
        <5> QED BY <4>1, <4>3, <4>5, <5>1 DEF M
      <4>7. CASE ~(row < op.pos) /\ row < op.pos + op.removed
        <5>1. at = -1 /\ row + 1 \in (op.pos + 1)..(op.pos + op.removed)
          BY <4>2, <4>3, <4>4, <4>5, <4>7
        <5> QED BY <4>1, <4>3, <5>1
      <4>8. CASE ~(row < op.pos + op.removed)
        <5>1. at = row + op.added - op.removed /\ at \in Nat /\ at < M
          BY <4>2, <4>3, <4>4, <4>5, <4>8
        <5>2. PICK i \in (op.pos + op.removed + 1)..L : i = row + 1 /\ i - op.removed + op.added = at + 1
          BY <4>3, <4>4, <4>5, <4>8, <5>1
        <5>3. menu[m][at + 1] = op.was[row + 1]
          BY <4>3, <5>2
        <5> QED BY <4>1, <5>1, <5>3 DEF M
      <4> QED BY <4>3, <4>4, <4>5, <4>6, <4>7, <4>8
    <3>2. CASE ~(op # NoOp /\ op.model = m /\ op.pos # -1)
      <4>1. Tree!Rows(m) = menu[m] /\ at = row
        BY <2>1, <2>4, <3>2, RowMenusAt, RowsAt
      <4>2. row < Len(menu[m]) /\ row # -1
        BY <2>2, <2>3, <2>4, <4>1
      <4> QED BY <4>1, <4>2
    <3> QED BY <3>1, <3>2
  <2> QED BY <2>2, <2>4
<1> QED BY TreeInvariance, <1>1, PTL

\* After tidy changes, the tree is that of the menu of the proxy, and there is
\* no node without one: of the service that vanished, was stopped or replaced.
THEOREM TreeMirrorsMenu == ASSUME Tame PROVE ModelSpec => []TidyTreeMirrorsMenu
<1>1. TreeInv => TidyTreeMirrorsMenu
  <2> SUFFICES ASSUME TreeInv, tidy, op = NoOp
               PROVE  /\ Tree!ChildrenMatchLinks
                      /\ DOMAIN nodes = IF RootOf(proxy) = NoModel THEN {}
                                        ELSE Tree!MenuBelow(menu, RootOf(proxy))
    BY DEF TidyTreeMirrorsMenu, Tree!TidyTreeMirrorsMenu
  <2>1. RowMenus = menu
    BY NoChangeRows DEF TreeInv, MenusOK
  <2>2. Mirrors(nodes, menu, RootOf(proxy))
    BY <2>1 DEF TreeInv
  <2>3. Tree!ChildrenMatchLinks
    BY <2>2 DEF Mirrors, Positions, Tree!ChildrenMatchLinks
  <2>4. DOMAIN nodes = IF RootOf(proxy) = NoModel THEN {} ELSE Tree!Below(Links(menu), RootOf(proxy))
    BY <2>2 DEF Mirrors
  <2> QED BY <2>3, <2>4 DEF Tree!MenuBelow, Links
<1> QED BY TreeInvariance, <1>1, PTL

\* What a tree that mirrors the menus has at each node.
LEMMA NodesShown ==
  ASSUME TreeInv, tidy, RootOf(proxy) # NoModel
  PROVE  /\ RootOf(proxy) \in DOMAIN nodes
         /\ DOMAIN nodes = Tree!MenuBelowRows(RootOf(proxy))
         /\ DOMAIN nodes \subseteq Models
         /\ \A m \in DOMAIN nodes :
              /\ nodes[m].size = Len(Tree!Rows(m))
              /\ \A row \in 0..(nodes[m].size - 1) :
                   row \in DOMAIN nodes[m].children <=> LinkOf[Tree!Rows(m)[row + 1]] # NoModel
              /\ \A row \in DOMAIN nodes[m].children :
                   /\ nodes[m].children[row] = LinkOf[Tree!Rows(m)[row + 1]]
                   /\ nodes[m].children[row] \in DOMAIN nodes
<1> DEFINE r == RootOf(proxy)
<1>1. /\ MenusOK(RowMenus) /\ NodesOK(nodes, Sizes(RowMenus)) /\ Mirrors(nodes, RowMenus, r)
      /\ ProxyOK
  BY DEF TreeInv
<1>2. r \in Models
  BY <1>1, RootTyped
<1>3. /\ RowMenus \in [Models -> Seq(Entries)] /\ DOMAIN nodes \subseteq Models
      /\ \A k \in Models : RowMenus[k] = Tree!Rows(k)
  BY <1>1 DEF MenusOK, NodesOK, RowMenus
<1>4. DOMAIN nodes = Tree!Below(Links(RowMenus), r)
  BY <1>1 DEF Mirrors
<1>5. Links(RowMenus) \in [Models -> SUBSET Models]
  BY <1>3, LinksTyped
<1>6. r \in DOMAIN nodes
  BY <1>2, <1>4, <1>5, BelowClosed
<1>7. DOMAIN nodes = Tree!MenuBelowRows(r)
  <2>1. Links(RowMenus) = [k \in Models |-> Tree!LinksOf(Tree!Rows(k))]
    BY <1>3 DEF Links
  <2> QED BY <1>4, <2>1 DEF Tree!MenuBelowRows
<1>8. ASSUME NEW m \in DOMAIN nodes
      PROVE  /\ nodes[m].size = Len(Tree!Rows(m))
             /\ \A row \in 0..(nodes[m].size - 1) :
                  row \in DOMAIN nodes[m].children <=> LinkOf[Tree!Rows(m)[row + 1]] # NoModel
             /\ \A row \in DOMAIN nodes[m].children :
                  /\ nodes[m].children[row] = LinkOf[Tree!Rows(m)[row + 1]]
                  /\ nodes[m].children[row] \in DOMAIN nodes
  <2> DEFINE es == Tree!Rows(m)
             f == Tree!Linked(es, Positions(es))
  <2>1. m \in Models /\ es \in Seq(Entries) /\ RowMenus[m] = es
    BY <1>3
  <2>2. nodes[m].children = f
    BY <1>1, <2>1 DEF Mirrors
  <2>3. nodes[m].size = Len(es)
    BY <1>1, <2>1 DEF NodesOK, Sizes
  <2>4. Positions(es) \in SUBSET Int /\ Positions(es) = 0..(Len(es) - 1)
    BY DEF Positions
  <2> HIDE DEF es, f
  <2>5. /\ DOMAIN f = {i \in Positions(es) : i \in 0..(Len(es) - 1) /\ LinkOf[es[i + 1]] # NoModel}
        /\ \A i \in DOMAIN f : f[i] = LinkOf[es[i + 1]]
    BY <2>1, <2>4, LinkedEntries DEF f
  <2>6. \A row \in 0..(nodes[m].size - 1) : row \in DOMAIN f <=> LinkOf[es[row + 1]] # NoModel
    BY <2>3, <2>4, <2>5
  <2>7. \A row \in DOMAIN f : nodes[m].children[row] \in DOMAIN nodes
    BY <1>1, <2>2 DEF NodesOK
  <2> QED BY <2>2, <2>3, <2>5, <2>6, <2>7 DEF es
<1> QED BY <1>3, <1>6, <1>7, <1>8

\* A view that asks for the links of a row is answered for the entry that it
\* knows there, as long as the peer's changes are tidy and none is pending at the
\* row or before it.
LEMMA ViewsReadLinks == ASSUME Tame PROVE ModelSpec => []Tree!RowsShowLinks
<1>1. TreeInv => Tree!RowsShowLinks
  <2> SUFFICES ASSUME TreeInv, tidy, NEW m \in DOMAIN nodes, NEW row \in 0..(nodes[m].size - 1),
                      Tree!Pending(m).pos = -1 \/ row < Tree!Pending(m).pos
               PROVE  Tree!Link(m, row) = LinkOf[Tree!Rows(m)[row + 1]]
    BY DEF Tree!RowsShowLinks
  <2>1. RootOf(proxy) # NoModel
    <3>1. Mirrors(nodes, RowMenus, RootOf(proxy))
      BY DEF TreeInv
    <3> QED BY <3>1 DEF Mirrors
  <2>2. Tree!RealPosition(m, row) = row
    <3>1. CASE op # NoOp /\ op.model = m
      <4>1. Tree!Pending(m) = op
        BY <3>1 DEF Tree!Pending
      <4> QED BY <3>1, <4>1, RowsAt
    <3>2. CASE ~(op # NoOp /\ op.model = m)
      BY <3>2, RowsAt
    <3> QED BY <3>1, <3>2
  <2>3. /\ row \in DOMAIN nodes[m].children <=> LinkOf[Tree!Rows(m)[row + 1]] # NoModel
        /\ row \in DOMAIN nodes[m].children => nodes[m].children[row] = LinkOf[Tree!Rows(m)[row + 1]]
    BY <2>1, NodesShown
  <2> QED BY <2>2, <2>3 DEF Tree!Link, Tree!Child
<1> QED BY TreeInvariance, <1>1, PTL

\* Whatever row a view asks for, in the middle of a signal, too, it is told of the
\* entry that it knows there: of its attributes whatever the peer's changes are, and
\* of its links as far as the code gets them right (QMenuModel::data).
THEOREM ViewsReadKnownRows == ASSUME Tame PROVE ModelSpec => []RowsShowEntries
<1>1. Tree!RowsShowAttributes /\ Tree!RowsShowLinks => RowsShowEntries
  BY DEF RowsShowEntries, Tree!RowsShowEntries
<1> QED BY ViewsReadAttributes, ViewsReadLinks, <1>1, PTL

\* Every node but the root has a parent that has it at a position.
LEMMA ParentHas ==
  ASSUME TreeInv, tidy, RootOf(proxy) # NoModel, NEW m \in DOMAIN nodes, m # RootOf(proxy)
  PROVE  /\ Tree!Parent(m) \in DOMAIN nodes
         /\ Tree!Position(m) \in DOMAIN nodes[Tree!Parent(m)].children
         /\ nodes[Tree!Parent(m)].children[Tree!Position(m)] = m
<1> DEFINE r == RootOf(proxy)
           D == Tree!Below(Links(RowMenus), r)
<1>1. r \in Models /\ Links(RowMenus) \in [Models -> SUBSET Models] /\ DOMAIN nodes = D
  <2>1. r \in Models
    BY RootTyped DEF TreeInv
  <2>2. RowMenus \in [Models -> Seq(Entries)] /\ Mirrors(nodes, RowMenus, r)
    BY DEF TreeInv, MenusOK
  <2> QED BY <2>1, <2>2, LinksTyped DEF Mirrors
<1> HIDE DEF r
<1>2. PICK j \in D : m \in Links(RowMenus)[j]
  <2>1. m \in D /\ m # r
    BY <1>1 DEF r
  <2> QED BY <1>1, <2>1, BelowLinked
<1> HIDE DEF D
<1>3. j \in DOMAIN nodes /\ j \in Models /\ RowMenus[j] \in Seq(Entries) /\ RowMenus[j] = Tree!Rows(j)
  <2>1. DOMAIN nodes \subseteq Models /\ RowMenus \in [Models -> Seq(Entries)]
    BY DEF TreeInv, NodesOK, MenusOK
  <2> QED BY <1>1, <2>1 DEF RowMenus
<1>4. PICK i \in 1..Len(Tree!Rows(j)) : LinkOf[Tree!Rows(j)[i]] = m /\ m # NoModel
  <2>1. m \in Tree!LinksOf(RowMenus[j])
    BY <1>2, <1>3 DEF Links
  <2> QED BY <1>3, <2>1, LinksOfEntries
<1>5. PICK row \in 0..(Len(Tree!Rows(j)) - 1) : i = row + 1
  <2>1. Len(Tree!Rows(j)) \in Nat
    BY <1>3, LenProperties
  <2>2. i - 1 \in 0..(Len(Tree!Rows(j)) - 1) /\ i = i - 1 + 1
    BY <2>1
  <2> QED BY <2>2
<1>6. row \in DOMAIN nodes[j].children /\ nodes[j].children[row] = m
  <2>1. /\ nodes[j].size = Len(Tree!Rows(j))
        /\ row \in 0..(nodes[j].size - 1) =>
             (row \in DOMAIN nodes[j].children <=> LinkOf[Tree!Rows(j)[row + 1]] # NoModel)
        /\ row \in DOMAIN nodes[j].children => nodes[j].children[row] = LinkOf[Tree!Rows(j)[row + 1]]
    BY <1>3, NodesShown
  <2>2. LinkOf[Tree!Rows(j)[row + 1]] = m /\ m # NoModel
    BY <1>4, <1>5
  <2> QED BY <1>5, <2>1, <2>2
<1>7. m \in Tree!Range(nodes[j].children)
  BY <1>6 DEF Tree!Range
<1>8. Tree!Parent(m) \in DOMAIN nodes /\ m \in Tree!Range(nodes[Tree!Parent(m)].children)
  BY <1>3, <1>7, Zenon DEF Tree!Parent
<1>9. \E k \in DOMAIN nodes[Tree!Parent(m)].children : nodes[Tree!Parent(m)].children[k] = m
  BY <1>8 DEF Tree!Range
<1> QED BY <1>8, <1>9, Zenon DEF Tree!Position

\* From the root down to every submenu and back up, whenever a view asks: in the
\* middle of a signal, too.
THEOREM ViewsNavigate == ASSUME Tame PROVE ModelSpec => []IndexesNavigate
<1>1. TreeInv => IndexesNavigate
  <2> SUFFICES ASSUME TreeInv, tidy, RootOf(proxy) # NoModel, NEW m \in Tree!MenuBelowRows(RootOf(proxy)),
                      NEW parent,
                      parent = IF m = RootOf(proxy) THEN Tree!Nowhere
                               ELSE Tree!RowOf(Tree!Parent(m), Tree!Position(m)),
                      NEW row \in 0..(Tree!RowCount(parent) - 1)
               PROVE  /\ Tree!Index(row, parent) = Tree!RowOf(m, row)
                      /\ Tree!ParentIndex(Tree!Index(row, parent)) = parent
                      /\ Tree!RowCount(Tree!Index(row, parent)) =
                           IF LinkOf[Tree!Rows(m)[row + 1]] = NoModel THEN 0
                           ELSE Len(Tree!Rows(LinkOf[Tree!Rows(m)[row + 1]]))
    BY DEF IndexesNavigate, Tree!IndexesNavigate
  <2> DEFINE r == RootOf(proxy)
             e == Tree!Rows(m)[row + 1]
             index == Tree!RowOf(m, row)
  <2>1. r \in DOMAIN nodes /\ m \in DOMAIN nodes /\ DOMAIN nodes \subseteq Models /\ NoModel \notin Models
    BY NodesShown, RootTyped DEF TreeInv
  <2>2. \A k \in DOMAIN nodes : k # NoModel
    BY <2>1
  <2>3. \A k \in DOMAIN nodes : \A i : Tree!RowOf(k, i) # Tree!Nowhere /\ Tree!RowOf(k, i).node = k
                                       /\ Tree!RowOf(k, i).row = i
    BY <2>2 DEF Tree!RowOf, Tree!Nowhere
  <2>4. /\ nodes[m].size = Len(Tree!Rows(m))
        /\ \A i \in 0..(nodes[m].size - 1) :
             i \in DOMAIN nodes[m].children <=> LinkOf[Tree!Rows(m)[i + 1]] # NoModel
        /\ \A i \in DOMAIN nodes[m].children :
             /\ nodes[m].children[i] = LinkOf[Tree!Rows(m)[i + 1]]
             /\ nodes[m].children[i] \in DOMAIN nodes
    BY <2>1, NodesShown
  <2>5. \A k \in DOMAIN nodes : nodes[k].size = Len(Tree!Rows(k))
    BY NodesShown
  <2>6. ASSUME m # r
        PROVE  /\ Tree!Parent(m) \in DOMAIN nodes
               /\ Tree!Position(m) \in DOMAIN nodes[Tree!Parent(m)].children
               /\ nodes[Tree!Parent(m)].children[Tree!Position(m)] = m
    BY <2>1, <2>6, ParentHas
  <2> HIDE DEF r
  <2>7. Tree!RowCount(parent) = nodes[m].size /\ Tree!Index(row, parent) = index
    <3>1. CASE m = r
      BY <3>1 DEF r, Tree!RowCount, Tree!Index
    <3>2. CASE m # r
      <4>1. parent = Tree!RowOf(Tree!Parent(m), Tree!Position(m))
        BY <3>2 DEF r
      <4>2. parent # Tree!Nowhere /\ parent.node = Tree!Parent(m) /\ parent.row = Tree!Position(m)
        BY <2>3, <2>6, <3>2, <4>1
      <4> QED BY <2>6, <3>2, <4>2 DEF Tree!RowCount, Tree!Index
    <3> QED BY <3>1, <3>2
  <2>8. Tree!ParentIndex(index) = parent
    <3>1. index # Tree!Nowhere /\ index.node = m
      BY <2>1, <2>3
    <3> QED BY <3>1 DEF Tree!ParentIndex, r
  <2>9. Tree!RowCount(index) = IF LinkOf[e] = NoModel THEN 0 ELSE Len(Tree!Rows(LinkOf[e]))
    <3>1. index # Tree!Nowhere /\ index.node = m /\ index.row = row
      BY <2>1, <2>3
    <3>2. row \in DOMAIN nodes[m].children <=> LinkOf[e] # NoModel
      BY <2>4, <2>7
    <3> HIDE DEF index, e
    <3>3. Tree!RowCount(index) = IF row \in DOMAIN nodes[m].children THEN nodes[nodes[m].children[row]].size
                                 ELSE 0
      BY <3>1 DEF Tree!RowCount
    <3>4. CASE row \in DOMAIN nodes[m].children
      <4>1. nodes[m].children[row] = LinkOf[e] /\ LinkOf[e] \in DOMAIN nodes
        BY <2>4, <3>4 DEF e
      <4>2. nodes[LinkOf[e]].size = Len(Tree!Rows(LinkOf[e]))
        BY <2>5, <4>1
      <4> QED BY <3>2, <3>3, <3>4, <4>1, <4>2
    <3>5. CASE row \notin DOMAIN nodes[m].children
      BY <3>2, <3>3, <3>5
    <3> QED BY <3>4, <3>5
  <2> QED BY <2>7, <2>8, <2>9
<1> QED BY TreeInvariance, <1>1, PTL
=============================================================================
