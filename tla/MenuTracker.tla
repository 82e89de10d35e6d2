---------------------------- MODULE MenuTracker ----------------------------
(***************************************************************************)
(* GtkMenuTracker (gtkmenutracker.c): flattens a GMenuModel tree into the  *)
(* rows of a UnityMenuModel (unitymenumodel.cpp) and keeps them current.   *)
(*                                                                         *)
(* An entry stands for one menu item: it is a plain item, or it links to   *)
(* the model SectionOf[e].  The state is what the peer exports (menu), the *)
(* tracker's sections and the model's rows.  No model is linked twice, so  *)
(* the section of a model m is sections[m], a record [items, ns, hasSep];  *)
(* its items are, as in the GSList, NoLink (the NULL of a plain item) or a *)
(* subsection, by its model.                                               *)
(***************************************************************************)
EXTENDS Integers, SequencesExt

CONSTANTS
  Models, Root,      \* the GMenuModels; Root is the one the tracker is given
  Entries,           \* the menu items, plain and section
  SectionOf,         \* [Entries -> Models \cup {NoLink}]: the "section" link
  NoLink,
  Labelled,          \* the entries with a "label" attribute
  Namespace,         \* [Entries -> Seq of at most one name]: "action-namespace"
  RootNamespace,     \* the tracker's action_namespace (<<>> is NULL)
  InitialMenu,       \* [Models -> Seq(Entries)]: what is exported at first
  Batches,           \* [Models -> set of the entry sequences a peer adds at once]
  Height,            \* [Models -> Nat]: how far sections may nest in each
  MaxRemoved         \* bound: the most entries one items-changed removes

Namespaces == Seq(STRING)

\* No entry is there twice, and none leads back to a model around it: making the
\* sections of such a menu would not end.
WellNested(m, es) ==
  /\ es \in Seq(Entries)
  /\ \A i, j \in DOMAIN es : es[i] = es[j] => i = j
  /\ \A i \in DOMAIN es : SectionOf[es[i]] # NoLink => Height[SectionOf[es[i]]] < Height[m]

ASSUME LinkAssumption ==
  /\ Root \in Models /\ NoLink \notin Models
  /\ SectionOf \in [Entries -> (Models \ {Root}) \cup {NoLink}]
  /\ \A e, f \in Entries : SectionOf[e] = SectionOf[f] => e = f \/ SectionOf[e] = NoLink
  /\ Labelled \subseteq Entries
  /\ Namespace \in [Entries -> Namespaces] /\ RootNamespace \in Namespaces
  /\ Height \in [Models -> Nat]
  /\ \A m \in Models \ {Root} : Height[m] < Height[Root]

ASSUME MenuAssumption ==
  /\ \A m \in Models : WellNested(m, InitialMenu[m])
  /\ \A m \in Models : \A es \in Batches[m] : WellNested(m, es)
  /\ InitialMenu = [m \in Models |-> InitialMenu[m]]
  /\ \A m, n \in Models : m # n => ToSet(InitialMenu[m]) \cap ToSet(InitialMenu[n]) = {}
  /\ MaxRemoved \in Nat

VARIABLES
  menu,     \* the exported models, [Models -> Seq(Entries)]
  sections, \* the sections, by model: those that Root leads to
  rows,     \* the UnityMenuModel's items, in order
  fault,    \* a NULL list node was dereferenced
  orderly   \* history: the peer has kept to the order the code handles

vars == <<menu, sections, rows, fault, orderly>>

-----------------------------------------------------------------------------
(* The rows, as UnityMenuModel's AddRow and RemoveRow events change them.  *)

RowsOf == [entry : Entries, ns : Namespaces, separator : BOOLEAN]

\* Mutant: a separator that does not know its section.
RowUnlinked(e, ns, separator) ==
  [entry |-> IF separator THEN NoLink ELSE e, ns |-> ns, separator |-> separator]

Row(e, ns, separator) == [entry |-> e, ns |-> ns, separator |-> separator]

\* A position past the end is the end, as g_sequence_get_iter_at_pos has it.
At(rs, offset) == IF offset > Len(rs) THEN Len(rs) ELSE offset

AddRows(rs, offset, new) ==
  SubSeq(rs, 1, At(rs, offset)) \o new \o SubSeq(rs, At(rs, offset) + 1, Len(rs))

RemoveRows(rs, offset, n) ==
  SubSeq(rs, 1, At(rs, offset)) \o SubSeq(rs, offset + n + 1, Len(rs))

-----------------------------------------------------------------------------
(* Sections.  In these operators mu is the content of the models at the   *)
(* time of the call, and secs the sections.                                *)

Total(ns) ==
  LET total[k \in 0..Len(ns)] == IF k = 0 THEN 0 ELSE total[k - 1] + ns[k]
  IN  total[Len(ns)]

\* The list items of a sequence of entries.
Items(es) == [i \in DOMAIN es |-> SectionOf[es[i]]]
SectionsIn(items) == ToSet(items) \ {NoLink}

Links(mu) == [m \in Models |-> Items(mu[m])]

\* The models in ms and below: links says what a model links.
Below(links, ms) ==
  {k \in DOMAIN links : \A S \in SUBSET DOMAIN links :
     ms \subseteq S /\ (\A j \in S : SectionsIn(links[j]) \subseteq S) => k \in S}

\* The entry of a section.
LinkOf(m) == CHOOSE e \in Entries : SectionOf[e] = m

Separator(section) == IF section.hasSep THEN 1 ELSE 0

\* The rows of list items, where measure says how many each section has.
MeasureItems(items, measure) ==
  Total([i \in DOMAIN items |-> IF items[i] = NoLink THEN 1 ELSE measure[items[i]]])

\* Mutant: a section's own separator is not counted.
MeasureInside(secs) ==
  LET measure[m \in DOMAIN secs] == MeasureItems(secs[m].items, measure) IN measure

\* The rows of each section.
Measure(secs) ==
  LET measure[m \in DOMAIN secs] == Separator(secs[m]) + MeasureItems(secs[m].items, measure)
  IN  measure

-----------------------------------------------------------------------------
(* Adding entries: sections are made, with all that is below them.         *)

\* g_strjoin of the section's namespace and the entry's own.  A section
\* without a namespace hands its own NULL down.
ChildNamespace(ns, e) == IF ns = <<>> THEN ns ELSE ns \o Namespace[e]

\* The model around a section.
Around(mu, m) == CHOOSE p \in Models : LinkOf(m) \in ToSet(mu[p])

\* The namespaces of new sections, besides secs.
NamespacesNew(mu, secs, new) ==
  LET ns[m \in new] ==
        IF m = Root THEN RootNamespace
        ELSE ChildNamespace(IF Around(mu, m) \in new THEN ns[Around(mu, m)] ELSE secs[Around(mu, m)].ns,
                            LinkOf(m))
  IN  ns

\* The sections for the models ms and those below them, besides secs.
SectionsNew(mu, secs, ms) ==
  LET new == Below(Links(mu), ms)
      ns == NamespacesNew(mu, secs, new)
  IN  [m \in DOMAIN secs \cup new |->
         IF m \in new THEN [items |-> Items(mu[m]), ns |-> ns[m], hasSep |-> FALSE] ELSE secs[m]]

\* The rows for the entries es of a section.  It is from the last entry to the
\* first, all at one offset: what comes later ends up before.  The rows of the
\* subsections go in as they are made, those of the plain items with one
\* insertion when all is done.
AddedRows(es, ns, made) ==
  FlattenSeq([i \in DOMAIN es |->
    IF SectionOf[es[i]] = NoLink THEN <<Row(es[i], ns, FALSE)>> ELSE <<>>])
  \o
  FlattenSeq([i \in DOMAIN es |-> IF SectionOf[es[i]] = NoLink THEN <<>> ELSE made[SectionOf[es[i]]]])

\* The rows that go in when a section is made.
MadeRows(mu, secs) ==
  LET made[m \in DOMAIN secs] == AddedRows(mu[m], secs[m].ns, made) IN made

AddItems(mu, secs, ns, rs, offset, es) ==
  LET new == SectionsNew(mu, secs, SectionsIn(Items(es)))
  IN  [sections |-> new, rows |-> AddRows(rs, offset, AddedRows(es, ns, MadeRows(mu, new)))]

-----------------------------------------------------------------------------
(* Separators.                                                             *)

\* A section may have a separator that has a label, or divides the root's items.
CouldHaveSeparator(mu, secs, m) ==
  \E p \in DOMAIN secs : \E i \in DOMAIN secs[p].items :
    secs[p].items[i] = m /\ ((p = Root /\ i > 1) \/ mu[p][i] \in Labelled)

\* The rows of each section when its separators are as they should be.
SyncedMeasure(mu, secs) ==
  LET measure[m \in DOMAIN secs] ==
        LET inside == MeasureItems(secs[m].items, measure)
        IN  inside + (IF CouldHaveSeparator(mu, secs, m) /\ inside # 0 THEN 1 ELSE 0)
  IN  measure

\* There are separators before actual items only.
ShouldHaveSeparator(mu, secs, m) ==
  CouldHaveSeparator(mu, secs, m) /\ SyncedMeasure(mu, secs)[m] # 0

\* The rows when the separator of section m has been shown or hidden as is due.
ShowSeparator(mu, secs, m, offset, rs) ==
  LET should == ShouldHaveSeparator(mu, secs, m)
  IN  CASE should /\ ~secs[m].hasSep -> AddRows(rs, offset, <<Row(LinkOf(m), <<>>, TRUE)>>)
        [] ~should /\ secs[m].hasSep -> RemoveRows(rs, offset, 1)
        [] OTHER -> rs

\* The calls for a section, with the offset of its first row, and the rows then.
Calls(secs) == [section : DOMAIN secs, offset : Nat, rows : Seq(RowsOf)]
Call(m, offset, rs) == [section |-> m, offset |-> offset, rows |-> rs]

\* The rows when all calls for the list items have been made, in order, where
\* synced says what each does.
SyncedInside(items, measure, synced, offset, rs) ==
  LET inside[i \in 0..Len(items)] ==
        IF i = 0 THEN rs
        ELSE IF items[i] = NoLink THEN inside[i - 1]
        ELSE synced[Call(items[i], offset + MeasureItems(SubSeq(items, 1, i - 1), measure), inside[i - 1])]
  IN  inside[Len(items)]

\* What each call does: the separators inside the section, and then its own.
SyncedRows(mu, secs) ==
  LET synced[c \in Calls(secs)] ==
        ShowSeparator(mu, secs, c.section, c.offset,
          SyncedInside(secs[c.section].items, SyncedMeasure(mu, secs), synced, c.offset, c.rows))
  IN  synced

\* Mutant: the handler forgets to sync.
NoSync(mu, secs, rs) == [sections |-> secs, rows |-> rs]

SectionsSynced(mu, secs) ==
  [m \in DOMAIN secs |-> [secs[m] EXCEPT !.hasSep = ShouldHaveSeparator(mu, secs, m)]]

SyncSeparators(mu, secs, rs) ==
  [sections |-> SectionsSynced(mu, secs), rows |-> SyncedRows(mu, secs)[Call(Root, 0, rs)]]

-----------------------------------------------------------------------------
(* items-changed.                                                          *)

NotFound == -1

\* The list items the search has found something in, and the first of them.
Hits(items, find) == {i \in DOMAIN items : items[i] # NoLink /\ find[items[i]] # NotFound}
FirstHit(items, find) == CHOOSE i \in Hits(items, find) : \A j \in Hits(items, find) : i <= j

\* Mutant: the separators of the sections around the found one are not counted.
FindUnseparated(secs, m) ==
  LET find[s \in DOMAIN secs] ==
        LET items == secs[s].items
            i == FirstHit(items, find)
        IN  IF s = m THEN Separator(secs[s])
            ELSE IF Hits(items, find) = {} THEN NotFound
            ELSE MeasureItems(SubSeq(items, 1, i - 1), Measure(secs)) + find[items[i]]
  IN  find

\* Depth first from each section, the number of rows before those inside the
\* section of model m.
FindModel(secs, m) ==
  LET find[s \in DOMAIN secs] ==
        LET items == secs[s].items
            i == FirstHit(items, find)
        IN  IF s = m THEN Separator(secs[s])
            ELSE IF Hits(items, find) = {} THEN NotFound
            ELSE Separator(secs[s]) + MeasureItems(SubSeq(items, 1, i - 1), Measure(secs)) + find[items[i]]
  IN  find

Splice(s, pos, removed, es) ==
  SubSeq(s, 1, pos) \o es \o SubSeq(s, pos + removed + 1, Len(s))

\* The sections without those of list items that go, and what is below them.
SectionsFreed(secs, items) ==
  LET freed == Below([m \in DOMAIN secs |-> secs[m].items], SectionsIn(items))
  IN  [m \in DOMAIN secs \ freed |-> secs[m]]

\* The sections when a section's own list is changed, before those of es are made.
SectionsKept(secs, m, pos, removed, es) ==
  [SectionsFreed(secs, SubSeq(secs[m].items, pos + 1, pos + removed))
     EXCEPT ![m].items = Splice(@, pos, removed, Items(es))]

\* The handler: find the section, remove, add, sync.
ModelChanged(mu, secs, rs, m, pos, removed, es) ==
  LET items == secs[m].items
      gone == SubSeq(items, pos + 1, pos + removed)
      offset == FindModel(secs, m)[Root] + MeasureItems(SubSeq(items, 1, pos), Measure(secs))
      added == AddItems(mu, SectionsKept(secs, m, pos, removed, es), secs[m].ns,
                        RemoveRows(rs, offset, MeasureItems(gone, Measure(secs))), offset, es)
  IN  SyncSeparators(mu, added.sections, added.rows)

\* The section of m is there, with as many items as the handler counts.
CanChange(secs, m, pos, removed) ==
  /\ FindModel(secs, m)[Root] # NotFound
  /\ pos + removed <= Len(secs[m].items)

\* Mutant: a freed section stays connected.
ConnectedOnce(m) == TRUE

\* The section of m listens to m's items-changed until it is freed.
Connected(m) == m \in DOMAIN sections

-----------------------------------------------------------------------------

\* The plain items of a sequence come before its sections.
PlainFirst(es) ==
  \A i, j \in DOMAIN es : i < j /\ SectionOf[es[j]] = NoLink => SectionOf[es[i]] = NoLink

\* What the tracker flattens correctly: plain items before sections in every
\* batch, a new section's initial contents included, and labels only on the
\* sections of the root.
Orderly(mu, es) ==
  /\ PlainFirst(es)
  /\ \A m \in Models \ {Root} : PlainFirst(mu[m]) /\ ToSet(mu[m]) \cap Labelled = {}

InUse == UNION {ToSet(menu[m]) : m \in Models}

\* The peer replaces "removed" entries of model m at pos by the batch es, and the
\* section that listens to m handles it.
ItemsChanged(m, pos, removed, es) ==
  /\ ~fault
  /\ removed <= MaxRemoved
  /\ pos + removed <= Len(menu[m])
  /\ removed + Len(es) > 0
  /\ ToSet(es) \cap InUse = {}
  /\ menu' = [menu EXCEPT ![m] = Splice(@, pos, removed, es)]
  /\ orderly' = (orderly /\ Orderly(menu', es))
  /\ IF ~Connected(m) THEN UNCHANGED <<sections, rows, fault>>
     ELSE IF ~CanChange(sections, m, pos, removed) THEN fault' = TRUE /\ UNCHANGED <<sections, rows>>
     ELSE LET after == ModelChanged(menu', sections, rows, m, pos, removed, es)
          IN  sections' = after.sections /\ rows' = after.rows /\ UNCHANGED fault

\* gtk_menu_tracker_new on the models as they are.
TrackerNew(mu) ==
  LET new == SectionsNew(mu, <<>>, {Root}) IN SyncSeparators(mu, new, MadeRows(mu, new)[Root])

Init ==
  /\ menu = InitialMenu
  /\ sections = TrackerNew(menu).sections
  /\ rows = TrackerNew(menu).rows
  /\ fault = FALSE
  /\ orderly = Orderly(menu, menu[Root])

Next ==
  \E m \in Models : \E pos \in 0..Len(menu[m]), removed \in 0..MaxRemoved,
                       es \in Batches[m] \cup {<<>>} :
    ItemsChanged(m, pos, removed, es)

Spec == Init /\ [][Next]_vars

-----------------------------------------------------------------------------
(* What a menu should look like, defined from the exported models alone.   *)

\* The rows of a model with the namespace around it: of each entry, a plain row,
\* or its section's rows, headed by a separator when there are any and the entry
\* is labelled or divides the root's items.
Flatten ==
  LET flat[at \in Models \X Namespaces] ==
        FlattenSeq([i \in DOMAIN menu[at[1]] |->
          LET e == menu[at[1]][i] IN
          IF SectionOf[e] = NoLink THEN <<Row(e, at[2], FALSE)>>
          ELSE LET inside == flat[<<SectionOf[e], at[2] \o Namespace[e]>>]
                   divided == inside # <<>> /\ ((at[1] = Root /\ i > 1) \/ e \in Labelled)
               IN  (IF divided THEN <<Row(e, <<>>, TRUE)>> ELSE <<>>) \o inside])
  IN  flat

Menu == Flatten[<<Root, RootNamespace>>]

-----------------------------------------------------------------------------

Section == [items : Seq(Models \cup {NoLink}), ns : Namespaces, hasSep : BOOLEAN]

\* The state has the shape the code's structures have.
TypeOK ==
  /\ menu \in [Models -> Seq(Entries)]
  /\ Root \in DOMAIN sections /\ DOMAIN sections \subseteq Models
  /\ sections \in [DOMAIN sections -> Section]
  /\ rows \in Seq(RowsOf)
  /\ fault \in BOOLEAN /\ orderly \in BOOLEAN

\* The rows are the flattened menu, in order, with the separators and the
\* namespaces due: what the comment of gtk_menu_tracker_new says of the
\* incremental updates, of every batch.
RowsFlattenMenu == ~fault => rows = Menu

\* The same, of a peer that adds plain items before sections.
OrderlyRowsFlattenMenu == orderly => RowsFlattenMenu

\* The offset arithmetic agrees with the list it is about: the sections measure
\* exactly as many rows as the model holds, after any batch.
TreeMeasuresRows == ~fault => Measure(sections)[Root] = Len(rows)

\* There is a section for exactly the models that Root leads to, with one list
\* item per entry, and it has its separator exactly when it has rows and is due
\* one.
TreeMirrorsMenu == ~fault =>
  /\ DOMAIN sections = Below(Links(menu), {Root})
  /\ \A m \in DOMAIN sections :
       /\ sections[m].items = Items(menu[m])
       /\ sections[m].hasSep <=> /\ CouldHaveSeparator(menu, sections, m)
                                 /\ MeasureItems(sections[m].items, Measure(sections)) # 0

\* The handler finds its section and never runs off the end of its list.
NoNullItem == ~fault

\* The actions of an item are looked up in the namespaces of all the sections
\* around it, as the comment of gtk_menu_tracker_new says.
NamespacesApply == ~fault =>
  {<<rows[i].entry, rows[i].ns>> : i \in 1..Len(rows)}
    \subseteq {<<Menu[i].entry, Menu[i].ns>> : i \in 1..Len(Menu)}

=============================================================================
