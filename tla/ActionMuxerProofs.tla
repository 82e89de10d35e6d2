------------------------- MODULE ActionMuxerProofs -------------------------
(***************************************************************************)
(* Proofs about ActionMuxer, for every set of prefixes, names, items,      *)
(* values and groups.                                                      *)
(*                                                                         *)
(* ItemsShowActions is not inductive: while a loop runs, the items it has  *)
(* yet to tell lag behind by that loop's change and by nothing else.       *)
(* Lagging says by how much, per kind of loop; LoopOK says that what the   *)
(* loop announces is still so when it comes to announce it.                *)
(***************************************************************************)
EXTENDS ActionMuxer, TLAPS

\* What the group says of an action that a loop of this kind announces.
Announces(kind, a) ==
  IF kind = "removed" THEN a = Absent
  ELSE a # Absent /\ (kind = "state" => a.state # NoValue)

LoopOK == loop # Idle =>
  /\ \A n \in loop.names : Announces(loop.kind, Lookup(groups[loop.prefix], n))
  /\ \A i \in loop.todo : ItemAction[i][1] = loop.prefix /\ Announces(loop.kind, Query(i))
  /\ loop.then # NoGroup => loop.kind = "removed" /\ groups[loop.prefix] = NoGroup

\* An item with target t that shows f, of an action the group has as a.
Settled(t, a, c, f) ==
  /\ f = Shown(t, a)
  /\ a # Absent => (c <=> CanActivate(t, a))
  /\ ~c => f = Blank

\* The same, for an item that is still to be told of the change.
Lagging(kind, t, a, c, f) ==
  /\ Announces(kind, a)
  /\ kind = "added" => f \in {Blank, Shown(t, a)}
  /\ kind # "added" => (~c => f = Blank)
  /\ kind \in {"enabled", "state"} => (c <=> CanActivate(t, a))
  /\ kind = "enabled" => \E e \in BOOLEAN : f = Shown(t, [a EXCEPT !.enabled = e])
  /\ kind = "state" =>
       \E v \in Values : /\ TypeOf[v] = TypeOf[a.state]
                         /\ f = Shown(t, [a EXCEPT !.state = v])

ItemOK(i) ==
  IF Pending(i) THEN Lagging(loop.kind, Target[i], Query(i), can[i], face[i])
  ELSE Settled(Target[i], Query(i), can[i], face[i])

ItemsOK == \A i \in live : ItemOK(i)

IInv == TypeOK /\ WatchersLive /\ LoopOK /\ ItemsOK

-----------------------------------------------------------------------------
(* The observer's handlers, on a target t and what the group says, a.      *)

\* What an item should show is a face.
LEMMA ShownFace ==
  ASSUME NEW t \in Values \cup {NoValue}, NEW a \in Info \cup {Absent}
  PROVE  Shown(t, a) \in Faces
BY MuxerAssumption DEF Shown, Faces, Blank, Roles, Info

\* Every handler leaves a face, of a face.
LEMMA HandlerFace ==
  ASSUME NEW t \in Values \cup {NoValue}, NEW a \in Info,
         NEW c \in BOOLEAN, NEW f \in Faces
  PROVE  /\ AddedFace(t, f, a) \in Faces
         /\ EnabledFace(c, f, a) \in Faces
         /\ StateFace(c, t, f, a) \in Faces
         /\ RemovedFace(c, f) \in Faces
BY MuxerAssumption
   DEF AddedFace, EnabledFace, StateFace, RemovedFace, Faces, Blank, Roles, Info

\* An item that was blank, or was told already, shows an added action.
LEMMA AddedShows ==
  ASSUME NEW t \in Values \cup {NoValue}, NEW a \in Info,
         NEW f \in {Blank, Shown(t, a)}
  PROVE  /\ AddedFace(t, f, a) = Shown(t, a)
         /\ ~CanActivate(t, a) => AddedFace(t, f, a) = Blank
<1>1. CASE ~CanActivate(t, a)
  BY <1>1, MuxerAssumption DEF AddedFace, Shown
<1>2. CASE CanActivate(t, a)
  <2>1. a # Absent
    BY MuxerAssumption
  <2>2. CASE f = Blank
    BY <1>2, <2>1, <2>2, MuxerAssumption DEF AddedFace, Shown, Blank, Booleans, Info
  <2>3. CASE f = Shown(t, a)
    BY <1>2, <2>1, <2>3, MuxerAssumption DEF AddedFace, Shown, Blank, Booleans, Info
  <2> QED BY <2>2, <2>3, <1>2
<1> QED BY <1>1, <1>2

\* An item that shows an action but for its "enabled" shows it once told.
LEMMA EnabledShows ==
  ASSUME NEW t \in Values \cup {NoValue}, NEW a \in Info, NEW e \in BOOLEAN,
         NEW c \in BOOLEAN, c <=> CanActivate(t, a)
  PROVE  EnabledFace(c, Shown(t, [a EXCEPT !.enabled = e]), a) = Shown(t, a)
BY MuxerAssumption DEF EnabledFace, Shown, CanActivate, Info, Blank

\* Faces are equal when their fields are.
LEMMA FaceEqual ==
  ASSUME NEW f \in Faces, NEW g \in Faces, f.sensitive = g.sensitive,
         f.toggled = g.toggled, f.role = g.role, f.state = g.state
  PROVE  f = g
BY DEF Faces

\* An item that shows an action but for its state shows it once told: the
\* type of the state, hence the role, is the same.
LEMMA StateShows ==
  ASSUME NEW t \in Values \cup {NoValue}, NEW a \in Info, a.state # NoValue,
         NEW v \in Values, TypeOf[v] = TypeOf[a.state],
         NEW c \in BOOLEAN, c <=> CanActivate(t, a)
  PROVE  StateFace(c, t, Shown(t, [a EXCEPT !.state = v]), a) = Shown(t, a)
<1>1. a.state \in Values /\ v # NoValue /\ a # Absent
  BY MuxerAssumption DEF Info
<1>2. v \in Booleans <=> a.state \in Booleans
  BY <1>1, MuxerAssumption
<1>3. [a EXCEPT !.state = v] \in Info /\ [a EXCEPT !.state = v] # Absent
  BY MuxerAssumption DEF Info
<1> DEFINE b == [a EXCEPT !.state = v]
<1>4. /\ b.param = a.param /\ b.enabled = a.enabled /\ b.state = v
      /\ CanActivate(t, b) <=> CanActivate(t, a)
  BY DEF Info, CanActivate
<1>5. CASE ~c
  BY <1>1, <1>3, <1>4, <1>5 DEF StateFace, Shown
<1>6. CASE c
  <2> DEFINE f == Shown(t, b)
             g == StateFace(c, t, f, a)
             h == Shown(t, a)
  <2>1. f \in Faces /\ h \in Faces
    BY <1>3, ShownFace
  <2>2. /\ f.sensitive = h.sensitive /\ f.role = h.role
        /\ h.state = a.state
        /\ h.toggled = (a.state = IF t # NoValue THEN t ELSE True)
    BY <1>1, <1>2, <1>3, <1>4, <1>6 DEF Shown
  <2> HIDE DEF f, h
  <2>3. /\ g \in Faces /\ g.sensitive = f.sensitive /\ g.role = f.role
        /\ g.state = a.state
        /\ g.toggled = (a.state = IF t # NoValue THEN t ELSE True)
    BY <1>1, <1>6, <2>1 DEF StateFace, Faces
  <2>4. g = h
    BY <2>1, <2>2, <2>3, FaceEqual
  <2> QED BY <2>4 DEF f, h
<1> QED BY <1>5, <1>6

-----------------------------------------------------------------------------
(* Types.                                                                  *)

\* A loop that begins is a loop, with nobody to call yet.
LEMMA EmitLoop ==
  ASSUME NEW kind \in Kinds, NEW p \in Prefixes, NEW ns \in SUBSET Names,
         NEW then \in Group \cup {NoGroup}
  PROVE  /\ Emit(kind, p, ns, then) \in Loops
         /\ Emit(kind, p, ns, then) # Idle
BY MuxerAssumption DEF Emit, Loops

\* What the muxer answers about an item's action.
LEMMA QueryType ==
  ASSUME TypeOK, NEW i \in Items
  PROVE  /\ ItemAction[i] \in Prefixes \X Names
         /\ ItemAction[i][1] \in Prefixes
         /\ ItemAction[i][2] \in Names
         /\ Target[i] \in Values \cup {NoValue}
         /\ Query(i) \in Info \cup {Absent}
<1>1. ItemAction[i] \in Prefixes \X Names /\ Target[i] \in Values \cup {NoValue}
  BY MuxerAssumption
<1>2. ItemAction[i][1] \in Prefixes /\ ItemAction[i][2] \in Names
  BY <1>1
<1>3. groups[ItemAction[i][1]] \in Group \cup {NoGroup}
  BY <1>2 DEF TypeOK
<1> QED BY <1>1, <1>2, <1>3 DEF Query, Lookup, Group

\* The new contents of a group whose action n becomes a.
LEMMA ChangedGroup ==
  ASSUME TypeOK, NEW p \in Prefixes, NEW n \in Names, NEW a \in Info \cup {Absent},
         groups[p] # NoGroup, groups' = [groups EXCEPT ![p] = [@ EXCEPT ![n] = a]]
  PROVE  /\ groups' \in [Prefixes -> Group \cup {NoGroup}]
         /\ groups'[p] = [groups[p] EXCEPT ![n] = a]
         /\ groups'[p] \in Group
<1>1. groups[p] \in Group
  BY DEF TypeOK
<1>2. [groups[p] EXCEPT ![n] = a] \in Group
  BY <1>1 DEF Group
<1> QED BY <1>2 DEF TypeOK

\* A loop that a group's signal begins keeps the types.
LEMMA ChangedType ==
  ASSUME TypeOK, NEW p \in Prefixes, NEW n \in Names, NEW a \in Info \cup {Absent},
         NEW kind \in Kinds, groups[p] # NoGroup, Changed(kind, p, n, a)
  PROVE  TypeOK'
<1>1. groups' \in [Prefixes -> Group \cup {NoGroup}]
  BY ChangedGroup DEF Changed
<1>2. loop' \in Loops
  BY EmitLoop DEF Changed
<1> QED BY <1>1, <1>2 DEF Changed, TypeOK

\* The action that a signal is about is described by the group.
LEMMA PresentInfo ==
  ASSUME TypeOK, NEW p \in Prefixes, NEW n \in Present(groups[p])
  PROVE  n \in Names /\ groups[p] # NoGroup /\ groups[p][n] \in Info
BY DEF TypeOK, Present, Lookup, Group

\* A loop about a removal finds no action, every other loop finds one.
LEMMA DeliverInfo ==
  ASSUME TypeOK, LoopOK, NEW i \in Items, Deliver(i)
  PROVE  /\ loop \in Loops /\ i \in loop.todo
         /\ ItemAction[i][1] = loop.prefix
         /\ Announces(loop.kind, Query(i))
         /\ loop.kind # "removed" => Query(i) \in Info
<1>1. loop \in Loops /\ i \in loop.todo /\ Announces(loop.kind, Query(i))
  BY DEF Deliver, TypeOK, LoopOK
<1> QED BY <1>1, QueryType DEF Announces, LoopOK, Deliver

\* Every step keeps the types; a loop's announcement, that only finds or only
\* misses its action, tells an item a face.
LEMMA TypeStep == TypeOK /\ LoopOK /\ [Next]_vars => TypeOK'
<1> SUFFICES ASSUME TypeOK, LoopOK, [Next]_vars PROVE TypeOK'
  OBVIOUS
<1>1. ASSUME NEW i \in Items, ItemNew(i) PROVE TypeOK'
  <2> DEFINE a == Query(i)
  <2>1. (IF a # Absent THEN AddedFace(Target[i], Blank, a) ELSE Blank) \in Faces
    <3>1. Blank \in Faces
        BY DEF Blank, Faces, Roles
    <3> QED BY <3>1, QueryType, HandlerFace
  <2>2. face' \in [Items -> Faces]
    BY <1>1, <2>1 DEF ItemNew, TypeOK
  <2>3. can' \in [Items -> BOOLEAN]
    BY <1>1 DEF ItemNew, TypeOK
  <2>4. observed' \in [Prefixes \X Names -> SUBSET Items]
    BY <1>1, QueryType DEF ItemNew, TypeOK
  <2> QED BY <1>1, <2>2, <2>3, <2>4 DEF ItemNew, TypeOK
<1>2. ASSUME NEW i \in Items, ItemFree(i) PROVE TypeOK'
  <2>1. face' \in [Items -> Faces]
    BY <1>2 DEF ItemFree, TypeOK, Blank, Faces, Roles
  <2>2. loop' \in Loops \cup {Idle}
    BY <1>2 DEF ItemFree, TypeOK, Loops
  <2> QED BY <1>2, <2>1, <2>2, QueryType DEF ItemFree, TypeOK
<1>3. ASSUME NEW p \in Prefixes, Remove(p) PROVE TypeOK'
  <2>1. loop' \in Loops
    BY <1>3, EmitLoop DEF Remove, Kinds, Present
  <2> QED BY <1>3, <2>1 DEF Remove, TypeOK
<1>4. ASSUME NEW p \in Prefixes, NEW g \in Contents, Insert(p, g) PROVE TypeOK'
  <2>1. g \in Group
    BY MuxerAssumption
  <2>2. loop' \in Loops
    BY <1>4, <2>1, EmitLoop DEF Insert, Kinds, Present
  <2> QED BY <1>4, <2>1, <2>2 DEF Insert, TypeOK
<1>5. ASSUME NEW p \in Prefixes, NEW n \in Names, NEW a \in Info, ActionAdded(p, n, a)
      PROVE  TypeOK'
  BY <1>5, ChangedType DEF ActionAdded, Kinds
<1>6. ASSUME NEW p \in Prefixes, NEW n \in Names, ActionRemoved(p, n) PROVE TypeOK'
  BY <1>6, ChangedType, PresentInfo DEF ActionRemoved, Kinds
<1>7. ASSUME NEW p \in Prefixes, NEW n \in Names, ActionEnabledChanged(p, n) PROVE TypeOK'
  <2>1. n \in Present(groups[p])
    BY <1>7 DEF ActionEnabledChanged
  <2>2. groups[p] # NoGroup /\ groups[p][n] \in Info
    BY <2>1, PresentInfo
  <2>3. [groups[p][n] EXCEPT !.enabled = ~@] \in Info
    BY <2>2 DEF Info
  <2> QED BY <1>7, <2>2, <2>3, ChangedType DEF ActionEnabledChanged, Kinds
<1>8. ASSUME NEW p \in Prefixes, NEW n \in Names, NEW v \in Values,
             ActionStateChanged(p, n, v)
      PROVE  TypeOK'
  <2>1. n \in Present(groups[p])
    BY <1>8 DEF ActionStateChanged
  <2>2. groups[p] # NoGroup /\ groups[p][n] \in Info
    BY <2>1, PresentInfo
  <2>3. [groups[p][n] EXCEPT !.state = v] \in Info
    BY <2>2 DEF Info
  <2> QED BY <1>8, <2>2, <2>3, ChangedType DEF ActionStateChanged, Kinds
<1>9. ASSUME NEW n \in Names, EmitName(n) PROVE TypeOK'
  <2>1. loop \in Loops
    BY <1>9 DEF EmitName, TypeOK
  <2>2. observed[<<loop.prefix, n>>] \subseteq Items
    BY <2>1 DEF TypeOK, Loops
  <2>3. loop' \in Loops
    BY <1>9, <2>1, <2>2 DEF EmitName, Loops
  <2> QED BY <1>9, <2>3 DEF EmitName, TypeOK
<1>10. ASSUME NEW i \in Items, Deliver(i) PROVE TypeOK'
  <2>1. /\ loop \in Loops
        /\ loop.kind # "removed" => Query(i) \in Info
        /\ face[i] \in Faces /\ can[i] \in BOOLEAN /\ Target[i] \in Values \cup {NoValue}
    BY <1>10, DeliverInfo, QueryType DEF TypeOK
  <2>2. face'[i] \in Faces
    <3>1. CASE loop.kind = "removed"
      BY <1>10, <2>1, <3>1 DEF Deliver, TypeOK, RemovedFace, Blank, Faces, Roles
    <3>2. CASE loop.kind # "removed"
      BY <1>10, <2>1, <3>2, HandlerFace DEF Deliver, TypeOK, Loops, Kinds
    <3> QED BY <3>1, <3>2
  <2>3. face' \in [Items -> Faces]
    BY <1>10, <2>2 DEF Deliver, TypeOK
  <2>4. can' \in [Items -> BOOLEAN]
    BY <1>10 DEF Deliver, TypeOK, CanActivate
  <2>5. loop' = [loop EXCEPT !.todo = @ \ {i}, !.at = i]
    BY <1>10 DEF Deliver
  <2>6. loop' \in Loops
    BY <2>1, <2>5 DEF Loops
  <2> QED BY <1>10, <2>3, <2>4, <2>6 DEF Deliver, TypeOK
<1>11. ASSUME EmitEnd PROVE TypeOK'
  <2>1. loop \in Loops
    BY <1>11 DEF EmitEnd, TypeOK
  <2>2. CASE loop.then = NoGroup
    BY <1>11, <2>2 DEF EmitEnd, TypeOK
  <2>3. CASE loop.then # NoGroup
    <3>1. loop.then \in Group /\ loop.prefix \in Prefixes
      BY <2>1, <2>3 DEF Loops
    <3>2. loop' \in Loops
      BY <1>11, <2>3, <3>1, EmitLoop DEF EmitEnd, Kinds, Present
    <3> QED BY <1>11, <2>3, <3>1, <3>2 DEF EmitEnd, TypeOK
  <2> QED BY <2>2, <2>3
<1>12. CASE UNCHANGED vars
  BY <1>12 DEF vars, TypeOK
<1> QED
  BY <1>1, <1>2, <1>3, <1>4, <1>5, <1>6, <1>7, <1>8, <1>9, <1>10, <1>11, <1>12
     DEF Next, Emission

-----------------------------------------------------------------------------
(* Watchers.                                                               *)

\* Every step keeps the watchers the items that exist: an item that is freed
\* leaves its table and every loop's list.
LEMMA WatchersStep == TypeOK /\ WatchersLive /\ [Next]_vars => WatchersLive'
<1> SUFFICES ASSUME TypeOK, WatchersLive, [Next]_vars PROVE WatchersLive'
  OBVIOUS
<1>1. ASSUME NEW i \in Items, ItemNew(i) PROVE WatchersLive'
  <2>1. ItemAction[i] \in Prefixes \X Names
    BY QueryType
  <2>2. ASSUME NEW f \in Prefixes \X Names
        PROVE  observed'[f] = {j \in live' : ItemAction[j] = f}
    <3>1. CASE f = ItemAction[i]
      BY <1>1, <2>1, <3>1 DEF ItemNew, WatchersLive, TypeOK
    <3>2. CASE f # ItemAction[i]
      BY <1>1, <2>1, <3>2 DEF ItemNew, WatchersLive, TypeOK
    <3> QED BY <3>1, <3>2
  <2> QED BY <1>1, <2>2 DEF ItemNew, WatchersLive
<1>2. ASSUME NEW i \in Items, ItemFree(i) PROVE WatchersLive'
  <2>1. ItemAction[i] \in Prefixes \X Names
    BY QueryType
  <2>2. ASSUME NEW f \in Prefixes \X Names
        PROVE  observed'[f] = {j \in live' : ItemAction[j] = f}
    <3>1. CASE f = ItemAction[i]
      BY <1>2, <2>1, <3>1 DEF ItemFree, WatchersLive, TypeOK
    <3>2. CASE f # ItemAction[i]
      BY <1>2, <2>1, <3>2 DEF ItemFree, WatchersLive, TypeOK
    <3> QED BY <3>1, <3>2
  <2>3. loop' # Idle => loop'.todo \subseteq live'
    BY <1>2, MuxerAssumption DEF ItemFree, WatchersLive, TypeOK, Loops
  <2> QED BY <2>2, <2>3 DEF WatchersLive
<1>3. ASSUME UNCHANGED <<observed, live>>, loop' # Idle => loop'.todo \subseteq live
      PROVE  WatchersLive'
  BY <1>3 DEF WatchersLive
<1>4. ASSUME NEW p \in Prefixes, Remove(p) PROVE WatchersLive'
  BY <1>4, <1>3 DEF Remove, Emit
<1>5. ASSUME NEW p \in Prefixes, NEW g \in Contents, Insert(p, g) PROVE WatchersLive'
  BY <1>5, <1>3 DEF Insert, Emit
<1>6. ASSUME NEW p, NEW n, NEW a, NEW kind, Changed(kind, p, n, a) PROVE WatchersLive'
  BY <1>6, <1>3 DEF Changed, Emit
<1>7. ASSUME NEW n \in Names, EmitName(n) PROVE WatchersLive'
  <2>1. loop \in Loops /\ <<loop.prefix, n>> \in Prefixes \X Names
    BY <1>7 DEF EmitName, TypeOK, Loops
  <2>2. observed[<<loop.prefix, n>>] \subseteq live
    BY <2>1 DEF WatchersLive
  <2>3. loop'.todo = observed[<<loop.prefix, n>>]
    BY <1>7, <2>1 DEF EmitName, Loops
  <2> QED BY <1>7, <1>3, <2>2, <2>3 DEF EmitName
<1>8. ASSUME NEW i \in Items, Deliver(i) PROVE WatchersLive'
  <2>1. loop \in Loops
    BY <1>8 DEF Deliver, TypeOK
  <2>2. loop'.todo = loop.todo \ {i}
    BY <1>8, <2>1 DEF Deliver, Loops
  <2> QED BY <1>8, <1>3, <2>2 DEF Deliver, WatchersLive
<1>9. ASSUME EmitEnd PROVE WatchersLive'
  BY <1>9, <1>3 DEF EmitEnd, Emit
<1>10. CASE UNCHANGED vars
  BY <1>10 DEF vars, WatchersLive
<1> QED
  BY <1>1, <1>2, <1>4, <1>5, <1>6, <1>7, <1>8, <1>9, <1>10
     DEF Next, Emission, ActionAdded, ActionRemoved, ActionEnabledChanged, ActionStateChanged

-----------------------------------------------------------------------------
(* Loops.                                                                  *)

\* A loop that a signal of the group begins announces what the group now says.
LEMMA ChangedLoop ==
  ASSUME TypeOK, NEW p \in Prefixes, NEW n \in Names, NEW a \in Info \cup {Absent},
         NEW kind \in Kinds, groups[p] # NoGroup, Changed(kind, p, n, a),
         Announces(kind, a)
  PROVE  LoopOK'
<1>1. groups'[p] # NoGroup /\ groups'[p][n] = a
  <2>1. groups'[p] = [groups[p] EXCEPT ![n] = a] /\ groups'[p] \in Group /\ groups[p] \in Group
    BY ChangedGroup DEF Changed, TypeOK
  <2> QED BY <2>1, MuxerAssumption DEF Group
<1>2. loop' = [kind |-> kind, prefix |-> p, names |-> {n}, todo |-> {},
               at |-> NoItem, then |-> NoGroup]
  BY DEF Changed, Emit
<1> QED BY <1>1, <1>2 DEF LoopOK, Lookup

\* Every step leaves a running loop with an announcement that is true of the
\* groups.
LEMMA LoopStep == TypeOK /\ WatchersLive /\ LoopOK /\ [Next]_vars => LoopOK'
<1> SUFFICES ASSUME TypeOK, WatchersLive, LoopOK, [Next]_vars PROVE LoopOK'
  OBVIOUS
<1>1. ASSUME UNCHANGED <<groups, loop>> PROVE LoopOK'
  BY <1>1 DEF LoopOK, Query
<1>2. ASSUME UNCHANGED groups, loop # Idle, loop' # Idle, NEW i,
             loop'.kind = loop.kind, loop'.prefix = loop.prefix, loop'.then = loop.then,
             loop'.names = loop.names, loop'.todo = loop.todo \ {i}
      PROVE  LoopOK'
  BY <1>2 DEF LoopOK, Query
<1>3. ASSUME NEW i \in Items, ItemFree(i) PROVE LoopOK'
  <2>1. CASE loop = Idle
    BY <1>3, <2>1 DEF ItemFree, LoopOK
  <2>2. CASE loop # Idle
    <3>1. loop \in Loops /\ loop' = [loop EXCEPT !.todo = @ \ {i}] /\ UNCHANGED groups
      BY <1>3, <2>2 DEF ItemFree, TypeOK
    <3>2. loop' \in Loops
      BY <3>1 DEF Loops
    <3>3. loop' # Idle
      BY <3>2, MuxerAssumption
    <3> QED BY <1>2, <2>2, <3>1, <3>3 DEF Loops
  <2> QED BY <2>1, <2>2
<1>4. ASSUME NEW p \in Prefixes, Remove(p) PROVE LoopOK'
  BY <1>4 DEF Remove, LoopOK, Emit, Announces, Lookup, TypeOK
<1>5. ASSUME NEW p \in Prefixes, NEW g \in Contents, Insert(p, g) PROVE LoopOK'
  <2>1. CASE groups[p] = NoGroup
    BY <1>5, <2>1 DEF Insert, LoopOK, Emit, Announces, Present, TypeOK
  <2>2. CASE groups[p] # NoGroup
    BY <1>5, <2>2 DEF Insert, LoopOK, Emit, Announces, Lookup, TypeOK
  <2> QED BY <2>1, <2>2
<1>6. ASSUME NEW p \in Prefixes, NEW n \in Names, NEW a \in Info, ActionAdded(p, n, a)
      PROVE  LoopOK'
  BY <1>6, ChangedLoop, MuxerAssumption DEF ActionAdded, Announces, Kinds
<1>7. ASSUME NEW p \in Prefixes, NEW n \in Names, ActionRemoved(p, n) PROVE LoopOK'
  BY <1>7, ChangedLoop, PresentInfo DEF ActionRemoved, Announces, Kinds
<1>8. ASSUME NEW p \in Prefixes, NEW n \in Names, ActionEnabledChanged(p, n) PROVE LoopOK'
  <2>1. n \in Present(groups[p])
    BY <1>8 DEF ActionEnabledChanged
  <2>2. groups[p] # NoGroup /\ [groups[p][n] EXCEPT !.enabled = ~@] \in Info
    BY <2>1, PresentInfo DEF Info
  <2> QED BY <1>8, <2>2, ChangedLoop, MuxerAssumption
          DEF ActionEnabledChanged, Announces, Kinds
<1>9. ASSUME NEW p \in Prefixes, NEW n \in Names, NEW v \in Values,
             ActionStateChanged(p, n, v)
      PROVE  LoopOK'
  <2>1. n \in Present(groups[p])
    BY <1>9 DEF ActionStateChanged
  <2> DEFINE b == [groups[p][n] EXCEPT !.state = v]
  <2>2. groups[p] # NoGroup /\ b \in Info /\ b.state = v
    BY <2>1, PresentInfo DEF Info
  <2>3. Announces("state", b)
    BY <2>2, MuxerAssumption DEF Announces
  <2> QED BY <1>9, <2>2, <2>3, ChangedLoop DEF ActionStateChanged, Kinds
<1>10. ASSUME NEW n \in Names, EmitName(n) PROVE LoopOK'
  <2>1. loop \in Loops /\ n \in loop.names /\ UNCHANGED groups
    BY <1>10 DEF EmitName, TypeOK
  <2>2. /\ loop'.kind = loop.kind /\ loop'.prefix = loop.prefix /\ loop'.then = loop.then
        /\ loop'.names = loop.names \ {n}
        /\ loop'.todo = observed[<<loop.prefix, n>>]
    BY <1>10, <2>1 DEF EmitName, Loops
  <2>3. ASSUME NEW i \in loop'.todo
        PROVE  ItemAction[i][1] = loop.prefix /\ Query(i) = Lookup(groups[loop.prefix], n)
    <3>1. <<loop.prefix, n>> \in Prefixes \X Names
      BY <2>1 DEF Loops
    <3>2. ItemAction[i] = <<loop.prefix, n>>
      BY <2>2, <2>3, <3>1 DEF WatchersLive
    <3> QED BY <3>2 DEF Query
  <2> QED BY <1>10, <2>1, <2>2, <2>3 DEF LoopOK, Query, EmitName
<1>11. ASSUME NEW i \in Items, Deliver(i) PROVE LoopOK'
  <2>1. loop \in Loops /\ loop' = [loop EXCEPT !.todo = @ \ {i}, !.at = i] /\ UNCHANGED groups
    BY <1>11 DEF Deliver, TypeOK
  <2>2. loop' \in Loops
    BY <2>1 DEF Loops
  <2>3. loop' # Idle
    BY <2>2, MuxerAssumption
  <2> QED BY <1>2, <1>11, <2>1, <2>3 DEF Loops, Deliver
<1>12. ASSUME EmitEnd PROVE LoopOK'
  <2>1. CASE loop.then = NoGroup
    BY <1>12, <2>1 DEF EmitEnd, LoopOK
  <2>2. CASE loop.then # NoGroup
    <3>1. loop.prefix \in Prefixes
      BY <1>12 DEF EmitEnd, TypeOK, Loops
    <3> QED BY <1>12, <2>2, <3>1 DEF EmitEnd, LoopOK, Emit, Announces, Present, TypeOK
  <2> QED BY <2>1, <2>2
<1>13. CASE UNCHANGED vars
  BY <1>13, <1>1 DEF vars
<1>14. ASSUME NEW i \in Items, ItemNew(i) PROVE LoopOK'
  BY <1>14, <1>1 DEF ItemNew
<1> QED
  BY <1>3, <1>4, <1>5, <1>6, <1>7, <1>8, <1>9, <1>10, <1>11, <1>12, <1>13, <1>14
     DEF Next, Emission

-----------------------------------------------------------------------------
(* Items.                                                                  *)

\* A new item that comes while a loop still has its action to announce is in
\* no worse a position than one that lags.
LEMMA SettledLags ==
  ASSUME NEW kind \in Kinds, NEW t \in Values \cup {NoValue},
         NEW a \in Info \cup {Absent}, NEW c \in BOOLEAN, NEW f,
         Announces(kind, a), Settled(t, a, c, f)
  PROVE  Lagging(kind, t, a, c, f)
<1>1. CASE kind \in {"added", "removed"}
  BY <1>1 DEF Lagging, Settled
<1>2. CASE kind = "enabled"
  <2>1. a \in Info /\ a # Absent
    BY <1>2 DEF Announces
  <2>2. a.enabled \in BOOLEAN /\ [a EXCEPT !.enabled = a.enabled] = a
    BY <2>1 DEF Info
  <2> QED BY <1>2, <2>1, <2>2 DEF Lagging, Settled
<1>3. CASE kind = "state"
  <2>1. a \in Info /\ a # Absent /\ a.state # NoValue
    BY <1>3 DEF Announces
  <2>2. a.state \in Values /\ [a EXCEPT !.state = a.state] = a
    BY <2>1 DEF Info
  <2> QED BY <1>3, <2>1, <2>2 DEF Lagging, Settled
<1> QED BY <1>1, <1>2, <1>3 DEF Kinds

\* The handler brings an item that lags up to date, whichever loop calls it.
LEMMA DeliverSettles ==
  ASSUME TypeOK, LoopOK, NEW i \in Items, Deliver(i),
         Lagging(loop.kind, Target[i], Query(i), can[i], face[i])
  PROVE  Settled(Target[i], Query(i), can'[i], face'[i])
<1> DEFINE t == Target[i]
           a == Query(i)
           c == can[i]
           f == face[i]
<1>1. /\ t \in Values \cup {NoValue} /\ a \in Info \cup {Absent}
      /\ c \in BOOLEAN /\ f \in Faces /\ loop.kind \in Kinds
  BY DeliverInfo, QueryType DEF TypeOK, Loops
<1>2. CASE loop.kind = "added"
  <2>1. a \in Info /\ a # Absent /\ f \in {Blank, Shown(t, a)}
    BY <1>1, <1>2, MuxerAssumption DEF Lagging, Announces
  <2>2. face'[i] = AddedFace(t, f, a) /\ can'[i] = CanActivate(t, a)
    BY <1>2 DEF Deliver, TypeOK
  <2> HIDE DEF t, a, c, f
  <2> QED BY <1>1, <2>1, <2>2, AddedShows DEF Settled, t, a
<1>3. CASE loop.kind = "removed"
  <2>1. a = Absent /\ (~c => f = Blank)
    BY <1>3 DEF Lagging, Announces
  <2>2. face'[i] = RemovedFace(c, f)
    BY <1>3 DEF Deliver, TypeOK
  <2>3. face'[i] = Blank
    BY <2>1, <2>2 DEF RemovedFace
  <2> QED BY <2>1, <2>3 DEF Settled, Shown
<1>4. CASE loop.kind = "enabled"
  <2>1. /\ a \in Info /\ (c <=> CanActivate(t, a)) /\ (~c => f = Blank)
        /\ \E e \in BOOLEAN : f = Shown(t, [a EXCEPT !.enabled = e])
    BY <1>1, <1>4 DEF Lagging, Announces
  <2>2. face'[i] = EnabledFace(c, f, a) /\ can'[i] = c
    BY <1>4 DEF Deliver, TypeOK
  <2> HIDE DEF t, a, c, f
  <2>3. EnabledFace(c, f, a) = Shown(t, a)
    BY <1>1, <2>1, EnabledShows
  <2>4. ~c => EnabledFace(c, f, a) = Blank
    BY <2>1 DEF EnabledFace
  <2> QED BY <2>1, <2>2, <2>3, <2>4 DEF Settled, t, a
<1>5. CASE loop.kind = "state"
  <2>1. /\ a \in Info /\ a.state # NoValue
        /\ (c <=> CanActivate(t, a)) /\ (~c => f = Blank)
        /\ \E v \in Values : TypeOf[v] = TypeOf[a.state] /\ f = Shown(t, [a EXCEPT !.state = v])
    BY <1>1, <1>5 DEF Lagging, Announces
  <2>2. face'[i] = StateFace(c, t, f, a) /\ can'[i] = c
    BY <1>5 DEF Deliver, TypeOK
  <2> HIDE DEF t, a, c, f
  <2>3. StateFace(c, t, f, a) = Shown(t, a)
    BY <1>1, <2>1, StateShows
  <2>4. ~c => StateFace(c, t, f, a) = Blank
    BY <2>1 DEF StateFace
  <2> QED BY <2>1, <2>2, <2>3, <2>4 DEF Settled, t, a
<1> QED BY <1>1, <1>2, <1>3, <1>4, <1>5 DEF Kinds

\* Taking a group out of the table leaves no item ahead of its notification.
LEMMA RemovedItems ==
  ASSUME TypeOK, ItemsOK, loop = Idle, NEW p \in Prefixes, NEW g,
         groups' = [groups EXCEPT ![p] = NoGroup],
         loop' = Emit("removed", p, Present(groups[p]), g),
         loop' # Idle, UNCHANGED <<live, can, face>>
  PROVE  ItemsOK'
<1> SUFFICES ASSUME NEW i \in live PROVE ItemOK(i)'
  BY DEF ItemsOK
<1>1. i \in Items
  BY DEF TypeOK
<1>2. Settled(Target[i], Query(i), can[i], face[i])
  BY DEF ItemsOK, ItemOK, Pending
<1>3. Pending(i)' <=> ItemAction[i][1] = p /\ ItemAction[i][2] \in Present(groups[p])
  BY DEF Pending, Emit
<1>4. CASE ItemAction[i][1] # p
  <2>1. Query(i)' = Query(i)
    BY <1>1, <1>4, QueryType DEF Query, TypeOK
  <2> QED BY <1>2, <1>3, <1>4, <2>1 DEF ItemOK
<1>5. CASE ItemAction[i][1] = p
  <2>1. Query(i)' = Absent
    BY <1>5 DEF Query, Lookup, TypeOK
  <2>2. Pending(i)' <=> Query(i) # Absent
    BY <1>1, <1>3, <1>5, QueryType DEF Present, Query
  <2>3. CASE Query(i) # Absent
    <3>1. loop'.kind = "removed"
      BY DEF Emit
    <3> QED BY <1>2, <2>1, <2>2, <2>3, <3>1 DEF ItemOK, Settled, Lagging, Announces
  <2>4. CASE Query(i) = Absent
    BY <1>2, <2>1, <2>2, <2>4 DEF ItemOK
  <2> QED BY <2>3, <2>4
<1> QED BY <1>4, <1>5

\* Putting a group where there was none leaves its items to be told.
LEMMA InsertedItems ==
  ASSUME TypeOK, ItemsOK, \A i \in live : ~Pending(i), NEW p \in Prefixes, NEW g \in Group,
         groups[p] = NoGroup, groups' = [groups EXCEPT ![p] = g],
         loop' = Emit("added", p, Present(g), NoGroup),
         loop' # Idle, UNCHANGED <<live, can, face>>
  PROVE  ItemsOK'
<1> SUFFICES ASSUME NEW i \in live PROVE ItemOK(i)'
  BY DEF ItemsOK
<1>1. i \in Items
  BY DEF TypeOK
<1>2. Settled(Target[i], Query(i), can[i], face[i])
  BY DEF ItemsOK, ItemOK
<1>3. Pending(i)' <=> ItemAction[i][1] = p /\ ItemAction[i][2] \in Present(g)
  BY DEF Pending, Emit
<1>4. CASE ItemAction[i][1] # p
  <2>1. Query(i)' = Query(i)
    BY <1>1, <1>4, QueryType DEF Query, TypeOK
  <2> QED BY <1>2, <1>3, <1>4, <2>1 DEF ItemOK
<1>5. CASE ItemAction[i][1] = p
  <2>1. Query(i) = Absent /\ Query(i)' = Lookup(g, ItemAction[i][2])
    BY <1>5 DEF Query, Lookup, TypeOK
  <2>2. Pending(i)' <=> Query(i)' # Absent
    BY <1>1, <1>3, <1>5, <2>1, QueryType DEF Present
  <2>3. face[i] = Blank
    BY <1>2, <2>1 DEF Settled, Shown
  <2>4. CASE Query(i)' # Absent
    <3>1. loop'.kind = "added"
      BY DEF Emit
    <3> QED BY <2>2, <2>3, <2>4, <3>1 DEF ItemOK, Lagging, Announces
  <2>5. CASE Query(i)' = Absent
    BY <1>2, <2>1, <2>2, <2>5 DEF ItemOK
  <2> QED BY <2>4, <2>5
<1> QED BY <1>4, <1>5

\* A signal of a group leaves the items of that action to be told, the others
\* as they are.
LEMMA ChangedItems ==
  ASSUME TypeOK, ItemsOK, NEW p \in Prefixes, NEW n \in Names, NEW a \in Info \cup {Absent},
         NEW kind \in Kinds, groups[p] # NoGroup, Changed(kind, p, n, a),
         \A t \in Values \cup {NoValue}, c \in BOOLEAN, f \in Faces :
           Settled(t, groups[p][n], c, f) => Lagging(kind, t, a, c, f)
  PROVE  ItemsOK'
<1> SUFFICES ASSUME NEW i \in live PROVE ItemOK(i)'
  BY DEF ItemsOK, Changed
<1>1. /\ i \in Items /\ can[i] \in BOOLEAN /\ face[i] \in Faces
      /\ Target[i] \in Values \cup {NoValue}
      /\ ItemAction[i] \in Prefixes \X Names
  BY QueryType DEF TypeOK
<1>2. Settled(Target[i], Query(i), can[i], face[i])
  BY DEF ItemsOK, ItemOK, Pending, Changed
<1>3. loop' # Idle /\ loop'.kind = kind
  BY EmitLoop DEF Changed, Emit
<1>4. Pending(i)' <=> ItemAction[i][1] = p /\ ItemAction[i][2] = n
  BY <1>3 DEF Pending, Emit, Changed
<1>5. groups[p] \in Group /\ groups'[p] = [groups[p] EXCEPT ![n] = a] /\ groups'[p] # NoGroup
  BY ChangedGroup, MuxerAssumption DEF Changed, TypeOK
<1>6. CASE Pending(i)'
  <2>1. Query(i) = groups[p][n] /\ Query(i)' = a
    BY <1>4, <1>5, <1>6 DEF Query, Lookup, Group
  <2> QED BY <1>1, <1>2, <1>3, <1>6, <2>1 DEF ItemOK, Changed
<1>7. CASE ~Pending(i)'
  <2>1. Query(i)' = Query(i)
    <3>1. CASE ItemAction[i][1] = p
      BY <1>1, <1>4, <1>5, <1>7, <3>1 DEF Query, Lookup, Group
    <3>2. CASE ItemAction[i][1] # p
      BY <1>1, <3>2 DEF Query, Changed, TypeOK
    <3> QED BY <3>1, <3>2
  <2> QED BY <1>2, <1>7, <2>1 DEF ItemOK, Changed
<1> QED BY <1>6, <1>7

\* Every step leaves each item showing its action, or still to be told of it.
LEMMA ItemsStep == IInv /\ [Next]_vars => ItemsOK'
<1> SUFFICES ASSUME IInv, [Next]_vars PROVE ItemsOK'
  OBVIOUS
<1> USE DEF IInv
<1>1. ASSUME NEW i \in Items, ItemNew(i) PROVE ItemsOK'
  <2> SUFFICES ASSUME NEW j \in live' PROVE ItemOK(j)'
    BY DEF ItemsOK
  <2>1. UNCHANGED <<groups, loop>> /\ Query(j)' = Query(j) /\ (Pending(j)' <=> Pending(j))
    BY <1>1 DEF ItemNew, Query, Pending
  <2>2. CASE j # i
    BY <1>1, <2>1, <2>2 DEF ItemNew, ItemsOK, ItemOK, TypeOK
  <2>3. CASE j = i
    <3> DEFINE t == Target[i]
               a == Query(i)
    <3>1. t \in Values \cup {NoValue} /\ a \in Info \cup {Absent} /\ can'[i] \in BOOLEAN
      BY <1>1, QueryType DEF ItemNew, TypeOK, CanActivate
    <3>2. /\ can'[i] = (a # Absent /\ CanActivate(t, a))
          /\ face'[i] = IF a # Absent THEN AddedFace(t, Blank, a) ELSE Blank
      BY <1>1 DEF ItemNew, TypeOK
    <3>3. Settled(t, a, can'[i], face'[i])
      <4>1. CASE a = Absent
        BY <3>2, <4>1 DEF Settled, Shown
      <4>2. CASE a # Absent
        <5>1. a \in Info
          BY <3>1, <4>2
        <5> HIDE DEF t, a
        <5>2. /\ AddedFace(t, Blank, a) = Shown(t, a)
              /\ ~CanActivate(t, a) => AddedFace(t, Blank, a) = Blank
          BY <3>1, <5>1, AddedShows
        <5> QED BY <3>2, <4>2, <5>2 DEF Settled
      <4> QED BY <4>1, <4>2
    <3>4. CASE Pending(i)
      <4>1. loop \in Loops /\ loop.kind \in Kinds
        BY <3>4 DEF Pending, TypeOK, Loops
      <4>2. Announces(loop.kind, a)
        BY <1>1, <3>4 DEF Pending, LoopOK, Query, WatchersLive, ItemNew
      <4>3. Lagging(loop.kind, t, a, can'[i], face'[i])
        BY <3>1, <3>3, <4>1, <4>2, SettledLags
      <4> QED BY <2>1, <2>3, <3>4, <4>3 DEF ItemOK
    <3>5. CASE ~Pending(i)
      BY <2>1, <2>3, <3>3, <3>5 DEF ItemOK
    <3> QED BY <3>4, <3>5
  <2> QED BY <2>2, <2>3
<1>2. ASSUME NEW i \in Items, ItemFree(i) PROVE ItemsOK'
  <2> SUFFICES ASSUME NEW j \in live' PROVE ItemOK(j)'
    BY DEF ItemsOK
  <2>1. j # i /\ j \in live /\ can'[j] = can[j] /\ face'[j] = face[j] /\ Query(j)' = Query(j)
    BY <1>2 DEF ItemFree, TypeOK, Query
  <2>2. CASE loop = Idle
    <3>1. loop' = Idle
      BY <1>2, <2>2 DEF ItemFree
    <3> QED BY <2>1, <2>2, <3>1 DEF ItemsOK, ItemOK, Pending
  <2>3. CASE loop # Idle
    <3>1. loop \in Loops /\ loop' = [loop EXCEPT !.todo = @ \ {i}]
      BY <1>2, <2>3 DEF ItemFree, TypeOK
    <3>2. loop' \in Loops
      BY <3>1 DEF Loops
    <3>3. loop' # Idle /\ loop'.kind = loop.kind /\ (Pending(j)' <=> Pending(j))
      BY <2>1, <2>3, <3>1, <3>2, MuxerAssumption DEF Pending, Loops
    <3> QED BY <2>1, <3>3 DEF ItemsOK, ItemOK
  <2> QED BY <2>2, <2>3
<1>3. ASSUME NEW p \in Prefixes, Remove(p) PROVE ItemsOK'
  <2>1. loop' # Idle
    BY <1>3, EmitLoop DEF Remove, Kinds, Present
  <2> QED BY <1>3, <2>1, RemovedItems DEF Remove
<1>4. ASSUME NEW p \in Prefixes, NEW g \in Contents, Insert(p, g) PROVE ItemsOK'
  <2>1. g \in Group
    BY MuxerAssumption
  <2>2. loop' # Idle
    BY <1>4, <2>1, EmitLoop DEF Insert, Kinds, Present
  <2>3. \A i \in live : ~Pending(i)
    BY <1>4 DEF Insert, Pending
  <2>4. CASE groups[p] = NoGroup
    BY <1>4, <2>1, <2>2, <2>3, <2>4, InsertedItems DEF Insert
  <2>5. CASE groups[p] # NoGroup
    BY <1>4, <2>2, <2>5, RemovedItems DEF Insert
  <2> QED BY <2>4, <2>5
<1>5. ASSUME NEW p \in Prefixes, NEW n \in Names, NEW a \in Info, ActionAdded(p, n, a)
      PROVE  ItemsOK'
  <2>1. groups[p] # NoGroup /\ groups[p][n] = Absent /\ a # Absent
    BY <1>5, MuxerAssumption DEF ActionAdded, Present, Lookup
  <2>2. ASSUME NEW t \in Values \cup {NoValue}, NEW c \in BOOLEAN, NEW f \in Faces,
               Settled(t, groups[p][n], c, f)
        PROVE  Lagging("added", t, a, c, f)
    BY <2>1, <2>2 DEF Settled, Lagging, Announces, Shown
  <2> QED BY <1>5, <2>1, <2>2, ChangedItems DEF ActionAdded, Kinds
<1>6. ASSUME NEW p \in Prefixes, NEW n \in Names, ActionRemoved(p, n) PROVE ItemsOK'
  <2>1. groups[p] # NoGroup
    BY <1>6, PresentInfo DEF ActionRemoved
  <2>2. ASSUME NEW t \in Values \cup {NoValue}, NEW c \in BOOLEAN, NEW f \in Faces,
               Settled(t, groups[p][n], c, f)
        PROVE  Lagging("removed", t, Absent, c, f)
    BY <2>2 DEF Settled, Lagging, Announces
  <2> QED BY <1>6, <2>1, <2>2, ChangedItems DEF ActionRemoved, Kinds
<1>7. ASSUME NEW p \in Prefixes, NEW n \in Names, ActionEnabledChanged(p, n) PROVE ItemsOK'
  <2> DEFINE a == groups[p][n]
             b == [a EXCEPT !.enabled = ~@]
  <2>1. groups[p] # NoGroup /\ a \in Info
    BY <1>7, PresentInfo DEF ActionEnabledChanged
  <2>2. /\ b \in Info /\ a # Absent /\ b # Absent /\ a.enabled \in BOOLEAN
        /\ [b EXCEPT !.enabled = a.enabled] = a /\ b.param = a.param
    BY <2>1, MuxerAssumption DEF Info
  <2>3. ASSUME NEW t \in Values \cup {NoValue}, NEW c \in BOOLEAN, NEW f \in Faces,
               Settled(t, a, c, f)
        PROVE  Lagging("enabled", t, b, c, f)
    <3>1. CanActivate(t, a) <=> CanActivate(t, b)
      BY <2>2 DEF CanActivate
    <3> HIDE DEF a, b
    <3> QED BY <2>2, <2>3, <3>1 DEF Settled, Lagging, Announces
  <2>4. Changed("enabled", p, n, b)
    BY <1>7 DEF ActionEnabledChanged
  <2> HIDE DEF b
  <2> QED BY <2>1, <2>2, <2>3, <2>4, ChangedItems DEF Kinds
<1>8. ASSUME NEW p \in Prefixes, NEW n \in Names, NEW v \in Values,
             ActionStateChanged(p, n, v)
      PROVE  ItemsOK'
  <2> DEFINE a == groups[p][n]
             b == [a EXCEPT !.state = v]
  <2>1. groups[p] # NoGroup /\ a \in Info /\ a.state # NoValue /\ TypeOf[v] = TypeOf[a.state]
    BY <1>8, PresentInfo DEF ActionStateChanged
  <2>2. /\ b \in Info /\ a # Absent /\ b # Absent /\ a.state \in Values
        /\ b.state = v /\ v # NoValue
        /\ [b EXCEPT !.state = a.state] = a /\ b.param = a.param
    BY <2>1, MuxerAssumption DEF Info
  <2>3. ASSUME NEW t \in Values \cup {NoValue}, NEW c \in BOOLEAN, NEW f \in Faces,
               Settled(t, a, c, f)
        PROVE  Lagging("state", t, b, c, f)
    <3>1. CanActivate(t, a) <=> CanActivate(t, b)
      BY <2>2 DEF CanActivate
    <3> HIDE DEF a, b
    <3> QED BY <2>1, <2>2, <2>3, <3>1 DEF Settled, Lagging, Announces
  <2>4. Changed("state", p, n, b)
    BY <1>8 DEF ActionStateChanged
  <2> QED BY <2>1, <2>2, <2>3, <2>4, ChangedItems DEF Kinds
<1>9. ASSUME NEW n \in Names, EmitName(n) PROVE ItemsOK'
  <2> SUFFICES ASSUME NEW i \in live PROVE ItemOK(i)'
    BY <1>9 DEF ItemsOK, EmitName
  <2>1. loop \in Loops /\ loop.todo = {} /\ n \in loop.names
    BY <1>9 DEF EmitName, TypeOK
  <2>2. /\ loop' = [loop EXCEPT !.names = @ \ {n}, !.at = NoItem,
                                !.todo = observed[<<loop.prefix, n>>]]
        /\ observed[<<loop.prefix, n>>] \subseteq Items
    BY <1>9, <2>1 DEF EmitName, TypeOK, Loops
  <2>3. loop' \in Loops
    BY <2>1, <2>2 DEF Loops
  <2>4. loop # Idle /\ loop' # Idle
    BY <1>9, <2>3, MuxerAssumption DEF EmitName
  <2>5. /\ loop'.kind = loop.kind /\ loop'.prefix = loop.prefix
        /\ loop'.names = loop.names \ {n} /\ loop'.todo = observed[<<loop.prefix, n>>]
    BY <2>1, <2>2 DEF Loops
  <2>6. i \in loop'.todo <=> ItemAction[i][1] = loop.prefix /\ ItemAction[i][2] = n
    <3>1. <<loop.prefix, n>> \in Prefixes \X Names
      BY <2>1 DEF Loops
    <3>2. i \in loop'.todo <=> ItemAction[i] = <<loop.prefix, n>>
      BY <2>5, <3>1 DEF WatchersLive
    <3>3. ItemAction[i] \in Prefixes \X Names
      BY QueryType DEF TypeOK
    <3> QED BY <3>2, <3>3
  <2>7. Pending(i)' <=> Pending(i)
    BY <2>1, <2>4, <2>5, <2>6 DEF Pending
  <2> QED BY <1>9, <2>5, <2>7 DEF EmitName, ItemsOK, ItemOK, Query
<1>10. ASSUME NEW i \in Items, Deliver(i) PROVE ItemsOK'
  <2> SUFFICES ASSUME NEW j \in live PROVE ItemOK(j)'
    BY <1>10 DEF ItemsOK, Deliver
  <2>1. /\ loop \in Loops /\ i \in loop.todo /\ loop # Idle
        /\ loop' = [loop EXCEPT !.todo = @ \ {i}, !.at = i] /\ UNCHANGED groups
    BY <1>10 DEF Deliver, TypeOK
  <2>2. loop' \in Loops /\ loop'.kind = loop.kind /\ loop.kind \in Kinds
    BY <2>1 DEF Loops
  <2>3. loop' # Idle /\ Query(j)' = Query(j)
    BY <2>1, <2>2, MuxerAssumption DEF Query
  <2>4. CASE j = i
    <3>1. Lagging(loop.kind, Target[i], Query(i), can[i], face[i])
      BY <2>1, <2>4 DEF ItemsOK, ItemOK, Pending
    <3>2. Settled(Target[i], Query(i), can'[i], face'[i])
      BY <1>10, <3>1, DeliverSettles
    <3>3. /\ Target[i] \in Values \cup {NoValue} /\ Query(i) \in Info \cup {Absent}
          /\ can'[i] \in BOOLEAN /\ Announces(loop.kind, Query(i))
      BY <1>10, QueryType, DeliverInfo DEF Deliver, TypeOK, CanActivate
    <3>4. Lagging(loop.kind, Target[i], Query(i), can'[i], face'[i])
      BY <2>2, <3>2, <3>3, SettledLags
    <3> QED BY <2>2, <2>3, <2>4, <3>2, <3>4 DEF ItemOK
  <2>5. CASE j # i
    <3>1. Pending(j)' <=> Pending(j)
      BY <2>1, <2>3, <2>5 DEF Pending, Loops
    <3>2. can'[j] = can[j] /\ face'[j] = face[j]
      BY <1>10, <2>5 DEF Deliver, TypeOK
    <3> QED BY <2>2, <2>3, <3>1, <3>2 DEF ItemsOK, ItemOK
  <2> QED BY <2>4, <2>5
<1>11. ASSUME EmitEnd PROVE ItemsOK'
  <2>1. loop \in Loops /\ \A i \in live : ~Pending(i)
    BY <1>11 DEF EmitEnd, TypeOK, Pending
  <2>2. CASE loop.then = NoGroup
    BY <1>11, <2>1, <2>2 DEF EmitEnd, ItemsOK, ItemOK, Pending, Query
  <2>3. CASE loop.then # NoGroup
    <3>1. loop.prefix \in Prefixes /\ loop.then \in Group
      BY <2>1, <2>3 DEF Loops
    <3>2. groups[loop.prefix] = NoGroup
      BY <1>11, <2>3 DEF EmitEnd, LoopOK
    <3>3. loop' # Idle
      BY <1>11, <2>3, <3>1, EmitLoop DEF EmitEnd, Kinds, Present
    <3> QED BY <1>11, <2>1, <2>3, <3>1, <3>2, <3>3, InsertedItems DEF EmitEnd
  <2> QED BY <2>2, <2>3
<1>12. CASE UNCHANGED vars
  BY <1>12 DEF vars, ItemsOK, ItemOK, Pending, Query
<1> QED
  BY <1>1, <1>2, <1>3, <1>4, <1>5, <1>6, <1>7, <1>8, <1>9, <1>10, <1>11, <1>12
     DEF Next, Emission

-----------------------------------------------------------------------------
(* The invariant, and what it shows.                                       *)

\* The muxer begins with no groups, no items and no loop.
LEMMA InitIInv == Init => IInv
<1> SUFFICES ASSUME Init PROVE IInv
  OBVIOUS
<1>1. TypeOK
  BY DEF Init, TypeOK, Faces, Blank, Roles
<1>2. WatchersLive /\ LoopOK /\ ItemsOK
  BY DEF Init, WatchersLive, LoopOK, ItemsOK
<1> QED BY <1>1, <1>2 DEF IInv

\* The invariant holds after any number of steps.
LEMMA Invariance == Spec => []IInv
<1>1. IInv /\ [Next]_vars => IInv'
  BY TypeStep, WatchersStep, LoopStep, ItemsStep DEF IInv
<1> QED BY InitIInv, <1>1, PTL DEF Spec

\* The state has the types the code declares, after any number of steps.
THEOREM TypeCorrect == Spec => []TypeOK
<1>1. IInv => TypeOK
  BY DEF IInv
<1> QED BY Invariance, <1>1, PTL

\* The muxer's watchers are at all times the items that exist, so no loop
\* calls one that is gone, whatever items the notified code makes and drops.
THEOREM WatchersAreLive == Spec => []WatchersLive
<1>1. IInv => WatchersLive
  BY DEF IInv
<1> QED BY Invariance, <1>1, PTL

\* An item shows exactly the action its group has now, unless the running
\* loop is about to tell it: no notification is missed.
THEOREM ItemsFollowActions == Spec => []ItemsShowActions
<1>1. IInv => ItemsShowActions
  BY DEF IInv, ItemsOK, ItemOK, Settled, ItemsShowActions
<1> QED BY Invariance, <1>1, PTL

\* can_activate belongs to the action that is there now.
THEOREM ActivationsTyped == Spec => []ActivationTyped
<1>1. IInv => ActivationTyped
  BY DEF IInv, ItemsOK, ItemOK, Settled, ActivationTyped
<1> QED BY Invariance, <1>1, PTL

-----------------------------------------------------------------------------
(* The muxer with its items is an asynchronous mirror of the actions: from *)
(* the invariant above, each of its steps is one of ActionMirror's or      *)
(* changes nothing that ActionMirror knows of.  That everyone is told in   *)
(* the end is liveness, and left to TLC.                                   *)

\* Whom the loop is telling it will not tell again.
ToldOnce ==
  loop # Idle => \A i \in loop.todo : ItemAction[i][2] \notin loop.names

MInv == IInv /\ ToldOnce

\* The state of the mirror.
Due == [i \in Items |-> Shown(Target[i], Query(i))]
Waiting == {i \in live : Pending(i)}

-----------------------------------------------------------------------------

\* The watchers of a name are collected as the name is taken off the list.
LEMMA ToldOnceStep == IInv /\ ToldOnce /\ [Next]_vars => ToldOnce'
<1> SUFFICES ASSUME IInv, ToldOnce, [Next]_vars PROVE ToldOnce'
  OBVIOUS
<1>1. TypeOK /\ WatchersLive
  BY DEF IInv
<1>2. ASSUME NEW kind, NEW p, NEW ns, NEW then, loop' = Emit(kind, p, ns, then) PROVE ToldOnce'
  BY <1>2 DEF Emit, ToldOnce
<1>3. ASSUME NEW n \in Names, EmitName(n) PROVE ToldOnce'
  <2>1. /\ loop \in Loops /\ loop.prefix \in Prefixes
        /\ loop' = [loop EXCEPT !.names = @ \ {n}, !.at = NoItem,
                                !.todo = observed[<<loop.prefix, n>>]]
    BY <1>1, <1>3 DEF EmitName, TypeOK, Loops
  <2>2. loop'.names = loop.names \ {n} /\ loop'.todo = observed[<<loop.prefix, n>>]
    BY <2>1 DEF Loops
  <2>3. \A i \in observed[<<loop.prefix, n>>] : ItemAction[i][2] = n
    BY <1>1, <2>1 DEF WatchersLive
  <2> QED BY <2>2, <2>3 DEF ToldOnce
<1>4. ASSUME NEW i \in Items, Deliver(i) PROVE ToldOnce'
  <2>1. loop \in Loops /\ loop' = [loop EXCEPT !.todo = @ \ {i}, !.at = i]
    BY <1>1, <1>4 DEF Deliver, TypeOK
  <2>2. loop'.names = loop.names /\ loop'.todo = loop.todo \ {i}
    BY <2>1 DEF Loops
  <2> QED BY <1>4, <2>2 DEF ToldOnce, Deliver
<1>5. ASSUME NEW i \in Items, ItemFree(i) PROVE ToldOnce'
  <2>1. CASE loop = Idle
    BY <1>5, <2>1 DEF ItemFree, ToldOnce
  <2>2. CASE loop # Idle
    <3>1. loop \in Loops /\ loop' = [loop EXCEPT !.todo = @ \ {i}]
      BY <1>1, <1>5, <2>2 DEF ItemFree, TypeOK
    <3>2. loop'.names = loop.names /\ loop'.todo = loop.todo \ {i}
      BY <3>1 DEF Loops
    <3> QED BY <2>2, <3>2 DEF ToldOnce
  <2> QED BY <2>1, <2>2
<1>6. ASSUME UNCHANGED loop PROVE ToldOnce'
  BY <1>6 DEF ToldOnce
<1>7. ASSUME EmitEnd PROVE ToldOnce'
  <2>1. loop' = Idle \/ loop' = Emit("added", loop.prefix, Present(loop.then), NoGroup)
    BY <1>7 DEF EmitEnd
  <2> QED BY <1>2, <2>1 DEF ToldOnce
<1>8. ASSUME NEW p \in Prefixes, Remove(p) \/ \E g \in Contents : Insert(p, g) PROVE ToldOnce'
  BY <1>2, <1>8 DEF Remove, Insert
<1>9. ASSUME NEW kind, NEW p, NEW n, NEW a, Changed(kind, p, n, a) PROVE ToldOnce'
  BY <1>2, <1>9 DEF Changed
<1>10. ASSUME NEW p \in Prefixes, NEW n \in Names,
              \/ \E a \in Info : ActionAdded(p, n, a)
              \/ ActionRemoved(p, n) \/ ActionEnabledChanged(p, n)
              \/ \E v \in Values : ActionStateChanged(p, n, v)
       PROVE  ToldOnce'
  BY <1>9, <1>10 DEF ActionAdded, ActionRemoved, ActionEnabledChanged, ActionStateChanged
<1>11. ASSUME NEW i \in Items, ItemNew(i) PROVE ToldOnce'
  BY <1>6, <1>11 DEF ItemNew
<1> QED BY <1>3, <1>4, <1>5, <1>6, <1>7, <1>8, <1>10, <1>11 DEF Next, Emission, vars

-----------------------------------------------------------------------------
(* What the steps are to the mirror.                                       *)

\* What every item should show is a face, and those who do not wait show it.
MirrorOK ==
  /\ Due \in [Items -> Faces] /\ live \subseteq Items
  /\ \A i \in live \ Waiting : Due[i] = face[i]

\* These follow from the invariant of the muxer.
LEMMA MirrorState == IInv => MirrorOK
<1> SUFFICES ASSUME IInv PROVE MirrorOK
  OBVIOUS
<1>1. TypeOK /\ ItemsOK
  BY DEF IInv
<1>2. \A i \in Items : Shown(Target[i], Query(i)) \in Faces
  BY <1>1, QueryType, ShownFace
<1>3. live \subseteq Items
  BY <1>1 DEF TypeOK
<1>4. \A i \in live \ Waiting : Due[i] = face[i]
  BY <1>1, <1>3 DEF ItemsOK, ItemOK, Settled, Due, Waiting
<1> QED BY <1>2, <1>3, <1>4 DEF Due, MirrorOK

\* As long as the groups stay, so does what the items should show.
LEMMA DueKept ==
  ASSUME UNCHANGED groups
  PROVE  Due' = Due
BY DEF Due, Query

\* A change of the groups, after which a loop is to tell of it.
LEMMA Published ==
  ASSUME MirrorOK', \A i \in live : ~Pending(i), UNCHANGED <<live, face>>
  PROVE  Mirror!Publish
<1>1. Waiting = {} /\ Waiting' \subseteq live
  BY DEF Waiting
<1>2. Due' \in [Items -> Faces] /\ \A i \in live \ Waiting' : Due'[i] = face[i]
  BY DEF MirrorOK
<1> QED BY <1>1, <1>2 DEF Mirror!Publish, Due, Waiting

\* One watcher is called.
LEMMA DeliverTells ==
  ASSUME IInv, ToldOnce, MirrorOK, MirrorOK', NEW i \in Items, Deliver(i)
  PROVE  Mirror!Tell(i)
<1>1. /\ loop \in Loops /\ loop # Idle /\ i \in loop.todo /\ i \in live
      /\ loop' = [loop EXCEPT !.todo = @ \ {i}, !.at = i]
      /\ UNCHANGED <<groups, live>>
  BY DEF Deliver, IInv, TypeOK, WatchersLive
<1>2. loop'.todo = loop.todo \ {i} /\ loop'.names = loop.names /\ loop'.prefix = loop.prefix
  BY <1>1 DEF Loops
<1>3. loop' # Idle
  <2>1. loop' \in Loops
    BY <1>1 DEF Loops
  <2> QED BY <2>1, MuxerAssumption
<1>4. Waiting' = Waiting \ {i} /\ i \in Waiting
  BY <1>1, <1>2, <1>3 DEF Waiting, Pending, ToldOnce
<1>5. Due' = Due
  BY <1>1, DueKept
<1>6. face' = [face EXCEPT ![i] = Due[i]]
  <2>1. i \in live' \ Waiting'
    BY <1>1, <1>4
  <2>2. face'[i] = Due[i]
    BY <1>5, <2>1 DEF MirrorOK
  <2>3. \E f : face' = [face EXCEPT ![i] = f]
    BY DEF Deliver
  <2>4. face \in [Items -> Faces]
    BY DEF IInv, TypeOK
  <2> QED BY <2>2, <2>3, <2>4
<1> QED BY <1>1, <1>4, <1>5, <1>6 DEF Mirror!Tell, Due, Waiting

\* An item is made.
LEMMA NewKnows ==
  ASSUME IInv, MirrorOK, MirrorOK', NEW i \in Items, ItemNew(i)
  PROVE  Mirror!New(i)
<1>1. i \notin live /\ live' = live \cup {i} /\ UNCHANGED <<groups, loop>>
  BY DEF ItemNew
<1>2. Waiting' \in {Waiting, Waiting \cup {i}}
  BY <1>1 DEF Waiting, Pending
<1>3. Due' = Due
  BY <1>1, DueKept
<1>4. face' = [face EXCEPT ![i] = Due[i]]
  <2>1. Query(i) # Absent => AddedFace(Target[i], Blank, Query(i)) = Shown(Target[i], Query(i))
    BY QueryType, AddedShows DEF IInv
  <2> QED BY <2>1 DEF ItemNew, Due, Shown
<1> QED BY <1>1, <1>2, <1>3, <1>4 DEF Mirror!New, Due, Waiting

\* An item goes, and the loop that was to tell it no longer does.
LEMMA FreeForgets ==
  ASSUME IInv, NEW i \in Items, ItemFree(i)
  PROVE  Mirror!Free(i)
<1>1. /\ i \in live /\ live' = live \ {i} /\ UNCHANGED groups
      /\ face' = [face EXCEPT ![i] = Blank]
      /\ loop' = IF loop = Idle THEN Idle ELSE [loop EXCEPT !.todo = @ \ {i}]
  BY DEF ItemFree
<1>2. Waiting' = Waiting \ {i}
  <2>1. CASE loop = Idle
    BY <1>1, <2>1 DEF Waiting, Pending
  <2>2. CASE loop # Idle
    <3>1. loop \in Loops /\ loop' = [loop EXCEPT !.todo = @ \ {i}]
      BY <1>1, <2>2 DEF IInv, TypeOK
    <3>2. /\ loop'.todo = loop.todo \ {i} /\ loop'.names = loop.names
          /\ loop'.prefix = loop.prefix
      BY <3>1 DEF Loops
    <3>3. loop' \in Loops
      BY <3>1 DEF Loops
    <3> QED BY <1>1, <2>2, <3>2, <3>3, MuxerAssumption DEF Waiting, Pending
  <2> QED BY <2>1, <2>2
<1> QED BY <1>1, <1>2, DueKept DEF Mirror!Free, Due, Waiting

\* The loop goes on to another name: its watchers waited before, and wait now.
LEMMA NameStutters ==
  ASSUME IInv, NEW n \in Names, EmitName(n)
  PROVE  UNCHANGED Mirror!vars
<1>1. /\ loop # Idle /\ loop \in Loops /\ loop.todo = {} /\ n \in loop.names
      /\ loop' = [loop EXCEPT !.names = @ \ {n}, !.at = NoItem,
                              !.todo = observed[<<loop.prefix, n>>]]
      /\ UNCHANGED <<groups, live, face>>
  BY DEF EmitName, IInv, TypeOK
<1>2. /\ loop'.names = loop.names \ {n} /\ loop'.prefix = loop.prefix
      /\ loop'.todo = observed[<<loop.prefix, n>>]
  BY <1>1 DEF Loops
<1>3. loop' # Idle
  <2>1. observed[<<loop.prefix, n>>] \subseteq Items
    BY <1>1 DEF IInv, TypeOK, Loops
  <2>2. loop' \in Loops
    BY <1>1, <2>1 DEF Loops
  <2> QED BY <2>2, MuxerAssumption
<1>4. observed[<<loop.prefix, n>>] = {i \in live : ItemAction[i] = <<loop.prefix, n>>}
  BY <1>1 DEF IInv, WatchersLive, Loops
<1>5. ASSUME NEW i \in live PROVE Pending(i)' <=> Pending(i)
  <2>1. ItemAction[i] \in Prefixes \X Names
    BY QueryType DEF IInv, TypeOK
  <2>2. ItemAction[i] = <<loop.prefix, n>> <=> ItemAction[i][1] = loop.prefix /\ ItemAction[i][2] = n
    BY <2>1
  <2>3. i \in loop'.todo <=> ItemAction[i][1] = loop.prefix /\ ItemAction[i][2] = n
    BY <1>2, <1>4, <2>2
  <2> QED BY <1>1, <1>2, <1>3, <2>3 DEF Pending
<1>6. Waiting' = Waiting
  BY <1>1, <1>5 DEF Waiting
<1> QED BY <1>1, <1>6, DueKept DEF Mirror!vars, Due, Waiting

\* Each step of the muxer is a step of the mirror, or none.
LEMMA MirrorStep ==
  ASSUME IInv, ToldOnce, MirrorOK, MirrorOK', [Next]_vars
  PROVE  [Mirror!Next]_(Mirror!vars)
<1>1. ASSUME NEW i \in Items, ItemNew(i) \/ ItemFree(i) \/ Deliver(i) PROVE Mirror!Next
  BY <1>1, NewKnows, FreeForgets, DeliverTells DEF Mirror!Next
<1>2. ASSUME loop = Idle, UNCHANGED <<live, face>> PROVE Mirror!Next
  <2>1. Mirror!Publish
    BY <1>2, Published DEF Pending
  <2> QED BY <2>1 DEF Mirror!Next
<1>3. ASSUME NEW p \in Prefixes, Remove(p) \/ \E g \in Contents : Insert(p, g) PROVE Mirror!Next
  BY <1>2, <1>3 DEF Remove, Insert
<1>4. ASSUME NEW p \in Prefixes, NEW n \in Names,
             \/ \E a \in Info : ActionAdded(p, n, a)
             \/ ActionRemoved(p, n) \/ ActionEnabledChanged(p, n)
             \/ \E v \in Values : ActionStateChanged(p, n, v)
      PROVE  Mirror!Next
  BY <1>2, <1>4
     DEF ActionAdded, ActionRemoved, ActionEnabledChanged, ActionStateChanged, Changed
<1>5. ASSUME EmitEnd PROVE Mirror!Next
  <2>1. \A i \in live : ~Pending(i)
    BY <1>5 DEF EmitEnd, Pending
  <2>2. UNCHANGED <<live, face>>
    BY <1>5 DEF EmitEnd
  <2> QED BY <2>1, <2>2, Published DEF Mirror!Next
<1>6. ASSUME UNCHANGED vars PROVE UNCHANGED Mirror!vars
  <2>1. UNCHANGED <<groups, live, face, loop>>
    BY <1>6 DEF vars
  <2>2. Waiting' = Waiting
    BY <2>1 DEF Waiting, Pending
  <2> QED BY <2>1, <2>2, DueKept DEF Mirror!vars, Due, Waiting
<1> QED BY <1>1, <1>3, <1>4, <1>5, <1>6, NameStutters DEF Next, Emission

\* It begins as a mirror of nothing.
LEMMA MirrorInit == Init => Mirror!Init
<1> SUFFICES ASSUME Init PROVE Mirror!Init
  OBVIOUS
<1>1. MirrorOK
  BY InitIInv, MirrorState
<1>2. Waiting = {} /\ live = {} /\ face = [i \in Items |-> Blank]
  BY DEF Init, Waiting
<1> QED BY <1>1, <1>2 DEF Mirror!Init, MirrorOK, Due, Waiting

\* The muxer's loops, whatever items are made and freed in the middle of them,
\* tell the items of each change as ActionMirror does: each once, before the
\* next change, and nobody shows anything else meanwhile.
THEOREM ImplementsMirror == Spec => Mirror!Init /\ [][Mirror!Next]_(Mirror!vars)
<1>1. Init => ToldOnce
  BY DEF Init, ToldOnce
<1>2. Spec => []ToldOnce
  BY <1>1, ToldOnceStep, Invariance, PTL DEF Spec
<1>3. IInv /\ ToldOnce /\ MirrorOK /\ MirrorOK' /\ [Next]_vars => [Mirror!Next]_(Mirror!vars)
  BY MirrorStep
<1> QED BY <1>2, <1>3, Invariance, MirrorState, MirrorInit, PTL DEF Spec
=============================================================================
