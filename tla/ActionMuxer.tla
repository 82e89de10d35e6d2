---------------------------- MODULE ActionMuxer ----------------------------
(***************************************************************************)
(* GtkActionMuxer (gtkactionmuxer.c) and the menu items that observe it    *)
(* (GtkMenuTrackerItem as a GtkActionObserver, gtkmenutrackeritem.c).      *)
(*                                                                         *)
(* The muxer joins action groups under prefixes and tells every observer   *)
(* of "prefix.name" of the changes to that action.  It does so in loops    *)
(* over action names and, for each, over the watchers; every call of a     *)
(* watcher may run application code (a row's dataChanged) that makes or    *)
(* destroys other items, so a loop is not one step here: EmitName starts   *)
(* the walk over the watchers of a name, Deliver is one call of a watcher, *)
(* and EmitEnd returns.                                                    *)
(*                                                                         *)
(* Application code that inserts or removes a group, or that destroys the  *)
(* very item being told, inside a notification is outside this module: the *)
(* code walks freed list nodes then.                                       *)
(***************************************************************************)
EXTENDS Naturals

CONSTANTS
  Prefixes, Names,   \* a full action name is a pair <<prefix, name>>
  Items,             \* GtkMenuTrackerItems with an "action" attribute
  ItemAction,        \* [Items -> Prefixes \X Names]
  Values, NoValue,   \* GVariants, and NULL
  TypeOf, NoType,    \* [Values -> types]; NoType: no parameter
  True, False,       \* the two boolean GVariants
  Target,            \* [Items -> Values \cup {NoValue}]: "target" attribute
  Contents,          \* what the action groups that are inserted may hold
  Absent, NoGroup, Idle, NoItem

Types == {TypeOf[v] : v \in Values} \cup {NoType}
Booleans == {True, False}

\* What a group tells of an action.
Info == [param : Types, enabled : BOOLEAN, state : Values \cup {NoValue}]
Group == [Names -> Info \cup {Absent}]

VARIABLES
  groups,   \* [Prefixes -> the group inserted there, or NoGroup]
  observed, \* watchers of each full name (an empty set: no Action entry)
  live,     \* the items that exist
  can,      \* can_activate of each item
  face,     \* what each item shows
  loop      \* the notification loop that is running, or Idle

vars == <<groups, observed, live, can, face, loop>>

Roles == {"normal", "check", "radio"}
Faces == [sensitive : BOOLEAN, toggled : BOOLEAN, role : Roles,
          state : Values \cup {NoValue}]
Blank == [sensitive |-> FALSE, toggled |-> FALSE, role |-> "normal", state |-> NoValue]

Kinds == {"added", "removed", "enabled", "state"}
Loops == [kind : Kinds, prefix : Prefixes,
          names : SUBSET Names,          \* names still to be announced
          todo : SUBSET Items,           \* watchers of the current name still to be called
          at : Items \cup {NoItem},      \* the watcher that was called last
          then : Group \cup {NoGroup}]   \* to be inserted once a removal is announced

ASSUME MuxerAssumption ==
  /\ ItemAction \in [Items -> Prefixes \X Names]
  /\ Target \in [Items -> Values \cup {NoValue}]
  /\ Contents \subseteq Group
  /\ NoValue \notin Values
  /\ NoType \notin {TypeOf[v] : v \in Values}
  /\ True \in Values /\ False \in Values /\ True # False
  /\ \A v \in Values : TypeOf[v] = TypeOf[True] <=> v \in Booleans
  /\ Absent \notin Info
  /\ NoGroup \notin Group
  /\ NoItem \notin Items
  /\ Idle \notin Loops

-----------------------------------------------------------------------------
(* The muxer's tables.                                                     *)

Lookup(g, n) == IF g = NoGroup THEN Absent ELSE g[n]

\* gtk_action_muxer_query_action; the library sets no parent muxer.
Query(i) == Lookup(groups[ItemAction[i][1]], ItemAction[i][2])

Present(g) == {n \in Names : Lookup(g, n) # Absent}

Emit(kind, p, ns, then) ==
  [kind |-> kind, prefix |-> p, names |-> ns, todo |-> {}, at |-> NoItem, then |-> then]

-----------------------------------------------------------------------------
(* The observer interface of GtkMenuTrackerItem: for a target t, the face  *)
(* after each notification.                                                *)

CanActivate(t, a) == a.param = IF t = NoValue THEN NoType ELSE TypeOf[t]

AddedFace(t, f, a) ==
  IF ~CanActivate(t, a) THEN f
  ELSE [sensitive |-> a.enabled,
        toggled |-> IF t # NoValue /\ a.state # NoValue THEN a.state = t
                    ELSE IF a.state \in Booleans THEN a.state = True ELSE f.toggled,
        role |-> IF t # NoValue /\ a.state # NoValue THEN "radio"
                 ELSE IF a.state \in Booleans THEN "check" ELSE f.role,
        state |-> IF a.state # NoValue THEN a.state ELSE f.state]

EnabledFace(c, f, a) == IF c THEN [f EXCEPT !.sensitive = a.enabled] ELSE f

\* Mutant: toggled is the state itself, not compared with the target.
StateFaceUncompared(c, t, f, a) ==
  IF c THEN [f EXCEPT !.toggled = a.state, !.state = a.state] ELSE f

StateFace(c, t, f, a) ==
  IF c THEN [f EXCEPT !.toggled = (a.state = IF t # NoValue THEN t ELSE True),
                      !.state = a.state]
  ELSE f

RemovedFace(c, f) == IF c THEN Blank ELSE f

-----------------------------------------------------------------------------
(* Items come and go, at any time: also while a loop runs.                 *)

\* Mutant: an item waits for the first notification.
ItemNewUnqueried(i) ==
  /\ i \notin live
  /\ live' = live \cup {i}
  /\ observed' = [observed EXCEPT ![ItemAction[i]] = @ \cup {i}]
  /\ UNCHANGED <<groups, can, face, loop>>

\* _gtk_menu_tracker_item_new: register, then query.
ItemNew(i) ==
  LET a == Query(i) IN
  /\ i \notin live
  /\ live' = live \cup {i}
  /\ observed' = [observed EXCEPT ![ItemAction[i]] = @ \cup {i}]
  /\ can' = [can EXCEPT ![i] = a # Absent /\ CanActivate(Target[i], a)]
  /\ face' = [face EXCEPT ![i] = IF a # Absent THEN AddedFace(Target[i], Blank, a) ELSE Blank]
  /\ UNCHANGED <<groups, loop>>

\* Mutant: no weak reference.
ItemFreeRegistered(i) ==
  /\ i \in live
  /\ live' = live \ {i}
  /\ can' = [can EXCEPT ![i] = FALSE]
  /\ face' = [face EXCEPT ![i] = Blank]
  /\ UNCHANGED <<groups, observed, loop>>

\* The last reference goes: the muxer's weak reference unregisters the item,
\* which a loop therefore no longer meets.
ItemFree(i) ==
  /\ i \in live
  /\ loop # Idle => i # loop.at
  /\ live' = live \ {i}
  /\ observed' = [observed EXCEPT ![ItemAction[i]] = @ \ {i}]
  /\ can' = [can EXCEPT ![i] = FALSE]
  /\ face' = [face EXCEPT ![i] = Blank]
  /\ loop' = IF loop = Idle THEN Idle ELSE [loop EXCEPT !.todo = @ \ {i}]
  /\ UNCHANGED groups

-----------------------------------------------------------------------------
(* Groups come and go.                                                     *)

\* Mutant: the names are listed after the group has left the table.
RemoveSilently(p) ==
  /\ loop = Idle
  /\ groups[p] # NoGroup
  /\ groups' = [groups EXCEPT ![p] = NoGroup]
  /\ loop' = Emit("removed", p, Present(groups'[p]), NoGroup)
  /\ UNCHANGED <<observed, live, can, face>>

\* gtk_action_muxer_remove: the group leaves the table before the observers
\* are told.
Remove(p) ==
  /\ loop = Idle
  /\ groups[p] # NoGroup
  /\ groups' = [groups EXCEPT ![p] = NoGroup]
  /\ loop' = Emit("removed", p, Present(groups[p]), NoGroup)
  /\ UNCHANGED <<observed, live, can, face>>

\* gtk_action_muxer_insert: what has the prefix is removed first.
Insert(p, g) ==
  /\ loop = Idle
  /\ IF groups[p] = NoGroup
     THEN /\ groups' = [groups EXCEPT ![p] = g]
          /\ loop' = Emit("added", p, Present(g), NoGroup)
     ELSE /\ groups' = [groups EXCEPT ![p] = NoGroup]
          /\ loop' = Emit("removed", p, Present(groups[p]), g)
  /\ UNCHANGED <<observed, live, can, face>>

-----------------------------------------------------------------------------
(* A group's signals, from the main loop.                                  *)

Changed(kind, p, n, a) ==
  /\ loop = Idle
  /\ groups' = [groups EXCEPT ![p] = [@ EXCEPT ![n] = a]]
  /\ loop' = Emit(kind, p, {n}, NoGroup)
  /\ UNCHANGED <<observed, live, can, face>>

ActionAdded(p, n, a) ==
  /\ groups[p] # NoGroup /\ n \notin Present(groups[p])
  /\ Changed("added", p, n, a)

ActionRemoved(p, n) ==
  /\ n \in Present(groups[p])
  /\ Changed("removed", p, n, Absent)

ActionEnabledChanged(p, n) ==
  /\ n \in Present(groups[p])
  /\ Changed("enabled", p, n, [groups[p][n] EXCEPT !.enabled = ~@])

\* The state of an action keeps its type.
ActionStateChanged(p, n, v) ==
  /\ n \in Present(groups[p])
  /\ groups[p][n].state # NoValue
  /\ TypeOf[v] = TypeOf[groups[p][n].state]
  /\ Changed("state", p, n, [groups[p][n] EXCEPT !.state = v])

-----------------------------------------------------------------------------
(* The notification loops.                                                 *)

EmitName(n) ==
  /\ loop # Idle /\ loop.todo = {} /\ n \in loop.names
  /\ loop' = [loop EXCEPT !.names = @ \ {n}, !.at = NoItem,
                          !.todo = observed[<<loop.prefix, n>>]]
  /\ UNCHANGED <<groups, observed, live, can, face>>

\* Mutant: can_activate is set and never cleared.
DeliverSticky(i) ==
  LET a == Query(i)  t == Target[i] IN
  /\ loop # Idle /\ i \in loop.todo
  /\ face' = [face EXCEPT ![i] =
       CASE loop.kind = "added"   -> AddedFace(t, @, a)
         [] loop.kind = "removed" -> RemovedFace(can[i], @)
         [] loop.kind = "enabled" -> EnabledFace(can[i], @, a)
         [] loop.kind = "state"   -> StateFace(can[i], t, @, a)]
  /\ can' = [can EXCEPT ![i] = @ \/ (loop.kind = "added" /\ CanActivate(t, a))]
  /\ loop' = [loop EXCEPT !.todo = @ \ {i}, !.at = i]
  /\ UNCHANGED <<groups, observed, live>>

Deliver(i) ==
  LET a == Query(i)  t == Target[i] IN
  /\ loop # Idle /\ i \in loop.todo
  /\ face' = [face EXCEPT ![i] =
       CASE loop.kind = "added"   -> AddedFace(t, @, a)
         [] loop.kind = "removed" -> RemovedFace(can[i], @)
         [] loop.kind = "enabled" -> EnabledFace(can[i], @, a)
         [] loop.kind = "state"   -> StateFace(can[i], t, @, a)]
  /\ can' = [can EXCEPT ![i] = IF loop.kind = "added" THEN CanActivate(t, a) ELSE @]
  /\ loop' = [loop EXCEPT !.todo = @ \ {i}, !.at = i]
  /\ UNCHANGED <<groups, observed, live>>

\* The removal that begins an insertion is followed by the insertion.
EmitEnd ==
  /\ loop # Idle /\ loop.todo = {} /\ loop.names = {}
  /\ IF loop.then = NoGroup
     THEN loop' = Idle /\ UNCHANGED groups
     ELSE /\ groups' = [groups EXCEPT ![loop.prefix] = loop.then]
          /\ loop' = Emit("added", loop.prefix, Present(loop.then), NoGroup)
  /\ UNCHANGED <<observed, live, can, face>>

-----------------------------------------------------------------------------

Init ==
  /\ groups = [p \in Prefixes |-> NoGroup]
  /\ observed = [f \in Prefixes \X Names |-> {}]
  /\ live = {}
  /\ can = [i \in Items |-> FALSE]
  /\ face = [i \in Items |-> Blank]
  /\ loop = Idle

Emission == EmitEnd \/ (\E n \in Names : EmitName(n)) \/ (\E i \in Items : Deliver(i))

Next ==
  \/ \E i \in Items : ItemNew(i) \/ ItemFree(i)
  \/ \E p \in Prefixes : Remove(p)
  \/ \E p \in Prefixes : \E g \in Contents : Insert(p, g)
  \/ \E p \in Prefixes, n \in Names : \E a \in Info : ActionAdded(p, n, a)
  \/ \E p \in Prefixes, n \in Names : ActionRemoved(p, n) \/ ActionEnabledChanged(p, n)
  \/ \E p \in Prefixes, n \in Names : \E v \in Values : ActionStateChanged(p, n, v)
  \/ Emission

\* The loops are straight-line code: one that has begun runs to its end.
Spec == Init /\ [][Next]_vars /\ WF_vars(Emission)

-----------------------------------------------------------------------------
(* What an item should show, from its target and its action alone.         *)

Shown(t, a) ==
  IF a = Absent \/ ~CanActivate(t, a) THEN Blank
  ELSE [sensitive |-> a.enabled,
        toggled |-> a.state # NoValue /\ a.state = IF t = NoValue THEN True ELSE t,
        role |-> IF a.state = NoValue THEN "normal"
                 ELSE IF t # NoValue THEN "radio"
                 ELSE IF a.state \in Booleans THEN "check" ELSE "normal",
        state |-> a.state]

\* The loop has yet to tell item i.
Pending(i) ==
  /\ loop # Idle
  /\ \/ i \in loop.todo
     \/ ItemAction[i][1] = loop.prefix /\ ItemAction[i][2] \in loop.names

\* Type invariant.
TypeOK ==
  /\ groups \in [Prefixes -> Group \cup {NoGroup}]
  /\ observed \in [Prefixes \X Names -> SUBSET Items]
  /\ live \subseteq Items
  /\ can \in [Items -> BOOLEAN]
  /\ face \in [Items -> Faces]
  /\ loop \in Loops \cup {Idle}

\* An item that the running loop is not about to tell shows exactly its
\* action: no change is missed, whether the item was made before the change,
\* while it is announced or after it, and nothing of a removed action or of an
\* action of another type stays on show.
ItemsShowActions ==
  \A i \in live : ~Pending(i) => face[i] = Shown(Target[i], Query(i))

\* An item sends activations only for an action that expects its target:
\* can_activate is not left over from an earlier action of that name.
ActivationTyped ==
  \A i \in live : ~Pending(i) /\ Query(i) # Absent =>
    (can[i] <=> CanActivate(Target[i], Query(i)))

\* The muxer's watchers are the items that exist, each under its own action,
\* and a loop only calls items that exist.
WatchersLive ==
  /\ \A f \in Prefixes \X Names : observed[f] = {i \in live : ItemAction[i] = f}
  /\ loop # Idle => loop.todo \subseteq live

Mirror == INSTANCE ActionMirror WITH
  due <- [i \in Items |-> Shown(Target[i], Query(i))],
  waiting <- {i \in live : Pending(i)}

\* The loops over names, watchers and prefixes are an asynchronous mirror of
\* the actions: each item concerned is told of each change once, before the
\* next change, shows just what it should from then on, and never changes
\* otherwise.
RefinesMirror == Mirror!Spec

=============================================================================
