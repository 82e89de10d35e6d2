------------------------ MODULE UnityMenuLifecycle ------------------------
(***************************************************************************)
(* The life of a UnityMenuModel (unitymenumodel.cpp): a bus name is        *)
(* watched; when it gets an owner, the owner's action groups go into the   *)
(* muxer and a tracker is made for its menu; when it loses it, or when the *)
(* application sets another name, path or table of actions, they are       *)
(* replaced.                                                               *)
(*                                                                         *)
(* All of this happens in functions that emit signals half-way.  What such *)
(* functions have still to do is todo, a sequence of steps.  While a       *)
(* signal is its head, the application's handler runs, which may call the  *)
(* model's setters: their steps then come first.  Module MenuTracker has   *)
(* the rows themselves and module ActionMuxer the muxer; here rows are     *)
(* counted, and a group is the address it was made for.                    *)
(***************************************************************************)
EXTENDS Naturals, Sequences

CONSTANTS
  BusNames, NoName,   \* well-known names; the empty string
  Owners, NoOwner,    \* unique names of connections; the empty string
  Paths, NoPath,      \* object paths; the empty string, or no path for a prefix
  Prefixes,
  ActionMaps,         \* the tables the application sets as "actions"
  None,               \* no watch, no group, no tracker; nothing reported
  Reentry,            \* [Signals -> the setters called from its handlers]
  MaxItems,           \* bound: the rows of a menu
  MaxPending          \* bound: the steps pending when a handler calls a setter

\* "firstRows" is for the rows inserted while a tracker is made, "rows" for
\* those that a tracker inserts and removes later.
Signals == {"aboutToReset", "nameReset", "menuReset", "firstRows", "rows", "owner", "busName"}
Setters == {"name", "actions", "path"}

VARIABLES
  name, menuPath, actions, \* busName, menuObjectPath, actions
  watch,                   \* nameWatchId: the name, and the owner last reported
  owner,                   \* nameOwner
  groups,                  \* the muxer's groups: of an owner, at a path
  tracker,                 \* menutracker: of an owner, at a path, with so many rows
  rows,                    \* how many rows the model has
  todo

vars == <<name, menuPath, actions, watch, owner, groups, tracker, rows, todo>>

Group == Owners \X Paths
Tracker == [owner : Owners, path : Paths \cup {NoPath}, items : 0..MaxItems]
Watch == [name : BusNames, seen : Owners \cup {NoOwner, None}]
Steps ==
  [op : {"signal"}, signal : Signals]
  \cup [op : {"clear", "noOwner", "updateActions", "freeTracker", "newTracker"}]
  \cup [op : {"watch"}, name : BusNames \cup {NoName}]
  \cup [op : {"assign"}, tracker : Tracker]

ASSUME LifecycleAssumption ==
  /\ NoName \notin BusNames /\ NoOwner \notin Owners /\ NoPath \notin Paths
  /\ ActionMaps \subseteq [Prefixes -> Paths \cup {NoPath}]
  /\ [p \in Prefixes |-> NoPath] \in ActionMaps
  /\ None \notin Group \cup Tracker \cup Watch \cup Owners \cup {NoOwner}
  /\ Reentry \in [Signals -> SUBSET Setters]
  /\ MaxItems \in Nat /\ MaxPending \in Nat

-----------------------------------------------------------------------------
(* Steps, and the functions made of them.                                  *)

Signal(s) == [op |-> "signal", signal |-> s]
Do(op) == [op |-> op]

\* clearItems, with the reset that the views are told of.
ClearItems(reset) == <<Signal("aboutToReset"), Do("clear"), Signal(reset)>>

\* Mutant: the old rows are left.
UpdateMenuModelUncleared == <<Do("freeTracker"), Do("newTracker")>>

UpdateMenuModel == ClearItems("menuReset") \o <<Do("freeTracker"), Do("newTracker")>>

\* Mutant: the owner is kept until another one appears.
ClearNameOwned ==
  ClearItems("nameReset") \o <<Do("updateActions")>> \o UpdateMenuModel \o <<Signal("owner")>>

\* Mutant: the signal comes before the menu goes.
ClearNameEarly ==
  ClearItems("nameReset")
    \o <<Do("noOwner"), Do("updateActions"), Signal("owner")>> \o UpdateMenuModel

ClearName ==
  ClearItems("nameReset")
    \o <<Do("noOwner"), Do("updateActions")>> \o UpdateMenuModel \o <<Signal("owner")>>

\* Mutant: without an owner nothing is removed.
UpdatedGroupsOwned == [p \in Prefixes |->
  IF owner = NoOwner \/ actions[p] = NoPath THEN groups[p] ELSE <<owner, actions[p]>>]

\* The muxer's groups after updateActions: a prefix that is not in the table
\* keeps the group it has.
UpdatedGroups == [p \in Prefixes |->
  IF actions[p] = NoPath THEN groups[p]
  ELSE IF owner = NoOwner THEN None ELSE <<owner, actions[p]>>]

-----------------------------------------------------------------------------
Init ==
  /\ name = NoName /\ menuPath = NoPath /\ actions = [p \in Prefixes |-> NoPath]
  /\ watch = None /\ owner = NoOwner
  /\ groups = [p \in Prefixes |-> None]
  /\ tracker = None /\ rows = 0 /\ todo = <<>>

\* The application calls setter m from the main loop or from a handler.
MayCall(m) ==
  todo # <<>> =>
    /\ Head(todo).op = "signal"
    /\ m \in Reentry[Head(todo).signal]
    /\ Len(todo) < MaxPending

First(steps) == todo' = steps \o todo

SetBusName == MayCall("name") /\ \E n \in (BusNames \cup {NoName}) \ {name} :
  /\ First(ClearName \o <<[op |-> "watch", name |-> n], Signal("busName")>>)
  /\ UNCHANGED <<name, menuPath, actions, watch, owner, groups, tracker, rows>>

SetActions == MayCall("actions") /\ \E map \in ActionMaps :
  /\ actions' = map
  /\ First(<<Do("updateActions")>>)
  /\ UNCHANGED <<name, menuPath, watch, owner, groups, tracker, rows>>

SetMenuObjectPath == MayCall("path") /\ \E path \in Paths \cup {NoPath} :
  /\ menuPath' = path
  /\ First(UpdateMenuModel)
  /\ UNCHANGED <<name, actions, watch, owner, groups, tracker, rows>>

\* GDBus reports an owner that replaces another as vanished, then appeared.
NameAppeared(o) ==
  /\ todo = <<>> /\ watch # None /\ watch.seen \in {NoOwner, None}
  /\ watch' = [watch EXCEPT !.seen = o]
  /\ owner' = o
  /\ First(<<Do("updateActions")>> \o UpdateMenuModel \o <<Signal("owner")>>)
  /\ UNCHANGED <<name, menuPath, actions, groups, tracker, rows>>

NameVanished ==
  /\ todo = <<>> /\ watch # None /\ watch.seen # NoOwner
  /\ watch' = [watch EXCEPT !.seen = NoOwner]
  /\ First(ClearName)
  /\ UNCHANGED <<name, menuPath, actions, owner, groups, tracker, rows>>

\* The tracker's insert and remove functions: the peer's menu gets n rows.
\* A removal takes no more rows than there are.  A name or path set by a handler
\* would free the tracker that emits the signal, and nothing defined follows:
\* Reentry["rows"] is not to hold them.
MenuItems(n) ==
  /\ todo = <<>> /\ tracker # None /\ n # tracker.items
  /\ tracker' = [tracker EXCEPT !.items = n]
  /\ rows' = n + (IF rows < tracker.items THEN 0 ELSE rows - tracker.items)
  /\ First(<<Signal("rows")>>)
  /\ UNCHANGED <<name, menuPath, actions, watch, owner, groups>>

-----------------------------------------------------------------------------
(* The steps.                                                              *)

Step(op) == todo # <<>> /\ Head(todo).op = op
Done == todo' = Tail(todo)

\* The handlers of a signal have returned.
EndSignal ==
  /\ Step("signal") /\ Done
  /\ UNCHANGED <<name, menuPath, actions, watch, owner, groups, tracker, rows>>

Clear ==
  /\ Step("clear") /\ Done /\ rows' = 0
  /\ UNCHANGED <<name, menuPath, actions, watch, owner, groups, tracker>>

ForgetOwner ==
  /\ Step("noOwner") /\ Done /\ owner' = NoOwner
  /\ UNCHANGED <<name, menuPath, actions, watch, groups, tracker, rows>>

UpdateActions ==
  /\ Step("updateActions") /\ Done /\ groups' = UpdatedGroups
  /\ UNCHANGED <<name, menuPath, actions, watch, owner, tracker, rows>>

FreeTracker ==
  /\ Step("freeTracker") /\ Done /\ tracker' = None
  /\ UNCHANGED <<name, menuPath, actions, watch, owner, groups, rows>>

\* Mutant: a tracker is made whether or not there is an owner.
NewTrackerOwnerless ==
  /\ Step("newTracker")
  /\ \E n \in 0..MaxItems :
       /\ rows' = rows + n
       /\ todo' = <<Signal("firstRows"),
                    [op |-> "assign", tracker |-> [owner |-> owner, path |-> menuPath, items |-> n]]>>
                  \o Tail(todo)
  /\ UNCHANGED <<name, menuPath, actions, watch, owner, groups, tracker>>

\* gtk_menu_tracker_new inserts the rows that are there already before it
\* returns the tracker that is then assigned, whatever the handlers of those
\* rows have set and made meanwhile.
NewTracker ==
  /\ Step("newTracker")
  /\ IF owner = NoOwner THEN Done /\ UNCHANGED rows
     ELSE \E n \in 0..MaxItems :
       /\ rows' = rows + n
       /\ todo' = (IF n = 0 THEN <<>> ELSE <<Signal("firstRows")>>)
                  \o <<[op |-> "assign", tracker |-> [owner |-> owner, path |-> menuPath, items |-> n]]>>
                  \o Tail(todo)
  /\ UNCHANGED <<name, menuPath, actions, watch, owner, groups, tracker>>

AssignTracker ==
  /\ Step("assign") /\ Done /\ tracker' = Head(todo).tracker
  /\ UNCHANGED <<name, menuPath, actions, watch, owner, groups, rows>>

\* The old watch ends with the step that starts the new one.  GDBus refuses
\* to watch the empty name.
WatchName ==
  /\ Step("watch") /\ Done
  /\ name' = Head(todo).name
  /\ watch' = IF name' = NoName THEN None ELSE [name |-> name', seen |-> None]
  /\ UNCHANGED <<menuPath, actions, owner, groups, tracker, rows>>

Next ==
  \/ SetBusName \/ SetActions \/ SetMenuObjectPath
  \/ \E o \in Owners : NameAppeared(o)
  \/ NameVanished
  \/ \E n \in 0..MaxItems : MenuItems(n)
  \/ EndSignal \/ Clear \/ ForgetOwner \/ UpdateActions
  \/ FreeTracker \/ NewTracker \/ AssignTracker \/ WatchName

Spec == Init /\ [][Next]_vars

-----------------------------------------------------------------------------
(* Properties.                                                             *)

\* Type invariant.
TypeOK ==
  /\ name \in BusNames \cup {NoName}
  /\ menuPath \in Paths \cup {NoPath}
  /\ actions \in ActionMaps
  /\ watch \in Watch \cup {None}
  /\ owner \in Owners \cup {NoOwner}
  /\ groups \in [Prefixes -> Group \cup {None}]
  /\ tracker \in Tracker \cup {None}
  /\ rows \in Nat
  /\ todo \in Seq(Steps)

\* Everything returned, or the application is being told of the owner.
Returned == todo = <<>>
Told == Returned \/ Head(todo) = Signal("owner")

\* The rows are those of the tracker the model holds: none is left of a tracker
\* that was freed, and none was cleared away from one that is kept, wherever
\* resets were interrupted by other names and paths (clearItems, updateMenuModel).
\* It is meant for a Reentry without a path at "menuReset" and without a name or
\* path at "firstRows" or "rows", as the next three are.
RowsTracked == Returned => rows = (IF tracker = None THEN 0 ELSE tracker.items)

\* When nameOwnerChanged is emitted, and whenever all calls have returned, the
\* menu shown is that of the present owner at the path last set; without an
\* owner there is none (updateMenuModel, clearName).
MenuCurrent == Told =>
  IF owner = NoOwner THEN tracker = None
  ELSE tracker # None /\ tracker.owner = owner /\ tracker.path = menuPath

\* Likewise, each prefix of the table leads to the present owner's group at
\* the path the table gives, and to nothing without an owner (updateActions).
PrefixesCurrent == Told =>
  \A p \in Prefixes : actions[p] # NoPath =>
    groups[p] = (IF owner = NoOwner THEN None ELSE <<owner, actions[p]>>)

\* When all calls have returned, the watch is on the name last set and the
\* owner is the one the watch last reported, also if a handler set a name
\* while another was being set or an owner appeared (setBusName, clearName).
OwnerWatched == Returned =>
  /\ (watch = None) = (name = NoName)
  /\ watch # None => watch.name = name
  /\ owner = (IF watch = None THEN NoOwner ELSE IF watch.seen = None THEN NoOwner ELSE watch.seen)
=============================================================================
