---------------------------- MODULE StateActions ----------------------------
(***************************************************************************)
(* QDBusActionGroup (qdbusactiongroup.cpp) and the QStateActions made of   *)
(* it (qstateaction.cpp), over the action group of a service that comes    *)
(* and goes.                                                               *)
(*                                                                         *)
(* When the group is replaced or dropped, clear() tells the QStateActions  *)
(* one by one that their actions vanish.  Each of them may run application *)
(* code, which may ask for the QStateAction of another name: clear() is a  *)
(* step for each.  The connection itself is that of module DBusObject.     *)
(***************************************************************************)
CONSTANTS
  Names,
  Exports,       \* [Names -> the states the service's action may have, GVariants]
  GType(_),      \* the type of a GVariant
  QType(_),      \* the type of a QVariant
  ToQVariant(_), \* the QVariant of a GVariant
  Convert(_, _), \* a QVariant converted to a type, or NoState if it cannot be
  NoState,       \* an invalid QVariant; the state of a stateless action
  Absent, NoAction, NoGroup,
  AskInVanish    \* the application makes QStateActions from inside clear()

States == (UNION {Exports[n] : n \in Names}) \cup {NoState}
QStates == {ToQVariant(s) : s \in States} \cup {NoState}

VARIABLES
  group,    \* m_actionGroup: [Names -> what it has under each name], or NoGroup
  acts,     \* the QStateActions, children of the QDBusActionGroup
  clearing  \* clear() in progress: whom it has yet to tell, and whether a new
            \* group follows; or Idle

vars == <<group, acts, clearing>>

Idle == [todo |-> {}, on |-> FALSE, fresh |-> FALSE]

Acts == [valid : BOOLEAN, state : QStates]
Made == {n \in Names : acts[n] # NoAction}

ASSUME ActionsAssumption ==
  /\ Absent \notin States /\ NoAction \notin Acts
  /\ NoGroup \notin [Names -> States \cup {Absent}]
  /\ AskInVanish \in BOOLEAN
  /\ ToQVariant(NoState) = NoState
  /\ \A q \in QStates \ {NoState} : Convert(q, QType(q)) = q

-----------------------------------------------------------------------------

HasAction(n) == group # NoGroup /\ group[n] # Absent

\* Mutant: a state, once set, stays.
SetStateUnlessSet(old, new) == IF old = NoState THEN new ELSE old

\* QStateAction::setState: a state that has been set keeps its type, and an
\* invalid one converts to nothing.
SetState(old, new) ==
  IF old = NoState THEN new
  ELSE IF new = NoState \/ Convert(new, QType(old)) = NoState THEN old
  ELSE Convert(new, QType(old))

\* Mutant: an action that vanishes stays valid.
VanishValid(act) == act

\* onActionVanish
Vanish(act) == [valid |-> FALSE, state |-> SetState(act.state, NoState)]

\* onActionAppear
Appear(act, s) == [valid |-> TRUE, state |-> SetState(act.state, s)]

Tell(n, act) == acts' = [acts EXCEPT ![n] = IF @ = NoAction THEN @ ELSE act]

\* actionState: what the group has of it, parsed.
ActionState(n) == ToQVariant(group[n])

\* action(name): the child of that name, or a new one.
Action(n) ==
  /\ acts[n] = NoAction
  /\ clearing.on => AskInVanish
  /\ acts' = [acts EXCEPT ![n] = [valid |-> HasAction(n),
                                  state |-> IF HasAction(n) THEN ActionState(n) ELSE NoState]]
  /\ UNCHANGED <<group, clearing>>

-----------------------------------------------------------------------------
(* The service appears and vanishes.                                       *)

\* Mutant: clear() tells all names, those nobody asked for included.
SetActionGroupAll(fresh) ==
  /\ ~clearing.on
  /\ fresh \/ group # NoGroup
  /\ clearing' = [todo |-> Names, on |-> TRUE, fresh |-> fresh]
  /\ UNCHANGED <<group, acts>>

\* setActionGroup: the old group's signals are disconnected, and clear() begins.
SetActionGroup(fresh) ==
  /\ ~clearing.on
  /\ fresh \/ group # NoGroup
  /\ clearing' = [todo |-> Made, on |-> TRUE, fresh |-> fresh]
  /\ UNCHANGED <<group, acts>>

\* What actionVanish runs of clear(), and the QStateAction's slot.
ActionVanish(n) ==
  /\ n \in clearing.todo
  /\ Tell(n, Vanish(acts[n]))
  /\ clearing' = [clearing EXCEPT !.todo = @ \ {n}]
  /\ UNCHANGED group

\* The group goes last.  A new one has no actions until the service has
\* described them.
Cleared ==
  /\ clearing.on /\ clearing.todo = {}
  /\ group' = IF clearing.fresh THEN [n \in Names |-> Absent] ELSE NoGroup
  /\ clearing' = Idle
  /\ UNCHANGED acts

-----------------------------------------------------------------------------
(* The group's signals.                                                    *)

Connected == group # NoGroup /\ ~clearing.on

OnActionAdded(n, s) ==
  /\ Connected /\ group[n] = Absent
  /\ group' = [group EXCEPT ![n] = s]
  /\ Tell(n, Appear(acts[n], ToQVariant(s)))
  /\ UNCHANGED clearing

OnActionRemoved(n) ==
  /\ Connected /\ group[n] # Absent
  /\ group' = [group EXCEPT ![n] = Absent]
  /\ Tell(n, Vanish(acts[n]))
  /\ UNCHANGED clearing

OnActionStateChanged(n, s) ==
  /\ Connected /\ group[n] \notin {Absent, NoState, s}
  /\ GType(s) = GType(group[n])
  /\ group' = [group EXCEPT ![n] = s]
  /\ Tell(n, [acts[n] EXCEPT !.state = SetState(@, ToQVariant(s))])
  /\ UNCHANGED clearing

-----------------------------------------------------------------------------

Init ==
  /\ group = NoGroup
  /\ acts = [n \in Names |-> NoAction]
  /\ clearing = Idle

Next ==
  \/ \E n \in Names : Action(n) \/ ActionVanish(n) \/ OnActionRemoved(n)
  \/ \E fresh \in BOOLEAN : SetActionGroup(fresh)
  \/ Cleared
  \/ \E n \in Names : \E s \in Exports[n] : OnActionAdded(n, s)
  \/ \E n \in Names : \E s \in Exports[n] \ {NoState} : OnActionStateChanged(n, s)

Spec == Init /\ [][Next]_vars

-----------------------------------------------------------------------------

\* Type invariant.
TypeOK ==
  /\ group \in [Names -> States \cup {Absent}] \cup {NoGroup}
  /\ acts \in [Names -> Acts \cup {NoAction}]
  /\ clearing \in [todo : SUBSET Made, on : BOOLEAN, fresh : BOOLEAN]

\* A valid action has an action of the service linked, and the other way
\* round, whichever of them was there first.
ValidIsLinked == ~clearing.on => \A n \in Made : acts[n].valid <=> HasAction(n)

\* A valid action holds the current state, also of a service that went away
\* and came back with another one.
StateIsCurrent == ~clearing.on => \A n \in Made : acts[n].valid => acts[n].state = ActionState(n)

=============================================================================
