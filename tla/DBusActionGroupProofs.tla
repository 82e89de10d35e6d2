------------------------ MODULE DBusActionGroupProofs -------------------------
(***************************************************************************)
(* Proofs about DBusActionGroup and the requests of QStateActions, for any *)
(* names, states, types and conversions that keep to TypesSettled, any     *)
(* connection, and an application that makes no QStateAction from inside   *)
(* clear().                                                                *)
(*                                                                         *)
(* Every step leaves the connection alone or is one of module DBusObject,  *)
(* so what DBusObjectProofs says of that one holds of this.  What is left  *)
(* is how the group follows the proxy, and the QStateActions the group,    *)
(* while clear() is in between.                                            *)
(***************************************************************************)
EXTENDS ActionRequests, TLAPS

Connection == INSTANCE DBusObjectProofs WITH StopClears <- FALSE

\* What the code relies on when it keeps the type of a state: a type of D-Bus
\* has one type in Qt, and only an invalid QVariant has an invalid type.
TypesSettled ==
  /\ \A s, t \in States \ {NoState} :
       GType(s) = GType(t) => QType(ToQVariant(s)) = QType(ToQVariant(t))
  /\ \A q \in QStates : QType(q) = QType(NoState) => q = NoState

-----------------------------------------------------------------------------
(* The invariant.                                                          *)

\* Whom clear() has told is invalid; between two clear()s the valid ones are
\* those that the group has.
LinksFollow ==
  \A n \in Made :
    IF clearing.on THEN n \in clearing.todo \/ ~acts[n].valid ELSE acts[n].valid <=> HasAction(n)

\* A QStateAction that may be told of a new state holds the one before.
StatesFollow == ~clearing.on => \A n \in Made : HasAction(n) => acts[n].state = ActionState(n)

\* There is a group if there is a proxy, or there will be once clear() is done.
GroupFollowsProxy ==
  IF clearing.on THEN clearing.fresh <=> proxy # NoProxy ELSE group # NoGroup <=> proxy # NoProxy

-----------------------------------------------------------------------------
(* The connection.                                                         *)

\* The object of DBusObjectProofs is the one that the group has.
LEMMA SameAssumption == Connection!ObjectAssumption
BY GroupAssumption
   DEF Object!ObjectAssumption, Object!Kinds, Object!Methods, Object!Watches, Object!Proxies,
       Connection!ObjectAssumption, Connection!Kinds, Connection!Methods, Connection!Watches,
       Connection!Proxies

LEMMA SameType == Object!TypeOK <=> Connection!TypeOK
BY DEF Object!TypeOK, Object!Settings, Object!Statuses, Object!Watches, Object!Proxies,
       Object!Frames, Object!Kinds, Object!Fields,
       Connection!TypeOK, Connection!Settings, Connection!Statuses, Connection!Watches,
       Connection!Proxies, Connection!Frames, Connection!Kinds, Connection!Fields

\* What the application calls.
LEMMA SameCalls ==
  /\ Object!Start => Connection!Start
  /\ Object!Stop => Connection!Stop
  /\ \A f, v : Object!Set(f, v) => Connection!Set(f, v)
<1> USE DEF Object!MayCall, Connection!MayCall, Object!Complete, Connection!Complete,
            Object!Fields, Connection!Fields, Object!Disconnect, Connection!Disconnect,
            Object!Push, Connection!Push, Object!Clear, Connection!Clear
<1>1. Object!Start => Connection!Start
  BY DEF Object!Start, Connection!Start
<1>2. Object!Stop => Connection!Stop
  BY DEF Object!Stop, Connection!Stop
<1>3. \A f, v : Object!Set(f, v) => Connection!Set(f, v)
  BY DEF Object!Set, Connection!Set
<1> QED BY <1>1, <1>2, <1>3

\* What the main loop runs, and how a handler ends.
LEMMA SameHandlers ==
  /\ Object!Appeared => Connection!Appeared
  /\ Object!Vanished => Connection!Vanished
  /\ Object!Return => Connection!Return
<1> USE DEF Object!Push, Connection!Push
<1>1. Object!Appeared => Connection!Appeared
  BY DEF Object!Appeared, Connection!Appeared, Object!ServiceMenu, Connection!ServiceMenu
<1>2. Object!Vanished => Connection!Vanished
  BY DEF Object!Vanished, Connection!Vanished
<1>3. Object!Return => Connection!Return
  BY DEF Object!Return, Connection!Return, Object!Clear, Connection!Clear
<1> QED BY <1>1, <1>2, <1>3

\* The group makes only the steps of a QDBusObject.
LEMMA ConnectionSteps == GroupSpec => Connection!Spec
<1>1. GroupInit => Connection!Init
  BY DEF GroupInit, Object!Init, Connection!Init, Object!Fields, Connection!Fields
<1>2. ASSUME [GroupNext]_<<vars, connection>> PROVE [Connection!Next]_Connection!vars
  <2> USE DEF Connection!Next, Connection!vars, connection
  <2>1. CASE Call
    BY <2>1, SameCalls DEF Call
  <2>2. CASE Report
    BY <2>2, SameHandlers DEF Report
  <2>3. CASE Resume
    BY <2>3, SameHandlers DEF Resume
  <2>4. CASE UNCHANGED connection
    BY <2>4
  <2>5. Clearing \/ GroupChanges \/ Ask \/ UNCHANGED <<vars, connection>> => UNCHANGED connection
    BY DEF Clearing, GroupChanges, Ask
  <2> QED BY <1>2, <2>1, <2>2, <2>3, <2>4, <2>5 DEF GroupNext
<1> QED BY <1>1, <1>2, PTL DEF GroupSpec, Connection!Spec

-----------------------------------------------------------------------------
(* Lemmas about the operators of StateActions.                             *)

LEMMA SomeStates ==
  /\ NoState \in States /\ NoState \in QStates
  /\ \A n \in Names : Exports[n] \subseteq States
  /\ \A s \in States : ToQVariant(s) \in QStates
BY DEF States, QStates

\* A state is replaced by one of its type, and the first one by any.
LEMMA StateReplaced ==
  ASSUME TypesSettled, NEW old \in QStates, NEW new \in QStates,
         old = NoState \/ QType(new) = QType(old)
  PROVE  SetState(old, new) = new
<1>1. CASE old = NoState
  BY <1>1 DEF SetState
<1>2. CASE old # NoState
  <2>1. new # NoState
    BY <1>2 DEF TypesSettled
  <2>2. Convert(new, QType(old)) = new
    BY <1>2, <2>1, ActionsAssumption
  <2> QED BY <1>2, <2>1, <2>2 DEF SetState
<1> QED BY <1>1, <1>2

\* An action that vanishes keeps its state.
LEMMA StateKept == \A old : SetState(old, NoState) = old
BY DEF SetState

\* Telling a QStateAction leaves the others, and makes none.
LEMMA Told ==
  ASSUME acts \in [Names -> Acts \cup {NoAction}], NEW n \in Names,
         NEW act, acts[n] # NoAction => act \in Acts, Tell(n, act)
  PROVE  /\ acts' \in [Names -> Acts \cup {NoAction}]
         /\ Made' = Made
         /\ n \in Made => acts'[n] = act
         /\ \A k \in Names \ {n} : acts'[k] = acts[k]
<1>1. acts' = [acts EXCEPT ![n] = IF @ = NoAction THEN @ ELSE act]
  BY DEF Tell
<1>2. acts' \in [Names -> Acts \cup {NoAction}]
  BY <1>1
<1>3. acts'[n] = (IF acts[n] = NoAction THEN NoAction ELSE act) /\ \A k \in Names \ {n} : acts'[k] = acts[k]
  BY <1>1
<1>4. Made' = Made
  BY <1>3, ActionsAssumption DEF Made
<1> QED BY <1>2, <1>3, <1>4 DEF Made

-----------------------------------------------------------------------------
(* What a step does to the group and its QStateActions.                    *)

\* A step of the group, and nothing of the connection.
ActionStep ==
  \/ \E fresh \in BOOLEAN : SetActionGroup(fresh)
  \/ \E n \in Names : ActionVanish(n)
  \/ Cleared
  \/ \E n \in Names : OnActionRemoved(n)
  \/ \E n \in Names : \E s \in States : KeepsType(n, s) /\ OnActionAdded(n, s)
  \/ \E n \in Names : \E s \in States \ {NoState} : OnActionStateChanged(n, s)
  \/ \E n \in Names : Action(n)

LEMMA EachStep == GroupNext => ActionStep \/ UNCHANGED vars
<1> USE DEF ActionStep, vars
<1>1. CASE Call
  BY <1>1 DEF Call
<1>2. ASSUME NEW made \in BOOLEAN, UseGroup(made) PROVE ActionStep \/ UNCHANGED vars
  BY <1>2 DEF UseGroup
<1>3. CASE Report \/ Resume
  BY <1>2, <1>3 DEF Report, Resume
<1>4. CASE Clearing
  BY <1>4 DEF Clearing
<1>5. CASE GroupChanges
  BY <1>5, SomeStates DEF GroupChanges
<1>6. CASE Ask
  BY <1>6 DEF Ask
<1> QED BY <1>1, <1>3, <1>4, <1>5, <1>6 DEF GroupNext

\* clear() has someone to tell only while it runs.
IdleUnlessClearing == ~clearing.on => clearing = Idle

ActionsInv == TypeOK /\ IdleUnlessClearing /\ LinksFollow /\ StatesFollow

\* setActionGroup begins with all that are linked.
LEMMA SetActionGroupStep ==
  ASSUME ActionsInv, NEW fresh \in BOOLEAN, SetActionGroup(fresh)
  PROVE  ActionsInv'
<1> USE DEF ActionsInv
<1>1. clearing' = [todo |-> Made, on |-> TRUE, fresh |-> fresh] /\ UNCHANGED <<group, acts>>
  BY DEF SetActionGroup
<1>2. Made' = Made
  BY <1>1 DEF Made
<1>3. TypeOK'
  BY <1>1, <1>2 DEF TypeOK
<1> QED BY <1>1, <1>2, <1>3 DEF IdleUnlessClearing, LinksFollow, StatesFollow

\* Who has been told is invalid.
LEMMA ActionVanishStep ==
  ASSUME ActionsInv, NEW n \in Names, ActionVanish(n)
  PROVE  ActionsInv'
<1> USE DEF ActionsInv
<1>1. /\ n \in clearing.todo /\ Tell(n, Vanish(acts[n])) /\ UNCHANGED group
      /\ clearing' = [clearing EXCEPT !.todo = @ \ {n}]
  BY DEF ActionVanish
<1>2. clearing.on /\ n \in Made /\ acts[n] \in Acts
  BY <1>1 DEF IdleUnlessClearing, Idle, TypeOK, Made
<1>3. Vanish(acts[n]) \in Acts /\ Vanish(acts[n]).valid = FALSE
  BY <1>2, StateKept DEF Vanish, Acts
<1>4. /\ acts' \in [Names -> Acts \cup {NoAction}] /\ Made' = Made
      /\ acts'[n] = Vanish(acts[n]) /\ \A k \in Names \ {n} : acts'[k] = acts[k]
  BY <1>1, <1>2, <1>3, Told DEF TypeOK
<1>5. clearing'.on /\ clearing'.todo = clearing.todo \ {n}
      /\ clearing' \in [todo : SUBSET Made, on : BOOLEAN, fresh : BOOLEAN]
  BY <1>1, <1>2 DEF TypeOK
<1>6. TypeOK'
  BY <1>1, <1>4, <1>5 DEF TypeOK
<1>7. LinksFollow'
  BY <1>2, <1>3, <1>4, <1>5 DEF LinksFollow, Made
<1> QED BY <1>5, <1>6, <1>7 DEF IdleUnlessClearing, StatesFollow

\* The next group has no actions yet, and no QStateAction says otherwise.
LEMMA ClearedStep ==
  ASSUME ActionsInv, Cleared
  PROVE  ActionsInv'
<1> USE DEF ActionsInv
<1>1. /\ clearing.on /\ clearing.todo = {} /\ clearing' = Idle /\ acts' = acts
      /\ group' = IF clearing.fresh THEN [n \in Names |-> Absent] ELSE NoGroup
  BY DEF Cleared
<1>2. Made' = Made
  BY <1>1 DEF Made
<1>3. group' \in [Names -> States \cup {Absent}] \cup {NoGroup}
  BY <1>1
<1>4. TypeOK'
  BY <1>1, <1>2, <1>3 DEF TypeOK, Idle
<1>5. \A n \in Names : ~HasAction(n)'
  BY <1>1 DEF HasAction
<1>6. LinksFollow' /\ StatesFollow'
  BY <1>1, <1>2, <1>5 DEF LinksFollow, StatesFollow, Idle, Made
<1> QED BY <1>1, <1>4, <1>6 DEF IdleUnlessClearing

\* An action that is gone is gone for its QStateAction, too.
LEMMA RemovedStep ==
  ASSUME ActionsInv, NEW n \in Names, OnActionRemoved(n)
  PROVE  ActionsInv'
<1> USE DEF ActionsInv
<1>1. /\ group # NoGroup /\ ~clearing.on /\ group' = [group EXCEPT ![n] = Absent]
      /\ Tell(n, Vanish(acts[n])) /\ clearing' = clearing
  BY DEF OnActionRemoved, Connected
<1>2. acts[n] # NoAction => Vanish(acts[n]) \in Acts /\ Vanish(acts[n]).valid = FALSE
  BY StateKept DEF TypeOK, Vanish, Acts
<1>3. /\ acts' \in [Names -> Acts \cup {NoAction}] /\ Made' = Made
      /\ n \in Made => acts'[n] = Vanish(acts[n])
      /\ \A k \in Names \ {n} : acts'[k] = acts[k]
  BY <1>1, <1>2, Told DEF TypeOK
<1>4. /\ group' \in [Names -> States \cup {Absent}] /\ group' # NoGroup
      /\ group'[n] = Absent /\ \A k \in Names \ {n} : group'[k] = group[k]
  BY <1>1, ActionsAssumption DEF TypeOK
<1>5. TypeOK'
  BY <1>1, <1>3, <1>4 DEF TypeOK
<1>6. ~HasAction(n)' /\ \A k \in Names \ {n} : /\ HasAction(k)' <=> HasAction(k)
                                              /\ ActionState(k)' = ActionState(k)
  BY <1>1, <1>4 DEF HasAction, ActionState
<1>7. LinksFollow'
  <2> SUFFICES ASSUME NEW k \in Made PROVE acts'[k].valid <=> HasAction(k)'
    BY <1>1, <1>3 DEF LinksFollow
  <2>1. CASE k = n
    BY <2>1, <1>2, <1>3, <1>6 DEF Made
  <2>2. CASE k # n
    BY <2>2, <1>1, <1>3, <1>6 DEF LinksFollow, Made
  <2> QED BY <2>1, <2>2
<1>8. StatesFollow'
  BY <1>1, <1>3, <1>6 DEF StatesFollow, Made
<1> QED BY <1>1, <1>5, <1>7, <1>8 DEF IdleUnlessClearing

\* A change of one action of the group, which its QStateAction takes over.
LEMMA Updated ==
  ASSUME ActionsInv, NEW n \in Names, NEW s \in States, NEW act,
         group # NoGroup, ~clearing.on, group' = [group EXCEPT ![n] = s],
         acts[n] # NoAction => act \in Acts /\ act.valid = TRUE /\ act.state = ToQVariant(s),
         Tell(n, act), clearing' = clearing
  PROVE  ActionsInv'
<1> USE DEF ActionsInv
<1>1. /\ acts' \in [Names -> Acts \cup {NoAction}] /\ Made' = Made
      /\ n \in Made => acts'[n] = act
      /\ \A k \in Names \ {n} : acts'[k] = acts[k]
  BY Told DEF TypeOK
<1>2. /\ group' \in [Names -> States \cup {Absent}] /\ group' # NoGroup
      /\ group'[n] = s /\ \A k \in Names \ {n} : group'[k] = group[k]
  BY ActionsAssumption DEF TypeOK
<1>3. TypeOK'
  BY <1>1, <1>2 DEF TypeOK
<1>4. HasAction(n)' /\ ActionState(n)' = ToQVariant(s)
  BY <1>2, ActionsAssumption DEF HasAction, ActionState
<1>5. \A k \in Names \ {n} : (HasAction(k)' <=> HasAction(k)) /\ ActionState(k)' = ActionState(k)
  BY <1>2 DEF HasAction, ActionState
<1>6. LinksFollow'
  <2> SUFFICES ASSUME NEW k \in Made PROVE acts'[k].valid <=> HasAction(k)'
    BY <1>1 DEF LinksFollow
  <2>1. CASE k = n
    BY <2>1, <1>1, <1>4 DEF Made
  <2>2. CASE k # n
    BY <2>2, <1>1, <1>5 DEF LinksFollow, Made
  <2> QED BY <2>1, <2>2
<1>7. StatesFollow'
  <2> SUFFICES ASSUME NEW k \in Made, HasAction(k)' PROVE acts'[k].state = ActionState(k)'
    BY <1>1 DEF StatesFollow
  <2>1. CASE k = n
    BY <2>1, <1>1, <1>4 DEF Made
  <2>2. CASE k # n
    BY <2>2, <1>1, <1>5 DEF StatesFollow, Made
  <2> QED BY <2>1, <2>2
<1> QED BY <1>3, <1>6, <1>7 DEF IdleUnlessClearing

\* An action that appears with a state of the type shown before shows it.
LEMMA AddedStep ==
  ASSUME ActionsInv, TypesSettled, NEW n \in Names, NEW s \in States,
         KeepsType(n, s), OnActionAdded(n, s)
  PROVE  ActionsInv'
<1> DEFINE act == Appear(acts[n], ToQVariant(s))
<1>1. /\ group # NoGroup /\ ~clearing.on /\ group' = [group EXCEPT ![n] = s]
      /\ Tell(n, act) /\ clearing' = clearing
  BY DEF OnActionAdded, Connected
<1>2. ASSUME acts[n] # NoAction PROVE act \in Acts /\ act.valid = TRUE /\ act.state = ToQVariant(s)
  <2>1. acts[n].state \in QStates
    BY <1>2 DEF ActionsInv, TypeOK, Acts
  <2>2. acts[n].state = NoState \/ QType(ToQVariant(s)) = QType(acts[n].state)
    BY <1>2 DEF KeepsType
  <2>3. SetState(acts[n].state, ToQVariant(s)) = ToQVariant(s)
    BY <2>1, <2>2, SomeStates, StateReplaced
  <2> QED BY <2>3, SomeStates DEF Appear, Acts
<1> HIDE DEF act
<1> QED BY <1>1, <1>2, Updated

\* A state that changes is of the type of the one shown.
LEMMA StateChangedStep ==
  ASSUME ActionsInv, TypesSettled, NEW n \in Names, NEW s \in States \ {NoState},
         OnActionStateChanged(n, s)
  PROVE  ActionsInv'
<1> DEFINE act == [acts[n] EXCEPT !.state = SetState(@, ToQVariant(s))]
<1>1. /\ group # NoGroup /\ ~clearing.on /\ group' = [group EXCEPT ![n] = s]
      /\ Tell(n, act) /\ clearing' = clearing
      /\ group[n] \notin {Absent, NoState} /\ GType(s) = GType(group[n])
  BY DEF OnActionStateChanged, Connected
<1>2. group[n] \in States \ {NoState} /\ HasAction(n)
  BY <1>1 DEF ActionsInv, TypeOK, HasAction
<1>3. ASSUME acts[n] # NoAction PROVE act \in Acts /\ act.valid = TRUE /\ act.state = ToQVariant(s)
  <2>1. acts[n] \in Acts /\ n \in Made
    BY <1>3 DEF ActionsInv, TypeOK, Made
  <2>2. acts[n].valid = TRUE /\ acts[n].state = ToQVariant(group[n])
    BY <1>1, <1>2, <2>1 DEF ActionsInv, LinksFollow, StatesFollow, ActionState, Acts
  <2>3. QType(ToQVariant(s)) = QType(acts[n].state)
    BY <1>1, <1>2, <2>2 DEF TypesSettled
  <2>4. SetState(acts[n].state, ToQVariant(s)) = ToQVariant(s)
    BY <2>1, <2>3, SomeStates, StateReplaced DEF Acts
  <2> QED BY <2>1, <2>2, <2>4, SomeStates DEF Acts
<1> HIDE DEF act
<1> QED BY <1>1, <1>3, Updated

\* A QStateAction is made with what the group has.
LEMMA ActionMadeStep ==
  ASSUME ActionsInv, AskInVanish = FALSE, NEW n \in Names, Action(n)
  PROVE  ActionsInv'
<1> USE DEF ActionsInv
<1> DEFINE act == [valid |-> HasAction(n), state |-> IF HasAction(n) THEN ActionState(n) ELSE NoState]
<1>1. /\ acts[n] = NoAction /\ ~clearing.on
      /\ acts' = [acts EXCEPT ![n] = act] /\ UNCHANGED <<group, clearing>>
  BY DEF Action
<1>2. HasAction(n) => ActionState(n) \in QStates
  BY SomeStates DEF TypeOK, HasAction, ActionState
<1>3. HasAction(n) \in BOOLEAN
  BY DEF HasAction
<1>4. act \in Acts
  BY <1>2, <1>3, SomeStates DEF Acts
<1>5. act.valid = HasAction(n) /\ (HasAction(n) => act.state = ActionState(n))
  OBVIOUS
<1> HIDE DEF act
<1>6. /\ acts' \in [Names -> Acts \cup {NoAction}]
      /\ acts'[n] = act /\ \A k \in Names \ {n} : acts'[k] = acts[k]
  BY <1>1, <1>4 DEF TypeOK
<1>7. Made' = Made \cup {n}
  BY <1>4, <1>6, ActionsAssumption DEF Made
<1>8. clearing' \in [todo : SUBSET (Made \cup {n}), on : BOOLEAN, fresh : BOOLEAN]
  BY <1>1 DEF TypeOK
<1>9. TypeOK'
  BY <1>1, <1>6, <1>7, <1>8 DEF TypeOK
<1>10. \A k \in Names : (HasAction(k)' <=> HasAction(k)) /\ ActionState(k)' = ActionState(k)
  BY <1>1 DEF HasAction, ActionState
<1>11. LinksFollow'
  <2> SUFFICES ASSUME NEW k \in Made \cup {n} PROVE acts'[k].valid <=> HasAction(k)'
    BY <1>1, <1>7 DEF LinksFollow
  <2>1. k \in Names
    BY DEF Made
  <2> QED BY <1>1, <1>5, <1>6, <1>10, <2>1 DEF LinksFollow
<1>12. StatesFollow'
  <2> SUFFICES ASSUME NEW k \in Made \cup {n}, HasAction(k)' PROVE acts'[k].state = ActionState(k)'
    BY <1>1, <1>7 DEF StatesFollow
  <2>1. k \in Names
    BY DEF Made
  <2> QED BY <1>1, <1>5, <1>6, <1>10, <2>1 DEF StatesFollow
<1> QED BY <1>1, <1>9, <1>11, <1>12 DEF IdleUnlessClearing

-----------------------------------------------------------------------------
(* The invariant holds after any number of steps.                          *)

IInv == ActionsInv /\ GroupFollowsProxy

\* What the QStateActions show does not depend on the connection.
LEMMA ActionsKept ==
  ASSUME TypesSettled, AskInVanish = FALSE, ActionsInv, [GroupNext]_<<vars, connection>>
  PROVE  ActionsInv'
<1>1. CASE ActionStep
  BY <1>1, SetActionGroupStep, ActionVanishStep, ClearedStep, RemovedStep, AddedStep,
     StateChangedStep, ActionMadeStep DEF ActionStep
<1>2. CASE UNCHANGED vars
  BY <1>2 DEF vars, ActionsInv, TypeOK, IdleUnlessClearing, LinksFollow, StatesFollow, Made,
              HasAction, ActionState
<1> QED BY <1>1, <1>2, EachStep DEF vars

\* setActionGroup is given the proxy that serviceAppear or serviceVanish made
\* or dropped; clear() ends with what it was begun for.
LEMMA ProxyKept ==
  ASSUME IInv, [GroupNext]_<<vars, connection>>
  PROVE  GroupFollowsProxy'
<1> USE DEF IInv, ActionsInv
<1>1. UNCHANGED <<group, clearing, proxy>> => GroupFollowsProxy'
  BY DEF GroupFollowsProxy
<1>2. ASSUME NEW made \in BOOLEAN, ~clearing.on \/ made = FALSE, UseGroup(made) PROVE GroupFollowsProxy'
  <2>1. CASE UNCHANGED <<group, acts, clearing>> /\ proxy' = proxy
    BY <1>1, <2>1
  <2>2. CASE SetActionGroup(proxy' # NoProxy)
    <3>1. clearing' = [todo |-> Made, on |-> TRUE, fresh |-> proxy' # NoProxy]
      BY <2>2 DEF SetActionGroup
    <3> QED BY <3>1 DEF GroupFollowsProxy
  <2> QED BY <1>2, <2>1, <2>2 DEF UseGroup
<1>3. CASE Call
  <2>1. UNCHANGED proxy
    BY <1>3 DEF Call, Object!Start, Object!Stop, Object!Clear, Object!Set
  <2> QED BY <1>1, <1>3, <2>1 DEF Call
<1>4. CASE Report
  BY <1>2, <1>4 DEF Report
<1>5. CASE Resume
  BY <1>2, <1>5 DEF Resume
<1>6. CASE Cleared /\ UNCHANGED connection
  <2>1. /\ clearing.on /\ clearing' = Idle /\ proxy' = proxy
        /\ group' = IF clearing.fresh THEN [n \in Names |-> Absent] ELSE NoGroup
    BY <1>6 DEF Cleared, connection
  <2>2. [n \in Names |-> Absent] # NoGroup
    BY ActionsAssumption
  <2>3. ~clearing'.on
    BY <2>1 DEF Idle
  <2> QED BY <2>1, <2>2, <2>3 DEF GroupFollowsProxy
<1>7. ASSUME NEW n \in Names, ActionVanish(n), UNCHANGED connection PROVE GroupFollowsProxy'
  <2>1. clearing'.on = clearing.on /\ clearing'.fresh = clearing.fresh /\ UNCHANGED <<group, proxy>>
    BY <1>7 DEF ActionVanish, connection, TypeOK
  <2> QED BY <2>1 DEF GroupFollowsProxy
<1>8. CASE Clearing
  BY <1>6, <1>7, <1>8 DEF Clearing
<1>9. CASE GroupChanges
  <2>1. PICK n \in Names, to \in States \cup {Absent} :
          group # NoGroup /\ group' = [group EXCEPT ![n] = to]
    BY <1>9, SomeStates DEF GroupChanges, OnActionRemoved, OnActionAdded, OnActionStateChanged, Connected
  <2>2. group' \in [Names -> States \cup {Absent}]
    BY <2>1 DEF TypeOK
  <2>3. group' # NoGroup
    BY <2>2, ActionsAssumption
  <2>4. UNCHANGED <<clearing, proxy>>
    BY <1>9 DEF GroupChanges, OnActionRemoved, OnActionAdded, OnActionStateChanged, connection
  <2> QED BY <2>1, <2>3, <2>4 DEF GroupFollowsProxy
<1>10. CASE Ask
  BY <1>1, <1>10 DEF Ask, Action, connection
<1>11. CASE UNCHANGED <<vars, connection>>
  BY <1>1, <1>11 DEF vars, connection
<1> QED BY <1>3, <1>4, <1>5, <1>8, <1>9, <1>10, <1>11 DEF GroupNext

\* There is no group, and there are no QStateActions, at first.
LEMMA InitIInv == GroupInit => IInv
<1> SUFFICES ASSUME GroupInit PROVE IInv
  OBVIOUS
<1>1. group = NoGroup /\ acts = [n \in Names |-> NoAction] /\ clearing = Idle /\ proxy = NoProxy
  BY DEF GroupInit, Init, Object!Init
<1>2. Made = {} /\ ~clearing.on
  BY <1>1 DEF Made, Idle
<1>3. TypeOK
  BY <1>1 DEF TypeOK, Idle
<1> QED BY <1>1, <1>2, <1>3
        DEF IInv, ActionsInv, IdleUnlessClearing, LinksFollow, StatesFollow, GroupFollowsProxy

LEMMA Invariance == ASSUME TypesSettled, AskInVanish = FALSE PROVE GroupSpec => []IInv
<1>1. ASSUME IInv, [GroupNext]_<<vars, connection>> PROVE IInv'
  BY <1>1, ActionsKept, ProxyKept DEF IInv
<1> QED BY InitIInv, <1>1, PTL DEF GroupSpec

-----------------------------------------------------------------------------
(* What it shows.                                                          *)

\* The fields of the group and of its connection have their types.
THEOREM GroupTypes ==
  ASSUME TypesSettled, AskInVanish = FALSE, Connection!Tame PROVE GroupSpec => []GroupTypeOK
<1>1. Connection!Spec => []Connection!TypeOK
  BY SameAssumption, Connection!ObjectTyped
<1>2. IInv /\ Connection!TypeOK => GroupTypeOK
  BY SameType DEF IInv, ActionsInv, GroupTypeOK
<1> QED BY Invariance, ConnectionSteps, <1>1, <1>2, PTL

\* Between two clear()s a QStateAction is valid if and only if the group has
\* its action, whatever the connection and the application do.
THEOREM ValidActionsLinked ==
  ASSUME TypesSettled, AskInVanish = FALSE PROVE GroupSpec => []ValidIsLinked
<1>1. IInv => ValidIsLinked
  BY DEF IInv, ActionsInv, LinksFollow, ValidIsLinked
<1> QED BY Invariance, <1>1, PTL

\* A valid QStateAction shows the state of the action now, as the type of a
\* state it has been set to is that of the next.
THEOREM ValidActionsCurrent ==
  ASSUME TypesSettled, AskInVanish = FALSE PROVE GroupSpec => []StateIsCurrent
<1>1. IInv => StateIsCurrent
  BY DEF IInv, ActionsInv, LinksFollow, StatesFollow, StateIsCurrent
<1> QED BY Invariance, <1>1, PTL

\* A service that vanished has left no group and no valid QStateAction, by what
\* its connection promises of the proxy.
THEOREM VanishedLeavesNothing ==
  ASSUME TypesSettled, AskInVanish = FALSE, Connection!Tame
  PROVE  GroupSpec => []VanishedActionsInvalid
<1>1. Connection!Spec => []Connection!VanishedUnused
  BY SameAssumption, Connection!VanishedDropped
<1>2. IInv /\ Connection!VanishedUnused => VanishedActionsInvalid
  BY DEF Connection!VanishedUnused, IInv, ActionsInv, GroupFollowsProxy, LinksFollow, HasAction,
         VanishedActionsInvalid
<1> QED BY Invariance, ConnectionSteps, <1>1, <1>2, PTL

-----------------------------------------------------------------------------
(* What a QStateAction asks for, where what it holds is current.           *)

\* A QStateAction that is linked holds what toQVariant makes of the state.
LEMMA HoldsState ==
  ASSUME TypeOK, StateIsCurrent, NEW n \in StatefulActs
  PROVE  /\ group # NoGroup /\ group[n] \in States \ {NoState}
         /\ acts[n].state = ToQVariant(group[n]) /\ acts[n].state \in QStates
<1>1. /\ n \in Made /\ ~clearing.on /\ acts[n].valid
      /\ group # NoGroup /\ group[n] # Absent /\ group[n] # NoState
  BY DEF StatefulActs, Stateful, HasAction, Made
<1>2. group[n] \in States
  BY <1>1 DEF TypeOK, Made
<1>3. acts[n].state = ToQVariant(group[n])
  BY <1>1 DEF StateIsCurrent, ActionState
<1> QED BY <1>1, <1>2, <1>3 DEF QStates

\* Whatever QML gives, a valid QStateAction asks for a state of the action's
\* type or for none, where the type in Qt settles the one of D-Bus.
THEOREM RequestsTyped ==
  ASSUME TypesSettled, AskInVanish = FALSE PROVE GroupSpec => []RequestTyped
<1>1. ASSUME TypeOK, StateIsCurrent PROVE RequestTyped
  <2> SUFFICES ASSUME NEW n \in StatefulActs, Settled(GType(group[n])), NEW q \in Inputs,
                      UpdateState(n, q) # NoState
               PROVE  GType(UpdateState(n, q)) = GType(group[n])
    BY DEF RequestTyped
  <2> DEFINE made == Convert(q, QType(ToQVariant(group[n])))
  <2>1. /\ group # NoGroup /\ group[n] \in States \ {NoState}
        /\ acts[n].state = ToQVariant(group[n])
    BY <1>1, HoldsState
  <2>2. made # NoState /\ UpdateState(n, q) = ToGVariant(made)
    BY <2>1 DEF UpdateState, UpdateActionState
  <2> QED BY <2>1, <2>2, ConversionAssumption
<1> QED BY Invariance, ValidActionsCurrent, <1>1, PTL DEF IInv, ActionsInv

\* A valid QStateAction that is told to take the state that it shows asks for
\* the action's own state exactly if toGVariant takes back what toQVariant makes
\* of it.
THEOREM StatesEchoed ==
  ASSUME TypesSettled, AskInVanish = FALSE PROVE GroupSpec => []StateEcho
<1>1. ASSUME TypeOK, StateIsCurrent PROVE StateEcho
  <2> SUFFICES ASSUME NEW n \in StatefulActs
               PROVE  Echoed(group[n]) <=> UpdateState(n, acts[n].state) = group[n]
    BY DEF StateEcho
  <2>1. /\ group # NoGroup /\ group[n] \in States \ {NoState}
        /\ acts[n].state = ToQVariant(group[n]) /\ acts[n].state \in QStates
    BY <1>1, HoldsState
  <2>2. Echoed(group[n]) <=> acts[n].state # NoState /\ ToGVariant(acts[n].state) = group[n]
    BY <2>1, ConversionAssumption
  <2>3. CASE acts[n].state = NoState
    BY <2>1, <2>2, <2>3 DEF UpdateState, UpdateActionState
  <2>4. CASE acts[n].state # NoState
    <3>1. Convert(acts[n].state, QType(acts[n].state)) = acts[n].state
      BY <2>1, <2>4, ActionsAssumption
    <3> QED BY <2>1, <2>2, <2>4, <3>1 DEF UpdateState, UpdateActionState
  <2> QED BY <2>3, <2>4
<1> QED BY Invariance, ValidActionsCurrent, <1>1, PTL DEF IInv, ActionsInv

=============================================================================
