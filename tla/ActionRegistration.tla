------------------------- MODULE ActionRegistration -------------------------
(***************************************************************************)
(* UnityMenuActions (unitymenuaction.cpp) and the UnityMenuModels they are *)
(* registered with (unitymenumodel.cpp, gtksimpleactionobserver.c).        *)
(*                                                                         *)
(* A model keeps an observer for each registered action and has slots      *)
(* connected to the action's signals.  The observer watches one full name  *)
(* in the model's muxer, which is here a table of what is exported under   *)
(* each full name; module ActionMuxer has the muxer itself.                *)
(***************************************************************************)
EXTENDS Integers

CONSTANTS
  Actions, Models, NoModel,
  Names, NoName,       \* action names; the empty string
  Namespaces, Bare,    \* action namespaces; NULL
  Values, Absent,      \* what is exported of an action (enabled and state)
  Unregistered,        \* no observer
  MaxIndex,            \* bound: the rows of a model
  MaxConnections       \* bound: connections of one action to one model

\* g_strjoin of a namespace and a name; without both there is no name.
FullNames == (Namespaces \cup {Bare}) \X (Names \cup {NoName})

\* Mutant: a new observer has an arbitrary name.
UninitializedName == Bare

NoFullName == <<Bare, NoName>>

Indexes == -1..MaxIndex
Silent == [by |-> {}, to |-> {}]

VARIABLES
  model, name, index, \* m_model, m_name, m_index of each action
  valid, state,       \* m_valid, and m_enabled with m_state
  observer,           \* [Actions -> [Models -> the watched name, or Unregistered]]
  slots,              \* how often each action's signals are connected to each model
  rows,               \* [Models -> the rows, a sequence of their namespaces]
  exported,           \* [Models -> [FullNames -> Values \cup {Absent}]]
  sent                \* the action that the latest step has activated, and where:
                      \* in which models, under which names, how often

vars == <<model, name, index, valid, state, observer, slots, rows, exported, sent>>
action == <<model, name, index, valid, state>>

ASSUME RegistrationAssumption ==
  /\ NoModel \notin Models /\ NoName \notin Names /\ Bare \notin Namespaces
  /\ Absent \notin Values /\ Unregistered \notin FullNames
  /\ MaxIndex \in Nat /\ MaxConnections \in Nat

-----------------------------------------------------------------------------

\* fullActionName: the namespace is that of the row at the action's index.
FullName(a, m) ==
  LET i == index[a] + 1 IN <<IF i \in DOMAIN rows[m] THEN rows[m][i] ELSE Bare, name[a]>>

\* Mutant: the new name is watched and what is exported of it not looked up.
UpdateUnqueried(a) ==
  LET ms == {m \in Models : slots[a][m] > 0 /\ observer[a][m] # Unregistered} IN
  /\ observer' = [observer EXCEPT ![a] = [m \in Models |-> IF m \in ms THEN FullName(a, m)' ELSE @[m]]]
  /\ UNCHANGED <<valid, state>>

\* updateRegisteredAction, in every model with a slot connected: the observer
\* watches the new name, and the action gets what is exported of it.  A model
\* that the action is not registered with any more leaves it alone.
UpdateRegisteredAction(a) ==
  LET ms == {m \in Models : slots[a][m] > 0 /\ observer[a][m] # Unregistered}
      known == {m \in ms : exported[m][FullName(a, m)'] # Absent}
  IN  /\ observer' = [observer EXCEPT ![a] = [m \in Models |-> IF m \in ms THEN FullName(a, m)' ELSE @[m]]]
      /\ IF known = {} THEN UNCHANGED <<valid, state>>
         ELSE \E m \in known : /\ valid' = [valid EXCEPT ![a] = TRUE]
                               /\ state' = [state EXCEPT ![a] = exported[m][FullName(a, m)']]

-----------------------------------------------------------------------------
(* The properties of an action, as QML sets them.                          *)

SetName(a, n) ==
  /\ n # name[a]
  /\ name' = [name EXCEPT ![a] = n]
  /\ sent' = Silent
  /\ UNCHANGED <<model, index, slots, rows, exported>>
  /\ UpdateRegisteredAction(a)

SetIndex(a, i) ==
  /\ i # index[a]
  /\ index' = [index EXCEPT ![a] = i]
  /\ sent' = Silent
  /\ UNCHANGED <<model, name, slots, rows, exported>>
  /\ UpdateRegisteredAction(a)

\* Mutant: the model that is left keeps its observer.
LeftRegistered(a) == observer[a]

\* unregisterAction: the observer goes.  disconnect(action) undoes connections
\* from the model to the action, and there are none.
WithoutModel(a) ==
  [m \in Models |-> IF m = model[a] THEN Unregistered ELSE observer[a][m]]

\* Mutant: the signals are not connected.
ConnectedNever(a, m) == slots[a]

Connected(a, m) == IF m = NoModel THEN slots[a] ELSE [slots[a] EXCEPT ![m] = @ + 1]

\* registerAction: a new observer, which watches nothing yet.
SetModel(a, m) ==
  /\ m # model[a]
  /\ m # NoModel => slots[a][m] < MaxConnections
  /\ model' = [model EXCEPT ![a] = m]
  /\ observer' = [observer EXCEPT ![a] =
       [k \in Models |-> IF k = m THEN NoFullName ELSE WithoutModel(a)[k]]]
  /\ slots' = [slots EXCEPT ![a] = Connected(a, m)]
  /\ sent' = Silent
  /\ UNCHANGED <<name, index, valid, state, rows, exported>>

\* The signals activate and changeState, in every slot that is connected.
Activate(a) ==
  /\ name[a] # NoName
  /\ sent' = [by |-> {a}, to |-> {<<m, FullName(a, m), slots[a][m]>> : m \in {k \in Models : slots[a][k] > 0}}]
  /\ UNCHANGED <<action, observer, slots, rows, exported>>

-----------------------------------------------------------------------------
(* Objects come and go.  A destroyed object is followed by a new one of    *)
(* the same name.                                                          *)

DestroyAction(a) ==
  /\ model' = [model EXCEPT ![a] = NoModel]
  /\ name' = [name EXCEPT ![a] = NoName]
  /\ index' = [index EXCEPT ![a] = -1]
  /\ valid' = [valid EXCEPT ![a] = FALSE]
  /\ state' = [state EXCEPT ![a] = Absent]
  /\ observer' = [observer EXCEPT ![a] = WithoutModel(a)]
  /\ slots' = [slots EXCEPT ![a] = [m \in Models |-> 0]]
  /\ sent' = Silent
  /\ UNCHANGED <<rows, exported>>

\* The registered actions get no model; Qt disconnects the slots.
DestroyModel(m) ==
  /\ model' = [a \in Actions |-> IF observer[a][m] # Unregistered THEN NoModel ELSE model[a]]
  /\ observer' = [a \in Actions |-> [observer[a] EXCEPT ![m] = Unregistered]]
  /\ slots' = [a \in Actions |-> [slots[a] EXCEPT ![m] = 0]]
  /\ rows' = [rows EXCEPT ![m] = <<>>]
  /\ exported' = [exported EXCEPT ![m] = [f \in FullNames |-> Absent]]
  /\ sent' = Silent
  /\ UNCHANGED <<name, index, valid, state>>

-----------------------------------------------------------------------------
(* What the service does.                                                  *)

\* Row events: nothing looks at the registered actions.
RowsChanged(m, rs) ==
  /\ rows' = [rows EXCEPT ![m] = rs]
  /\ sent' = Silent
  /\ UNCHANGED <<action, observer, slots, exported>>

\* The observers of a name tell the actions they were made for.
Told(m, f) == {a \in Actions : observer[a][m] = f}

\* What actions make of it: an action that goes leaves the state.
Show(told, v) ==
  /\ valid' = [a \in Actions |-> IF a \in told THEN v # Absent ELSE valid[a]]
  /\ state' = [a \in Actions |-> IF a \in told /\ v # Absent THEN v ELSE state[a]]

\* An action appears, changes or goes.
Exported(m, f, v) ==
  /\ f[2] # NoName
  /\ exported[m][f] # v
  /\ exported' = [exported EXCEPT ![m][f] = v]
  /\ Show(Told(m, f), v)
  /\ sent' = Silent
  /\ UNCHANGED <<model, name, index, observer, slots, rows>>

-----------------------------------------------------------------------------

Init ==
  /\ model = [a \in Actions |-> NoModel]
  /\ name = [a \in Actions |-> NoName]
  /\ index = [a \in Actions |-> -1]
  /\ valid = [a \in Actions |-> FALSE]
  /\ state = [a \in Actions |-> Absent]
  /\ observer = [a \in Actions |-> [m \in Models |-> Unregistered]]
  /\ slots = [a \in Actions |-> [m \in Models |-> 0]]
  /\ rows = [m \in Models |-> <<>>]
  /\ exported = [m \in Models |-> [f \in FullNames |-> Absent]]
  /\ sent = Silent

RowSequences == UNION {[1..n -> Namespaces \cup {Bare}] : n \in 0..(MaxIndex + 1)}

Next ==
  \/ \E a \in Actions : \E n \in Names \cup {NoName} : SetName(a, n)
  \/ \E a \in Actions : \E i \in Indexes : SetIndex(a, i)
  \/ \E a \in Actions : \E m \in Models \cup {NoModel} : SetModel(a, m)
  \/ \E a \in Actions : Activate(a) \/ DestroyAction(a)
  \/ \E m \in Models : DestroyModel(m) \/ \E rs \in RowSequences : RowsChanged(m, rs)
  \/ \E m \in Models : \E f \in FullNames, v \in Values \cup {Absent} : Exported(m, f, v)

Spec == Init /\ [][Next]_vars

-----------------------------------------------------------------------------

\* Type invariant.
TypeOK ==
  /\ model \in [Actions -> Models \cup {NoModel}]
  /\ name \in [Actions -> Names \cup {NoName}]
  /\ index \in [Actions -> Indexes]
  /\ valid \in [Actions -> BOOLEAN]
  /\ state \in [Actions -> Values \cup {Absent}]
  /\ observer \in [Actions -> [Models -> FullNames \cup {Unregistered}]]
  /\ slots \in [Actions -> [Models -> 0..MaxConnections]]
  /\ rows \in [Models -> RowSequences]
  /\ exported \in [Models -> [FullNames -> Values \cup {Absent}]]
  /\ sent.by \subseteq Actions
  /\ sent.to \subseteq Models \X FullNames \X (1..MaxConnections)

\* An action is registered with its model and no other, so that neither
\* outlives what the other keeps of it, in whatever order they are destroyed.
RegisteredWithItsModel ==
  \A a \in Actions, m \in Models : observer[a][m] # Unregistered <=> model[a] = m

\* What an action shows is what is exported of the name its model observes.
ObservedShown ==
  \A a \in Actions, m \in Models :
    observer[a][m] # Unregistered /\ exported[m][observer[a][m]] # Absent =>
      valid[a] /\ state[a] = exported[m][observer[a][m]]

\* No activation is lost: one of an action that has a model reaches that model,
\* under the name that the action's row has now.
ActivationReachesModel ==
  \A a \in sent.by : model[a] # NoModel =>
    \E s \in sent.to : s[1] = model[a] /\ s[2] = FullName(a, model[a])

\* An action is registered with one menu at a time: what it is told to
\* activate is activated there, once.
ActivatesOnce ==
  \A a \in sent.by : \A s \in sent.to : s[1] = model[a] /\ s[3] = 1

=============================================================================
