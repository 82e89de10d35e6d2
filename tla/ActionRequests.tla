--------------------------- MODULE ActionRequests ---------------------------
(***************************************************************************)
(* What the two kinds of clients of an exported action ask of it, over the *)
(* states of module DBusActionGroup: a QStateAction, and a row of a        *)
(* UnityMenuModel.  A service refuses a state that is not of the action's  *)
(* type, so the conversion of what QML gives decides whether a request is  *)
(* any good.                                                               *)
(*                                                                         *)
(* The row's item holds the action's state as its muxer's group has it,    *)
(* which module ActionMuxer shows of it.                                   *)
(***************************************************************************)
EXTENDS DBusActionGroup

CONSTANTS
  Inputs,                     \* the QVariants that QML gives
  ToGVariant(_),              \* Converter::toGVariant
  ToGVariantWithSchema(_, _), \* Converter::toGVariantWithSchema
  Fits(_, _),                 \* a QVariant can be made into a type
  Echoed(_),                  \* states that come back as they were without a schema
  Returned(_),                \* states that come back as they were with their type
  Settled(_)                  \* types that a Qt type settles

\* What convert makes is of the type it was asked for; of a Qt type that settles
\* one of D-Bus, toGVariant makes values of that one; and what toQVariant makes
\* of a state, toGVariant takes back as it was for the echoed states only.
ASSUME ConversionAssumption ==
  /\ \A s \in States \ {NoState}, q \in Inputs :
       LET made == Convert(q, QType(ToQVariant(s))) IN
       /\ made # NoState => QType(made) = QType(ToQVariant(s))
       /\ Settled(GType(s)) /\ made # NoState /\ QType(made) = QType(ToQVariant(s)) =>
            ToGVariant(made) = NoState \/ GType(ToGVariant(made)) = GType(s)
  /\ \A s \in States \ {NoState} :
       Echoed(s) <=> ToQVariant(s) # NoState /\ ToGVariant(ToQVariant(s)) = s

-----------------------------------------------------------------------------
(* A QStateAction.  NoState is what is asked for where nothing is.         *)

UpdateActionState(n, v) ==
  IF group = NoGroup \/ v = NoState THEN NoState ELSE ToGVariant(v)

\* Mutant: what is given is passed on as it is.
UpdateStateRaw(n, q) == UpdateActionState(n, q)

\* updateState: what is given becomes a value of the type of the state, or is
\* not asked for.  Without a state only an invalid value passes.
UpdateState(n, q) ==
  UpdateActionState(n, IF acts[n].state = NoState THEN NoState ELSE Convert(q, QType(acts[n].state)))

-----------------------------------------------------------------------------
(* A row, by way of its GtkMenuTrackerItem and the muxer.                  *)

ItemState(n) == IF HasAction(n) THEN group[n] ELSE NoState

\* Without a group under the prefix the muxer drops the request.
ChangeActionState(n, g) == IF group = NoGroup THEN NoState ELSE g

\* Mutant: the item's state is not looked at.
ChangeStateStraight(n, q) == ChangeActionState(n, ToGVariant(q))

\* changeState: the type of the item's state is the schema.
ChangeState(n, q) ==
  ChangeActionState(n, IF ItemState(n) = NoState THEN ToGVariant(q)
                       ELSE ToGVariantWithSchema(q, GType(ItemState(n))))

-----------------------------------------------------------------------------

\* The states that are linked, and held by a valid QStateAction.
Stateful == {n \in Names : ~clearing.on /\ HasAction(n) /\ group[n] # NoState}
StatefulActs == {n \in Stateful : acts[n] # NoAction /\ acts[n].valid}

\* Whatever QML gives, a QStateAction asks for a state of the action's type or
\* for none; for arrays that are lists in Qt, and for what Qt does not have, it
\* cannot.
RequestTyped ==
  \A n \in StatefulActs : Settled(GType(group[n])) =>
    \A q \in Inputs : UpdateState(n, q) = NoState \/ GType(UpdateState(n, q)) = GType(group[n])

\* A QStateAction that is told to take its own state asks for exactly that if
\* the state is one that is echoed, as those are that the tests convert there
\* and back, and for something else if it is not.
StateEcho ==
  \A n \in StatefulActs : Echoed(group[n]) <=> UpdateState(n, acts[n].state) = group[n]


\* A row that is told to take the state that it shows asks for exactly that if
\* the state is one that its type returns, which arrays and variants may be, too,
\* and for something else if it is not.
SchemaEcho ==
  \A n \in Stateful : ToQVariant(group[n]) # NoState =>
    (Returned(group[n]) <=> ChangeState(n, ToQVariant(group[n])) = group[n])

=============================================================================
