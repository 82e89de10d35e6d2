-------------------------- MODULE DBusActionGroup ---------------------------
(***************************************************************************)
(* QDBusActionGroup (qdbusactiongroup.cpp): a QDBusObject whose proxy is   *)
(* the action group of module StateActions.  The connection is module      *)
(* DBusObject; wherever it changes its proxy, setActionGroup begins, which *)
(* tells the QStateActions one by one.  Each step of either may run        *)
(* application code, which may call the other.                             *)
(***************************************************************************)
EXTENDS StateActions, Naturals, Sequences

CONSTANTS Services, Paths, Buses, Unset, NoWatch, NoProxy, Reentry, MaxDepth

VARIABLES settings, status, watch, proxy, calls

connection == <<settings, status, watch, proxy, calls>>

Object == INSTANCE DBusObject WITH StopClears <- FALSE

ASSUME GroupAssumption == Object!ObjectAssumption

-----------------------------------------------------------------------------

\* Mutant: the actions of a service that vanished are kept for its return.
UseGroupFresh(made) ==
  IF proxy' = NoProxy \/ (~made /\ proxy' = proxy)
  THEN UNCHANGED <<group, acts, clearing>>
  ELSE SetActionGroup(TRUE)

\* setActionGroup, with what serviceAppear or serviceVanish gives it.  A group
\* is made anew each time, and for none there is an early return.
UseGroup(made) ==
  IF ~made /\ proxy' = proxy
  THEN UNCHANGED <<group, acts, clearing>>
  ELSE SetActionGroup(proxy' # NoProxy)

\* What the application calls, also from inside clear().
Call ==
  /\ \/ Object!Start
     \/ Object!Stop
     \/ \E b \in Buses \cup {Unset} : Object!Set("bus", b)
     \/ \E n \in Services \cup {Unset} : Object!Set("name", n)
     \/ \E p \in Paths \cup {Unset} : Object!Set("path", p)
  /\ UNCHANGED <<group, acts, clearing>>

\* What the watch reports from the main loop.
Report ==
  /\ ~clearing.on
  /\ \/ Object!Appeared /\ UseGroup(TRUE)
     \/ Object!Vanished /\ UseGroup(FALSE)

\* The handler that was inside a signal goes on, serviceAppear once the new
\* group is in place.
Resume ==
  /\ calls # <<>>
  /\ ~(clearing.on /\ Head(calls).kind = "appear")
  /\ Object!Return
  /\ UseGroup(FALSE)

\* clear() goes on when the calls from inside its last signal have returned.
Clearing ==
  /\ \A k \in DOMAIN calls : calls[k].kind = "appear"
  /\ Cleared \/ \E n \in Names : ActionVanish(n)
  /\ UNCHANGED connection

\* A service keeps to the type of an action that a QStateAction has shown.
KeepsType(n, s) ==
  acts[n] # NoAction /\ acts[n].state # NoState => QType(ToQVariant(s)) = QType(acts[n].state)

\* The group's signals come from the main loop.
GroupChanges ==
  /\ calls = <<>>
  /\ \E n \in Names :
       \/ OnActionRemoved(n)
       \/ \E s \in Exports[n] : KeepsType(n, s) /\ OnActionAdded(n, s)
       \/ \E s \in Exports[n] \ {NoState} : OnActionStateChanged(n, s)
  /\ UNCHANGED connection

Ask == (\E n \in Names : Action(n)) /\ UNCHANGED connection

-----------------------------------------------------------------------------

GroupInit == Init /\ Object!Init

GroupNext == Call \/ Report \/ Resume \/ Clearing \/ GroupChanges \/ Ask

GroupSpec == GroupInit /\ [][GroupNext]_<<vars, connection>>

-----------------------------------------------------------------------------

\* Type invariant of both parts.
GroupTypeOK == TypeOK /\ Object!TypeOK

\* When the service has gone, no QStateAction says that it has an action any
\* more, and its group is not used: also if the application stopped, set and
\* started the object while the actions were told.
VanishedActionsInvalid ==
  watch # NoWatch /\ watch.seen = "no" /\ calls = <<>> /\ ~clearing.on =>
    group = NoGroup /\ \A n \in Made : ~acts[n].valid

=============================================================================
