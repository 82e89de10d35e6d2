--------------------------- MODULE SubmenuOpener ---------------------------
(***************************************************************************)
(* A submenu that is opened through an action of the service               *)
(* (GtkMenuTrackerOpener in gtkmenutrackeritem.c).  Before the submenu is  *)
(* shown, the service is asked to set the action named by "submenu-action" *)
(* to TRUE, and when it is closed, to set it to FALSE.                     *)
(*                                                                         *)
(* The opener listens to the muxer, whose group has the action or not;     *)
(* its requests are D-Bus calls, which the service gets later, in order.   *)
(* Whoever handles the change of submenu-shown does not call the item from *)
(* inside the notification.  The item offers this to applications; nothing *)
(* in the library calls it yet.                                            *)
(***************************************************************************)
EXTENDS Naturals, Sequences

CONSTANTS
  MaxSent   \* bound: the most requests on their way to the service

ASSUME OpenerAssumption == MaxSent \in Nat \ {0}

\* What the muxer has under the name: an action without a boolean state is
\* "other", and "absent" is no action.
ActionStates == {"true", "false", "other", "absent"}

VARIABLES
  live,      \* the item exists
  byAction,  \* it has a "submenu-action"
  requested, \* submenu_requested
  shown,     \* submenu_shown
  opener,    \* the item has an opener
  group,     \* the muxer has a group under the action's prefix
  action,    \* what that group has
  sent,      \* the requests on their way
  told,      \* history: the last request made of this group, or "nothing"
  refused    \* history: the service has not done what it was asked last

vars == <<live, byAction, requested, shown, opener, group, action, sent, told, refused>>

service == <<group, action>>
item == <<live, byAction, requested>>

Requests == {"true", "false"}

-----------------------------------------------------------------------------
(* Requests.  The muxer drops one that it has no group for.                *)

CanAsk == Len(sent) < MaxSent

Ask(v) ==
  IF group
  THEN /\ CanAsk
       /\ sent' = Append(sent, v)
       /\ told' = v
       /\ refused' = FALSE
  ELSE UNCHANGED <<sent, told, refused>>

\* The submenu counts as open unless the service says that it is not.
IsOpen(a) == a # "false"

\* Mutant: the submenu is closed when the service says so.
UpdateClosing(a, pending) ==
  /\ shown' = IsOpen(a)
  /\ IF IsOpen(a) THEN sent' = pending /\ UNCHANGED <<told, refused>>
     ELSE /\ Len(pending) < MaxSent
          /\ sent' = Append(pending, "true") /\ told' = "true" /\ refused' = FALSE

\* Mutant: a closed submenu is not asked to open again.
UpdateSilent(a, pending) ==
  /\ shown' = (shown \/ IsOpen(a))
  /\ sent' = pending
  /\ UNCHANGED <<told, refused>>

\* gtk_menu_tracker_opener_update, from a signal of the action, which is now a.
Update(a, pending) ==
  /\ shown' = (shown \/ IsOpen(a))
  /\ IF IsOpen(a) THEN sent' = pending /\ UNCHANGED <<told, refused>>
     ELSE /\ Len(pending) < MaxSent
          /\ sent' = Append(pending, "true") /\ told' = "true" /\ refused' = FALSE

\* Mutant: the signals of an opener that was freed stay connected.
SignalledAlways(a, pending) == Update(a, pending)

\* What the action's signals do: the opener, if there is one, is connected.
Signalled(a, pending) ==
  IF opener THEN Update(a, pending)
  ELSE sent' = pending /\ UNCHANGED <<shown, told, refused>>

\* Mutant: the service is not told.
OpenerFreeSilently == shown' = FALSE /\ UNCHANGED <<sent, told, refused>>

\* gtk_menu_tracker_opener_free
OpenerFree == Ask("false") /\ shown' = FALSE

-----------------------------------------------------------------------------
(* The item.                                                               *)

\* Mutant: a new opener only asks an open submenu.
OpenUnasked ==
  /\ live /\ ~requested
  /\ requested' = TRUE
  /\ opener' = byAction
  /\ shown' = (byAction => shown \/ IsOpen(action))
  /\ IF byAction /\ IsOpen(action) THEN Ask("true") ELSE UNCHANGED <<sent, told, refused>>
  /\ UNCHANGED <<live, byAction, service>>

\* gtk_menu_tracker_item_request_submenu_shown (TRUE): a new opener looks at
\* the action and always asks once.
Open ==
  /\ live /\ ~requested
  /\ requested' = TRUE
  /\ opener' = byAction
  /\ shown' = (byAction => shown \/ IsOpen(action))
  /\ IF byAction THEN Ask("true") ELSE UNCHANGED <<sent, told, refused>>
  /\ UNCHANGED <<live, byAction, service>>

\* gtk_menu_tracker_item_request_submenu_shown (FALSE)
Close ==
  /\ live /\ requested
  /\ requested' = FALSE
  /\ opener' = FALSE
  /\ IF opener THEN OpenerFree ELSE shown' = FALSE /\ UNCHANGED <<sent, told, refused>>
  /\ UNCHANGED <<live, byAction, service>>

\* Mutant: the item goes and its opener stays.
ItemFreeAlone ==
  /\ live
  /\ live' = FALSE /\ requested' = FALSE /\ shown' = FALSE
  /\ UNCHANGED <<byAction, opener, service, sent, told, refused>>

\* The item goes, and its opener with it.
ItemFree ==
  /\ live
  /\ live' = FALSE /\ requested' = FALSE /\ opener' = FALSE
  /\ IF opener THEN OpenerFree ELSE shown' = FALSE /\ UNCHANGED <<sent, told, refused>>
  /\ UNCHANGED <<byAction, service>>

ItemNew ==
  /\ ~live
  /\ live' = TRUE
  /\ byAction' \in BOOLEAN
  /\ UNCHANGED <<requested, shown, opener, service, sent, told, refused>>

-----------------------------------------------------------------------------
(* The service.                                                            *)

\* The oldest request arrives.  A boolean action takes the value, and says so
\* when it is a new one.
Honour ==
  LET v == Head(sent) IN
  /\ sent # <<>>
  /\ IF action \in Requests /\ action # v
     THEN action' = v /\ Signalled(v, Tail(sent))
     ELSE sent' = Tail(sent) /\ UNCHANGED <<action, shown, told, refused>>
  /\ UNCHANGED <<item, opener, group>>

\* The service lets it pass, or the call fails.
Refuse ==
  /\ sent # <<>>
  /\ sent' = Tail(sent)
  /\ refused' = (Tail(sent) = <<>>)
  /\ UNCHANGED <<item, shown, opener, service, told>>

\* The service changes, adds or removes the action of its own accord.  A
\* boolean action stays one until it is removed.
ActionChanges(a) ==
  /\ group /\ a # action
  /\ "absent" \in {a, action} \/ {a, action} = Requests
  /\ action' = a
  /\ Signalled(a, sent)
  /\ UNCHANGED <<item, opener, group>>

\* A group is inserted into the muxer, which announces its actions.
GroupInserted(a) ==
  /\ ~group
  /\ group' = TRUE
  /\ action' = a
  /\ IF a # "absent" THEN Signalled(a, sent) ELSE UNCHANGED <<shown, sent, told, refused>>
  /\ UNCHANGED <<item, opener>>

\* It is removed: an action of it is gone when the removal is announced, and
\* what has been asked of it is no longer of interest.
GroupRemoved ==
  /\ group
  /\ group' = FALSE
  /\ action' = "absent"
  /\ shown' = (shown \/ (opener /\ action # "absent"))
  /\ sent' = <<>> /\ told' = "nothing" /\ refused' = FALSE
  /\ UNCHANGED <<item, opener>>

-----------------------------------------------------------------------------

Init ==
  /\ live = FALSE /\ byAction = FALSE
  /\ requested = FALSE /\ shown = FALSE /\ opener = FALSE
  /\ group = FALSE /\ action = "absent"
  /\ sent = <<>> /\ told = "nothing" /\ refused = FALSE

Next ==
  \/ Open \/ Close \/ ItemFree \/ ItemNew
  \/ Honour \/ Refuse
  \/ \E a \in ActionStates : ActionChanges(a) \/ GroupInserted(a)
  \/ GroupRemoved

\* A request arrives or fails in the end.
Spec == Init /\ [][Next]_vars /\ WF_vars(Honour \/ Refuse)

-----------------------------------------------------------------------------

\* Type invariant: an item that exists has an opener while it is to be open.
TypeOK ==
  /\ {live, byAction, requested, shown, opener, group, refused} \subseteq BOOLEAN
  /\ action \in ActionStates
  /\ sent \in Seq(Requests) /\ Len(sent) <= MaxSent
  /\ told \in Requests \cup {"nothing"}
  /\ requested => live
  /\ opener <=> requested /\ byAction

\* A submenu that is shown has been asked for and not been closed since, be the
\* answer of the service late, repeated, or to an earlier request.
ShownRequested == shown => live /\ requested

\* Only a request of the user closes a submenu: no change of the action, of its
\* group or of the service does (the comment of gtk_menu_tracker_opener_update).
OnlyUserCloses == [][shown /\ ~shown' => requested /\ ~requested']_vars

\* A service that was asked to open is asked to close when the user closes, and
\* one that closes the submenu of its own accord is asked to open it again,
\* whatever it has yet to receive.
ServiceKnows ==
  /\ ~requested => told # "true"
  /\ sent # <<>> => sent[Len(sent)] = told
  /\ opener /\ action = "false" => told = "true" /\ (sent # <<>> \/ refused)

\* An opener that waits is answered, unless the service refuses.
OpenerAnswered == (opener /\ ~shown) ~> (shown \/ ~opener \/ refused)
=============================================================================
