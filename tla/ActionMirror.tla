---------------------------- MODULE ActionMirror ----------------------------
(***************************************************************************)
(* What the muxer promises to the items that observe it, with no tables,   *)
(* prefixes or loops: an asynchronous mirror.  Whenever the actions        *)
(* change, the items concerned are told, each once, and an item changes    *)
(* only when it is told.  ActionMuxer implements this.                     *)
(***************************************************************************)
CONSTANTS Items, Faces, Blank

VARIABLES
  due,     \* [Items -> Faces]: what each item should show now
  live,    \* the items that exist
  waiting, \* the items that have not been told of the last change
  face     \* what each item shows

vars == <<due, live, waiting, face>>

Init ==
  /\ due \in [Items -> Faces]
  /\ live = {}
  /\ waiting = {}
  /\ face = [i \in Items |-> Blank]

\* The actions change, not before everyone knows of the last change.
Publish ==
  /\ waiting = {}
  /\ due' \in [Items -> Faces]
  /\ waiting' \subseteq live
  /\ \A i \in live \ waiting' : due'[i] = face[i]
  /\ UNCHANGED <<live, face>>

Tell(i) ==
  /\ i \in waiting
  /\ waiting' = waiting \ {i}
  /\ face' = [face EXCEPT ![i] = due[i]]
  /\ UNCHANGED <<due, live>>

\* A new item knows at once; it may be told again of the change under way.
New(i) ==
  /\ i \notin live
  /\ live' = live \cup {i}
  /\ waiting' \in {waiting, waiting \cup {i}}
  /\ face' = [face EXCEPT ![i] = due[i]]
  /\ UNCHANGED due

Free(i) ==
  /\ i \in live
  /\ live' = live \ {i}
  /\ waiting' = waiting \ {i}
  /\ face' = [face EXCEPT ![i] = Blank]
  /\ UNCHANGED due

Next == Publish \/ \E i \in Items : Tell(i) \/ New(i) \/ Free(i)

\* Nobody waits for ever.
EveryoneTold == \A i \in Items : (i \in waiting) ~> (i \notin waiting)

Spec == Init /\ [][Next]_vars /\ EveryoneTold

=============================================================================
