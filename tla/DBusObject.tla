----------------------------- MODULE DBusObject -----------------------------
(***************************************************************************)
(* QDBusObject (qdbusobject.cpp) as QDBusMenuModel and QDBusActionGroup    *)
(* use it: a watch of a bus name, a connection status, and the proxy that  *)
(* serviceAppear makes and serviceVanish drops.                            *)
(*                                                                         *)
(* Every status change and every change of the proxy runs application      *)
(* code, which may call the object again before the handler that emitted   *)
(* the signal goes on.  calls is the stack of the handlers that are inside *)
(* such a signal and still have something to do: Return does it.           *)
(***************************************************************************)
EXTENDS Naturals, Sequences

CONSTANTS
  Services, Paths, Buses, \* bus names, object paths, bus types
  Unset,                  \* an empty string; DBusEnums::None
  NoWatch, NoProxy,
  StopClears,             \* QDBusMenuModel::stop clears, QDBusActionGroup's does not
  Reentry,                \* [kinds of handlers -> what is called from inside them]
  MaxDepth                \* bound: the deepest nesting of handlers

Fields == {"bus", "name", "path"}
Settings == [bus : Buses \cup {Unset}, name : Services \cup {Unset}, path : Paths \cup {Unset}]
Statuses == {"Disconnected", "Connecting", "Connected"}
Watches == [name : Services, seen : {"unknown", "yes", "no"}]
Proxies == [name : Services \cup {Unset}, path : Paths \cup {Unset}]
Methods == {"start", "stop", "set"}

\* The handlers that have something to do after a signal.
Kinds == {"appear", "vanish", "stop", "set"}
Frames == [kind : Kinds \ {"set"}]
          \cup [kind : {"set"}, field : Fields, to : Services \cup Paths \cup Buses \cup {Unset}]

VARIABLES
  settings, \* m_busType, m_busName, m_objectPath
  status,   \* m_status
  watch,    \* m_watchId: the watched name and what was last told of it
  proxy,    \* the menu or the action group that is used
  calls     \* the handlers in progress, innermost first

vars == <<settings, status, watch, proxy, calls>>

ASSUME ObjectAssumption ==
  /\ StopClears \in BOOLEAN
  /\ Reentry \in [Kinds -> SUBSET Methods]
  /\ NoWatch \notin Watches
  /\ NoProxy \notin Proxies
  /\ Unset \notin Services \cup Paths \cup Buses
  /\ MaxDepth \in Nat

-----------------------------------------------------------------------------

Complete == Unset \notin {settings[f] : f \in Fields}

\* The application may call the object: from the main loop, or from inside a
\* signal of the innermost handler.
MayCall(m) == calls # <<>> => m \in Reentry[Head(calls).kind]

Push(frame) ==
  /\ Len(calls) < MaxDepth
  /\ calls' = <<frame>> \o calls

\* What is left of stop() once the object is disconnected.
Clear == proxy' = IF StopClears THEN NoProxy ELSE proxy

-----------------------------------------------------------------------------
(* The public methods.                                                     *)

\* Mutant: the settings are not looked at.
StartIncomplete ==
  /\ MayCall("start")
  /\ status = "Disconnected"
  /\ watch' = [name |-> settings.name, seen |-> "unknown"]
  /\ status' = "Connecting"
  /\ UNCHANGED <<settings, proxy, calls>>

Start ==
  /\ MayCall("start")
  /\ status = "Disconnected" /\ Complete
  /\ watch' = [name |-> settings.name, seen |-> "unknown"]
  /\ status' = "Connecting"
  /\ UNCHANGED <<settings, proxy, calls>>

\* Mutant: the status is left as it is.
DisconnectSilently == watch' = NoWatch /\ UNCHANGED status

Disconnect == watch' = NoWatch /\ status' = "Disconnected"

\* disconnect() emits statusChanged only when it was connected.
Stop ==
  /\ MayCall("stop")
  /\ IF status = "Disconnected"
     THEN Clear /\ UNCHANGED <<settings, status, watch, calls>>
     ELSE Disconnect /\ Push([kind |-> "stop"]) /\ UNCHANGED <<settings, proxy>>

\* Mutant: a setting is changed under a running connection.
SetConnected(f, v) ==
  /\ MayCall("set")
  /\ settings[f] # v
  /\ settings' = [settings EXCEPT ![f] = v]
  /\ UNCHANGED <<status, watch, proxy, calls>>

\* setBusType, setBusName and setObjectPath.
Set(f, v) ==
  /\ MayCall("set")
  /\ settings[f] # v
  /\ IF status = "Disconnected"
     THEN settings' = [settings EXCEPT ![f] = v] /\ UNCHANGED <<status, watch, calls>>
     ELSE Disconnect /\ Push([kind |-> "set", field |-> f, to |-> v]) /\ UNCHANGED settings
  /\ UNCHANGED proxy

-----------------------------------------------------------------------------
(* The watch calls back from the main loop, with each change of what it    *)
(* said last and once at the beginning.                                    *)

\* serviceAppear: the proxy is made from the settings.
ServiceMenu == [name |-> settings.name, path |-> settings.path]

Appeared ==
  /\ calls = <<>> /\ watch # NoWatch
  /\ watch.seen # "yes"
  /\ watch' = [watch EXCEPT !.seen = "yes"]
  /\ proxy' = ServiceMenu
  /\ Push([kind |-> "appear"])
  /\ UNCHANGED <<settings, status>>

\* Mutant: the proxy goes and the status stays.
VanishedConnected ==
  /\ calls = <<>> /\ watch # NoWatch
  /\ watch.seen # "no"
  /\ watch' = [watch EXCEPT !.seen = "no"]
  /\ proxy' = NoProxy
  /\ UNCHANGED <<settings, status, calls>>

\* setStatus emits only what is new.
Vanished ==
  /\ calls = <<>> /\ watch # NoWatch
  /\ watch.seen # "no"
  /\ watch' = [watch EXCEPT !.seen = "no"]
  /\ status' = "Connecting"
  /\ IF status = "Connecting"
     THEN proxy' = NoProxy /\ UNCHANGED calls
     ELSE Push([kind |-> "vanish"]) /\ UNCHANGED proxy
  /\ UNCHANGED settings

\* Mutant: a vanished service leaves its proxy.
ReturnKeeping ==
  /\ calls # <<>>
  /\ calls' = Tail(calls)
  /\ CASE Head(calls).kind = "appear" -> status' = "Connected" /\ UNCHANGED <<settings, proxy>>
       [] Head(calls).kind = "vanish" -> UNCHANGED <<settings, status, proxy>>
       [] Head(calls).kind = "stop"   -> Clear /\ UNCHANGED <<settings, status>>
       [] Head(calls).kind = "set"    -> /\ settings' = [settings EXCEPT ![Head(calls).field] = Head(calls).to]
                                         /\ UNCHANGED <<status, proxy>>
  /\ UNCHANGED watch

\* The signal has been handled: the innermost handler goes on to its end.
Return ==
  /\ calls # <<>>
  /\ calls' = Tail(calls)
  /\ CASE Head(calls).kind = "appear" -> status' = "Connected" /\ UNCHANGED <<settings, proxy>>
       [] Head(calls).kind = "vanish" -> proxy' = NoProxy /\ UNCHANGED <<settings, status>>
       [] Head(calls).kind = "stop"   -> Clear /\ UNCHANGED <<settings, status>>
       [] Head(calls).kind = "set"    -> /\ settings' = [settings EXCEPT ![Head(calls).field] = Head(calls).to]
                                         /\ UNCHANGED <<status, proxy>>
  /\ UNCHANGED watch

-----------------------------------------------------------------------------

Init ==
  /\ settings = [f \in Fields |-> Unset]
  /\ status = "Disconnected"
  /\ watch = NoWatch
  /\ proxy = NoProxy
  /\ calls = <<>>

Next ==
  \/ Start
  \/ Stop
  \/ \E b \in Buses \cup {Unset} : Set("bus", b)
  \/ \E n \in Services \cup {Unset} : Set("name", n)
  \/ \E p \in Paths \cup {Unset} : Set("path", p)
  \/ Appeared
  \/ Vanished
  \/ Return

Spec == Init /\ [][Next]_vars

-----------------------------------------------------------------------------

\* Type invariant.
TypeOK ==
  /\ settings \in Settings
  /\ status \in Statuses
  /\ watch \in Watches \cup {NoWatch}
  /\ proxy \in Proxies \cup {NoProxy}
  /\ calls \in Seq(Frames) /\ Len(calls) <= MaxDepth

\* The watch and the status, which is what start() and stop() go by, agree: no
\* watch is ever left running or started twice, and a stopped object says so
\* (as the documentation of QDBusMenuModel::stop has it).
WatchedUnlessDisconnected == watch = NoWatch <=> status = "Disconnected"

\* A running watch is of the name that is set, however the object was stopped,
\* set and started again.
WatchOnSettings ==
  watch # NoWatch /\ (\A i \in 1..Len(calls) : calls[i].kind # "set") =>
    Complete /\ watch.name = settings.name

\* A connected object uses the service that its settings name and that the
\* watch last saw.
ConnectedUsesService ==
  status = "Connected" /\ calls = <<>> =>
    watch # NoWatch /\ watch.seen = "yes" /\ proxy = [name |-> settings.name, path |-> settings.path]

\* Nothing of a service that went away is still used.
VanishedUnused ==
  watch # NoWatch /\ watch.seen = "no" /\ calls = <<>> =>
    proxy = NoProxy /\ status = "Connecting"

=============================================================================
