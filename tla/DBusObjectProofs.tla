-------------------------- MODULE DBusObjectProofs --------------------------
(***************************************************************************)
(* Proofs about DBusObject, for any services, paths and buses, handlers    *)
(* nested to any depth, and an application that keeps to Tame.             *)
(*                                                                         *)
(* The properties speak of what is there when the handlers are done.  The  *)
(* invariant says what each handler that is still inside its signal may    *)
(* rely on when it goes on: serviceAppear on nothing having happened at    *)
(* all, a setter on the object being still disconnected.                   *)
(***************************************************************************)
EXTENDS DBusObject, SequenceTheorems, TLAPS

\* What the application does not do, as the code does not stand it: disconnect
\* from inside serviceAppear, and start from inside a setter.
Tame == Reentry["appear"] \subseteq {"start"} /\ Reentry["set"] \subseteq {"stop", "set"}

\* The values of a setting.
Of(f) == (CASE f = "bus" -> Buses [] f = "name" -> Services [] f = "path" -> Paths) \cup {Unset}

\* A setter is the innermost handler, and has left the object disconnected.
SettersWait ==
  \A i \in 1..Len(calls) : calls[i].kind = "set" =>
    i = 1 /\ watch = NoWatch /\ calls[i].to \in Of(calls[i].field)

\* serviceAppear is the only handler, and finds all as it left it.
AppearWaits ==
  \A i \in 1..Len(calls) : calls[i].kind = "appear" =>
    /\ Len(calls) = 1
    /\ watch # NoWatch /\ watch.seen = "yes" /\ status = "Connecting" /\ proxy = ServiceMenu

\* What the watch watches and has seen.
WatchOK ==
  watch # NoWatch =>
    /\ Complete /\ watch.name = settings.name
    /\ watch.seen # "yes" => status = "Connecting"
    /\ watch.seen = "no" => proxy = NoProxy \/ (calls # <<>> /\ calls[Len(calls)].kind = "vanish")

ConnectedOK ==
  status = "Connected" =>
    calls = <<>> /\ watch # NoWatch /\ watch.seen = "yes" /\ proxy = ServiceMenu

IInv ==
  /\ TypeOK /\ WatchedUnlessDisconnected
  /\ SettersWait /\ AppearWaits /\ WatchOK /\ ConnectedOK

-----------------------------------------------------------------------------
(* The stack of handlers.                                                  *)

\* A handler that emits a signal is put on top.
LEMMA Pushed ==
  ASSUME calls \in Seq(Frames), NEW frame \in Frames, Push(frame)
  PROVE  /\ calls' \in Seq(Frames) /\ Len(calls') <= MaxDepth
         /\ calls' # <<>> /\ Len(calls') = Len(calls) + 1
         /\ calls'[1] = frame
         /\ \A i \in 1..Len(calls) : calls'[i + 1] = calls[i]
<1>1. <<frame>> \in Seq(Frames) /\ Len(<<frame>>) = 1 /\ <<frame>>[1] = frame
  OBVIOUS
<1>2. calls' = <<frame>> \o calls /\ Len(calls) < MaxDepth
  BY DEF Push
<1>3. /\ <<frame>> \o calls \in Seq(Frames)
      /\ Len(<<frame>> \o calls) = Len(<<frame>>) + Len(calls)
      /\ \A i \in 1..Len(<<frame>> \o calls) : (<<frame>> \o calls)[i] =
           IF i <= Len(<<frame>>) THEN <<frame>>[i] ELSE calls[i - Len(<<frame>>)]
  BY <1>1, ConcatProperties
<1>4. Len(calls) \in Nat /\ MaxDepth \in Nat
  BY ObjectAssumption, LenProperties
<1>5. Len(calls') = Len(calls) + 1 /\ calls' \in Seq(Frames)
  BY <1>1, <1>2, <1>3
<1>6. calls' # <<>>
  BY <1>4, <1>5
<1>7. \A i \in 1..(Len(calls) + 1) : calls'[i] = IF i <= 1 THEN frame ELSE calls[i - 1]
  BY <1>1, <1>2, <1>3, <1>4
<1> QED BY <1>2, <1>4, <1>5, <1>6, <1>7

\* A handler that returns leaves the others as they were.
LEMMA Popped ==
  ASSUME calls \in Seq(Frames), calls # <<>>, calls' = Tail(calls)
  PROVE  /\ calls' \in Seq(Frames)
         /\ Len(calls) \in Nat \ {0} /\ Len(calls') = Len(calls) - 1
         /\ \A i \in 1..Len(calls') : calls'[i] = calls[i + 1]
         /\ Head(calls) = calls[1] /\ calls[1] \in Frames
         /\ calls' = <<>> => Len(calls) = 1
<1>1. /\ Tail(calls) \in Seq(Frames)
      /\ Len(Tail(calls)) = Len(calls) - 1
      /\ \A i \in 1..Len(Tail(calls)) : Tail(calls)[i] = calls[i + 1]
  BY HeadTailProperties
<1>2. Len(calls) \in Nat \ {0}
  BY EmptySeq, LenProperties
<1>3. Head(calls) = calls[1]
  BY <1>2
<1>4. calls[1] \in Frames
  BY <1>2, ElementOfSeq
<1>5. calls' \in Seq(Frames) /\ Len(calls') = Len(calls) - 1
  BY <1>1, Zenon
<1>6. \A i \in 1..Len(calls') : calls'[i] = calls[i + 1]
  BY <1>1, Zenon
<1>7. ASSUME calls' = <<>> PROVE Len(calls) = 1
  <2>1. Len(calls') = 0
    BY <1>7, EmptySeq, Zenon
  <2> QED BY <1>2, <1>5, <2>1
<1> QED BY <1>2, <1>3, <1>4, <1>5, <1>6, <1>7

-----------------------------------------------------------------------------
(* The settings.                                                           *)

\* A setting takes a value of its own kind.
LEMMA SettingSet ==
  ASSUME settings \in Settings, NEW f \in Fields, NEW v \in Of(f),
         settings' = [settings EXCEPT ![f] = v]
  PROVE  settings' \in Settings
<1>1. CASE f = "bus"
  BY <1>1 DEF Settings, Of
<1>2. CASE f = "name"
  BY <1>2 DEF Settings, Of
<1>3. CASE f = "path"
  BY <1>3 DEF Settings, Of
<1> QED BY <1>1, <1>2, <1>3 DEF Fields

\* The proxy that the settings name is a proxy.
LEMMA ServiceProxy ==
  ASSUME settings \in Settings
  PROVE  ServiceMenu \in Proxies /\ ServiceMenu # NoProxy
BY ObjectAssumption DEF Settings, ServiceMenu, Proxies

-----------------------------------------------------------------------------
(* What is pending when the application calls.                             *)

\* Nobody starts while a setter is pending.
LEMMA StartCalled ==
  ASSUME Tame, IInv, MayCall("start")
  PROVE  \A i \in 1..Len(calls) : calls[i].kind # "set"
<1> SUFFICES ASSUME NEW i \in 1..Len(calls), calls[i].kind = "set" PROVE FALSE
  OBVIOUS
<1>1. i = 1 /\ calls \in Seq(Frames)
  BY DEF IInv, TypeOK, SettersWait
<1>2. calls # <<>> /\ Head(calls) = calls[1]
  BY <1>1
<1> QED BY <1>1, <1>2 DEF Tame, MayCall

\* Nobody disconnects while serviceAppear is pending.
LEMMA StopCalled ==
  ASSUME Tame, IInv, NEW m \in {"stop", "set"}, MayCall(m)
  PROVE  \A i \in 1..Len(calls) : calls[i].kind # "appear"
<1> SUFFICES ASSUME NEW i \in 1..Len(calls), calls[i].kind = "appear" PROVE FALSE
  OBVIOUS
<1>1. i = 1 /\ calls \in Seq(Frames)
  BY DEF IInv, TypeOK, AppearWaits
<1>2. calls # <<>> /\ Head(calls) = calls[1]
  BY <1>1
<1> QED BY <1>1, <1>2 DEF Tame, MayCall

\* Once disconnected, with something on the stack that is no serviceAppear,
\* everything holds if the stack does.
LEMMA Disconnected ==
  ASSUME IInv, Disconnect, NEW frame \in Frames, Push(frame), frame.kind \in {"stop", "set"},
         frame.kind = "set" => frame.to \in Of(frame.field),
         UNCHANGED <<settings, proxy>>, status # "Disconnected",
         \A i \in 1..Len(calls) : calls[i].kind # "appear"
  PROVE  IInv'
<1> USE DEF IInv
<1>1. calls \in Seq(Frames) /\ Len(calls) \in Nat
  BY LenProperties DEF TypeOK
<1>2. /\ calls' \in Seq(Frames) /\ Len(calls') <= MaxDepth
      /\ calls' # <<>> /\ Len(calls') = Len(calls) + 1 /\ calls'[1] = frame
      /\ \A i \in 1..Len(calls) : calls'[i + 1] = calls[i]
  BY <1>1, Pushed
<1>3. watch # NoWatch
  BY DEF WatchedUnlessDisconnected
<1>4. \A i \in 1..Len(calls) : calls[i].kind # "set"
  BY <1>3 DEF SettersWait
<1>5. \A i \in 1..Len(calls') : i = 1 \/ (i - 1 \in 1..Len(calls) /\ calls'[i] = calls[i - 1])
  BY <1>1, <1>2
<1>6. watch' = NoWatch /\ status' = "Disconnected"
  BY DEF Disconnect
<1>7. TypeOK' /\ WatchedUnlessDisconnected'
  BY <1>2, <1>6 DEF TypeOK, Statuses, WatchedUnlessDisconnected
<1>8. SettersWait'
  <2> SUFFICES ASSUME NEW i \in 1..Len(calls'), calls'[i].kind = "set"
               PROVE  i = 1 /\ watch' = NoWatch /\ calls'[i].to \in Of(calls'[i].field)
    BY DEF SettersWait, Of
  <2> QED BY <1>2, <1>4, <1>5, <1>6
<1>9. AppearWaits'
  <2> SUFFICES ASSUME NEW i \in 1..Len(calls'), calls'[i].kind = "appear" PROVE FALSE
    BY DEF AppearWaits
  <2> QED BY <1>2, <1>5
<1>10. WatchOK' /\ ConnectedOK'
  BY <1>6 DEF WatchOK, ConnectedOK
<1> QED BY <1>7, <1>8, <1>9, <1>10

-----------------------------------------------------------------------------
(* The steps.                                                              *)

\* start() gives a watch only to an object whose settings are complete and are
\* not about to be changed.
LEMMA StartStep ==
  ASSUME Tame, IInv, Start
  PROVE  IInv'
<1> USE DEF IInv
<1>1. /\ status = "Disconnected" /\ Complete /\ MayCall("start")
      /\ watch' = [name |-> settings.name, seen |-> "unknown"] /\ status' = "Connecting"
      /\ UNCHANGED <<settings, proxy, calls>>
  BY DEF Start
<1>2. settings.name \in Services
  BY <1>1 DEF Complete, TypeOK, Settings, Fields
<1>3. watch' \in Watches /\ watch' # NoWatch
  BY <1>1, <1>2, ObjectAssumption DEF Watches
<1>4. TypeOK' /\ WatchedUnlessDisconnected'
  BY <1>1, <1>3 DEF TypeOK, Statuses, WatchedUnlessDisconnected
<1>5. SettersWait'
  BY <1>1, StartCalled DEF SettersWait
<1>6. AppearWaits'
  BY <1>1 DEF AppearWaits
<1>7. WatchOK' /\ ConnectedOK'
  BY <1>1 DEF WatchOK, ConnectedOK, Complete
<1> QED BY <1>4, <1>5, <1>6, <1>7

\* stop() of an object that is disconnected has nothing to stop.
LEMMA StopStep ==
  ASSUME Tame, IInv, Stop
  PROVE  IInv'
<1> USE DEF IInv
<1>1. \A i \in 1..Len(calls) : calls[i].kind # "appear"
  BY StopCalled DEF Stop
<1>2. CASE status = "Disconnected"
  <2>1. proxy' \in {proxy, NoProxy} /\ UNCHANGED <<settings, status, watch, calls>>
    BY <1>2 DEF Stop, Clear
  <2>2. watch = NoWatch
    BY <1>2 DEF WatchedUnlessDisconnected
  <2> QED BY <1>1, <1>2, <2>1, <2>2
          DEF TypeOK, WatchedUnlessDisconnected, SettersWait, AppearWaits, WatchOK, ConnectedOK
<1>3. CASE status # "Disconnected"
  <2>1. [kind |-> "stop"] \in Frames
    BY DEF Frames, Kinds
  <2> QED BY <1>1, <1>3, <2>1, Disconnected DEF Stop
<1> QED BY <1>2, <1>3

\* A setter changes a setting only while the object is disconnected.
LEMMA SetStep ==
  ASSUME Tame, IInv, NEW f \in Fields, NEW v \in Of(f), Set(f, v)
  PROVE  IInv'
<1> USE DEF IInv
<1>1. \A i \in 1..Len(calls) : calls[i].kind # "appear"
  BY StopCalled DEF Set
<1>2. CASE status = "Disconnected"
  <2>1. settings' = [settings EXCEPT ![f] = v] /\ UNCHANGED <<status, watch, calls, proxy>>
    BY <1>2 DEF Set
  <2>2. watch = NoWatch
    BY <1>2 DEF WatchedUnlessDisconnected
  <2>3. settings' \in Settings
    BY <2>1, SettingSet DEF TypeOK
  <2> QED BY <1>1, <1>2, <2>1, <2>2, <2>3
          DEF TypeOK, WatchedUnlessDisconnected, SettersWait, AppearWaits, WatchOK, ConnectedOK
<1>3. CASE status # "Disconnected"
  <2>1. [kind |-> "set", field |-> f, to |-> v] \in Frames
    BY DEF Frames, Of, Fields
  <2> QED BY <1>1, <1>3, <2>1, Disconnected DEF Set
<1> QED BY <1>2, <1>3

\* serviceAppear: an object that has not seen its service is connecting.
LEMMA AppearedStep ==
  ASSUME IInv, Appeared
  PROVE  IInv'
<1> USE DEF IInv
<1>1. /\ calls = <<>> /\ watch # NoWatch /\ watch.seen # "yes"
      /\ watch' = [watch EXCEPT !.seen = "yes"] /\ proxy' = ServiceMenu
      /\ Push([kind |-> "appear"]) /\ UNCHANGED <<settings, status>>
  BY DEF Appeared
<1>2. status = "Connecting"
  BY <1>1 DEF WatchOK
<1>3. watch' \in Watches /\ watch' # NoWatch /\ watch'.seen = "yes" /\ watch'.name = watch.name
  BY <1>1, ObjectAssumption DEF TypeOK, Watches
<1>4. calls \in Seq(Frames) /\ [kind |-> "appear"] \in Frames /\ Len(calls) = 0
  BY <1>1 DEF TypeOK, Frames, Kinds
<1>5. /\ calls' \in Seq(Frames) /\ Len(calls') <= MaxDepth /\ Len(calls') = 1
      /\ calls'[1] = [kind |-> "appear"]
  BY <1>1, <1>4, Pushed
<1>6. TypeOK' /\ WatchedUnlessDisconnected'
  BY <1>1, <1>2, <1>3, <1>5, ServiceProxy DEF TypeOK, WatchedUnlessDisconnected
<1>7. SettersWait'
  BY <1>5 DEF SettersWait
<1>8. AppearWaits'
  BY <1>1, <1>2, <1>3, <1>5 DEF AppearWaits, ServiceMenu
<1>9. WatchOK' /\ ConnectedOK'
  BY <1>1, <1>2, <1>3 DEF WatchOK, ConnectedOK, Complete
<1> QED BY <1>6, <1>7, <1>8, <1>9

\* serviceVanish: the proxy is dropped at once, or by the handler that waits.
LEMMA VanishedStep ==
  ASSUME IInv, Vanished
  PROVE  IInv'
<1> USE DEF IInv
<1>1. /\ calls = <<>> /\ watch # NoWatch /\ status' = "Connecting"
      /\ watch' = [watch EXCEPT !.seen = "no"] /\ UNCHANGED settings
  BY DEF Vanished
<1>2. watch' \in Watches /\ watch' # NoWatch /\ watch'.seen = "no" /\ watch'.name = watch.name
  BY <1>1, ObjectAssumption DEF TypeOK, Watches
<1>3. calls \in Seq(Frames) /\ [kind |-> "vanish"] \in Frames /\ Len(calls) = 0
  BY <1>1 DEF TypeOK, Frames, Kinds
<1>4. CASE status = "Connecting"
  <2>1. proxy' = NoProxy /\ calls' = calls
    BY <1>4 DEF Vanished
  <2> QED BY <1>1, <1>2, <1>4, <2>1
          DEF TypeOK, WatchedUnlessDisconnected, SettersWait, AppearWaits, WatchOK, ConnectedOK, Complete
<1>5. CASE status # "Connecting"
  <2>1. Push([kind |-> "vanish"]) /\ proxy' = proxy
    BY <1>5 DEF Vanished
  <2>2. /\ calls' \in Seq(Frames) /\ Len(calls') <= MaxDepth /\ Len(calls') = 1
        /\ calls' # <<>> /\ calls'[1] = [kind |-> "vanish"]
    BY <1>3, <2>1, Pushed
  <2>3. TypeOK' /\ WatchedUnlessDisconnected'
    BY <1>1, <1>2, <2>1, <2>2 DEF TypeOK, Statuses, WatchedUnlessDisconnected
  <2>4. SettersWait' /\ AppearWaits'
    BY <2>2 DEF SettersWait, AppearWaits
  <2>5. WatchOK' /\ ConnectedOK'
    BY <1>1, <1>2, <2>2 DEF WatchOK, ConnectedOK, Complete
  <2> QED BY <2>3, <2>4, <2>5
<1> QED BY <1>4, <1>5

\* A handler goes on: by what it may rely on, it leaves all in order.
LEMMA ReturnStep ==
  ASSUME IInv, Return
  PROVE  IInv'
<1> USE DEF IInv
<1> DEFINE frame == calls[1]
<1>1. calls # <<>> /\ calls' = Tail(calls) /\ calls \in Seq(Frames) /\ UNCHANGED watch
  BY DEF Return, TypeOK
<1>2. /\ calls' \in Seq(Frames)
      /\ Len(calls) \in Nat \ {0} /\ Len(calls') = Len(calls) - 1
      /\ \A i \in 1..Len(calls') : calls'[i] = calls[i + 1]
      /\ Head(calls) = frame /\ frame \in Frames
      /\ calls' = <<>> => Len(calls) = 1
  BY <1>1, Popped
<1>3. Len(calls') <= MaxDepth /\ (calls' # <<>> => calls'[Len(calls')] = calls[Len(calls)])
  <2>1. Len(calls') <= MaxDepth
    BY <1>2, ObjectAssumption DEF TypeOK
  <2>2. ASSUME calls' # <<>> PROVE Len(calls') \in 1..Len(calls')
    BY <1>2, <2>2, EmptySeq
  <2> QED BY <1>2, <2>1, <2>2
<1>4. \A i \in 1..Len(calls') : i + 1 \in 1..Len(calls) /\ calls'[i].kind # "set"
  BY <1>2 DEF SettersWait
<1>5. \A i \in 1..Len(calls') : calls'[i].kind # "appear"
  BY <1>2 DEF AppearWaits
<1>6. SettersWait' /\ AppearWaits'
  BY <1>4, <1>5 DEF SettersWait, AppearWaits
<1>7. status # "Connected"
  BY <1>1 DEF ConnectedOK
<1>8. CASE frame.kind = "appear"
  <2>1. status' = "Connected" /\ UNCHANGED <<settings, proxy>>
    BY <1>2, <1>8 DEF Return
  <2>2. /\ Len(calls) = 1 /\ watch # NoWatch /\ watch.seen = "yes" /\ proxy = ServiceMenu
        /\ status = "Connecting"
    BY <1>2, <1>8 DEF AppearWaits
  <2>3. calls' = <<>>
    BY <1>2, <2>2, EmptySeq
  <2>4. TypeOK' /\ WatchedUnlessDisconnected'
    BY <1>1, <1>2, <1>3, <2>1, <2>2 DEF TypeOK, Statuses, WatchedUnlessDisconnected
  <2>5. WatchOK' /\ ConnectedOK'
    BY <1>1, <2>1, <2>2, <2>3 DEF WatchOK, ConnectedOK, Complete, ServiceMenu
  <2> QED BY <1>6, <2>4, <2>5
<1>9. CASE frame.kind = "vanish"
  <2>1. proxy' = NoProxy /\ UNCHANGED <<settings, status>>
    BY <1>2, <1>9 DEF Return
  <2>2. TypeOK' /\ WatchedUnlessDisconnected'
    BY <1>1, <1>2, <1>3, <2>1 DEF TypeOK, WatchedUnlessDisconnected
  <2>3. WatchOK' /\ ConnectedOK'
    BY <1>1, <1>7, <2>1 DEF WatchOK, ConnectedOK, Complete
  <2> QED BY <1>6, <2>2, <2>3
<1>10. CASE frame.kind = "stop"
  <2>1. proxy' \in {proxy, NoProxy} /\ UNCHANGED <<settings, status>>
    BY <1>2, <1>10 DEF Return, Clear
  <2>2. TypeOK' /\ WatchedUnlessDisconnected'
    BY <1>1, <1>2, <1>3, <2>1 DEF TypeOK, WatchedUnlessDisconnected
  <2>3. ASSUME Len(calls) = 1 PROVE calls[Len(calls)].kind # "vanish"
    BY <1>10, <2>3
  <2>4. WatchOK'
    BY <1>1, <1>2, <1>3, <2>1, <2>3 DEF WatchOK, Complete
  <2>5. ConnectedOK'
    BY <1>7, <2>1 DEF ConnectedOK
  <2> QED BY <1>6, <2>2, <2>4, <2>5
<1>11. CASE frame.kind = "set"
  <2>1. /\ settings' = [settings EXCEPT ![frame.field] = frame.to]
        /\ UNCHANGED <<status, proxy>>
    BY <1>2, <1>11 DEF Return
  <2>2. watch = NoWatch /\ frame.to \in Of(frame.field)
    BY <1>2, <1>11 DEF SettersWait
  <2>3. frame.field \in Fields
    BY <1>2, <1>11 DEF Frames, Kinds
  <2>4. settings' \in Settings
    BY <2>1, <2>2, <2>3, SettingSet DEF TypeOK
  <2> QED BY <1>1, <1>2, <1>3, <1>6, <1>7, <2>1, <2>2, <2>4
          DEF TypeOK, WatchedUnlessDisconnected, WatchOK, ConnectedOK
<1>12. frame.kind \in Kinds
  BY <1>2 DEF Frames, Kinds
<1> QED BY <1>8, <1>9, <1>10, <1>11, <1>12 DEF Kinds

-----------------------------------------------------------------------------
(* The invariant, and what it shows.                                       *)

\* Nothing is set and nothing is watched at first.
LEMMA InitIInv == Init => IInv
<1> SUFFICES ASSUME Init PROVE IInv
  OBVIOUS
<1>1. settings \in Settings
  BY DEF Init, Settings, Fields
<1>2. calls \in Seq(Frames) /\ Len(calls) = 0 /\ Len(calls) <= MaxDepth
  BY ObjectAssumption DEF Init
<1>3. TypeOK /\ WatchedUnlessDisconnected
  BY <1>1, <1>2 DEF Init, TypeOK, Statuses, WatchedUnlessDisconnected
<1>4. SettersWait /\ AppearWaits /\ WatchOK /\ ConnectedOK
  BY <1>2 DEF Init, SettersWait, AppearWaits, WatchOK, ConnectedOK
<1> QED BY <1>3, <1>4 DEF IInv

\* The invariant holds after any number of steps.
LEMMA Invariance == ASSUME Tame PROVE Spec => []IInv
<1>1. ASSUME IInv, [Next]_vars PROVE IInv'
  <2>1. ASSUME UNCHANGED vars PROVE IInv'
    BY <1>1, <2>1 DEF vars, IInv, TypeOK, WatchedUnlessDisconnected, SettersWait, AppearWaits,
                      WatchOK, ConnectedOK, Complete, ServiceMenu
  <2>2. ASSUME NEW f \in Fields, NEW v \in Of(f), Set(f, v) PROVE IInv'
    BY <1>1, <2>2, SetStep
  <2>3. /\ Of("bus") = Buses \cup {Unset} /\ Of("name") = Services \cup {Unset}
        /\ Of("path") = Paths \cup {Unset} /\ Fields = {"bus", "name", "path"}
    BY DEF Of, Fields
  <2> QED BY <1>1, <2>1, <2>2, <2>3, StartStep, StopStep, AppearedStep, VanishedStep, ReturnStep
          DEF Next
<1> QED BY InitIInv, <1>1, PTL DEF Spec

\* The object's fields have their types, at any depth of calls from handlers.
THEOREM ObjectTyped == ASSUME Tame PROVE Spec => []TypeOK
<1>1. IInv => TypeOK
  BY DEF IInv
<1> QED BY Invariance, <1>1, PTL

\* The watch and the status agree at every moment, inside the handlers too.
THEOREM WatchFollowsStatus == ASSUME Tame PROVE Spec => []WatchedUnlessDisconnected
<1>1. IInv => WatchedUnlessDisconnected
  BY DEF IInv
<1> QED BY Invariance, <1>1, PTL

\* A watch is of the settings.
THEOREM WatchFollowsSettings == ASSUME Tame PROVE Spec => []WatchOnSettings
<1>1. IInv => WatchOnSettings
  BY DEF IInv, WatchOK, WatchOnSettings
<1> QED BY Invariance, <1>1, PTL

\* What is used while connected is the service that was seen under the settings.
THEOREM ConnectionUsesService == ASSUME Tame PROVE Spec => []ConnectedUsesService
<1>1. IInv => ConnectedUsesService
  BY DEF IInv, ConnectedOK, ConnectedUsesService, ServiceMenu
<1> QED BY Invariance, <1>1, PTL

\* Once its vanishing has been handled, nothing of a service is used.
THEOREM VanishedDropped == ASSUME Tame PROVE Spec => []VanishedUnused
<1>1. IInv => VanishedUnused
  BY DEF IInv, WatchOK, VanishedUnused
<1> QED BY Invariance, <1>1, PTL
=============================================================================
